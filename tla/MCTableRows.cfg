SPECIFICATION Spec
CONSTANTS
    Fields <- AuthorFields
    Id = "id"
    Optional = {"id", "books"}
    NotNull = {"id"}
    Uniques <- AuthorUniques
    Values <- FewValues
    MaxRows = 2
    MaxSerial = 4
    MaxSaved = 2
INVARIANTS
    TypeOK
    StoredAsGiven
    ReadAsGiven
