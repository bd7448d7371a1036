SPECIFICATION Spec
CONSTANTS
    Tables <- TwoTables
    Designs <- AnyDesign
INVARIANTS
    TypeOK
    KeysComeBack
PROPERTIES
    WholeOrNotAtAll
    RefusedIsNotCreated
