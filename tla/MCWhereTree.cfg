SPECIFICATION Spec
CONSTANTS
    t1 = t1
    t2 = t2
    Trees <- TwoTrees
    Comparisons <- OneUnknown
    Ranges <- OneRange
    RawTexts <- SimpleRaw
    KnownFields <- Fields
    Names <- NamesUsed
    Callers <- OneOfThem
    MaxJoins = 2
    MaxHeld = 2
INVARIANTS
    TypeOK
    TextMeansTree
    
    InitialisedIsNeverWhole
