SPECIFICATION Spec
CONSTANTS
    t1 = t1
    t2 = t2
    Trees <- OneTree
    Comparisons <- TwoComparisons
    Ranges <- NoRange
    RawTexts <- NoRaw
    KnownFields <- Fields
    Names <- NamesUsed
    Callers <- JustComparing
    MaxJoins = 2
    MaxHeld = 2
PROPERTIES
    AddedConditionsHold
