SPECIFICATION FairSpec
CONSTANTS
    Strings <- Tricky
    MaxLen = 3
    RawTexts <- AnyText
INVARIANTS
    TypeOK
    PackedComesBack
    ColumnComesBack
PROPERTIES
    EveryTextEnds
\* A text goes its way once.
CHECK_DEADLOCK FALSE
