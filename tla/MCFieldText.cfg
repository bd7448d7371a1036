SPECIFICATION TextSpec
CONSTANTS
    Fields <- BookFields
    Type <- BookType
    Arrays = {"books", "hours"}
    Values <- EveryValue
    Clocks <- Noon
    MaxFields = 2
    MaxRows = 2
INVARIANTS
    EveryRowIsTaken
    WhatIsStoredIsFound
