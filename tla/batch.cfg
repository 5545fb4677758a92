SPECIFICATION FairSpec
CONSTANTS
    Lines = 3
    Threads = 2
    MaxResults = 2
    PruneSettings = {TRUE, FALSE}
    Scores = {1, 5, 6}
    MaxHits = 4
INVARIANT TypeOK
PROPERTY ImplementsSequential
INVARIANT RowsAreBest
PROPERTY EndsOrHeldUp
CHECK_DEADLOCK FALSE
