SPECIFICATION Spec
CONSTANTS
    Lines = 1
    Threads = 1
    MaxResults = 2
    PruneSettings = {FALSE}
    Scores = {1}
    MaxHits = 2
INVARIANT OnlyHitIsFound
CHECK_DEADLOCK FALSE
