SPECIFICATION AppSpec
CONSTANTS
    Calls = {1, 2}
    NoCall = 0
    NFiles = 2
    MaxCsv = 2
    MaxFaults = 1
    MaxSearches = 2
    NoAnswer = NoAnswer
    Forms <- MCForms
INVARIANT AppTypeOK
INVARIANT OneAtATime
INVARIANT RebuiltIsComplete
INVARIANT NeverRejected
INVARIANT IndexIsCurrent
INVARIANT AnswersAreConsistent
INVARIANT IndicatorTellsBusy
INVARIANT SeesLastSearch
PROPERTY HitsNeverGoBack
PROPERTY CallReturns
CHECK_DEADLOCK FALSE
