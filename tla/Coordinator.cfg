CONSTANTS
    Items <- MCItems
    Unknown = 0
    Plans <- MCPlans
    Place <- MCPlace
    Modes = {"single", "parallel", "sequential"}
    Retries = 1
    Timed = {2}
    MaxLost = 1
    MaxCrashes = 1
SPECIFICATION FairSpec
INVARIANTS AllAccounted
PROPERTIES  SequentialInputs CompletedNotRepeated Ends
