SPECIFICATION FairSpec
CONSTANTS
    Payload = 2
    Capacity = 1
    Limit = 1
    MaxOutput = 2
    MaxChanges = 2
    None = None
    Policies <- SomePolicies
CHECK_DEADLOCK FALSE
INVARIANTS NeverBothBlocked AnswerIsWhole SuccessIsPinned FirstErrorOrCleanUp LeftIsTold
PROPERTIES Ends
