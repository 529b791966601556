\* Two restrictions, a page for each; three requests of any kind beside each other.
SPECIFICATION FairSpec
CONSTANTS
    Ids = {1, 2}
    PageLimit = 1
    MaxRequests = 3
INVARIANTS
    TypeOK
    ExpertHasTheLastWord
    PlannedFromWhatIsStored
    PassesLeaveNothingBehind
PROPERTIES
    PassEnds
CHECK_DEADLOCK FALSE
