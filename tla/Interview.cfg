SPECIFICATION FairSpec
CONSTANTS
    bankA = bankA
    bankB = bankB
    NoKey = NoKey
    Unlimited = Unlimited
    Condition <- MCCondition
    Keys <- MCKeys
    Replies <- MCReplies
    Catalogs <- MCCatalogs
    ResultSize = 10
    MaxSafe = 100000
    Fraction = 100
    Goals <- MCGoals
    MaxRevisions = 1
    MaxRefreshes = 1
INVARIANT TypeOK
INVARIANT NeverAskedTwice
INVARIANT BoundsNarrow
INVARIANT JudgesExactly
INVARIANT ComparedAsRanked
INVARIANT EstimateHolds
INVARIANT EstimateWithinProduct
PROPERTY FirstPlaceFinal
PROPERTY InterviewEnds
CHECK_DEADLOCK FALSE
