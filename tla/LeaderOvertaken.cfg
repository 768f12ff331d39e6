SPECIFICATION Spec
CONSTANTS
    bankA = bankA
    bankB = bankB
    NoKey = NoKey
    Unlimited = Unlimited
    Condition <- MCCondition
    Keys <- MCKeys
    Replies <- MCReplies
    Catalogs <- MCCrossing
    ResultSize = 10
    MaxSafe = 100000
    Fraction = 100
    Goals <- MCGoals
    MaxRevisions = 0
    MaxRefreshes = 0
PROPERTY FirstPlaceFinal
CHECK_DEADLOCK FALSE
