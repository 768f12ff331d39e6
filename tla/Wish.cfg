SPECIFICATION FairSpec
CONSTANTS
    bankA = bankA
    bankB = bankB
    NoKey = NoKey
    None = None
    Unlimited = Unlimited
    Condition <- MCCondition
    Keys <- MCKeys
    Codes <- MCKeys
    NumericCodes <- MCNumeric
    Replies <- MCReplies
    Readings <- MCReadings
    Namings <- MCNamings
    Catalogs <- MCCatalogs
    ResultSize = 2
    CandidateSize = 2
    MaxMessages = 2
    MaxFailures = 1
    MaxRefreshes = 1
INVARIANT TypeOK
INVARIANT AskedIsOpen
INVARIANT WishKept
PROPERTY EveryCandidateRankedOnce
PROPERTY ListsAgree
PROPERTY ConversationEnds
CHECK_DEADLOCK FALSE
