SPECIFICATION FairSpec
CONSTANTS
    Turns <- TwoTurns
    Sessions = {s1}
    Replies = {a1}
    NoReply = NoReply
    QuotaLimit = 1
    MaxRequests = 2
    MaxApprovals = 1
    MaxLock = 3
    MaxSpent = 3
INVARIANTS
    TypeOK
    ApprovalTellsTruth
    ChargedForAnswer
    NeverBlocked
    LockKnown
PROPERTIES
    SettledForGood
    TurnSettles
CHECK_DEADLOCK FALSE
