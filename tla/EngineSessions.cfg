\* With a feed or without: two sessions that break and leave, with freed nodes
\* overwritten, and two tokens for one book.
CONSTANTS
    s1 = s1
    s2 = s2
    t1 = t1
    t2 = t2
    k1 = k1
    k2 = k2
    MarketData <- MCFeedOrNot
    Tokens <- MCTwoTokens
    AllowedTokens <- MCTwoTokens
    MaxBooks = 1
    Sessions <- MCTwoSessions
    Prices <- MCOne
    MarketIds <- MCOneId
    U32 = 4
    Volumes <- MCTwo
    Ticks <- MCOne
    Claims <- MCOne
    FirstOrder = 1
    FirstFill = 3
    FreedNodeReused = TRUE
    MaxOrders = 2
    MaxActivity = 2
VIEW ButReply
SYMMETRY SessionSymmetry
SPECIFICATION Spec
INVARIANTS OrdersIndexed NoOrphans BooksCapped
PROPERTIES LifeKept
CHECK_DEADLOCK FALSE
