\* One session, one token in the token file, two prices: two orders rest, trade, are modified and
\* cancelled while one market order comes, changes and goes; or one order does while two
\* market orders make deep and two-sided books and levels of 2^32, which show as 0.
CONSTANTS
    s1 = s1
    s2 = s2
    t1 = t1
    t2 = t2
    k1 = k1
    k2 = k2
    MarketData <- MCFeed
    Tokens <- MCTwoTokens
    AllowedTokens <- MCOneToken
    MaxBooks = 1
    Sessions <- MCOneSession
    Prices <- MCOneTwo
    MarketIds <- MCTwoIds
    U32 = 4
    Volumes <- MCThree
    Ticks <- MCTwo
    Claims <- MCZeroTwo
    FirstOrder = 1
    FirstFill = 3
    FreedNodeReused = FALSE
    MaxOrders = 2
    MaxActivity = 3
SYMMETRY IdSymmetry
CONSTRAINT Small
VIEW ButReply
SPECIFICATION Spec
INVARIANTS TypeOK RestingOrdersServed
PROPERTIES TopSharedOnce NoneLeftBehind AcceptedInFull LifeKept
