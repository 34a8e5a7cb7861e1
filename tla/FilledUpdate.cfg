\* No market_data_stream, as in testFullFlow: orders are filled at once
\* and nothing else takes one away.
CONSTANTS
    s1 = s1
    s2 = s2
    t1 = t1
    t2 = t2
    k1 = k1
    k2 = k2
    MarketData <- MCNoFeed
    Tokens <- MCOneToken
    AllowedTokens <- MCOneToken
    MaxBooks = 1
    Sessions <- MCOneSession
    Prices <- MCOneTwo
    MarketIds <- MCOneId
    U32 = 4
    Volumes <- MCThree
    Ticks <- MCZeroTwo
    Claims <- MCZeroTwo
    FirstOrder = 1
    FirstFill = 3
    FreedNodeReused = FALSE
    MaxOrders = 3
    MaxActivity = 3
SPECIFICATION Spec
PROPERTIES FilledOrderKnown
CHECK_DEADLOCK FALSE
