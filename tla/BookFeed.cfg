CONSTANTS
    m1 = m1
    m2 = m2
    m3 = m3
    MarketIds <- MCMarketIds
    Prices <- MCPrices
    Sizes <- MCSizes
    U32 = 16
    Networks <- MCNetworks
    MaxWire = 2
SYMMETRY IdSymmetry
SPECIFICATION FeedSpec
CONSTRAINT Small
INVARIANTS FeedTypeOK BookFollowsFeed NeverOverstates
CHECK_DEADLOCK FALSE
