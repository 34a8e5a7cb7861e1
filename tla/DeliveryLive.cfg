\* Two sessions and a market-data thread; one client may stop
\* reading, the other asks for information and may break off.  Every thread keeps running.
CONSTANTS
    s1 = s1
    s2 = s2
    f1 = f1
    f2 = f2
    None = None
    Sessions <- MCTwoSessions
    Feeds <- MCOneFeed
    Volumes <- MCOne
    FirstOrder = 1
    Habits <- MCStalling
    MaxOrders = 1
    MaxRef = 2
    MaxRefusals = 1
    MaxInquiries = 1
SPECIFICATION FairSpec
PROPERTIES Dispatched Released
CHECK_DEADLOCK FALSE
