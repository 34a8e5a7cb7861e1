\* Clients ask for system information or a download while feeds run.
CONSTANTS
    s1 = s1
    s2 = s2
    f1 = f1
    f2 = f2
    None = None
    Sessions <- MCOneSession
    Feeds <- MCTwoFeeds
    Volumes <- MCTwo
    FirstOrder = 1
    Habits <- MCInquiring
    MaxOrders = 1
    MaxRef = 3
    MaxRefusals = 3
    MaxInquiries = 3
SPECIFICATION Spec
INVARIANTS WholeFrames
CHECK_DEADLOCK FALSE
