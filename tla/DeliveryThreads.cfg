\* One session and two market-data threads, or two sessions and one thread whose
\* replies may name both: see Small.
CONSTANTS
    s1 = s1
    s2 = s2
    f1 = f1
    f2 = f2
    None = None
    Sessions <- MCTwoSessions
    Feeds <- MCTwoFeeds
    Volumes <- MCOneTwo
    FirstOrder = 1
    Habits <- MCBreaking
    MaxOrders = 2
    MaxRef = 4
    MaxRefusals = 2
    MaxInquiries = 0
SPECIFICATION Spec
CONSTRAINT Small
SYMMETRY FeedSymmetry
VIEW ButReply
INVARIANTS WholeFrames NothingBehindShut ClientAgrees
CHECK_DEADLOCK FALSE
