\* Files of up to seven lines, ports of two bits, three calls of start().
CONSTANTS
    Files <- MCFiles
    TokenFiles <- MCTokenFiles
    U16 = 4
    U32 = 4
    U8 = 2
    NaN = NaN
    MaxStarts = 3
SPECIFICATION Spec
INVARIANTS TypeOK FileObeyed StreamsServed NothingLeaked
CHECK_DEADLOCK FALSE
