\* Blocks of two bytes and a counter of three values, started at the last: it wraps at
\* once, and every block has come round after six bytes.
CONSTANTS
    BlockSize = 2
    CounterMod = 3
    FirstCounter = 2
    Sizes <- MCSizes
    MaxBytes = 5
    None = None
    Plain = Plain
    Garbled = Garbled
SPECIFICATION Spec
INVARIANTS TypeOK Readable ByTheBook
CHECK_DEADLOCK FALSE
