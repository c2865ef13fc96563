SPECIFICATION HandshakeFairSpec
CONSTANTS
    ServerTokens = {"none", "set"}
    ClientTokens = {"none", "right", "wrong"}
    ShmWishes = {"no", "yes"}
    Faults = {"dup", "memfd", "first_fd", "second_fd", "mmap", "slow", "shutdown"}
    MaxPushes = 2
INVARIANTS
    RingsAgreeUndisturbed
    NoFdInBuffer
    EntitledConnect
PROPERTIES
    ConnectEnds
CHECK_DEADLOCK FALSE
