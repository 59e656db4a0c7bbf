\* The reader's and the scanner's transactions lock pages of the entries
\* file in opposite orders, or both upgrade a shared read lock on one page.
CONSTANTS
    i1 = i1
    ok1 = ok1
    trap = trap
    noMX = noMX
    p1 = p1
    p2 = p2
    IPs <- MC_IPs
    Rcpts <- MC_Rcpts
    Spamtraps <- MC_Spamtraps
    Permitted <- MC_Permitted
    LowPrioMX = noMX
    Pages <- MC_Pages
    BucketOrder <- MC_BucketOrder
    InitRows <- MC_InitRows
    Now = 1
    WhiteExp = 2
    PassTime = 1
    GreyExp = 2
    TrapExp = 2
    MaxReads = 2
SPECIFICATION Spec
INVARIANT NoDeadlock
CHECK_DEADLOCK FALSE
