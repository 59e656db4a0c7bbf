\* One host: the reader, the scanner and the firewall over two peers.
CONSTANTS
    i1 = i1
    i2 = i2
    ok1 = ok1
    trap = trap
    bad = bad
    noMX = noMX
    IPs <- MC_IPs
    Rcpts <- MC_Rcpts
    Spamtraps <- MC_Spamtraps
    Permitted <- MC_Permitted
    LowPrioMX = noMX
    WhiteExp = 2
    PassTime = 1
    GreyExp = 2
    TrapExp = 2
    MaxTime = 2
    MaxEvents = 3
    MaxDbErrors = 1
    EnvMayFail = TRUE
SPECIFICATION Spec
INVARIANT TypeOK
PROPERTY ScanNeverUntraps ScanImplementsSpec ReaderTrapsByRule1
SYMMETRY MC_Symmetry
