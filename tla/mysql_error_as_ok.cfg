\* One host; a failing SQL statement of Mod_scan_db still returns GREYDB_OK.
CONSTANTS
    h1 = h1
    h2 = h2
    i1 = i1
    i2 = i2
    ok1 = ok1
    ok2 = ok2
    bnc = bnc
    trap = trap
    noMX = noMX
    Hosts <- MC_OneHost
    IPs <- MC_IPs
    Rcpts <- MC_Rcpts
    Spamtraps <- MC_Spamtraps
    Permitted <- MC_Permitted
    Bounces <- MC_Bounces
    LowPrioMX = noMX
    WhiteExp = 1
    PassTime = 1
    GreyExp = 2
    TrapExp = 2
    MaxTime = 2
    MaxEvents = 3
    MaxDbErrors = 1
SPECIFICATION Spec
PROPERTY WhitelistNotDropped
