\* The Berkeley DB environment fails during a scan: DB_itr_next retries the
\* failing cursor get forever and Mod_scan_db never returns.
CONSTANTS
    i1 = i1
    i2 = i2
    ok1 = ok1
    trap = trap
    bad = bad
    noMX = noMX
    IPs <- MC_IPs
    Rcpts <- MC_Rcpts
    Spamtraps <- MC_Spamtraps
    Permitted <- MC_Permitted
    LowPrioMX = noMX
    WhiteExp = 2
    PassTime = 1
    GreyExp = 2
    TrapExp = 2
    MaxTime = 1
    MaxEvents = 1
    MaxDbErrors = 1
    EnvMayFail = TRUE
SPECIFICATION FairSpec
PROPERTY ScanTerminates
