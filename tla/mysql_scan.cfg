\* Two hosts share one MySQL database; one SQL statement may fail.  The
\* scanners are fair (see GreyMySQL.FairSpec).
CONSTANTS
    h1 = h1
    h2 = h2
    i1 = i1
    i2 = i2
    ok1 = ok1
    ok2 = ok2
    bnc = bnc
    trap = trap
    noMX = noMX
    Hosts <- MC_Hosts
    IPs <- MC_OneIP
    Rcpts <- MC_Rcpts
    Spamtraps <- MC_Spamtraps
    Permitted <- MC_Permitted
    Bounces <- MC_Bounces
    LowPrioMX = noMX
    WhiteExp = 1
    PassTime = 1
    GreyExp = 2
    TrapExp = 2
    MaxTime = 2
    MaxEvents = 3
    MaxDbErrors = 1
SPECIFICATION FairSpec
INVARIANT TypeOK OwnScanSound
PROPERTY ExpiredRowsDeleted
