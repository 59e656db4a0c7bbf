\* Sync between two hosts over a lossy, duplicating, reordering network.
CONSTANTS
    h1 = h1
    h2 = h2
    i1 = i1
    r1 = r1
    Hosts <- MC_Hosts
    SyncHosts <- MC_SyncHosts
    IPs <- MC_IPs
    Rcpts <- MC_Rcpts
    Mcast = TRUE
    GreyEnabled = TRUE
    MaxSends = 1
    MaxFaults = 1
SPECIFICATION Spec
INVARIANT TypeOK ForwardedWasSent
CHECK_DEADLOCK FALSE
