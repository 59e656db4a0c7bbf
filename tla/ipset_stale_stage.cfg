\* Whitelists of up to two entries, valid or not parsed by inet_pton; one
\* ipset command may fail.
CONSTANTS
    a1 = a1
    a2 = a2
    junk = junk
    zero = zero
    Addrs <- MC_Addrs
    Junk <- MC_Junk
    BadMask = {}
    Zero = zero
    MaxElem = 2
    MaxLen = 2
    MaxCalls = 2
    MaxFaults = 1
SPECIFICATION Spec
INVARIANT ReplaceInstallsList
CHECK_DEADLOCK FALSE
