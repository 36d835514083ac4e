\* Two nodes and one promotion, no failure of any kind: a failover followed
\* by a failback.
SPECIFICATION FairSpec
CONSTANTS
    n1 = n1
    n2 = n2
    Nodes = {n1, n2}
    Witnesses = {}
    Clusters <- MCClusters
    OldHosts = {}
    HostPrefix = {}
    None = None
    Bound <- MCBound
PROPERTIES SuccessIsStandby
CHECK_DEADLOCK FALSE
