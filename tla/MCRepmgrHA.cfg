\* Two streaming pairs, a repmgr cluster of three and one with a witness: up
\* to two failovers, crashes at any moment, failing commands, abandoned clones
\* and one further apply of a node that is up already.
SPECIFICATION RepmgrSpec
CONSTANTS
    n1 = n1
    n2 = n2
    n3 = n3
    w1 = w1
    old = old
    Nodes = {n1, n2, n3, w1}
    Witnesses = {w1}
    Clusters <- MCClusters
    OldHosts = {old}
    HostPrefix <- MCHostPrefix
    None = None
    Bound <- MCBound
INVARIANTS RepmgrTypeOK ClusterDataKept
PROPERTIES StandbyNeverWiped QuietSuccessIsStandby ActingKept RegisteredIsStandby FailoverHeals
\* With every bound used and an empty plan nothing is left to happen.
CHECK_DEADLOCK FALSE
