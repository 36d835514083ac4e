\* Two nodes, an edit of the configuration, a reboot and one failure (a
\* command, a lost connection, or an ignored error) at any moment.
SPECIFICATION FairSpec
CONSTANTS
    Nodes = {n1, n2}
    None = None
    MaxEdits = 1
    MaxCrashes = 1
    MaxFailures = 1
INVARIANTS TypeOK OneOwner
PROPERTIES PatroniDataKept SuccessIsRunningConf BringUpConverges
\* With every bound used and an empty plan nothing is left to happen.
CHECK_DEADLOCK FALSE
