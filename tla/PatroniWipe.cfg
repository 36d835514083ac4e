\* One node and one lost connection: an apply that starts Patroni, and the
\* next one.
SPECIFICATION Spec
CONSTANTS
    Nodes = {n1}
    None = None
    MaxEdits = 0
    MaxCrashes = 0
    MaxFailures = 1
PROPERTIES LiveNodeNeverWiped
CHECK_DEADLOCK FALSE
