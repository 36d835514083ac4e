\* Three executions: a cut one, a crashed one and a complete one fit; one
\* operator line, added before or after the block, at any moment.
\* The executions are bounded, so the model may stop.
SPECIFICATION Spec
CONSTANTS
    r1 = r1
    r2 = r2
    Rules = {r1, r2}
    Lists <- MCLists
    Missing = Missing
    MaxShells = 3
    MaxEdits = 1
INVARIANTS TypeOK OperatorLinesKept AtMostOneBlock
PROPERTIES SuccessIsReadBack
CHECK_DEADLOCK FALSE
