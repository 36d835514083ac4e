\* Two executions of one list and no edits: the connection of the first is
\* lost and the second one overlaps with it.
SPECIFICATION Spec
CONSTANTS
    r1 = r1
    r2 = r2
    Rules = {r1, r2}
    Lists <- MCLists
    Missing = Missing
    MaxShells = 2
    MaxEdits = 0
INVARIANTS OperatorLinesUntouched
CHECK_DEADLOCK FALSE
