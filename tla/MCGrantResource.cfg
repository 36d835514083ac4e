\* One grant, reconfigured up to three times, and two grants of one role,
\* refreshed and applied concurrently; a lost connection.
SPECIFICATION FairSpec
CONSTANTS
    g1 = g1
    g2 = g2
    Grants = {g1, g2}
    Tables = {t1, t2}
    PrivOrder <- MCPrivOrder
    All = All
    Lists <- MCLists
    None = None
    Cases <- MCCases
    MaxFailures = 1
INVARIANTS TypeOK
PROPERTIES SuccessIsExact DestroyLeavesNothing Converges
