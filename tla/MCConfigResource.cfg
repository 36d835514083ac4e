\* One key of each context that is set or not; two edits and one failure, so
\* that a failed apply can be followed by an edit of either side and a late
\* write of it end during the next one.
SPECIFICATION FairSpec
CONSTANTS
    ReloadKeys = {work_mem}
    RestartKeys = {max_connections}
    Values = {v1}
    r1 = r1
    r2 = r2
    Rules = {r1, r2}
    Unset = Unset
    None = None
    HbaLists <- MCHbaLists
    MaxEdits = 2
    MaxFailures = 1
INVARIANTS TypeOK AgreementIsInEffect
PROPERTIES SuccessIsInEffect Settles
