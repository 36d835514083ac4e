\* Triggers absent or set; two edits or deletions, two failures and one
\* interference.
SPECIFICATION FairSpec
CONSTANTS
    Triggers = {t1}
    None = None
    MaxEdits = 2
    MaxFailures = 2
    MaxOthers = 1
INVARIANTS TypeOK HoldIsKept
PROPERTIES AgreementIsTrue NoNeedlessRestart Converges
