\* Two owners and two locales, two edits - of the configuration or by
\* others - and two failures, one of which can be retried.
SPECIFICATION FairSpec
CONSTANTS
    Attrs = {a1, a2}
    Locales = {l1, l2}
    DefaultAttr = a1
    DefaultLocale = l1
    Unset = Unset
    None = None
    MaxAttempts = 2
    MaxEdits = 2
    MaxFailures = 2
INVARIANTS TypeOK NothingForgotten
PROPERTIES CompliantIsKept Converges
