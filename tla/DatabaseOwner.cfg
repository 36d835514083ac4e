\* One change of the configuration; nothing fails and nobody else edits.
SPECIFICATION Spec
CONSTANTS
    Attrs = {a1, a2}
    Locales = {l1}
    DefaultAttr = a1
    DefaultLocale = l1
    Unset = Unset
    None = None
    MaxAttempts = 1
    MaxEdits = 1
    MaxFailures = 0
PROPERTIES OwnerChangesInPlace
