\* Two operations with lists of two commands and two attempts per command:
\* a reset, a repeat and an orphan fit before, between and after the
\* commands of each list while the other list is anywhere.
SPECIFICATION FairSpec
CONSTANTS
    Callers = {c1, c2}
    NumCommands = 2
    MaxAttempts = 2
INVARIANTS TypeOK PrefixCompleted RepeatsOnlyAfterReset CleanSuccessIsExactlyOnce KeyFileLifetime
PROPERTIES EveryOperationEnds ImplementsCommandList
