\* The desktop: two restores in a row, a crash at any step of staging, the swap
\* or a rollback that is not of a committed restore.
CONSTANTS
    CreatesDirs = FALSE
    CrashIn = {"startup", "stage", "swap", "rollback", "app"}
    MaxRestores = 2
SPECIFICATION FairSpec
INVARIANT
    OriginalKept
PROPERTIES
    ImplementsAtomic
    RestoreDecided
