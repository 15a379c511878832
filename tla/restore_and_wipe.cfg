\* A Restore and a wipe compete while a user starts, stops or restarts the server; the Restore
\* may be force-deleted and is then recovered by the wipe.  Without a Restore, a second wipe
\* request supersedes the first at any moment.
SPECIFICATION Spec
CONSTANTS
    None = None
    r1 = r1
    t1 = t1
    t2 = t2
    Backup = {}
    Raw = {}
    Restore = {r1}
    Token = {t1, t2}
    MaxPods = 2
    MaxToggles = 1
    Graceful = FALSE
    Evictions = FALSE
    Crashes = FALSE
    ForceDeletes = "quiet"
CONSTRAINT RestoreOrSecondWipe
INVARIANT TypeOK
INVARIANT ExclusiveWriter
INVARIANT WorkersAccounted
INVARIANT AckedWipeQuiet
PROPERTY LeaseKept
