\* A quiescing Backup and a Restore, each taking over from the other after a force-delete.
SPECIFICATION Spec
CONSTANTS
    None = None
    b1 = b1
    r1 = r1
    Backup = {b1}
    Raw = {}
    Restore = {r1}
    Token = {}
    MaxPods = 1
    MaxToggles = 0
    Graceful = FALSE
    Evictions = FALSE
    Crashes = FALSE
    ForceDeletes = "quiet"
CONSTRAINT NoneDeleting
INVARIANT QuiescedOwed
PROPERTY LeaseKept
