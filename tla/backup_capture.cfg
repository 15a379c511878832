\* A quiescing Backup, one power request with a graceful stop, evictions of the game pod.
SPECIFICATION Spec
CONSTANTS
    None = None
    b1 = b1
    Backup = {b1}
    Raw = {}
    Restore = {}
    Token = {}
    MaxPods = 1
    MaxToggles = 1
    Graceful = TRUE
    Evictions = TRUE
    Crashes = FALSE
    ForceDeletes = "never"
 
INVARIANT QuiescedOwed
PROPERTY FrozenWhileCopying
PROPERTY StopNeverDuringBackup
