\* A Restore and one power request under fair scheduling.
SPECIFICATION FairSpec
CONSTANTS
    None = None
    r1 = r1
    Backup = {}
    Raw = {}
    Restore = {r1}
    Token = {}
    MaxPods = 1
    MaxToggles = 1
    Graceful = FALSE
    Evictions = FALSE
    Crashes = FALSE
    ForceDeletes = "never"
INVARIANT PartialHeld
PROPERTY DeletionCompletes
PROPERTY Converges
