\* One quiescing Backup under fair scheduling.
SPECIFICATION FairSpec
CONSTANTS
    None = None
    b1 = b1
    Backup = {b1}
    Raw = {}
    Restore = {}
    Token = {}
    MaxPods = 1
    MaxToggles = 0
    Graceful = FALSE
    Evictions = FALSE
    Crashes = FALSE
    ForceDeletes = "never"
PROPERTY SavingRestored
PROPERTY ServerReleased
PROPERTY DeletionCompletes
