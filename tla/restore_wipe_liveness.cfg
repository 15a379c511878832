\* A Restore and a wipe under fair scheduling: neither waits for ever.
SPECIFICATION FairSpec
CONSTANTS
    None = None
    r1 = r1
    t1 = t1
    Backup = {}
    Raw = {}
    Restore = {r1}
    Token = {t1}
    MaxPods = 1
    MaxToggles = 0
    Graceful = FALSE
    Evictions = FALSE
    Crashes = FALSE
    ForceDeletes = "never"
PROPERTY WipeSettles
PROPERTY ServerReleased
