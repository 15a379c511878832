\* The controllers of the operator beside the lifecycle.
SPECIFICATION SuiteSpec
CONSTANTS
    Servers = {1, 2}
    AddressRequests <- MCRequests
    Managers = {"metallb", "cilium"}
    PoolAnswers = {"found", "missing"}
    LastGen = 2
    Editable = {1}
    ScheduleMaxTime = 2
    CronTimes = {1, 2}
    Policies = {"Forbid", "Replace", "Allow"}
    Deadline = 0
    KeepLast = 1
    KeepDaily = 1
    DayLength = 2
    Restores = {r1, r2}
    r1 = r1
    r2 = r2
    Born = 2
    Refs = {secret1, config1}
    secret1 = secret1
    config1 = config1
    Captures = 2
    PodLimit = 2
    Stoppable = {1}
    SameSecond = FALSE
    NodeCaptures = 2
    StaleAfterEnd = FALSE
    Disturbed = {1}
    EnablePodStarts = 2
    PodChanges = 1
    EnabledCaptures = {1}
    LastRevision = 2
    EditLimit = 2
 
 
PROPERTY RolloutSafe
CHECK_DEADLOCK FALSE
