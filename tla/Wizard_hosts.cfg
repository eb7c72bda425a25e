SPECIFICATION WizardSpec
CONSTANTS
    Programs = {"u1", "u2"}
    Hosts <- MCHosts
    FirstKind = 10
    BackupTries = 1
    Defaults = 1
    Contents <- MCContents
    Shared = {1, 3}
    Present <- MCPresent
    BuiltIn <- MCBuiltIn
    Running <- MCRunning
    MaxSources = 2
    MaxRuns = 2
    MaxOutside = 1
    MaxSecs = 0
CHECK_DEADLOCK FALSE
INVARIANTS
    WizardTypeOK
    Restorable
    DangerDiscipline
    PlanTouchesOnlyTicked
    TickedServed
