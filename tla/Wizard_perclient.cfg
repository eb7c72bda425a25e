SPECIFICATION WizardSpec
CONSTANTS
    Programs = {"u1", "u2"}
    Hosts <- MCHosts
    FirstKind = 10
    BackupTries = 1
    Defaults = 2
    Contents <- MCContents
    Shared = {1}
    Present <- MCPresent
    BuiltIn <- MCBuiltIn
    Running <- MCRunning
    MaxSources = 3
    MaxRuns = 1
    MaxOutside = 0
    MaxSecs = 0
CHECK_DEADLOCK FALSE
INVARIANT
    PerClientReachable
