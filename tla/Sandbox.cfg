CONSTANTS
    usr = usr
    lib64 = lib64
    Cwd = cwd
    Outside = outside
    SysDirs <- MCSysDirs
    Hosts <- MCHosts
    Policies <- MCPolicies
    Inherited = {cwdfd, listener}
    CwdFd = cwdfd
    Sockets = {listener}
    Pipe = pipe
    Ruleset = ruleset
    Calls <- MCCalls
SPECIFICATION SbSpec
INVARIANTS
    SbTypeOK
    RunsConfined
    NoSocketInside
    FailuresReachTheCaller
    RefusalsHaveAReason
PROPERTIES
    SpawnIsDecided
CHECK_DEADLOCK FALSE
