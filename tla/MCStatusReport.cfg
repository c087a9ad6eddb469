CONSTANTS
    MaxPort <- MCMaxPort
    KeyVals <- MCKeyVals
    ValueError = ValueError
    KeyError = KeyError
    h1 = h1
    h2 = h2
    NoHost = NoHost
    Hosts <- MCHosts
    MonitorPeriod = 3
    AnalysisPeriod = 1
    Started = 0
    Now = 5
    LaterTimes = {5, 7}
    SyslogTimes = {2}
    DetectTimes = {1, 4}
    ArgSets <- MCArgSets
SPECIFICATION ReportSpec
INVARIANTS
    TypeOK
    NoStoredConflict
    DaemonNextRunsExact
    ReleaseNotBeforeLockout
PROPERTY
    Termination
