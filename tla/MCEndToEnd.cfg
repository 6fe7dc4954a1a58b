SPECIFICATION EndSpec
CONSTANTS
    a1 = a1  a2 = a2
    c1 = c1  c2 = c2  c3 = c3
    r1 = r1  r2 = r2
    t1 = t1
    s1 = s1  s2 = s2  s3 = s3
    None = None
    Nobody = Nobody
    Blank = ""
    Tenants <- MCTenants
    Agents <- MCOneAgent
    Owner <- MCOneOwner
    KeyOf <- MCOneKey
    Conns <- MCTwoConns
    AgentOf <- MCTwoAgentOf
    Calls <- MCCalls
    TenantOf <- MCTenantOf
    LimitSets <- MCOneType
    Texts <- MCTexts
    Symbols <- MCSymbols
    Upper <- MCUpper
    SignalIds <- MCSignalIds
    ResultKey <- MCResultKey
    Requests <- MCRequests
    Accounts <- MCAccounts
    SettingsChoices <- MCSettingsChoices
    MaxRotations = 0
    MaxCrashes = 1
    MaxExits = 0
    MaxTime = 0
    MaxEdits = 0
    MaxFaults = 1
SYMMETRY EndSymmetry
INVARIANTS
    InStep RunsAreAuthorised OneFillPerSignal
    AnswersAreOwn OfflineMeansUnsent PendingIsExact
PROPERTIES
    ImplementsPort OnlyLimitsFillLater
CHECK_DEADLOCK FALSE
