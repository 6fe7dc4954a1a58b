SPECIFICATION Spec
CONSTANTS
    d1 = d1  d2 = d2  d3 = d3
    t1 = t1  t2 = t2
    Nobody = Nobody
    Blank = ""
    Texts <- MCTexts
    Symbols <- MCSymbols
    Upper <- MCUpper
    Deliveries <- MCTwoDeliveries
    Tenants <- MCOneTenant
    SignalIds <- MCSignalIds
    ResultKey <- MCResultKey
    Requests <- MCOneTenantRequests
    Accounts <- MCAccounts
    SettingsChoices <- MCSettingsChoices
    MaxTime = 0
    MaxEdits = 0
    MaxFaults = 0
INVARIANTS
    DuplicateIsGenuine
CHECK_DEADLOCK FALSE
