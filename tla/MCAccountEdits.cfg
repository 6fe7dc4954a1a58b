SPECIFICATION FairSpec
CONSTANTS
    d1 = d1  d2 = d2  d3 = d3
    t1 = t1  t2 = t2
    Nobody = Nobody
    Blank = ""
    Texts <- MCTexts
    Symbols <- MCSymbols
    Upper <- MCUpper
    Deliveries <- MCTwoDeliveries
    Tenants <- MCOneTenant
    SignalIds <- MCSignalIds
    ResultKey <- MCResultKey
    Requests <- MCMixedRequests
    Accounts <- MCMixedAccounts
    SettingsChoices <- MCSettingsChoices
    MaxTime = 1
    MaxEdits = 1
    MaxFaults = 1
PROPERTIES
    StaleOnlyIfOvertaken HandlerEnds
CHECK_DEADLOCK FALSE
