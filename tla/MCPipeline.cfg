SPECIFICATION PipeSpec
CONSTANTS
    d1 = d1  d2 = d2  d3 = d3
    t1 = t1  t2 = t2
    Nobody = Nobody
    Blank = ""
    Texts <- MCTexts
    Symbols <- MCSymbols
    Upper <- MCUpper
    Deliveries <- MCDeliveries
    Tenants <- MCTenants
    SignalIds <- MCSignalIds
    ResultKey <- MCResultKey
    Requests <- MCRequests
    Accounts <- MCAccounts
    SettingsChoices <- MCSettingsChoices
    MaxTime = 0
    MaxEdits = 0
    MaxFaults = 2
SYMMETRY Symmetry
INVARIANTS
    TypeOK AtMostOneOrder ClaimStaysVisible AnswerIsLogged LogIsTruthful
    OneTradePerSignal LogMatchesAccount
PROPERTIES
    ImplementsLedger OnlyPendingFillsLater
CHECK_DEADLOCK FALSE
