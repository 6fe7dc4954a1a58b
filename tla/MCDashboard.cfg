SPECIFICATION FairSpec
CONSTANTS
    a1 = a1  a2 = a2
    None = None
    Accounts <- MCAccounts
    Panels <- MCPanels
    Contents <- MCContents
    Fresh = 1
    Empty = 0
    MaxInFlight = 2
    Members <- MCMembers
    KeysTyped <- MCKeysTyped
    MaxClicks = 4
    MaxElsewhere = 1
    MaxFaults = 1
INVARIANTS
    TypeOK OnePoll TokenIsOwn DataIsOwn
PROPERTIES
    DisplaySettles
CHECK_DEADLOCK FALSE
