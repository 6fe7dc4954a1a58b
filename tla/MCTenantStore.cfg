SPECIFICATION Spec
CONSTANTS
    t1 = t1  t2 = t2  t3 = t3
    q1 = q1  q2 = q2  q3 = q3
    NoTenant = NoTenant
    Blank = ""
    Texts <- MCTexts
    Symbols <- MCSymbols
    Upper <- MCUpper
    Tenants <- MCTenants
    Emails = {"a", "b"}
    Requests <- MCRequests
    Asks <- MCAsks
    Start <- MCStart
    FirstSecret = 3
    MaxTime = 1
    MaxFaults = 1
SYMMETRY Symmetry
INVARIANTS
    TypeOK OneAccountEach RetiredStaysRetired UnseenOnlyAfterFailure
PROPERTIES
    EditsKeepToTheirColumns LostOnlyIfOvertaken
CHECK_DEADLOCK FALSE
