SPECIFICATION FairSpec
CONSTANTS
    a1 = a1  a2 = a2
    c1 = c1  c2 = c2  c3 = c3
    r1 = r1  r2 = r2
    t1 = t1
    None = None
    Tenants <- MCTenants
    Agents <- MCAgents
    Owner <- MCOwner
    KeyOf <- MCKeyOf
    Conns <- MCConns
    AgentOf <- MCAgentOf
    Calls <- MCOneCall
    TenantOf <- MCOneTenantOf
    LimitSets <- MCLimit
    MaxRotations = 1
    MaxCrashes = 1
    MaxExits = 1
INVARIANTS
    TypeOK RegisteredIsServed RunAtMostOnce
PROPERTIES
    CallReturns
CHECK_DEADLOCK FALSE
