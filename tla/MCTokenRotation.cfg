SPECIFICATION Spec
CONSTANTS
    a1 = a1  a2 = a2
    c1 = c1  c2 = c2  c3 = c3
    r1 = r1  r2 = r2
    t1 = t1
    None = None
    Tenants <- MCTenants
    Agents <- MCOneAgent
    Owner <- MCOneOwner
    KeyOf <- MCOneKey
    Conns <- MCTwoConns
    AgentOf <- MCTwoAgentOf
    Calls <- MCOneCall
    TenantOf <- MCOneTenantOf
    LimitSets <- MCMarket
    MaxRotations = 1
    MaxCrashes = 0
    MaxExits = 0
PROPERTIES
    RotationDropsAgents
CHECK_DEADLOCK FALSE
