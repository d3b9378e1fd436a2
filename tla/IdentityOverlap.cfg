CONSTANTS
    s1 = s1
    s2 = s2
    admin = admin
    manager = manager
    q1 = q1
    q2 = q2
    k1 = k1
    Staff <- MCStaff
    Roles <- MCRoles
    Tokens = {}
    Owner = s1
    AdminRole = admin
    Requests <- MCRequests
    GrantsAlone = FALSE
SPECIFICATION Spec
INVARIANT AdminRemains
