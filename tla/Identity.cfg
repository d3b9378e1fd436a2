CONSTANTS
    s1 = s1
    s2 = s2
    admin = admin
    manager = manager
    q1 = q1
    q2 = q2
    k1 = k1
    Staff <- MCStaff
    Roles <- MCRoles
    Tokens = {k1}
    Owner = s1
    AdminRole = admin
    Requests <- MCRequests
    GrantsAlone = TRUE
SPECIFICATION Spec
SYMMETRY MCSymmetry
INVARIANT IdentityTypeOK
INVARIANT AdminRemains
