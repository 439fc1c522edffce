CONSTANTS
    q1 = q1
    q2 = q2
    c1 = c1
    c2 = c2
    s1 = s1
    s2 = s2
    a1 = a1
    a2 = a2
    Requests <- MCRequests
    Callers <- MCCallers
    Spaces <- MCSpaces
    Apps <- MCApps
    Roles <- MCRoles
SPECIFICATION Spec
INVARIANT
    ApplyToMissingSpaceIsNotFound
