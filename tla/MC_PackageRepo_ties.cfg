CONSTANTS
    s1 = s1
    s2 = s2
    a1 = a1
    a2 = a2
    i1 = i1
    u1 = u1
    Spaces <- MCSpaces
    Apps <- MCApps
    Images <- MCImages
    Users <- MCUsers
    Roles <- MCAllRoles
    NoImage = NoImage
    MaxGUID = 2
    MaxTime = 1
    MaxObjects = 3
VIEW MCView
SPECIFICATION Spec
PROPERTY
    ListTiesOrderedByGUID
