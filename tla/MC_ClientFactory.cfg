CONSTANTS
    r1 = r1
    r2 = r2
    u1 = u1
    u2 = u2
    Requests <- MCRequests
    Users <- MCUsers
    ServiceAccount = ServiceAccount
    NoCred = NoCred
    BasePtr = BasePtr
    SvcPtr = SvcPtr
SYMMETRY MCSymmetry
SPECIFICATION Spec
INVARIANTS
    ClientActsAsCaller
    AuthFailuresNeverDial
