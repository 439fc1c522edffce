CONSTANTS
    r1 = r1
    r2 = r2
    Readers <- MCReaders
    Limits <- MCLimits
    NoLimit = NoLimit
    MaxRevision = 2
    MaxBuild = 2
SPECIFICATION Spec
INVARIANT
    AnswerFromCallWindow
