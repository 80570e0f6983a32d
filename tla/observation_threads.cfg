CONSTANTS
    Snapshot = {s1, s2}
    Incident = {i1}
    Note = {n1}
    Thread = {t1, t2}
    MaxHistory = 1
    None = None
SPECIFICATION Spec
SYMMETRY Symmetry
INVARIANTS
    TypeOK
    AlarmFollowsSnapshot
    AnsweredIsKept
    ClosedAndSevere
