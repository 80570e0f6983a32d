SPECIFICATION Spec
CONSTANTS
    q1 = q1
    q2 = q2
    t1 = t1
    t2 = t2
    omar = omar
    ada = ada
    b1 = b1
    None = None
    Plan = {q1, q2}
    Thread = {t1}
    Requester = {omar}
    Approver = {ada}
    Backup = {b1}
    Ttl = 1
    MaxTime = 0
INVARIANTS
    AckedPlanIsDurable
SYMMETRY PlanSymmetry
PROPERTY
    ImplementsLifecycle
