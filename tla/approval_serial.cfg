CHECK_DEADLOCK FALSE
SPECIFICATION Spec
CONSTANTS
    r1 = r1
    r2 = r2
    p1 = p1
    p2 = p2
    t1 = t1
    t2 = t2
    dana = dana
    omar = omar
    ada = ada
    None = None
    Request = {r1, r2}
    Process = {p1}
    Thread = {t1}
    Home <- OneThread
    Requester = {omar}
    Approver = {omar, ada}
    ActionText = {"plain", "odd"}
    ReasonText = {"plain", "odd"}
    Ttl = 1
    MaxTime = 2
SYMMETRY RequestSymmetry
INVARIANTS
    AckedIsDurable
    NoStaleApproval
PROPERTY
    ImplementsLedger
