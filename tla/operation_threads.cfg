SPECIFICATION Spec
CONSTANTS
    q1 = q1
    q2 = q2
    t1 = t1
    t2 = t2
    omar = omar
    ada = ada
    b1 = b1
    None = None
    Plan = {q1}
    Thread = {t1, t2}
    Requester = {omar}
    Approver = {omar, ada}
    Backup = {b1}
    Ttl = 1
    MaxTime = 1
SYMMETRY ThreadSymmetry
INVARIANTS
    ApprovedByAnother
    DenialHolds
    ReadyOnProvenBackup
    SignedAsPlanned
