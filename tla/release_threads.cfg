SPECIFICATION Spec
CONSTANTS
    d1 = d1
    d2 = d2
    k1 = k1
    t1 = t1
    t2 = t2
    a = a
    x = x
    s1 = s1
    s2 = s2
    omar = omar
    ada = ada
    b1 = b1
    None = None
    Deployment = {d1}
    Rollback = {k1}
    Thread = {t1, t2}
    Commit = {a}
    Inner = {x}
    Staging = {s1, s2}
    Requester = {omar}
    Approver = {omar, ada}
    Backup = {b1}
    Activations = {"none", "disabled", "runner"}
SYMMETRY ThreadAndStagingSymmetry
INVARIANTS
    CurrentIsPublished
    SwitchedByAnother
    VerifiedWasServed
PROPERTY
    DisabledHoldsBack
