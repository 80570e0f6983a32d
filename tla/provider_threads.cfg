CONSTANTS
    Run = {r1, r2}
    Session = {s1}
    Thread = {t1, t2}
    Manifest <- Manifests
    Compositions <- Servers
    Ttl = 1
    MaxLifetime = 2
    MaxTime = 1
    None = None
SPECIFICATION Spec
SYMMETRY Symmetry
INVARIANTS
    RunsAreAuthorized
    OnlyControlsRefuse
    AnsweredIsKept
    AuditedIsStored
