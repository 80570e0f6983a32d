CONSTANTS
    Run = {r1}
    Session = {s1}
    Thread = {t1}
    Manifest <- Manifests
    Compositions <- Servers
    Ttl = 1
    MaxLifetime = 2
    MaxTime = 1
    None = None
SPECIFICATION Spec
SYMMETRY Symmetry
INVARIANT HistoryReloads
