SPECIFICATION Spec
CONSTANTS
    r1 = r1
    t1 = t1
    t2 = t2
    dora = dora
    omar = omar
    ada = ada
    uptime = uptime
    disk = disk
    journal = journal
    tidy = tidy
    wipe = wipe
    v1 = v1
    v2 = v2
    None = None
    Request = {r1}
    Thread = {t1, t2}
    User = {dora, omar}
    Version = {v1, v2}
    Order = {uptime, journal, tidy, wipe}
    ClassOf <- Commands
    Identities <- Revocation
    Ttl = 1
    MaxTime = 1
    MaxRuns = 1
SYMMETRY ThreadSymmetry
INVARIANTS
    RunsAreApproved
    RunsAsSigned
