CONSTANTS
    Backup = {b1, b2}
    Label = {l1}
    Content = {c1, c2}
    Thread = {t1, t2}
    Providers = {"none", "filesystem"}
    None = None
SPECIFICATION Spec
SYMMETRY Symmetry
INVARIANTS
    VerifiedMatched
    FlagsAgree
    ArchiveIsKept
    OneRecordPerArchive
PROPERTIES
    KeepsLedger
