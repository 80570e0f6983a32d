CONSTANTS
    Record = {r1, r2, r3, r4}
    Thread = {t1, t2}
    Retention = 2
    MaxLines = 1
    MaxInterrupts = 1
    Torn = Torn
    Junk = Junk
    None = None
SPECIFICATION FairSpec
INVARIANTS
    TypeOK
    ReadsTheTail
    AnsweredIsRead
    ShownIsWritten
    OnlyTornRefuses
PROPERTIES
    ImplementsLedger
    AppendsEnd
CHECK_DEADLOCK FALSE
