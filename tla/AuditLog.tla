------------------------------ MODULE AuditLog ------------------------------
(***************************************************************************)
(* MetadataAuditLog over JsonlAuditSink (control_center/audit.py): the     *)
(* handlers of the server append records to one file, which is moved into  *)
(* a numbered history when it is full. A thread lock and an flock make one *)
(* exclusive lock of it; what the sink has written is shown to readers     *)
(* from memory, after the lock is released. The server may stop at any     *)
(* step and reads the whole history back when it starts.                   *)
(*                                                                         *)
(* Every record is one line and every line has the same size. A file that  *)
(* does not exist is an empty one. A record that is rejected before it     *)
(* reaches the file is no step.                                            *)
(***************************************************************************)
EXTENDS Naturals, Sequences, FiniteSets

CONSTANTS
    Record,         \* audit records, by record_id
    Thread,         \* handler threads
    Retention,      \* retention_files
    MaxLines,       \* max_bytes, in lines
    MaxInterrupts,  \* bound: rotations that stop half-way
    Torn, Junk,     \* a fragment without a newline, a line that is no record
    None

ASSUME AuditAssumption ==
    /\ Retention \in Nat \ {0}
    /\ MaxLines \in Nat \ {0}
    /\ MaxInterrupts \in Nat
    /\ {Torn, Junk, None} \cap Record = {}
    /\ Torn # Junk
    /\ None \notin Thread

VARIABLES
    files,        \* the sink's file at 0, the numbered ones at 1 .. Retention
    up,           \* the server runs
    memory,       \* MetadataAuditLog._records
    lock,         \* the thread that holds both locks
    pc,           \* next step of every thread
    call,         \* its record, and the number of the file it moves next
    issued,       \* ghost: record ids given out (uuid4)
    answered,     \* ghost: records whose append has returned
    written,      \* ghost: every line ever written, in order
    interrupted,  \* ghost: rotations that stopped half-way
    torn          \* ghost: a write has left a fragment

handler == <<lock, pc, call>>
ghosts  == <<issued, answered, written, interrupted, torn>>
vars    == <<files, up, memory, handler, ghosts>>

-----------------------------------------------------------------------------
NoCall == [record |-> None, index |-> 0]

Init ==
    /\ files = [i \in 0..Retention |-> <<>>]
    /\ up = TRUE
    /\ memory = <<>>
    /\ lock = None
    /\ pc = [t \in Thread |-> "idle"]
    /\ call = [t \in Thread |-> NoCall]
    /\ issued = {}
    /\ answered = {}
    /\ written = <<>>
    /\ interrupted = 0
    /\ torn = FALSE

Go(t, from, to) ==
    /\ pc[t] = from
    /\ pc' = [pc EXCEPT ![t] = to]

\* The call is over and the lock, if it holds it, is free again.
Leave(t) ==
    /\ pc' = [pc EXCEPT ![t] = "idle"]
    /\ call' = [call EXCEPT ![t] = NoCall]
    /\ lock' = IF lock = t THEN None ELSE lock

\* What is written next continues a fragment at the end of the sink's file.
Glued == files[0] # <<>> /\ files[0][Len(files[0])] = Torn

\* The lines of that file, or of all that was written, with one more.
Behind(lines, line) ==
    IF Glued THEN [lines EXCEPT ![Len(lines)] = IF line = Torn THEN Torn ELSE Junk]
             ELSE Append(lines, line)

\* _audit_read_paths: the numbered files, the highest first, then the sink's.
Reading[i \in 0..Retention] ==
    IF i = 0 THEN files[0] ELSE files[i] \o Reading[i - 1]
Loaded == Reading[Retention]

\* _decode_audit_record takes every line and no record_id comes twice, or read
\* raises.
Loadable ==
    /\ \A k \in DOMAIN Loaded : Loaded[k] \in Record
    /\ \A j, k \in DOMAIN Loaded : Loaded[j] = Loaded[k] => j = k

-----------------------------------------------------------------------------
\* Mutant: the ids of records may come again.
StartAgain(t, r) ==
    /\ up
    /\ issued' = issued \cup {r}
    /\ Go(t, "idle", "lock")
    /\ call' = [call EXCEPT ![t].record = r]
    /\ UNCHANGED <<files, up, memory, lock, answered, written, interrupted, torn>>

\* MetadataAuditLog.append builds a record of its own.
Start(t, r) ==
    /\ up
    /\ r \notin issued
    /\ issued' = issued \cup {r}
    /\ Go(t, "idle", "lock")
    /\ call' = [call EXCEPT ![t].record = r]
    /\ UNCHANGED <<files, up, memory, lock, answered, written, interrupted, torn>>

\* Mutant: the file may grow a line beyond its size.
AcquireLate(t) ==
    /\ lock = None
    /\ lock' = t
    /\ Go(t, "lock", IF Len(files[0]) > MaxLines THEN "oldest" ELSE "line")
    /\ UNCHANGED <<files, up, memory, call, ghosts>>

\* Both locks, then the size of the file.
Acquire(t) ==
    /\ lock = None
    /\ lock' = t
    /\ Go(t, "lock", IF Len(files[0]) + 1 > MaxLines THEN "oldest" ELSE "line")
    /\ UNCHANGED <<files, up, memory, call, ghosts>>

\* _rotate_audit_files unlinks the oldest file first.
DropOldest(t) ==
    /\ Go(t, "oldest", "shift")
    /\ files' = [files EXCEPT ![Retention] = <<>>]
    /\ call' = [call EXCEPT ![t].index = Retention - 1]
    /\ UNCHANGED <<up, memory, lock, ghosts>>

\* Mutant: the history is moved up from its lowest number.
FirstToMove(t) == Retention - 1 - call[t].index

\* The file that is moved next, from the highest number down to the sink's.
NextToMove(t) == call[t].index

\* Mutant: a file is copied into the next one and left where it was.
ShiftByCopy(t) ==
    LET i == NextToMove(t) IN
    /\ Go(t, "shift", IF call[t].index = 0 THEN "line" ELSE "shift")
    /\ files' = [files EXCEPT ![i + 1] = IF files[i] = <<>> THEN @ ELSE files[i]]
    /\ call' = [call EXCEPT ![t].index = IF @ = 0 THEN 0 ELSE @ - 1]
    /\ UNCHANGED <<up, memory, lock, ghosts>>

Shift(t) ==
    LET i == NextToMove(t) IN
    /\ Go(t, "shift", IF call[t].index = 0 THEN "line" ELSE "shift")
    /\ files' = IF files[i] = <<>> THEN files
                ELSE [files EXCEPT ![i + 1] = files[i], ![i] = <<>>]
    /\ call' = [call EXCEPT ![t].index = IF @ = 0 THEN 0 ELSE @ - 1]
    /\ UNCHANGED <<up, memory, lock, ghosts>>

\* An OSError in the middle of the rotation; the record is not written.
RotateFails(t) ==
    /\ pc[t] \in {"oldest", "shift"}
    /\ interrupted < MaxInterrupts
    /\ interrupted' = interrupted + 1
    /\ Leave(t)
    /\ UNCHANGED <<files, up, memory, issued, answered, written, torn>>

\* The line is written, flushed and synced.
WriteLine(t) ==
    LET r == call[t].record IN
    /\ Go(t, "line", "mode")
    /\ files' = [files EXCEPT ![0] = Behind(@, r)]
    /\ written' = Behind(written, r)
    /\ UNCHANGED <<up, memory, lock, call, issued, answered, interrupted, torn>>

\* Mutant: nobody is told that the disk is full.
WriteFailsQuietly(t) ==
    /\ Go(t, "line", "mode")
    /\ UNCHANGED <<files, up, memory, lock, call, ghosts>>

\* The disk is full: none of the line is in the file, or a part of it.
WriteFails(t) ==
    /\ pc[t] = "line"
    /\ Leave(t)
    /\ UNCHANGED <<files, up, memory, ghosts>>

WriteTears(t) ==
    /\ pc[t] = "line"
    /\ files' = [files EXCEPT ![0] = Behind(@, Torn)]
    /\ written' = Behind(written, Torn)
    /\ torn' = TRUE
    /\ Leave(t)
    /\ UNCHANGED <<up, memory, issued, answered, interrupted>>

\* chmod; then the locks are released.
SetMode(t) ==
    /\ Go(t, "mode", "note")
    /\ lock' = None
    /\ UNCHANGED <<files, up, memory, call, ghosts>>

\* Mutant: the locks are kept when the call raises.
ModeFailsLocked(t) ==
    /\ Go(t, "mode", "idle")
    /\ UNCHANGED <<files, up, memory, lock, call, ghosts>>

\* chmod fails: the call raises though the line is in the file.
ModeFails(t) ==
    /\ pc[t] = "mode"
    /\ Leave(t)
    /\ UNCHANGED <<files, up, memory, ghosts>>

\* self._records.append: other handlers may have done so in between.
Note(t) ==
    /\ pc[t] = "note"
    /\ memory' = Append(memory, call[t].record)
    /\ answered' = answered \cup {call[t].record}
    /\ Leave(t)
    /\ UNCHANGED <<files, up, issued, written, interrupted, torn>>

-----------------------------------------------------------------------------
Rotating == \E t \in Thread : pc[t] \in {"oldest", "shift"}

\* The server stops. A line that was being written may be torn.
Crash ==
    /\ up
    /\ up' = FALSE
    /\ memory' = <<>>
    /\ lock' = None
    /\ pc' = [t \in Thread |-> "idle"]
    /\ call' = [t \in Thread |-> NoCall]
    /\ \/ UNCHANGED <<files, written, torn>>
       \/ /\ \E t \in Thread : pc[t] = "line"
          /\ files' = [files EXCEPT ![0] = Behind(@, Torn)]
          /\ written' = Behind(written, Torn)
          /\ torn' = TRUE
    /\ Rotating => interrupted < MaxInterrupts
    /\ interrupted' = IF Rotating THEN interrupted + 1 ELSE interrupted
    /\ UNCHANGED <<issued, answered>>

\* MetadataAuditLog.__init__ reads the history; the server does not start when
\* that raises.
Boot ==
    /\ ~up
    /\ Loadable
    /\ up' = TRUE
    /\ memory' = Loaded
    /\ UNCHANGED <<files, handler, ghosts>>

Step(t) ==
    \/ Acquire(t) \/ DropOldest(t) \/ Shift(t) \/ RotateFails(t)
    \/ WriteLine(t) \/ WriteFails(t) \/ WriteTears(t)
    \/ SetMode(t) \/ ModeFails(t) \/ Note(t)

Next ==
    \/ \E t \in Thread : Step(t) \/ \E r \in Record : Start(t, r)
    \/ Crash
    \/ Boot

Spec == Init /\ [][Next]_vars

\* A handler goes on with its append, and the server is started again.
FairSpec == Spec /\ WF_vars(Boot) /\ \A t \in Thread : WF_vars(Step(t))

-----------------------------------------------------------------------------
Line == Record \cup {Torn, Junk}

\* The files hold at most MaxLines lines each, and one handler at a time is
\* between the locks.
TypeOK ==
    /\ files \in [0..Retention -> Seq(Line)]
    /\ \A i \in 0..Retention : Len(files[i]) <= MaxLines
    /\ up \in BOOLEAN
    /\ memory \in Seq(Record)
    /\ lock \in Thread \cup {None}
    /\ pc \in [Thread -> {"idle", "lock", "oldest", "shift", "line", "mode", "note"}]
    /\ \A t \in Thread : lock = t <=> pc[t] \in {"oldest", "shift", "line", "mode"}
    /\ call \in [Thread -> [record : Record \cup {None}, index : 0..Retention]]
    /\ issued \subseteq Record
    /\ answered \subseteq issued
    /\ written \in Seq(Line)
    /\ interrupted \in 0..MaxInterrupts
    /\ torn \in BOOLEAN

\* Lines that are kept for certain: a rotation that stops half-way leaves a gap
\* among the numbered files, and the next one pays for it with one file more.
Kept == IF interrupted >= Retention THEN 0 ELSE (Retention - interrupted) * MaxLines

\* What is read back is the end of what was written, in that order, and misses
\* no more of it than the retention allows, whatever stops during a rotation.
ReadsTheTail ==
    LET gone == Len(written) - Len(Loaded) IN
    /\ gone >= 0
    /\ Loaded = SubSeq(written, gone + 1, Len(written))
    /\ gone > 0 => Len(Loaded) >= Kept

\* Until a write is torn, every record that was acknowledged is read back
\* unless enough others were written after it.
AnsweredIsRead ==
    ~torn => \A r \in answered :
        \/ \E k \in DOMAIN Loaded : Loaded[k] = r
        \/ \E k \in DOMAIN written : written[k] = r /\ Len(written) - k >= Kept

\* What the log shows was written before, and nothing is shown twice.
ShownIsWritten ==
    /\ \A k \in DOMAIN memory :
           \E j \in DOMAIN written : written[j] = memory[k] \/ (torn /\ written[j] = Junk)
    /\ \A j, k \in DOMAIN memory : memory[j] = memory[k] => j = k

\* A server that cannot start again owes that to a torn write, not to the
\* step of a rotation it was stopped at.
OnlyTornRefuses == ~Loadable => torn

\* The reader's view follows the abstract trail: rotation is not seen but for
\* the oldest lines it forgets.
Ledger == INSTANCE AuditLedger WITH trail <- Loaded

ImplementsLedger == Ledger!Spec

\* Every append ends, answered or not: nobody keeps the lock.
AppendsEnd == \A t \in Thread : pc[t] # "idle" ~> pc[t] = "idle"
=============================================================================
