------------------------- MODULE ApprovalRefinement -------------------------
(***************************************************************************)
(* A store used by a single thread of a single process implements          *)
(* ApprovalLedger, failed writes, crashes and reloads included. The ledger *)
(* is what the callers may rely on: the memory of the process without the  *)
(* write that may still be undone, or the file while the process is down.  *)
(***************************************************************************)
EXTENDS ApprovalStore

\* A write in progress is undone if saving it fails.
InFlight(r) == \E t \in Thread : pc[t] \in {"dump", "replace"} /\ r \in touched[t]

Settled(p, r) ==
    IF ~up[p] THEN disk[r]
    ELSE IF InFlight(r) THEN LET t == CHOOSE x \in Thread : r \in touched[x] IN old[t][r]
    ELSE memory[p][r]

Entry(rec) == [status |-> rec.status, actor |-> rec.actor,
               expiresAt |-> rec.expiresAt, decidedBy |-> rec.decidedBy]

TheProcess == CHOOSE p \in Process : TRUE

Ledger == INSTANCE ApprovalLedger
            WITH ledger <- [r \in Request |-> Entry(Settled(TheProcess, r))]

\* Every step of a single-threaded store is one step of the ledger or none: a
\* call that fails leaves no trace, a call that succeeds is atomic, and a crash
\* can at most complete the call it interrupted.
ImplementsLedger == Ledger!Spec
=============================================================================
