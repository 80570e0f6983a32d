--------------------------- MODULE ApprovalLedger ---------------------------
(***************************************************************************)
(* What an approval store promises its callers: one table of requests in   *)
(* which a request is created once, decided at most once by somebody other *)
(* than its requester, and retired when its deadline has passed. Every     *)
(* operation is a single step. ApprovalStore implements it as long as only *)
(* one thread of one process uses the store (ApprovalRefinement).          *)
(***************************************************************************)
EXTENDS Naturals

CONSTANTS Request, Requester, Approver, Ttl, None

VARIABLES now, ledger

vars == <<now, ledger>>

NoEntry == [status |-> "absent", actor |-> None, expiresAt |-> 0, decidedBy |-> None]

Entries == [status : {"pending", "approved", "denied", "expired"},
            actor : Requester, expiresAt : Nat,
            decidedBy : Approver \cup {"policy", "system", None}]

TypeOK ==
    /\ now \in Nat
    /\ ledger \in [Request -> Entries \cup {NoEntry}]

Init ==
    /\ now = 0
    /\ ledger = [r \in Request |-> NoEntry]

\* The deadline was computed when the call began, which may lie in the past.
Create(r, u, deadline, denied) ==
    /\ ledger[r] = NoEntry
    /\ deadline <= now + Ttl
    /\ ledger' = [ledger EXCEPT ![r] =
                    [status |-> IF denied THEN "denied" ELSE "pending", actor |-> u,
                     expiresAt |-> deadline, decidedBy |-> IF denied THEN "policy" ELSE None]]
    /\ UNCHANGED now

Decide(r, by, verdict) ==
    /\ ledger[r].status = "pending"
    /\ ledger[r].actor # by
    /\ ledger' = [ledger EXCEPT ![r].status = verdict, ![r].decidedBy = by]
    /\ UNCHANGED now

Overdue == {r \in Request : ledger[r].status \in {"pending", "approved"}
                             /\ now >= ledger[r].expiresAt}

\* The overdue open requests of S are retired together.
Expire(S) ==
    /\ S \subseteq Overdue
    /\ ledger' = [r \in Request |->
                    IF r \in S THEN [ledger[r] EXCEPT !.status = "expired",
                                                      !.decidedBy = "system"]
                               ELSE ledger[r]]
    /\ UNCHANGED now

Tick == now' = now + 1 /\ UNCHANGED ledger

Next ==
    \/ \E r \in Request :
        \/ \E u \in Requester, deadline \in 0 .. now + Ttl, denied \in BOOLEAN :
               Create(r, u, deadline, denied)
        \/ \E by \in Approver, verdict \in {"approved", "denied"} : Decide(r, by, verdict)
    \/ \E S \in SUBSET Request : Expire(S)
    \/ Tick

Spec == Init /\ [][Next]_vars
=============================================================================
