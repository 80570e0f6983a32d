------------------------- MODULE OperationLifecycle -------------------------
(***************************************************************************)
(* What OperationService promises: the life of every operation, one step   *)
(* per transition. An operation that needs approval is approved only after *)
(* the approval was given, and is ready only with a backup that has been   *)
(* verified. Blocking is final.                                            *)
(***************************************************************************)
CONSTANTS Plan, Approver, Backup, None

VARIABLES
    stage,        \* where every operation stands
    attached,     \* the backup attached to it
    granted,      \* the approvals given
    proved        \* the backups verified

vars == <<stage, attached, granted, proved>>

Init ==
    /\ stage = [p \in Plan |-> "absent"]
    /\ attached = [p \in Plan |-> None]
    /\ granted = {}
    /\ proved = {}

Move(p, from, to) ==
    /\ stage[p] \in from
    /\ stage' = [stage EXCEPT ![p] = to]
    /\ UNCHANGED <<granted, proved>>

Propose(p) ==
    /\ \E to \in {"approval_required", "rejected", "planned"} : Move(p, {"absent"}, to)
    /\ UNCHANGED attached

Approve(p) ==
    /\ \E by \in Approver : <<p, by>> \in granted
    /\ Move(p, {"approval_required"}, "approved")
    /\ UNCHANGED attached

Ready(p, b) ==
    /\ b \in proved
    /\ Move(p, {"approved"}, "ready")
    /\ attached' = [attached EXCEPT ![p] = b]

Block(p) ==
    /\ Move(p, {"approval_required", "rejected", "planned", "approved", "ready"},
            "blocked_by_default")
    /\ UNCHANGED attached

Grant(p, by) ==
    /\ granted' = granted \cup {<<p, by>>}
    /\ UNCHANGED <<stage, attached, proved>>

Prove(b) ==
    /\ proved' = proved \cup {b}
    /\ UNCHANGED <<stage, attached, granted>>

Next ==
    \/ \E p \in Plan : Propose(p) \/ Approve(p) \/ Block(p)
    \/ \E p \in Plan, b \in Backup : Ready(p, b)
    \/ \E p \in Plan, by \in Approver : Grant(p, by)
    \/ \E b \in Backup : Prove(b)

Spec == Init /\ [][Next]_vars
=============================================================================
