--------------------------- MODULE OperationPlans ---------------------------
(***************************************************************************)
(* OperationService (control_center/operations.py) over the approval store *)
(* and the backup catalogue. A handler reads a plan, asks the approval     *)
(* store or the backups, then copies the dictionary of plans, saves the    *)
(* copy (JsonMetadataStore.save) and makes it the dictionary. Handlers run *)
(* in threads and no lock spans these steps.                               *)
(*                                                                         *)
(* The approval store (core_operator/approvals.py) is a dictionary in      *)
(* memory and a file. A decision finds the request pending, overwrites it, *)
(* serialises the dictionary and replaces the file, and other handlers,    *)
(* those of /api/approvals/approve and /deny among them, come in between.  *)
(* Retiring what is overdue is one step here: its steps, and texts that    *)
(* keep a server from starting again, are the business of ApprovalStore.   *)
(* The approval request of a plan carries the plan's id. A call that is    *)
(* refused at its start changes nothing and is no step.                    *)
(***************************************************************************)
EXTENDS Naturals

CONSTANTS
    Plan,         \* plan ids, and the ids of their approval requests
    Thread,       \* handler threads
    Requester,    \* users whose role has REQUEST_APPROVAL
    Approver,     \* users whose role has APPROVE_OPERATION
    Backup,       \* backup ids
    Ttl,          \* lifetime of an approval request
    MaxTime,      \* bound on the clock
    None

ASSUME OperationAssumption ==
    /\ Ttl \in Nat
    /\ MaxTime \in Nat
    /\ None \notin Requester \cup Approver \cup Backup \cup {"policy", "system"}

VARIABLES
    now,          \* the wall clock
    approval,     \* the approval requests in memory
    approvalFile, \* and in their file
    signed,       \* operation_hash in the approval request of a plan
    plans,        \* self._plans
    planFile,     \* the JSON file of the state store
    backup,       \* BackupRecord.state
    pc,           \* next step of every thread
    call,         \* the call it serves and the record it will store
    draft,        \* updated_plans
    image,        \* the approval requests serialised by _persist
    issued,       \* ghost: ids given out (uuid4)
    granted,      \* ghost: <<plan, user>> for every approval ever given
    proved,       \* ghost: backups that have been verified
    acked,        \* ghost: <<plan, state>> told to a caller
    overlapped    \* ghost: two calls were in the approval store at once

store   == <<now, approval, approvalFile, signed>>
control == <<pc, call, draft, image>>
ghosts  == <<issued, granted, proved, acked>>
vars    == <<store, plans, planFile, backup, control, ghosts, overlapped>>

Approvals == INSTANCE ApprovalLedger WITH Request <- Plan, ledger <- approval
Filed     == INSTANCE ApprovalLedger WITH Request <- Plan, ledger <- approvalFile
Backups   == INSTANCE BackupLedger

-----------------------------------------------------------------------------
Outcome == {"approval_required", "rejected", "planned"}     \* of planning
State   == Outcome \cup {"approved", "ready", "blocked_by_default"}

NoPlan == [state |-> "absent", actor |-> None, backup |-> None]
Empty  == [p \in Plan |-> NoPlan]
NoCall == [op |-> "none", plan |-> None, by |-> None, record |-> NoPlan,
           request |-> Approvals!NoEntry]
NoRequests == [p \in Plan |-> Approvals!NoEntry]

\* _manifest_status
ManifestStatus(state) ==
    CASE state = "approval_required"  -> "waiting_approval"
      [] state = "blocked_by_default" -> "blocked"
      [] OTHER                        -> state

\* _digest of the payload: the fields of it that differ between two states.
OperationHash(rec) == <<ManifestStatus(rec.state), rec.actor, rec.backup>>

-----------------------------------------------------------------------------
Init ==
    /\ Approvals!Init
    /\ approvalFile = approval
    /\ signed = [p \in Plan |-> None]
    /\ plans = Empty
    /\ planFile = Empty
    /\ Backups!Init
    /\ pc = [t \in Thread |-> "idle"]
    /\ call = [t \in Thread |-> NoCall]
    /\ draft = [t \in Thread |-> Empty]
    /\ image = [t \in Thread |-> NoRequests]
    /\ issued = {}
    /\ granted = {}
    /\ proved = {}
    /\ acked = {}
    /\ overlapped = FALSE

\* Steps at which a call is in the approval store.
Deciding  == {"refresh", "decide", "overwrite"}
Writing   == {"dump", "replace"}
Inside(t) == pc[t] \in Deciding \cup Writing

\* The handler of t has its checks behind it and goes on at step.
Begin(t, step, op, p, by, rec) ==
    /\ pc[t] = "idle"
    /\ pc' = [pc EXCEPT ![t] = step]
    /\ call' = [call EXCEPT ![t] = [op |-> op, plan |-> p, by |-> by, record |-> rec,
                                    request |-> Approvals!NoEntry]]
    /\ overlapped' = (overlapped \/ (step # "copy" /\ \E s \in Thread : Inside(s)))
    /\ UNCHANGED <<draft, image>>

Finish(t) ==
    /\ pc' = [pc EXCEPT ![t] = "idle"]
    /\ call' = [call EXCEPT ![t] = NoCall]
    /\ draft' = [draft EXCEPT ![t] = Empty]
    /\ image' = [image EXCEPT ![t] = NoRequests]

\* Mutant: the hash is taken before the manifest has its status.
StartPlanUnrefreshed(t, p, u, outcome) ==
    LET rec == [state |-> outcome, actor |-> u, backup |-> None] IN
    /\ p \notin issued
    /\ issued' = issued \cup {p}
    /\ \/ /\ outcome = "approval_required"
          /\ Begin(t, "dump", "plan", p, u, rec)
          /\ Approvals!Create(p, u, now + Ttl, FALSE)
          /\ signed' = [signed EXCEPT ![p] = OperationHash([rec EXCEPT !.state = "planned"])]
       \/ /\ outcome # "approval_required"
          /\ Begin(t, "copy", "plan", p, u, rec)
          /\ UNCHANGED <<now, approval, signed>>
    /\ UNCHANGED <<approvalFile, plans, planFile, backup, granted, proved, acked>>

\* plan: policy outcome, then create_pending when an approval is required.
StartPlan(t, p, u, outcome) ==
    LET rec == [state |-> outcome, actor |-> u, backup |-> None] IN
    /\ p \notin issued
    /\ issued' = issued \cup {p}
    /\ \/ /\ outcome = "approval_required"
          /\ Begin(t, "dump", "plan", p, u, rec)
          /\ Approvals!Create(p, u, now + Ttl, FALSE)
          /\ signed' = [signed EXCEPT ![p] = OperationHash(rec)]
       \/ /\ outcome # "approval_required"
          /\ Begin(t, "copy", "plan", p, u, rec)
          /\ UNCHANGED <<now, approval, signed>>
    /\ UNCHANGED <<approvalFile, plans, planFile, backup, granted, proved, acked>>

\* Mutant: any state may be approved.
ApprovableAnyState(rec, u) == rec.state # "absent" /\ rec.actor # u

\* The checks of approve before the approval store is asked.
Approvable(rec, u) == rec.state = "approval_required" /\ rec.actor # u

\* Mutant: the plan is stored as approved without asking the approval store.
StartApproveUnasked(t, p, u) ==
    /\ Approvable(plans[p], u)
    /\ Begin(t, "copy", "approve", p, u, [plans[p] EXCEPT !.state = "approved"])
    /\ UNCHANGED <<store, plans, planFile, backup, ghosts>>

\* approve up to the call of approvals.approve.
StartApprove(t, p, u) ==
    /\ Approvable(plans[p], u)
    /\ Begin(t, "refresh", "approve", p, u, [plans[p] EXCEPT !.state = "approved"])
    /\ UNCHANGED <<store, plans, planFile, backup, ghosts>>

\* POST /api/approvals/approve and /deny up to the call of the store: they ask
\* for no plan and store none.
StartRoute(t, p, u, op) ==
    /\ approval[p] # Approvals!NoEntry
    /\ approval[p].actor # u
    /\ Begin(t, "refresh", op, p, u, NoPlan)
    /\ UNCHANGED <<store, plans, planFile, backup, ghosts>>

-----------------------------------------------------------------------------
\* The requests of memory with those of S retired.
Retired(S) ==
    [p \in Plan |-> IF p \in S THEN [approval[p] EXCEPT !.status = "expired",
                                                        !.decidedBy = "system"]
                               ELSE approval[p]]

\* approve and deny begin by retiring what is overdue.
Refresh(t) ==
    /\ pc[t] = "refresh"
    /\ pc' = [pc EXCEPT ![t] = "decide"]
    /\ approval' = Retired(Approvals!Overdue)
    /\ approvalFile' = IF Approvals!Overdue = {} THEN approvalFile ELSE approval'
    /\ UNCHANGED <<now, signed, plans, planFile, backup, call, draft, image, ghosts,
                   overlapped>>

\* Mutant: a request that is decided already may be decided again.
DecideUnchecked(t) ==
    LET request == approval[call[t].plan] IN
    /\ pc[t] = "decide"
    /\ request # Approvals!NoEntry /\ request.actor # call[t].by
    /\ pc' = [pc EXCEPT ![t] = "overwrite"]
    /\ call' = [call EXCEPT ![t].request = request]
    /\ UNCHANGED <<store, plans, planFile, backup, draft, image, ghosts, overlapped>>

\* _decide finds the request pending; when it does not, only Raise is left.
Decide(t) ==
    LET request == approval[call[t].plan] IN
    /\ pc[t] = "decide"
    /\ request.status = "pending" /\ request.actor # call[t].by
    /\ pc' = [pc EXCEPT ![t] = "overwrite"]
    /\ call' = [call EXCEPT ![t].request = request]
    /\ UNCHANGED <<store, plans, planFile, backup, draft, image, ghosts, overlapped>>

Verdict(op) == IF op = "deny" THEN "denied" ELSE "approved"

\* The decided copy of the request that was found goes into the dictionary.
Overwrite(t) ==
    LET c == call[t] IN
    /\ pc[t] = "overwrite"
    /\ pc' = [pc EXCEPT ![t] = "dump"]
    /\ approval' = [approval EXCEPT ![c.plan] = [c.request EXCEPT !.status = Verdict(c.op),
                                                                  !.decidedBy = c.by]]
    /\ UNCHANGED <<now, approvalFile, signed, plans, planFile, backup, call, draft, image,
                   ghosts, overlapped>>

\* _persist serialises all requests ...
Dump(t) ==
    /\ pc[t] = "dump"
    /\ pc' = [pc EXCEPT ![t] = "replace"]
    /\ image' = [image EXCEPT ![t] = approval]
    /\ UNCHANGED <<store, plans, planFile, backup, call, draft, ghosts, overlapped>>

\* ... and renames a complete new file into place. The routes are done then; plan
\* and approve go on to store the plan.
Replace(t) ==
    LET c == call[t] IN
    /\ pc[t] = "replace"
    /\ approvalFile' = image[t]
    /\ granted' = IF c.op \in {"approve", "grant"} THEN granted \cup {<<c.plan, c.by>>}
                                                   ELSE granted
    /\ \/ /\ c.op \in {"plan", "approve"}
          /\ pc' = [pc EXCEPT ![t] = "copy"]
          /\ image' = [image EXCEPT ![t] = NoRequests]
          /\ UNCHANGED <<call, draft>>
       \/ c.op \in {"grant", "deny"} /\ Finish(t)
    /\ UNCHANGED <<now, approval, signed, plans, planFile, backup, issued, proved, acked,
                   overlapped>>

\* What _decide and create_pending do before they pass an error of _persist on.
Undone(t) == [approval EXCEPT ![call[t].plan] = call[t].request]

\* An OSError after os.replace: the file is new and memory is taken back.
ReplaceFailsLate(t) ==
    /\ pc[t] = "replace"
    /\ approvalFile' = image[t]
    /\ approval' = Undone(t)
    /\ Finish(t)
    /\ UNCHANGED <<now, signed, plans, planFile, backup, ghosts, overlapped>>

RefreshFailsLate(t) ==
    /\ pc[t] = "refresh"
    /\ Approvals!Overdue # {}
    /\ approvalFile' = Retired(Approvals!Overdue)
    /\ Finish(t)
    /\ UNCHANGED <<now, approval, signed, plans, planFile, backup, ghosts, overlapped>>

-----------------------------------------------------------------------------
\* Mutant: any backup will do.
AttachableUnverified(rec, b) == rec.state = "approved" /\ backup[b] # "absent"

\* The checks of attach_verified_backup.
Attachable(rec, b) == rec.state = "approved" /\ Backups!Verified(b)

\* attach_verified_backup looks neither at the approval nor at the clock.
StartAttach(t, p, b) ==
    /\ Attachable(plans[p], b)
    /\ Begin(t, "copy", "attach", p, None,
             [plans[p] EXCEPT !.state = "ready", !.backup = b])
    /\ UNCHANGED <<store, plans, planFile, backup, ghosts>>

\* execute looks at no state: it blocks any plan.
StartExecute(t, p) ==
    /\ plans[p] # NoPlan
    /\ Begin(t, "copy", "execute", p, None, [plans[p] EXCEPT !.state = "blocked_by_default"])
    /\ UNCHANGED <<store, plans, planFile, backup, ghosts>>

\* updated_plans = dict(self._plans), with the new record.
Copy(t) ==
    /\ pc[t] = "copy"
    /\ pc' = [pc EXCEPT ![t] = "save"]
    /\ draft' = [draft EXCEPT ![t] = [plans EXCEPT ![call[t].plan] = call[t].record]]
    /\ UNCHANGED <<store, plans, planFile, backup, call, image, ghosts, overlapped>>

\* _persist: JsonMetadataStore.save renames a complete new file into place.
Save(t) ==
    /\ pc[t] = "save"
    /\ pc' = [pc EXCEPT ![t] = "swap"]
    /\ planFile' = draft[t]
    /\ UNCHANGED <<store, plans, backup, call, draft, image, ghosts, overlapped>>

\* self._plans = updated_plans, and the plan goes back to the caller.
Swap(t) ==
    /\ pc[t] = "swap"
    /\ plans' = draft[t]
    /\ acked' = acked \cup {<<call[t].plan, call[t].record.state>>}
    /\ Finish(t)
    /\ UNCHANGED <<store, planFile, backup, issued, granted, proved, overlapped>>

\* Where a call may raise with nothing written.
Failing == {"refresh", "decide", "dump", "replace", "save"}

\* Mutant: the new dictionary is installed although the save failed.
RaiseAfterSwap(t) ==
    /\ pc[t] \in Failing
    /\ approval' = IF pc[t] \in Writing THEN Undone(t) ELSE approval
    /\ plans' = IF pc[t] = "save" THEN draft[t] ELSE plans
    /\ Finish(t)
    /\ UNCHANGED <<now, approvalFile, signed, planFile, backup, ghosts, overlapped>>

\* The approval store refuses or cannot be saved, or save does not replace the
\* file (size limit, missing directory, OSError): the call raises.
Raise(t) ==
    /\ pc[t] \in Failing
    /\ approval' = IF pc[t] \in Writing THEN Undone(t) ELSE approval
    /\ Finish(t)
    /\ UNCHANGED <<now, approvalFile, signed, plans, planFile, backup, ghosts, overlapped>>

\* An OSError after os.replace: the file is new, the dictionary is not, and the
\* caller is told that the state cannot be written.
SaveFailsLate(t) ==
    /\ pc[t] = "save"
    /\ planFile' = draft[t]
    /\ Finish(t)
    /\ UNCHANGED <<store, plans, backup, ghosts, overlapped>>

\* The server stops and starts again: requests and plans are those of the files.
Restart ==
    /\ approval' = approvalFile
    /\ plans' = planFile
    /\ pc' = [t \in Thread |-> "idle"]
    /\ call' = [t \in Thread |-> NoCall]
    /\ draft' = [t \in Thread |-> Empty]
    /\ image' = [t \in Thread |-> NoRequests]
    /\ UNCHANGED <<now, approvalFile, signed, planFile, backup, ghosts, overlapped>>

-----------------------------------------------------------------------------
\* Any other use of the approval store: a lookup retires what is overdue, a
\* request of no plan is created or decided. It writes all requests to the file,
\* and when that fails late, memory is taken back.
StoreElsewhere ==
    /\ \E S \in {{}, Approvals!Overdue} : approvalFile' = Retired(S)
    /\ approval' \in {approval, approvalFile'}
    /\ overlapped' = (overlapped \/ \E t \in Thread : Inside(t))
    /\ UNCHANGED <<now, signed, plans, planFile, backup, control, ghosts>>

\* BackupManager.prepare, verify and restore_test with the provider's answer.
BackupStep(b) ==
    /\ Backups!Step(b)
    /\ proved' = IF backup'[b] = "verified" THEN proved \cup {b} ELSE proved
    /\ UNCHANGED <<store, plans, planFile, control, issued, granted, acked, overlapped>>

Tick ==
    /\ now < MaxTime
    /\ now' = now + 1
    /\ UNCHANGED <<approval, approvalFile, signed, plans, planFile, backup, control, ghosts,
                   overlapped>>

Start(t) ==
    \E p \in Plan :
        \/ \E u \in Requester, outcome \in Outcome : StartPlan(t, p, u, outcome)
        \/ \E u \in Approver : StartApprove(t, p, u)
        \/ \E u \in Approver, op \in {"grant", "deny"} : StartRoute(t, p, u, op)
        \/ \E b \in Backup : StartAttach(t, p, b)
        \/ StartExecute(t, p)

Ask(t) == \/ Refresh(t) \/ Decide(t) \/ Overwrite(t) \/ Dump(t) \/ Replace(t)
          \/ RefreshFailsLate(t) \/ ReplaceFailsLate(t)

Next ==
    \/ \E t \in Thread :
        \/ Start(t) \/ Ask(t) \/ Copy(t) \/ Save(t) \/ Swap(t)
        \/ Raise(t) \/ SaveFailsLate(t)
    \/ StoreElsewhere
    \/ \E b \in Backup : BackupStep(b)
    \/ Restart
    \/ Tick

Spec == Init /\ [][Next]_vars

-----------------------------------------------------------------------------
Record == [state : State, actor : Requester, backup : Backup \cup {None}]
Table  == [Plan -> Record \cup {NoPlan}]
Call   == [op : {"none", "plan", "approve", "grant", "deny", "attach", "execute"},
           plan : Plan \cup {None}, by : Requester \cup Approver \cup {None},
           record : Record \cup {NoPlan},
           request : Approvals!Entries \cup {Approvals!NoEntry}]

\* Every variable holds what the Python annotations promise.
TypeOK ==
    /\ Approvals!TypeOK
    /\ Filed!TypeOK
    /\ signed \in [Plan -> {"waiting_approval"} \X Requester \X {None} \cup {None}]
    /\ plans \in Table
    /\ planFile \in Table
    /\ Backups!TypeOK
    /\ pc \in [Thread -> {"idle", "copy", "save", "swap"} \cup Deciding \cup Writing]
    /\ call \in [Thread -> Call]
    /\ draft \in [Thread -> Table]
    /\ image \in [Thread -> [Plan -> Approvals!Entries \cup {Approvals!NoEntry}]]
    /\ issued \subseteq Plan
    /\ granted \subseteq Plan \X Approver
    /\ proved \subseteq Backup
    /\ acked \subseteq Plan \X State
    /\ overlapped \in BOOLEAN

\* The record of p in the dictionary, in the file and in half-stored copies.
Copies(p) == {plans[p], planFile[p]} \cup {draft[t][p] : t \in Thread}

\* A plan counts as approved only if somebody other than its requester was
\* granted the approval, whatever races, failed saves and restarts do: approve
\* asks the approval store first and stores the plan afterwards.
ApprovedByAnother ==
    \A p \in Plan : \A c \in Copies(p) :
        c.state \in {"approved", "ready"} =>
            \E by \in Approver \ {c.actor} : <<p, by>> \in granted

\* A denial that stands in memory or in the file keeps the plan out of approved
\* and ready for good, in every copy, whatever saves fail and whenever the server
\* restarts. Only two calls in the approval store at once can end with a denied
\* request and an approved plan (the decisions that DecidedOnce of ApprovalStore
\* shows to overwrite each other).
DenialHolds ==
    ~overlapped => \A p \in Plan :
        "denied" \in {approval[p].status, approvalFile[p].status} =>
            \A c \in Copies(p) : c.state \notin {"approved", "ready"}

\* Nothing is ready with a backup that was never verified.
ReadyOnProvenBackup ==
    \A p \in Plan : \A c \in Copies(p) : c.state = "ready" => c.backup \in proved

\* How far a plan has come; blocking ends every life.
Rank(state) == CASE state = "absent" -> 0 [] state \in Outcome -> 1
                 [] state = "approved" -> 2 [] state = "ready" -> 3 [] OTHER -> 4
\* What a caller was told about a plan is in the file, or a later state of the
\* plan is: plans are never lost and never fall back.
AckedPlanIsDurable ==
    \A a \in acked : Rank(planFile[a[1]].state) >= Rank(a[2])

\* A backup is only attached while the approval of the plan is still in force
\* when the handler starts.
AttachedInTime ==
    [][\A t \in Thread :
        pc[t] = "idle" /\ call'[t].op = "attach" =>
            now < approval[call'[t].plan].expiresAt]_vars

\* What is signed is what is planned: as long as a plan awaits its approval, in
\* whatever copy, its operation hash is the one in the approval request. (From
\* the approval on it is another one, because the hash covers the status.)
SignedAsPlanned ==
    \A p \in Plan : \A c \in Copies(p) :
        c.state = "approval_required" => signed[p] = OperationHash(c)

Lifecycle == INSTANCE OperationLifecycle
               WITH stage    <- [p \in Plan |-> plans[p].state],
                    attached <- [p \in Plan |-> plans[p].backup]

\* Served by one thread, the plans go through the life OperationLifecycle
\* describes, failed saves and restarts included.
ImplementsLifecycle == Lifecycle!Spec
=============================================================================
