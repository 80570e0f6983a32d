------------------------- MODULE ExecutionPipeline -------------------------
(***************************************************************************)
(* POST /api/execution/evaluate: ExecutionPipelineService.run in           *)
(* control_center/pipeline.py drives the planner, the dry run, the gate    *)
(* (core_operator) and ControlledExecutionService. The approval is looked  *)
(* up twice, the clock is read three times, and in between other threads   *)
(* decide and retire approvals; the records of the runs are appended in    *)
(* memory first and saved afterwards.                                      *)
(*                                                                         *)
(* The approvals are used through what they promise, ApprovalLedger. The   *)
(* role of a user stands for the permissions it gives. The service is the  *)
(* enabled one: disabled, it runs nothing. A call that is refused, or that *)
(* names a request nobody made, changes nothing and is no step.            *)
(***************************************************************************)
EXTENDS Naturals, Sequences, Functions

CONSTANTS
    Request,      \* ids of approval requests
    Thread,       \* handler threads
    User,
    Version,      \* policy versions
    Order,        \* what can be asked for: pairs of an action and a command
    ClassOf,      \* the command class of every order; "modifying", or "other"
                  \* when the action is none the policy knows
    Identities,   \* what the server may find in its identity file
    Ttl,          \* lifetime of an approval request
    MaxTime,      \* bound on the clock
    MaxRuns,      \* bound on the runs of the provider and on the records
    None

Class == {"READ_SAFE", "READ_SENSITIVE", "READ_PRIVILEGED", "FORBIDDEN",
          "modifying", "other"}
Role  == {"ADMIN", "OPERATOR", "DEVELOPER", "VIEWER"}

NoAccount == [role |-> None, enabled |-> FALSE]
Account   == [role : Role, enabled : BOOLEAN] \cup {NoAccount}

ASSUME PipelineAssumption ==
    /\ Ttl \in Nat
    /\ MaxTime \in Nat
    /\ MaxRuns \in Nat
    /\ ClassOf \in [Order -> Class]
    /\ Identities \subseteq [User -> Account]
    /\ None \notin User \cup Order \cup Version \cup Role \cup {"policy", "system"}

VARIABLES
    now,          \* the wall clock
    approval,     \* the approval store
    snapshot,     \* actor, order, permissions and policy version of a request
    account,      \* the identities the server has loaded
    version,      \* the policy version the server runs with
    pc,           \* next step of every thread
    job,          \* what every thread is evaluating
    image,        \* the records a thread is about to save
    records,      \* ControlledExecutionService._records
    file,         \* the JSON file of the state store
    granted,      \* ghost: <<request, user>> for every approval ever given
    runs,         \* ghost: the calls of the provider, in order
    acked         \* ghost: the runs whose record was returned to a caller

env    == <<now, approval, snapshot, account, version, granted>>
ghosts == <<runs, acked>>
vars   == <<env, pc, job, image, records, file, ghosts>>

Approvals == INSTANCE ApprovalLedger
               WITH Requester <- User, Approver <- User, ledger <- approval

-----------------------------------------------------------------------------
\* PolicyEngine.evaluate
Policy(o) == CASE ClassOf[o] \in {"READ_SAFE", "other"} -> "allow"
               [] ClassOf[o] \in {"READ_SENSITIVE", "READ_PRIVILEGED"} -> "approval_required"
               [] OTHER -> "deny"

RiskOf(o) == CASE ClassOf[o] \in {"READ_SAFE", "other"} -> "LOW"
               [] ClassOf[o] = "READ_SENSITIVE" -> "MEDIUM"
               [] ClassOf[o] = "FORBIDDEN" -> "CRITICAL"
               [] OTHER -> "HIGH"

\* required_execution_permission with ROLE_PERMISSIONS
MayEvaluate(u, o) ==
    /\ account[u].enabled
    /\ \/ account[u].role \in {"ADMIN", "OPERATOR"}
       \/ account[u].role = "DEVELOPER" /\ ClassOf[o] = "READ_SAFE"

MayRequest(u) == account[u].enabled /\ account[u].role \in {"ADMIN", "OPERATOR", "DEVELOPER"}
MayApprove(u) == account[u].enabled /\ account[u].role \in {"ADMIN", "OPERATOR"}

NoSnapshot == [actor |-> None, order |-> None, permissions |-> None, version |-> None]
NoJob == [by |-> None, order |-> None, request |-> None, actor |-> None,
          permissions |-> None, ready |-> FALSE, deadline |-> 0, gated |-> 0, run |-> 0]

-----------------------------------------------------------------------------
Init ==
    /\ Approvals!Init
    /\ snapshot = [r \in Request |-> NoSnapshot]
    /\ account \in Identities
    /\ version \in Version
    /\ pc = [t \in Thread |-> "idle"]
    /\ job = [t \in Thread |-> NoJob]
    /\ image = [t \in Thread |-> <<>>]
    /\ records = <<>>
    /\ file = <<>>
    /\ granted = {}
    /\ runs = <<>>
    /\ acked = {}

Finish(t) ==
    /\ pc' = [pc EXCEPT ![t] = "idle"]
    /\ job' = [job EXCEPT ![t] = NoJob]
    /\ image' = [image EXCEPT ![t] = <<>>]

\* POST /api/approvals/request: pending, or denied where the policy denies.
RequestApproval(r, u, o) ==
    /\ MayRequest(u)
    /\ Approvals!Create(r, u, now + Ttl, Policy(o) = "deny")
    /\ snapshot' = [snapshot EXCEPT ![r] =
                      [actor |-> u, order |-> o, permissions |-> account[u].role,
                       version |-> version]]
    /\ UNCHANGED <<account, version, pc, job, image, records, file, granted, ghosts>>

\* POST /api/approvals/approve and /deny.
DecideApproval(r, by, verdict) ==
    /\ MayApprove(by)
    /\ now < approval[r].expiresAt
    /\ Approvals!Decide(r, by, verdict)
    /\ granted' = IF verdict = "approved" THEN granted \cup {<<r, by>>} ELSE granted
    /\ UNCHANGED <<snapshot, account, version, pc, job, image, records, file, ghosts>>

\* Any lookup of another handler retires what is overdue.
RefreshElsewhere ==
    /\ Approvals!Overdue # {}
    /\ Approvals!Expire(Approvals!Overdue)
    /\ UNCHANGED <<snapshot, account, version, pc, job, image, records, file, granted, ghosts>>

\* run: the session must have the permission the order needs.
Begin(t, u, o, r) ==
    /\ pc[t] = "idle"
    /\ MayEvaluate(u, o)
    /\ approval[r] # Approvals!NoEntry
    /\ pc' = [pc EXCEPT ![t] = "read"]
    /\ job' = [job EXCEPT ![t] = [NoJob EXCEPT !.by = u, !.order = o, !.request = r]]
    /\ UNCHANGED <<env, image, records, file, ghosts>>

\* snapshot_permissions: those the actor has now, whether or not the account is
\* enabled; those of the caller when there is no such account.
PermissionsFor(actor, caller) ==
    IF account[actor] = NoAccount THEN account[caller].role ELSE account[actor].role

\* self.approvals.get, after which the permissions are looked up.
Read(t) ==
    LET u == approval[job[t].request].actor IN
    /\ pc[t] = "read"
    /\ Approvals!Expire(Approvals!Overdue)
    /\ pc' = [pc EXCEPT ![t] = "plan"]
    /\ job' = [job EXCEPT ![t].actor = u,
                          ![t].permissions = PermissionsFor(u, job[t].by)]
    /\ UNCHANGED <<snapshot, account, version, image, records, file, granted, ghosts>>

\* The refresh of that lookup cannot be saved; the ValueError is taken for a
\* missing approval and the caller for its actor.
ReadFails(t) ==
    /\ pc[t] = "read"
    /\ Approvals!Overdue # {}
    /\ pc' = [pc EXCEPT ![t] = "plan"]
    /\ job' = [job EXCEPT ![t].actor = job[t].by,
                          ![t].permissions = account[job[t].by].role]
    /\ UNCHANGED <<env, image, records, file, ghosts>>

\* _approval_mismatch_reason
Matches(s, j) ==
    /\ s.actor = j.actor
    /\ s.order = j.order
    /\ s.version = version
    /\ s.permissions = j.permissions

\* Mutants: the status is not looked at; the snapshot is not compared.
PlanIsReadyUndecided(j) ==
    /\ Policy(j.order) = "allow"
    /\ approval[j.request].status \in {"pending", "approved", "denied", "expired"}
    /\ Matches(snapshot[j.request], j)
PlanIsReadyUnmatched(j) ==
    /\ Policy(j.order) = "allow"
    /\ approval[j.request].status = "approved"
    /\ j.request \notin Approvals!Overdue

\* build_plan: READY_TO_EXECUTE, after its own lookup has retired the overdue.
PlanIsReady(j) ==
    /\ Policy(j.order) = "allow"
    /\ approval[j.request].status = "approved"
    /\ j.request \notin Approvals!Overdue
    /\ Matches(snapshot[j.request], j)

BuildPlan(t) ==
    LET j == job[t] IN
    /\ pc[t] = "plan"
    /\ Approvals!Expire(Approvals!Overdue)
    /\ pc' = [pc EXCEPT ![t] = "gate"]
    /\ job' = [job EXCEPT ![t].ready = PlanIsReady(j),
                          ![t].deadline = approval[j.request].expiresAt]
    /\ UNCHANGED <<snapshot, account, version, image, records, file, granted, ghosts>>

\* The lookup of the planner cannot be saved: "approval not found".
BuildPlanFails(t) ==
    /\ pc[t] = "plan"
    /\ Approvals!Overdue # {}
    /\ pc' = [pc EXCEPT ![t] = "gate"]
    /\ UNCHANGED <<env, job, image, records, file, ghosts>>

\* dry_run and ExecutionGate.evaluate, which read the plan and the clock but
\* not the approval store.
Eligible(j) == j.ready /\ RiskOf(j.order) = "LOW" /\ now < j.deadline

Gate(t) ==
    /\ pc[t] = "gate"
    /\ Eligible(job[t])
    /\ pc' = [pc EXCEPT ![t] = "execute"]
    /\ job' = [job EXCEPT ![t].gated = now]
    /\ UNCHANGED <<env, image, records, file, ghosts>>

\* The result is blocked or rejected and nothing is run.
GateBlocks(t) ==
    /\ pc[t] = "gate"
    /\ ~Eligible(job[t])
    /\ Finish(t)
    /\ UNCHANGED <<env, records, file, ghosts>>

\* ControlledExecutionService.request runs the provider, which completes, fails
\* or returns unsafe evidence: each is recorded.
Execute(t) ==
    /\ pc[t] = "execute"
    /\ Len(runs) < MaxRuns
    /\ ClassOf[job[t].order] = "READ_SAFE"
    /\ runs' = Append(runs, [request |-> job[t].request, order |-> job[t].order,
                             gated |-> job[t].gated, version |-> version,
                             account |-> account[job[t].actor]])
    /\ job' = [job EXCEPT ![t].run = Len(runs) + 1]
    /\ pc' = [pc EXCEPT ![t] = "record"]
    /\ UNCHANGED <<env, image, records, file, acked>>

\* An action other than "read" is rejected, which is recorded as well: run 0.
Reject(t) ==
    /\ pc[t] = "execute"
    /\ ClassOf[job[t].order] # "READ_SAFE"
    /\ pc' = [pc EXCEPT ![t] = "record"]
    /\ UNCHANGED <<env, job, image, records, file, ghosts>>

\* _record appends to self._records before anything is saved.
Record(t) ==
    /\ pc[t] = "record"
    /\ Len(records) < MaxRuns
    /\ records' = Append(records, job[t].run)
    /\ pc' = [pc EXCEPT ![t] = "dump"]
    /\ UNCHANGED <<env, job, image, file, ghosts>>

\* JsonMetadataStore.save serialises all records before it takes its lock.
Dump(t) ==
    /\ pc[t] = "dump"
    /\ image' = [image EXCEPT ![t] = records]
    /\ pc' = [pc EXCEPT ![t] = "save"]
    /\ UNCHANGED <<env, job, records, file, ghosts>>

Save(t) ==
    /\ pc[t] = "save"
    /\ file' = image[t]
    /\ acked' = acked \cup {job[t].run}
    /\ Finish(t)
    /\ UNCHANGED <<env, records, runs>>

\* A lookup meets a dictionary that grows (RuntimeError), the session has ended
\* (the second require), or the records cannot be saved: the call raises, and
\* what was appended stays.
Raise(t) ==
    /\ pc[t] \in {"read", "plan", "execute", "dump", "save"}
    /\ Finish(t)
    /\ UNCHANGED <<env, records, file, ghosts>>

\* The server stops; it comes back with the identities and the policy version
\* it then finds, and with the records of the file.
Restart ==
    /\ account' \in Identities
    /\ version' \in Version
    /\ records' = file
    /\ pc' = [t \in Thread |-> "idle"]
    /\ job' = [t \in Thread |-> NoJob]
    /\ image' = [t \in Thread |-> <<>>]
    /\ UNCHANGED <<now, approval, snapshot, file, granted, ghosts>>

Tick ==
    /\ now < MaxTime
    /\ now' = now + 1
    /\ UNCHANGED <<approval, snapshot, account, version, granted, pc, job, image, records,
                   file, ghosts>>

Next ==
    \/ \E t \in Thread :
        \/ \E u \in User, o \in Order, r \in Request : Begin(t, u, o, r)
        \/ Read(t) \/ ReadFails(t) \/ BuildPlan(t) \/ BuildPlanFails(t)
        \/ Gate(t) \/ GateBlocks(t) \/ Execute(t) \/ Reject(t) \/ Record(t) \/ Dump(t) \/ Save(t)
        \/ Raise(t)
    \/ \E r \in Request, u \in User :
        \/ \E o \in Order : RequestApproval(r, u, o)
        \/ \E verdict \in {"approved", "denied"} : DecideApproval(r, u, verdict)
    \/ RefreshElsewhere
    \/ Restart
    \/ Tick

Spec == Init /\ [][Next]_vars

-----------------------------------------------------------------------------
Snapshot == [actor : User, order : Order, permissions : Role, version : Version]
Run      == [request : Request, order : Order, gated : Nat, version : Version,
             account : Account]
Job      == [by : User \cup {None}, order : Order \cup {None},
             request : Request \cup {None}, actor : User \cup {None},
             permissions : Role \cup {None}, ready : BOOLEAN, deadline : Nat,
             gated : Nat, run : 0 .. MaxRuns]

\* Every variable holds what the Python annotations promise, and no plan is
\* built without an actor and the permissions of some account.
TypeOK ==
    /\ Approvals!TypeOK
    /\ snapshot \in [Request -> Snapshot \cup {NoSnapshot}]
    /\ account \in [User -> Account]
    /\ version \in Version
    /\ pc \in [Thread -> {"idle", "read", "plan", "gate", "execute", "record", "dump", "save"}]
    /\ job \in [Thread -> Job]
    /\ \A t \in Thread : pc[t] = "plan" => /\ job[t].actor \in User
                                          /\ job[t].permissions \in Role
    /\ image \in [Thread -> Seq(0 .. MaxRuns)]
    /\ records \in Seq(0 .. MaxRuns)
    /\ file \in Seq(0 .. MaxRuns)
    /\ granted \subseteq Request \X User
    /\ runs \in Seq(Run)
    /\ acked \subseteq 0 .. MaxRuns

\* Nothing is run without an approval that somebody other than the requester
\* gave, and that had not expired when the gate let it through: whatever is
\* decided, retired or restarted between the two lookups, the gate and the run.
RunsAreApproved ==
    \A i \in 1 .. Len(runs) :
        LET r == runs[i].request IN
        /\ \E u \in User \ {snapshot[r].actor} : <<r, u>> \in granted
        /\ runs[i].gated < approval[r].expiresAt

\* What is run is the READ_SAFE order that was signed, under the policy version
\* it was signed under; an actor whose role has changed since blocks it.
RunsAsSigned ==
    \A i \in 1 .. Len(runs) :
        LET s == snapshot[runs[i].request] IN
        /\ ClassOf[runs[i].order] = "READ_SAFE"
        /\ runs[i].order = s.order
        /\ runs[i].version = s.version
        /\ runs[i].account.role \in {s.permissions, None}

\* An actor whose account was disabled or removed since blocks the run too.
RevokedActorBlocks ==
    \A i \in 1 .. Len(runs) : runs[i].account.enabled

\* A record of a run that was returned to a caller is in the file.
AckedRunIsRecorded == acked \subseteq Range(file)
=============================================================================
