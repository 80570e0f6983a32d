---------------------- MODULE ExecutionPipelineProofs ----------------------
(***************************************************************************)
(* That nothing is run but what was approved, as it was signed, for any    *)
(* number of handlers, requests and users. What a handler found out about  *)
(* an approval stays true although the approval may be retired meanwhile,  *)
(* because the deadline and the snapshot of a request never change and     *)
(* grants are never taken back (Lasting).                                  *)
(***************************************************************************)
EXTENDS ExecutionPipeline, TLAPS

Begun   == {"read", "plan"}
Cleared == {"execute", "record", "dump", "save"}
Steps   == {"idle", "gate"} \cup Begun \cup Cleared

\* A request somebody made, and one that somebody else approved.
Known(r, ap) == ap[r] # Approvals!NoEntry
Signed(r, sn, gr) == \E u \in User \ {sn[r].actor} : <<r, u>> \in gr

Requests ==
    /\ Approvals!TypeOK
    /\ snapshot \in [Request -> Snapshot \cup {NoSnapshot}]
    /\ granted \subseteq Request \X User
    /\ \A r \in Request : Known(r, approval) =>
           snapshot[r] \in Snapshot /\ snapshot[r].actor = approval[r].actor
    /\ \A r \in Request : approval[r].status = "approved" => Signed(r, snapshot, granted)

\* What j, at a step, says of its request is true.
JobGood(step, j, ap, sn, ac, ve, gr) ==
    /\ j \in Job
    /\ step = "idle" => j = NoJob
    /\ step # "idle" => /\ j.by \in User /\ j.order \in Order /\ j.request \in Request
                        /\ Known(j.request, ap)
                        /\ ac[j.by].role \in Role
    /\ step \notin {"idle", "read"} => /\ j.actor \in User /\ j.permissions \in Role
                                       /\ ac[j.actor].role \in {j.permissions, None}
    /\ step \in Begun => ~j.ready
    /\ j.ready => /\ Signed(j.request, sn, gr)
                  /\ sn[j.request].order = j.order
                  /\ sn[j.request].version = ve
                  /\ sn[j.request].permissions = j.permissions
                  /\ j.deadline = ap[j.request].expiresAt
    /\ step \in Cleared => j.ready /\ j.gated < j.deadline

JobFine(step, j) == JobGood(step, j, approval, snapshot, account, version, granted)
JobNext(step, j) == JobGood(step, j, approval', snapshot', account', version', granted')

Handlers ==
    /\ account \in [User -> Account]
    /\ version \in Version
    /\ pc \in [Thread -> Steps]
    /\ job \in [Thread -> Job]
    /\ \A t \in Thread : JobFine(pc[t], job[t])

RunGood(run, ap, sn, gr) ==
    /\ run \in Run
    /\ Known(run.request, ap)
    /\ Signed(run.request, sn, gr)
    /\ run.gated < ap[run.request].expiresAt
    /\ ClassOf[run.order] = "READ_SAFE"
    /\ run.order = sn[run.request].order
    /\ run.version = sn[run.request].version
    /\ run.account.role \in {sn[run.request].permissions, None}

Storage ==
    /\ image \in [Thread -> Seq(0 .. MaxRuns)]
    /\ records \in Seq(0 .. MaxRuns)
    /\ file \in Seq(0 .. MaxRuns)
    /\ runs \in Seq(Run)
    /\ Len(runs) <= MaxRuns
    /\ acked \subseteq 0 .. MaxRuns
    /\ \A i \in 1 .. Len(runs) : RunGood(runs[i], approval, snapshot, granted)

IInv == Requests /\ Handlers /\ Storage

-----------------------------------------------------------------------------
LEMMA NoJobIsGood ==
    ASSUME PipelineAssumption, NEW ap, NEW sn, NEW ac, NEW ve, NEW gr
    PROVE  NoJob \in Job /\ JobGood("idle", NoJob, ap, sn, ac, ve, gr)
<1>1. NoJob \in Job /\ NoJob.ready = FALSE
  BY DEF PipelineAssumption, NoJob, Job
<1>2. QED
  BY <1>1 DEF JobGood, Begun, Cleared

LEMMA InitIInv == PipelineAssumption /\ Init => IInv
<1> SUFFICES ASSUME PipelineAssumption, Init PROVE IInv
  OBVIOUS
<1>1. Requests
  BY DEF Init, Requests, Approvals!Init, Approvals!TypeOK, Approvals!NoEntry, Known
<1>2. Handlers
  BY NoJobIsGood DEF Init, Handlers, JobFine, Steps, PipelineAssumption
<1>3. Storage
  BY DEF Init, Storage, PipelineAssumption
<1>4. QED
  BY <1>1, <1>2, <1>3 DEF IInv

\* What stays true of a request.
Lasting ==
    /\ \A r \in Request : Known(r, approval) =>
           /\ Known(r, approval')
           /\ approval'[r].expiresAt = approval[r].expiresAt
           /\ snapshot'[r] = snapshot[r]
    /\ granted \subseteq granted'

LEMMA JobIsStable ==
    ASSUME NEW step \in Steps, NEW j, PipelineAssumption, Lasting, account' = account,
           version' = version, JobFine(step, j)
    PROVE  JobNext(step, j)
<1>1. CASE step = "idle"
  BY <1>1, NoJobIsGood DEF JobFine, JobNext, JobGood
<1>2. CASE step # "idle"
  <2>1. /\ j.request \in Request /\ Known(j.request, approval) /\ Known(j.request, approval')
        /\ approval'[j.request].expiresAt = approval[j.request].expiresAt
        /\ snapshot'[j.request] = snapshot[j.request]
    BY <1>2 DEF JobFine, JobGood, Lasting
  <2>2. Signed(j.request, snapshot, granted) => Signed(j.request, snapshot', granted')
    BY <2>1 DEF Signed, Lasting
  <2>3. QED
    BY <1>2, <2>1, <2>2 DEF JobFine, JobNext, JobGood
<1>3. QED
  BY <1>1, <1>2

LEMMA RunIsStable ==
    ASSUME NEW run, Lasting, RunGood(run, approval, snapshot, granted)
    PROVE  RunGood(run, approval', snapshot', granted')
<1>1. /\ run.request \in Request /\ Known(run.request, approval')
      /\ approval'[run.request].expiresAt = approval[run.request].expiresAt
      /\ snapshot'[run.request] = snapshot[run.request]
  BY DEF RunGood, Run, Lasting
<1>2. Signed(run.request, snapshot', granted')
  BY <1>1 DEF RunGood, Signed, Lasting
<1>3. QED
  BY <1>1, <1>2 DEF RunGood

LEMMA HandlersKept ==
    ASSUME PipelineAssumption, Handlers, Lasting, UNCHANGED <<pc, job, account, version>>
    PROVE  Handlers'
<1>1. \A t \in Thread : JobNext(pc[t], job[t])
  BY JobIsStable DEF Handlers
<1>2. QED
  BY <1>1 DEF Handlers, JobFine, JobNext

LEMMA HandlerStep ==
    ASSUME PipelineAssumption, Handlers, Lasting, account' = account, version' = version,
           NEW t \in Thread, NEW step \in Steps, NEW j,
           pc' = [pc EXCEPT ![t] = step], job' = [job EXCEPT ![t] = j],
           JobNext(step, j)
    PROVE  Handlers'
<1>1. j \in Job
  BY DEF JobNext, JobGood
<1>2. pc' \in [Thread -> Steps] /\ job' \in [Thread -> Job]
  BY <1>1 DEF Handlers
<1>3. ASSUME NEW s \in Thread PROVE JobNext(pc'[s], job'[s])
  <2>1. CASE s = t
    BY <2>1 DEF Handlers
  <2>2. CASE s # t
    BY <2>2, JobIsStable DEF Handlers
  <2>3. QED
    BY <2>1, <2>2
<1>4. QED
  BY <1>2, <1>3 DEF Handlers, JobFine, JobNext

LEMMA StorageKept ==
    ASSUME Storage, Lasting, UNCHANGED <<records, file, ghosts>>,
           image' \in [Thread -> Seq(0 .. MaxRuns)]
    PROVE  Storage'
<1>1. \A i \in 1 .. Len(runs) : RunGood(runs[i], approval', snapshot', granted')
  BY RunIsStable DEF Storage
<1>2. QED
  BY <1>1 DEF Storage, ghosts

-----------------------------------------------------------------------------
(* What the operations of the approval store do to requests.               *)

\* Nothing is done to them, whatever the time.
LEMMA RequestsKept ==
    ASSUME Requests, UNCHANGED <<approval, snapshot, granted>>, now' \in Nat
    PROVE  Requests' /\ Lasting
BY DEF Requests, Lasting, Known, Signed, Approvals!TypeOK

LEMMA ExpireStep ==
    ASSUME Requests, Approvals!Expire(Approvals!Overdue), UNCHANGED <<snapshot, granted>>
    PROVE  /\ Requests' /\ Lasting
           /\ \A r \in Request : approval'[r].expiresAt = approval[r].expiresAt
<1>1. /\ now \in Nat /\ now' = now
      /\ approval \in [Request -> Approvals!Entries \cup {Approvals!NoEntry}]
      /\ approval' = [r \in Request |-> IF r \in Approvals!Overdue
                                         THEN [approval[r] EXCEPT !.status = "expired",
                                                                  !.decidedBy = "system"]
                                         ELSE approval[r]]
  BY DEF Requests, Approvals!TypeOK, Approvals!Expire
<1>2. ASSUME NEW r \in Approvals!Overdue
      PROVE  r \in Request /\ approval[r] \in Approvals!Entries
  <2>1. /\ r \in Request /\ approval[r].status \in {"pending", "approved"}
        /\ approval[r] \in Approvals!Entries \cup {Approvals!NoEntry}
    BY <1>1 DEF Approvals!Overdue
  <2>2. QED
    BY <2>1 DEF Approvals!NoEntry
<1>3. ASSUME NEW e \in Approvals!Entries
      PROVE  LET d == [e EXCEPT !.status = "expired", !.decidedBy = "system"] IN
             /\ d \in Approvals!Entries /\ d # Approvals!NoEntry
             /\ d.status = "expired" /\ d.actor = e.actor /\ d.expiresAt = e.expiresAt
  BY DEF Approvals!Entries, Approvals!NoEntry
<1>4. ASSUME NEW r \in Request
      PROVE  /\ approval'[r] \in Approvals!Entries \cup {Approvals!NoEntry}
             /\ approval'[r].expiresAt = approval[r].expiresAt
             /\ approval'[r].actor = approval[r].actor
             /\ approval'[r].status = "approved" => approval[r].status = "approved"
             /\ Known(r, approval') <=> Known(r, approval)
  <2>1. CASE r \in Approvals!Overdue
    <3>1. approval[r] # Approvals!NoEntry
      BY <2>1 DEF Approvals!Overdue, Approvals!NoEntry
    <3>2. QED
      BY <1>1, <1>2, <1>3, <2>1, <3>1 DEF Known
  <2>2. CASE r \notin Approvals!Overdue
    BY <1>1, <2>2 DEF Known
  <2>3. QED
    BY <2>1, <2>2
<1>5. Requests'
  <2>1. Approvals!TypeOK'
    BY <1>1, <1>4 DEF Approvals!TypeOK
  <2>2. QED
    BY <1>4, <2>1 DEF Requests, Signed
<1>6. QED
  BY <1>4, <1>5 DEF Lasting

LEMMA DecideStep ==
    ASSUME IInv, NEW r \in Request, NEW by \in User, NEW verdict \in {"approved", "denied"},
           DecideApproval(r, by, verdict)
    PROVE  Requests' /\ Lasting
<1>1. /\ now \in Nat /\ now' = now
      /\ approval \in [Request -> Approvals!Entries \cup {Approvals!NoEntry}]
      /\ approval[r].status = "pending" /\ approval[r].actor # by
      /\ approval' = [approval EXCEPT ![r] =
                        [approval[r] EXCEPT !.status = verdict, !.decidedBy = by]]
      /\ granted' = IF verdict = "approved" THEN granted \cup {<<r, by>>} ELSE granted
      /\ snapshot' = snapshot
  BY DEF IInv, Requests, Approvals!TypeOK, DecideApproval, Approvals!Decide
<1>2. approval[r] \in Approvals!Entries /\ Known(r, approval)
  BY <1>1 DEF Approvals!NoEntry, Known
<1>3. LET d == [approval[r] EXCEPT !.status = verdict, !.decidedBy = by] IN
      /\ d \in Approvals!Entries /\ d # Approvals!NoEntry
      /\ d.status = verdict /\ d.actor = approval[r].actor
      /\ d.expiresAt = approval[r].expiresAt
  BY <1>2 DEF Approvals!Entries, Approvals!NoEntry
<1>4. /\ approval'[r] \in Approvals!Entries /\ Known(r, approval')
      /\ approval'[r].status = verdict /\ approval'[r].actor = approval[r].actor
      /\ approval'[r].expiresAt = approval[r].expiresAt
      /\ \A q \in Request : q # r => approval'[q] = approval[q]
  BY <1>1, <1>3 DEF Known
<1>5. Approvals!TypeOK'
  BY <1>1, <1>3 DEF Approvals!TypeOK
<1>6. granted \subseteq granted' /\ granted' \subseteq Request \X User
  BY <1>1 DEF IInv, Requests
<1>7. ASSUME NEW q \in Request, approval'[q].status = "approved"
      PROVE  Signed(q, snapshot', granted')
  <2>1. CASE q = r
    <3>1. <<r, by>> \in granted' /\ by # snapshot[r].actor
      BY <1>1, <1>2, <1>4, <1>7, <2>1 DEF IInv, Requests
    <3>2. QED
      BY <1>1, <2>1, <3>1 DEF Signed
  <2>2. CASE q # r
    BY <1>1, <1>4, <1>6, <1>7, <2>2 DEF IInv, Requests, Signed
  <2>3. QED
    BY <2>1, <2>2
<1>8. Lasting
  BY <1>1, <1>4, <1>6 DEF Lasting, Known
<1>9. \A q \in Request : Known(q, approval') =>
          snapshot'[q] \in Snapshot /\ snapshot'[q].actor = approval'[q].actor
  BY <1>1, <1>2, <1>4 DEF IInv, Requests, Known
<1>10. QED
  BY <1>1, <1>5, <1>6, <1>7, <1>8, <1>9 DEF IInv, Requests

LEMMA RequestStep ==
    ASSUME PipelineAssumption, IInv, NEW r \in Request, NEW u \in User, NEW o \in Order,
           RequestApproval(r, u, o)
    PROVE  Requests' /\ Lasting
<1> DEFINE e == [status |-> IF Policy(o) = "deny" THEN "denied" ELSE "pending", actor |-> u,
                 expiresAt |-> now + Ttl,
                 decidedBy |-> IF Policy(o) = "deny" THEN "policy" ELSE None]
           s == [actor |-> u, order |-> o, permissions |-> account[u].role,
                 version |-> version]
<1>1. /\ now \in Nat /\ now' = now /\ now + Ttl \in Nat
      /\ approval \in [Request -> Approvals!Entries \cup {Approvals!NoEntry}]
      /\ approval[r] = Approvals!NoEntry
      /\ approval' = [approval EXCEPT ![r] = e]
      /\ snapshot' = [snapshot EXCEPT ![r] = s]
      /\ granted' = granted
  BY DEF IInv, Requests, Approvals!TypeOK, RequestApproval, Approvals!Create,
         PipelineAssumption
<1>2. /\ e \in Approvals!Entries /\ e # Approvals!NoEntry /\ e.status # "approved"
      /\ e.actor = u
  BY <1>1 DEF Approvals!Entries, Approvals!NoEntry
<1>3. s \in Snapshot /\ s.actor = u
  <2>1. account[u].role \in Role /\ version \in Version
    BY DEF IInv, Handlers, RequestApproval, MayRequest, Role
  <2>2. QED
    BY <2>1 DEF Snapshot
<1> HIDE DEF e, s
<1>4. /\ approval'[r] = e /\ snapshot'[r] = s
      /\ \A q \in Request : q # r => approval'[q] = approval[q] /\ snapshot'[q] = snapshot[q]
  BY <1>1 DEF IInv, Requests
<1>5. Approvals!TypeOK' /\ snapshot' \in [Request -> Snapshot \cup {NoSnapshot}]
  BY <1>1, <1>2, <1>3 DEF IInv, Requests, Approvals!TypeOK
<1>6. \A q \in Request : Known(q, approval') =>
          snapshot'[q] \in Snapshot /\ snapshot'[q].actor = approval'[q].actor
  BY <1>2, <1>3, <1>4 DEF IInv, Requests, Known
<1>7. \A q \in Request : approval'[q].status = "approved" => Signed(q, snapshot', granted')
  BY <1>1, <1>2, <1>4 DEF IInv, Requests, Signed
<1>8. Lasting
  BY <1>1, <1>4 DEF Lasting, Known
<1>9. QED
  BY <1>1, <1>5, <1>6, <1>7, <1>8 DEF IInv, Requests

-----------------------------------------------------------------------------
(* The steps of one handler.                                               *)

LEMMA EnvKept ==
    ASSUME IInv, UNCHANGED env
    PROVE  Requests' /\ Lasting /\ account' = account /\ version' = version
<1>1. now' \in Nat /\ UNCHANGED <<approval, snapshot, granted, account, version>>
  BY DEF IInv, Requests, Approvals!TypeOK, env
<1>2. QED
  BY <1>1, RequestsKept DEF IInv

\* The handler of t is done and stores nothing.
LEMMA Finishing ==
    ASSUME PipelineAssumption, IInv, NEW t \in Thread, Finish(t), UNCHANGED env
    PROVE  Requests' /\ Lasting /\ Handlers' /\ image' \in [Thread -> Seq(0 .. MaxRuns)]
<1>1. Requests' /\ Lasting /\ account' = account /\ version' = version
  BY EnvKept
<1>2. /\ pc' = [pc EXCEPT ![t] = "idle"] /\ job' = [job EXCEPT ![t] = NoJob]
      /\ image' = [image EXCEPT ![t] = <<>>]
  BY DEF Finish
<1>3. Handlers'
  BY <1>1, <1>2, NoJobIsGood, HandlerStep DEF IInv, JobNext, Steps
<1>4. QED
  BY <1>1, <1>2, <1>3 DEF IInv, Storage

\* What the handler of t knows before a step.
LEMMA JobFacts ==
    ASSUME Handlers, NEW t \in Thread
    PROVE  /\ job[t] \in Job /\ JobFine(pc[t], job[t])
           /\ pc[t] # "idle" => /\ job[t].by \in User /\ job[t].order \in Order
                                /\ job[t].request \in Request
                                /\ Known(job[t].request, approval)
                                /\ account[job[t].by].role \in Role
BY DEF Handlers, JobFine, JobGood

LEMMA BeginStep ==
    ASSUME PipelineAssumption, IInv, NEW t \in Thread, NEW u \in User, NEW o \in Order,
           NEW r \in Request, Begin(t, u, o, r)
    PROVE  IInv'
<1> DEFINE j == [NoJob EXCEPT !.by = u, !.order = o, !.request = r]
<1>1. Requests' /\ Lasting /\ account' = account /\ version' = version
  BY EnvKept DEF Begin
<1>2. /\ j \in Job /\ j.by = u /\ j.order = o /\ j.request = r /\ j.ready = FALSE
  BY NoJobIsGood DEF NoJob, Job
<1>3. /\ pc' = [pc EXCEPT ![t] = "read"] /\ job' = [job EXCEPT ![t] = j]
      /\ Known(r, approval) /\ account[u].role \in Role
      /\ UNCHANGED <<records, file, ghosts, image>>
  BY DEF Begin, Known, MayEvaluate, Role
<1> HIDE DEF j
<1>4. JobNext("read", j)
  BY <1>1, <1>2, <1>3 DEF JobNext, JobGood, Begun, Cleared, Lasting
<1>5. Handlers'
  BY <1>1, <1>3, <1>4, HandlerStep DEF IInv, Steps, Begun
<1>6. Storage'
  BY <1>1, <1>3, StorageKept DEF IInv, Storage
<1>7. QED
  BY <1>1, <1>5, <1>6 DEF IInv

\* A job that learns for whom it works stays as it is otherwise.
LEMMA Learning ==
    ASSUME PipelineAssumption, IInv, Lasting, account' = account, version' = version,
           NEW t \in Thread, pc[t] = "read",
           NEW u \in User, NEW role \in Role, account[u].role \in {role, None},
           pc' = [pc EXCEPT ![t] = "plan"],
           job' = [job EXCEPT ![t].actor = u, ![t].permissions = role]
    PROVE  Handlers'
<1> DEFINE j == [job[t] EXCEPT !.actor = u, !.permissions = role]
<1>1. /\ job[t] \in Job /\ JobFine("read", job[t])
      /\ job[t].by \in User /\ job[t].order \in Order /\ job[t].request \in Request
      /\ Known(job[t].request, approval) /\ account[job[t].by].role \in Role
  BY JobFacts DEF IInv
<1>2. job[t].ready = FALSE
  BY <1>1 DEF JobFine, JobGood, Begun, Job
<1>3. /\ j \in Job /\ j.actor = u /\ j.permissions = role
      /\ j.by = job[t].by /\ j.order = job[t].order /\ j.request = job[t].request
      /\ j.ready = FALSE
  BY <1>1, <1>2 DEF Job
<1>4. job' = [job EXCEPT ![t] = j]
  BY DEF IInv, Handlers
<1> HIDE DEF j
<1>5. JobNext("plan", j)
  BY <1>1, <1>3 DEF JobNext, JobGood, Begun, Cleared, Lasting
<1>6. QED
  BY <1>4, <1>5, HandlerStep DEF IInv, Steps, Begun

LEMMA AccountRole ==
    ASSUME IInv, NEW u \in User, account[u] # NoAccount
    PROVE  account[u].role \in Role
BY DEF IInv, Handlers, Account

LEMMA ReadStep ==
    ASSUME PipelineAssumption, IInv, NEW t \in Thread, Read(t)
    PROVE  IInv'
<1> DEFINE u == approval[job[t].request].actor
<1>1. /\ Requests' /\ Lasting /\ account' = account /\ version' = version
      /\ UNCHANGED <<records, file, ghosts, image>>
  BY ExpireStep DEF Read, IInv
<1>2. /\ job[t].by \in User /\ job[t].request \in Request
      /\ Known(job[t].request, approval) /\ account[job[t].by].role \in Role
  BY JobFacts DEF IInv, Read
<1>3. u \in User
  BY <1>2 DEF IInv, Requests, Approvals!TypeOK, Known, Approvals!Entries
<1> HIDE DEF u
<1>4. /\ PermissionsFor(u, job[t].by) \in Role
      /\ account[u].role \in {PermissionsFor(u, job[t].by), None}
  <2>1. CASE account[u] = NoAccount
    BY <1>2, <2>1 DEF PermissionsFor, NoAccount
  <2>2. CASE account[u] # NoAccount
    BY <1>3, <2>2, AccountRole DEF PermissionsFor
  <2>3. QED
    BY <2>1, <2>2
<1>5. Handlers'
  BY <1>1, <1>3, <1>4, Learning DEF Read, u
<1>6. Storage'
  BY <1>1, StorageKept DEF IInv, Storage
<1>7. QED
  BY <1>1, <1>5, <1>6 DEF IInv

LEMMA ReadFailsStep ==
    ASSUME PipelineAssumption, IInv, NEW t \in Thread, ReadFails(t)
    PROVE  IInv'
<1>1. /\ Requests' /\ Lasting /\ account' = account /\ version' = version
      /\ UNCHANGED <<records, file, ghosts, image>>
  BY EnvKept DEF ReadFails
<1>2. job[t].by \in User /\ account[job[t].by].role \in Role
  BY JobFacts DEF IInv, ReadFails
<1>3. Handlers'
  BY <1>1, <1>2, Learning DEF ReadFails
<1>4. Storage'
  BY <1>1, StorageKept DEF IInv, Storage
<1>5. QED
  BY <1>1, <1>3, <1>4 DEF IInv

LEMMA BuildPlanStep ==
    ASSUME PipelineAssumption, IInv, NEW t \in Thread, BuildPlan(t)
    PROVE  IInv'
<1> DEFINE r == job[t].request
           j == [job[t] EXCEPT !.ready = PlanIsReady(job[t]),
                               !.deadline = approval[r].expiresAt]
<1>1. /\ Requests' /\ Lasting /\ account' = account /\ version' = version
      /\ snapshot' = snapshot /\ granted' = granted
      /\ UNCHANGED <<records, file, ghosts, image>>
      /\ \A q \in Request : approval'[q].expiresAt = approval[q].expiresAt
  BY ExpireStep DEF BuildPlan, IInv
<1>2. /\ job[t] \in Job /\ JobFine("plan", job[t])
      /\ r \in Request /\ Known(r, approval)
  BY JobFacts DEF IInv, BuildPlan
<1>3. PlanIsReady(job[t]) \in BOOLEAN /\ approval[r].expiresAt \in Nat
  <2>1. approval[r] \in Approvals!Entries
    BY <1>2 DEF IInv, Requests, Approvals!TypeOK, Known
  <2>2. QED
    BY <2>1 DEF PlanIsReady, Approvals!Entries
<1>4. PlanIsReady(job[t]) => /\ Signed(r, snapshot, granted)
                             /\ snapshot[r].order = job[t].order
                             /\ snapshot[r].version = version
                             /\ snapshot[r].permissions = job[t].permissions
  BY <1>2 DEF PlanIsReady, Matches, IInv, Requests
<1>5. job' = [job EXCEPT ![t] = j] /\ pc' = [pc EXCEPT ![t] = "gate"]
  BY DEF BuildPlan, IInv, Handlers
<1>6. /\ j \in Job /\ j.ready = PlanIsReady(job[t]) /\ j.deadline = approval[r].expiresAt
      /\ j.by = job[t].by /\ j.order = job[t].order /\ j.request = r
      /\ j.actor = job[t].actor /\ j.permissions = job[t].permissions
  BY <1>2, <1>3 DEF Job
<1> HIDE DEF j, r
<1>7. JobNext("gate", j)
  <2>1. /\ j.by \in User /\ j.order \in Order /\ j.request \in Request
        /\ Known(j.request, approval') /\ account'[j.by].role \in Role
        /\ j.actor \in User /\ j.permissions \in Role
        /\ account'[j.actor].role \in {j.permissions, None}
    BY <1>1, <1>2, <1>6 DEF JobFine, JobGood, Lasting
  <2>2. j.ready => /\ Signed(j.request, snapshot', granted')
                   /\ snapshot'[j.request].order = j.order
                   /\ snapshot'[j.request].version = version'
                   /\ snapshot'[j.request].permissions = j.permissions
                   /\ j.deadline = approval'[j.request].expiresAt
    BY <1>1, <1>2, <1>4, <1>6
  <2>3. QED
    BY <1>6, <2>1, <2>2 DEF JobNext, JobGood, Begun, Cleared
<1>8. Handlers'
  BY <1>1, <1>5, <1>7, HandlerStep DEF IInv, Steps
<1>9. Storage'
  BY <1>1, StorageKept DEF IInv, Storage
<1>10. QED
  BY <1>1, <1>8, <1>9 DEF IInv

\* The handler of t goes on to a step that asks no more of its job.
LEMMA GoingOn ==
    ASSUME PipelineAssumption, IInv, NEW t \in Thread, NEW step \in Steps, UNCHANGED <<env, job>>,
           \/ pc[t] = "plan" /\ step = "gate"
           \/ pc[t] \in Cleared /\ step \in Cleared,
           pc' = [pc EXCEPT ![t] = step]
    PROVE  Requests' /\ Lasting /\ Handlers'
<1>1. Requests' /\ Lasting /\ account' = account /\ version' = version
  BY EnvKept
<1>2. /\ job[t] \in Job /\ JobFine(pc[t], job[t])
  BY JobFacts DEF IInv
<1>3. JobFine(step, job[t])
  BY <1>2 DEF JobFine, JobGood, Begun, Cleared
<1>4. JobNext(step, job[t])
  BY <1>1, <1>3, JobIsStable
<1>5. job' = [job EXCEPT ![t] = job[t]]
  BY DEF IInv, Handlers
<1>6. QED
  BY <1>1, <1>4, <1>5, HandlerStep DEF IInv

LEMMA BuildPlanFailsStep ==
    ASSUME PipelineAssumption, IInv, NEW t \in Thread, BuildPlanFails(t)
    PROVE  IInv'
<1>1. Requests' /\ Lasting /\ Handlers'
  BY GoingOn DEF BuildPlanFails, Steps
<1>2. Storage'
  BY <1>1, StorageKept DEF BuildPlanFails, IInv, Storage
<1>3. QED
  BY <1>1, <1>2 DEF IInv

\* The gate lets a job through whose deadline lies ahead.
LEMMA GateStep ==
    ASSUME PipelineAssumption, IInv, NEW t \in Thread, Gate(t)
    PROVE  IInv'
<1> DEFINE j == [job[t] EXCEPT !.gated = now]
<1>1. /\ Requests' /\ Lasting /\ account' = account /\ version' = version
      /\ UNCHANGED <<records, file, ghosts, image>>
  BY EnvKept DEF Gate
<1>2. /\ job[t] \in Job /\ JobFine("gate", job[t]) /\ job[t].ready /\ now < job[t].deadline
      /\ now \in Nat
  BY JobFacts DEF IInv, Gate, Eligible, Requests, Approvals!TypeOK
<1>3. job' = [job EXCEPT ![t] = j] /\ pc' = [pc EXCEPT ![t] = "execute"]
  BY DEF Gate, IInv, Handlers
<1>4. /\ j \in Job /\ j.gated = now /\ j.deadline = job[t].deadline /\ j.ready = job[t].ready
      /\ j.by = job[t].by /\ j.order = job[t].order /\ j.request = job[t].request
      /\ j.actor = job[t].actor /\ j.permissions = job[t].permissions
  BY <1>2 DEF Job
<1> HIDE DEF j
<1>5. JobFine("execute", j)
  BY <1>2, <1>4 DEF JobFine, JobGood, Begun, Cleared
<1>6. JobNext("execute", j)
  BY <1>1, <1>5, JobIsStable DEF Steps, Cleared
<1>7. Handlers'
  BY <1>1, <1>3, <1>6, HandlerStep DEF IInv, Steps, Cleared
<1>8. Storage'
  BY <1>1, StorageKept DEF IInv, Storage
<1>9. QED
  BY <1>1, <1>7, <1>8 DEF IInv

LEMMA EndStep ==
    ASSUME PipelineAssumption, IInv, NEW t \in Thread, GateBlocks(t) \/ Raise(t)
    PROVE  IInv'
<1>1. /\ Finish(t) /\ UNCHANGED <<env, records, file, ghosts>>
  BY DEF GateBlocks, Raise
<1>2. Requests' /\ Lasting /\ Handlers' /\ image' \in [Thread -> Seq(0 .. MaxRuns)]
  BY <1>1, Finishing
<1>3. Storage'
  BY <1>1, <1>2, StorageKept DEF IInv
<1>4. QED
  BY <1>2, <1>3 DEF IInv

\* What is run was approved, as it was signed.
LEMMA ExecuteStep ==
    ASSUME PipelineAssumption, IInv, NEW t \in Thread, Execute(t)
    PROVE  IInv'
<1> DEFINE n == Len(runs) + 1
           j == [job[t] EXCEPT !.run = n]
           run == [request |-> job[t].request, order |-> job[t].order,
                   gated |-> job[t].gated, version |-> version,
                   account |-> account[job[t].actor]]
<1>1. /\ Requests' /\ Lasting /\ account' = account /\ version' = version
      /\ UNCHANGED <<approval, snapshot, granted, records, file, acked, image>>
  BY EnvKept DEF Execute, env
<1>2. /\ job[t] \in Job /\ JobFine("execute", job[t]) /\ ClassOf[job[t].order] = "READ_SAFE"
      /\ job[t].request \in Request /\ job[t].order \in Order
      /\ Known(job[t].request, approval) /\ job[t].actor \in User
  BY JobFacts DEF IInv, Execute, JobFine, JobGood, Begun
<1>3. n \in 0 .. MaxRuns
  BY DEF Execute, IInv, Storage, PipelineAssumption
<1>4. /\ j \in Job /\ j.gated = job[t].gated /\ j.deadline = job[t].deadline
      /\ j.ready = job[t].ready /\ j.by = job[t].by /\ j.order = job[t].order
      /\ j.request = job[t].request /\ j.actor = job[t].actor
      /\ j.permissions = job[t].permissions
  BY <1>2, <1>3 DEF Job
<1>5. job' = [job EXCEPT ![t] = j] /\ pc' = [pc EXCEPT ![t] = "record"]
  BY DEF Execute, IInv, Handlers
<1>6. runs' = Append(runs, run)
  BY DEF Execute
<1>7. RunGood(run, approval, snapshot, granted)
  <2>1. /\ run.request = job[t].request /\ run.order = job[t].order
        /\ run.gated = job[t].gated /\ run.version = version
        /\ run.account = account[job[t].actor]
    OBVIOUS
  <2>2. run \in Run
    BY <1>2 DEF Run, Job, IInv, Handlers
  <2>3. /\ Signed(job[t].request, snapshot, granted)
        /\ snapshot[job[t].request].order = job[t].order
        /\ snapshot[job[t].request].version = version
        /\ snapshot[job[t].request].permissions = job[t].permissions
        /\ job[t].gated < approval[job[t].request].expiresAt
        /\ account[job[t].actor].role \in {job[t].permissions, None}
    BY <1>2 DEF JobFine, JobGood, Begun, Cleared
  <2> HIDE DEF run
  <2>4. QED
    BY <1>2, <2>1, <2>2, <2>3 DEF RunGood
<1> HIDE DEF j, run
<1>8. JobFine("record", j)
  BY <1>2, <1>4 DEF JobFine, JobGood, Begun, Cleared
<1>9. JobNext("record", j)
  BY <1>1, <1>8, JobIsStable DEF Steps, Cleared
<1>10. Handlers'
  BY <1>1, <1>5, <1>9, HandlerStep DEF IInv, Steps, Cleared
<1>11. Storage'
  <2>1. /\ runs \in Seq(Run) /\ run \in Run /\ Len(runs) < MaxRuns
    BY <1>7 DEF IInv, Storage, RunGood, Execute
  <2>2. /\ runs' \in Seq(Run) /\ Len(runs') = Len(runs) + 1 /\ Len(runs') <= MaxRuns
        /\ runs'[Len(runs) + 1] = run
        /\ \A i \in 1 .. Len(runs) : runs'[i] = runs[i]
    BY <1>6, <2>1 DEF PipelineAssumption
  <2>3. ASSUME NEW i \in 1 .. Len(runs') PROVE RunGood(runs'[i], approval, snapshot, granted)
    <3>1. CASE i \in 1 .. Len(runs)
      BY <2>2, <3>1 DEF IInv, Storage
    <3>2. CASE i = Len(runs) + 1
      BY <1>7, <2>2, <3>2
    <3>3. QED
      BY <2>1, <2>2, <3>1, <3>2
  <2>4. QED
    BY <1>1, <2>2, <2>3 DEF IInv, Storage
<1>12. QED
  BY <1>1, <1>10, <1>11 DEF IInv

LEMMA RejectStep ==
    ASSUME PipelineAssumption, IInv, NEW t \in Thread, Reject(t)
    PROVE  IInv'
<1>1. Requests' /\ Lasting /\ Handlers'
  BY GoingOn DEF Reject, Steps, Cleared
<1>2. Storage'
  BY <1>1, StorageKept DEF Reject, IInv, Storage
<1>3. QED
  BY <1>1, <1>2 DEF IInv

LEMMA RecordStep ==
    ASSUME PipelineAssumption, IInv, NEW t \in Thread, Record(t)
    PROVE  IInv'
<1>1. Requests' /\ Lasting /\ Handlers'
  BY GoingOn DEF Record, Steps, Cleared
<1>2. job[t].run \in 0 .. MaxRuns
  BY JobFacts DEF IInv, Job
<1>3. /\ records' \in Seq(0 .. MaxRuns)
      /\ UNCHANGED <<approval, snapshot, granted, image, file, runs, acked>>
  BY <1>2 DEF Record, IInv, Storage, env, ghosts
<1>4. Storage'
  BY <1>3 DEF IInv, Storage
<1>5. QED
  BY <1>1, <1>4 DEF IInv

LEMMA DumpStep ==
    ASSUME PipelineAssumption, IInv, NEW t \in Thread, Dump(t)
    PROVE  IInv'
<1>1. Requests' /\ Lasting /\ Handlers'
  BY GoingOn DEF Dump, Steps, Cleared
<1>2. Storage'
  BY <1>1, StorageKept DEF Dump, IInv, Storage
<1>3. QED
  BY <1>1, <1>2 DEF IInv

LEMMA SaveStep ==
    ASSUME PipelineAssumption, IInv, NEW t \in Thread, Save(t)
    PROVE  IInv'
<1>1. Requests' /\ Lasting /\ Handlers' /\ image' \in [Thread -> Seq(0 .. MaxRuns)]
  BY Finishing DEF Save
<1>2. job[t].run \in 0 .. MaxRuns
  BY JobFacts DEF IInv, Job
<1>3. /\ file' \in Seq(0 .. MaxRuns) /\ acked' \subseteq 0 .. MaxRuns
      /\ UNCHANGED <<approval, snapshot, granted, records, runs>>
  BY <1>2 DEF Save, IInv, Storage, env
<1>4. Storage'
  BY <1>1, <1>3 DEF IInv, Storage
<1>5. QED
  BY <1>1, <1>4 DEF IInv

-----------------------------------------------------------------------------
(* The steps of everybody else.                                            *)

\* Nothing of the handlers or of the records changes.
LEMMA OnlyRequests ==
    ASSUME PipelineAssumption, IInv, Requests', Lasting,
           UNCHANGED <<account, version, pc, job, image, records, file, ghosts>>
    PROVE  IInv'
<1>1. Handlers'
  BY HandlersKept DEF IInv
<1>2. Storage'
  BY StorageKept DEF IInv, Storage
<1>3. QED
  BY <1>1, <1>2 DEF IInv

LEMMA RestartStep ==
    ASSUME PipelineAssumption, IInv, Restart
    PROVE  IInv'
<1>1. Requests' /\ Lasting
  BY RequestsKept DEF Restart, IInv, Requests, Approvals!TypeOK
<1>2. Handlers'
  BY NoJobIsGood DEF Restart, PipelineAssumption, Handlers, JobFine, Steps
<1>3. Storage'
  BY DEF Restart, IInv, Storage, ghosts
<1>4. QED
  BY <1>1, <1>2, <1>3 DEF IInv

LEMMA TickStep ==
    ASSUME PipelineAssumption, IInv, Tick
    PROVE  IInv'
<1>1. Requests' /\ Lasting
  BY RequestsKept DEF Tick, IInv, Requests, Approvals!TypeOK
<1>2. QED
  BY <1>1, OnlyRequests DEF Tick

LEMMA StepIInv == PipelineAssumption /\ IInv /\ [Next]_vars => IInv'
<1> SUFFICES ASSUME PipelineAssumption, IInv, [Next]_vars PROVE IInv'
  OBVIOUS
<1>1. ASSUME NEW t \in Thread, NEW u \in User, NEW o \in Order, NEW r \in Request,
             Begin(t, u, o, r)
      PROVE  IInv'
  BY <1>1, BeginStep
<1>2. ASSUME NEW t \in Thread,
             \/ Read(t) \/ ReadFails(t) \/ BuildPlan(t) \/ BuildPlanFails(t)
             \/ Gate(t) \/ GateBlocks(t) \/ Raise(t)
      PROVE  IInv'
  BY <1>2, ReadStep, ReadFailsStep, BuildPlanStep, BuildPlanFailsStep, GateStep, EndStep
<1>3. ASSUME NEW t \in Thread,
             Execute(t) \/ Reject(t) \/ Record(t) \/ Dump(t) \/ Save(t)
      PROVE  IInv'
  BY <1>3, ExecuteStep, RejectStep, RecordStep, DumpStep, SaveStep
<1>4. ASSUME NEW r \in Request, NEW u \in User, NEW o \in Order, RequestApproval(r, u, o)
      PROVE  IInv'
  <2>1. UNCHANGED <<account, version, pc, job, image, records, file, ghosts>>
    BY <1>4 DEF RequestApproval
  <2>2. QED
    BY <1>4, <2>1, RequestStep, OnlyRequests
<1>5. ASSUME NEW r \in Request, NEW u \in User, NEW verdict \in {"approved", "denied"},
             DecideApproval(r, u, verdict)
      PROVE  IInv'
  <2>1. UNCHANGED <<account, version, pc, job, image, records, file, ghosts>>
    BY <1>5 DEF DecideApproval
  <2>2. QED
    BY <1>5, <2>1, DecideStep, OnlyRequests
<1>6. CASE RefreshElsewhere
  <2>1. /\ Approvals!Expire(Approvals!Overdue) /\ UNCHANGED <<snapshot, granted>>
        /\ UNCHANGED <<account, version, pc, job, image, records, file, ghosts>>
    BY <1>6 DEF RefreshElsewhere
  <2>2. Requests
    BY DEF IInv
  <2>3. QED
    BY <2>1, <2>2, ExpireStep, OnlyRequests
<1>7. CASE Restart
  BY <1>7, RestartStep
<1>8. CASE Tick
  BY <1>8, TickStep
<1>9. CASE UNCHANGED vars
  <2>1. UNCHANGED env /\ UNCHANGED <<account, version, pc, job, image, records, file, ghosts>>
    BY <1>9 DEF vars, env
  <2>2. QED
    BY <2>1, EnvKept, OnlyRequests
<1>10. QED
  BY <1>1, <1>2, <1>3, <1>4, <1>5, <1>6, <1>7, <1>8, <1>9 DEF Next

LEMMA InductiveInvariant == Spec => []IInv
<1>1. Init => IInv
  BY InitIInv, PipelineAssumption
<1>2. IInv /\ [Next]_vars => IInv'
  BY StepIInv, PipelineAssumption
<1>3. QED
  BY <1>1, <1>2, PTL DEF Spec

-----------------------------------------------------------------------------
\* Type correctness of the pipeline, the actor and the permissions a plan is
\* built with included.
THEOREM TypeCorrect == Spec => []TypeOK
<1>1. IInv => TypeOK
  <2> SUFFICES ASSUME IInv PROVE TypeOK
    OBVIOUS
  <2>1. ASSUME NEW t \in Thread, pc[t] = "plan"
        PROVE  job[t].actor \in User /\ job[t].permissions \in Role
    BY <2>1 DEF IInv, Handlers, JobFine, JobGood
  <2>2. pc \in [Thread -> {"idle", "read", "plan", "gate", "execute", "record", "dump", "save"}]
    BY DEF IInv, Handlers, Steps, Begun, Cleared
  <2>3. QED
    BY <2>1, <2>2 DEF IInv, Requests, Handlers, Storage, TypeOK
<1>2. QED
  BY <1>1, InductiveInvariant, PTL

\* The provider is only ever called for an approval that somebody else gave,
\* with the deadline still ahead at the gate (RunsAreApproved).
THEOREM OnlyApprovedRuns == Spec => []RunsAreApproved
<1>1. IInv => RunsAreApproved
  BY DEF IInv, Storage, RunsAreApproved, RunGood, Signed
<1>2. QED
  BY <1>1, InductiveInvariant, PTL

\* The provider is only ever given the order, the policy version and the role
\* that the approval request was signed with (RunsAsSigned).
THEOREM RunsMatchSnapshot == Spec => []RunsAsSigned
<1>1. IInv => RunsAsSigned
  BY DEF IInv, Storage, RunsAsSigned, RunGood
<1>2. QED
  BY <1>1, InductiveInvariant, PTL
=============================================================================
