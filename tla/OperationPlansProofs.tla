------------------------ MODULE OperationPlansProofs ------------------------
(***************************************************************************)
(* What holds of operations for any number of plans, handlers and backups, *)
(* whatever races, failed saves and restarts do. A plan lies in the        *)
(* dictionary, in the file, in the copies about to be stored and in the    *)
(* calls that work on it; the invariant says of each of these copies what  *)
(* one must satisfy (Good), relative to the approvals and verifications    *)
(* given so far, which only grow. A second invariant (Lone) relates these  *)
(* approvals to the approval store as long as no two calls were in it at   *)
(* once. Of a service with a single thread it is also shown that what was  *)
(* acknowledged lasts and that it implements OperationLifecycle.           *)
(***************************************************************************)
EXTENDS OperationPlans, TLAPS

Storing == {"copy", "save", "swap"}
Asking  == Deciding \cup Writing
Steps   == {"idle"} \cup Asking \cup Storing
Hashes  == {"waiting_approval"} \X Requester \X {None} \cup {None}
Entries == Approvals!Entries \cup {Approvals!NoEntry}

\* What any copy c of plan p satisfies.
Good(p, c, iss, gr, pr, sg) ==
    c # NoPlan =>
        /\ c \in Record
        /\ p \in iss
        /\ c.state \in {"approved", "ready"} =>
               \E by \in Approver \ {c.actor} : <<p, by>> \in gr
        /\ c.state = "ready" => c.backup \in pr
        /\ c.state = "approval_required" => sg[p] = OperationHash(c)

\* What the approval store was called for: approve is asked by an approver who is
\* not the requester, and plan has a good record to store.
AskGood(job, iss, gr, pr, sg) ==
    /\ job.op \in {"plan", "approve", "grant", "deny"}
    /\ job.op # "plan" => job.by \in Approver
    /\ job.op \in {"plan", "approve"} => job.record \in Record /\ job.plan \in iss
    /\ job.op = "approve" => job.record.state = "approved" /\ job.by # job.record.actor
    /\ job.op = "plan" => Good(job.plan, job.record, iss, gr, pr, sg)

\* A handler that asks for the approval may do so; one that stores a record
\* has a good one.
CallGood(step, job, iss, gr, pr, sg) ==
    /\ job \in Call
    /\ step # "idle" => job.plan \in Plan
    /\ step \in Asking => AskGood(job, iss, gr, pr, sg)
    /\ step \in Deciding => job.op # "plan"
    /\ step = "overwrite" => job.request.status = "pending"
    /\ step \in Storing => /\ job.record \in Record /\ job.plan \in iss
                           /\ Good(job.plan, job.record, iss, gr, pr, sg)

Fine(p, c)         == Good(p, c, issued, granted, proved, signed)
FineNext(p, c)     == Good(p, c, issued', granted', proved', signed')
CallFine(s, job)   == CallGood(s, job, issued, granted, proved, signed)
CallNext(s, job)   == CallGood(s, job, issued', granted', proved', signed')

Tables ==
    /\ plans \in Table
    /\ planFile \in Table
    /\ \A p \in Plan : Fine(p, plans[p]) /\ Fine(p, planFile[p])

Handlers ==
    /\ pc \in [Thread -> Steps]
    /\ call \in [Thread -> Call]
    /\ draft \in [Thread -> Table]
    /\ image \in [Thread -> [Plan -> Entries]]
    /\ \A t \in Thread : CallFine(pc[t], call[t])
    /\ \A t \in Thread, p \in Plan : Fine(p, draft[t][p])

Ledgers ==
    /\ Approvals!TypeOK
    /\ Filed!TypeOK
    /\ Backups!TypeOK
    /\ \A b \in Backup : Backups!Verified(b) => b \in proved

Ghosts ==
    /\ signed \in [Plan -> Hashes]
    /\ issued \subseteq Plan
    /\ granted \subseteq Plan \X Approver
    /\ proved \subseteq Backup
    /\ acked \subseteq Plan \X State
    /\ overlapped \in BOOLEAN

IInv == Tables /\ Handlers /\ Ledgers /\ Ghosts

-----------------------------------------------------------------------------
LEMMA NoPlanIsNoRecord == NoPlan \notin Record
BY DEF NoPlan, Record, State, Outcome

LEMMA EmptyIsFine ==
    ASSUME NEW iss, NEW gr, NEW pr, NEW sg
    PROVE  /\ Empty \in Table
           /\ NoCall \in Call
           /\ NoRequests \in [Plan -> Entries]
           /\ \A p \in Plan : Good(p, Empty[p], iss, gr, pr, sg)
           /\ CallGood("idle", NoCall, iss, gr, pr, sg)
<1>1. Empty \in Table /\ \A p \in Plan : Empty[p] = NoPlan
  BY DEF Empty, Table
<1>2. NoCall \in Call
  BY DEF NoCall, Call
<1>3. NoRequests \in [Plan -> Entries]
  BY DEF NoRequests, Entries
<1>4. QED
  BY <1>1, <1>2, <1>3 DEF Good, CallGood, Asking, Storing, Deciding, Writing

LEMMA InitIInv == OperationAssumption /\ Init => IInv
<1> SUFFICES ASSUME OperationAssumption, Init PROVE IInv
  OBVIOUS
<1>1. Tables
  BY EmptyIsFine DEF Init, Tables, Fine
<1>2. Handlers
  BY EmptyIsFine DEF Init, Handlers, Fine, CallFine, Steps
<1>3. Ledgers
  BY DEF Init, Ledgers, Approvals!Init, Approvals!TypeOK, Filed!TypeOK, Approvals!NoEntry,
         Filed!NoEntry, Backups!Init, Backups!TypeOK,
         Backups!BackupState, Backups!Verified
<1>4. Ghosts
  BY DEF Init, Ghosts, Hashes
<1>5. QED
  BY <1>1, <1>2, <1>3, <1>4 DEF IInv

\* The ghosts only grow, and the hash of an issued plan stays.
Growing ==
    /\ issued \subseteq issued'
    /\ granted \subseteq granted'
    /\ proved \subseteq proved'
    /\ \A p \in issued : signed'[p] = signed[p]

LEMMA FineIsStable ==
    ASSUME NEW p, NEW c, Growing, Fine(p, c)
    PROVE  FineNext(p, c)
BY DEF Growing, Fine, FineNext, Good

LEMMA CallIsStable ==
    ASSUME NEW step, NEW job, Growing, CallFine(step, job)
    PROVE  CallNext(step, job)
<1>1. Fine(job.plan, job.record) => FineNext(job.plan, job.record)
  BY FineIsStable
<1>2. AskGood(job, issued, granted, proved, signed) =>
          AskGood(job, issued', granted', proved', signed')
  BY <1>1 DEF AskGood, Fine, FineNext, Growing
<1>3. QED
  BY <1>1, <1>2 DEF CallFine, CallNext, CallGood, Fine, FineNext, Growing

LEMMA TablesKept ==
    ASSUME Tables, Growing, plans' = plans, planFile' = planFile
    PROVE  Tables'
<1>1. \A p \in Plan : FineNext(p, plans[p]) /\ FineNext(p, planFile[p])
  BY FineIsStable DEF Tables
<1>2. QED
  BY <1>1 DEF Tables, Fine, FineNext

LEMMA HandlersKept ==
    ASSUME Handlers, Growing, UNCHANGED control
    PROVE  Handlers'
<1>1. \A t \in Thread : CallNext(pc[t], call[t])
  BY CallIsStable DEF Handlers
<1>2. \A t \in Thread, p \in Plan : FineNext(p, draft[t][p])
  BY FineIsStable DEF Handlers
<1>3. QED
  BY <1>1, <1>2 DEF Handlers, control, CallFine, CallNext, Fine, FineNext

\* One handler goes to another step, with a good call and a good draft.
LEMMA HandlerStep ==
    ASSUME Handlers, Growing, NEW t \in Thread, NEW step \in Steps,
           NEW job \in Call, NEW copies \in Table, NEW requests \in [Plan -> Entries],
           pc' = [pc EXCEPT ![t] = step],
           call' = [call EXCEPT ![t] = job],
           draft' = [draft EXCEPT ![t] = copies],
           image' = [image EXCEPT ![t] = requests],
           CallNext(step, job),
           \A p \in Plan : FineNext(p, copies[p])
    PROVE  Handlers'
<1>1. /\ pc' \in [Thread -> Steps] /\ call' \in [Thread -> Call]
      /\ draft' \in [Thread -> Table] /\ image' \in [Thread -> [Plan -> Entries]]
  BY DEF Handlers
<1>2. ASSUME NEW s \in Thread
      PROVE  CallNext(pc'[s], call'[s]) /\ \A p \in Plan : FineNext(p, draft'[s][p])
  <2>1. CASE s = t
    BY <2>1 DEF Handlers
  <2>2. CASE s # t
    <3>1. pc'[s] = pc[s] /\ call'[s] = call[s] /\ draft'[s] = draft[s]
      BY <2>2 DEF Handlers
    <3>2. CallNext(pc[s], call[s])
      BY CallIsStable DEF Handlers
    <3>3. \A p \in Plan : FineNext(p, draft[s][p])
      BY FineIsStable DEF Handlers
    <3>4. QED
      BY <3>1, <3>2, <3>3
  <2>3. QED
    BY <2>1, <2>2
<1>3. QED
  BY <1>1, <1>2 DEF Handlers, CallFine, CallNext, Fine, FineNext

\* What holds of the handler of t before the step.
LEMMA HandlerFacts ==
    ASSUME Handlers, NEW t \in Thread
    PROVE  /\ pc \in [Thread -> Steps] /\ call \in [Thread -> Call]
           /\ draft \in [Thread -> Table] /\ draft[t] \in Table
           /\ image \in [Thread -> [Plan -> Entries]] /\ image[t] \in [Plan -> Entries]
           /\ call[t] \in Call
           /\ pc[t] # "idle" => call[t].plan \in Plan
           /\ pc[t] \in Storing => call[t].plan \in issued /\ call[t].record \in Record
           /\ CallFine(pc[t], call[t])
           /\ \A p \in Plan : Fine(p, draft[t][p])
BY DEF Handlers, CallFine, CallGood

LEMMA Finishing ==
    ASSUME Handlers, Growing, NEW t \in Thread, Finish(t)
    PROVE  Handlers'
<1>1. /\ CallNext("idle", NoCall) /\ NoCall \in Call /\ Empty \in Table
      /\ NoRequests \in [Plan -> Entries]
      /\ \A p \in Plan : FineNext(p, Empty[p])
  BY EmptyIsFine DEF CallNext, FineNext
<1>2. QED
  BY <1>1, HandlerStep DEF Finish, Steps

\* The handler goes on to another step of the same call.
LEMMA GoingOn ==
    ASSUME Handlers, Growing, NEW t \in Thread, NEW step \in Steps, NEW job \in Call,
           NEW requests \in [Plan -> Entries],
           pc' = [pc EXCEPT ![t] = step], call' = [call EXCEPT ![t] = job],
           image' = [image EXCEPT ![t] = requests], draft' = draft, CallNext(step, job)
    PROVE  Handlers'
<1>1. /\ draft[t] \in Table /\ draft' = [draft EXCEPT ![t] = draft[t]]
      /\ \A q \in Plan : FineNext(q, draft[t][q])
  BY HandlerFacts, FineIsStable
<1>2. QED
  BY <1>1, HandlerStep

\* A handler begins, with a call that is good after the step.
LEMMA Beginning ==
    ASSUME IInv, Growing, NEW t \in Thread, NEW step \in {"refresh", "dump", "copy"},
           NEW op \in {"plan", "approve", "grant", "deny", "attach", "execute"},
           NEW p \in Plan, NEW by \in Requester \cup Approver \cup {None},
           NEW rec \in Record \cup {NoPlan},
           Begin(t, step, op, p, by, rec),
           step = "refresh" => op \in {"approve", "grant", "deny"} /\ by \in Approver,
           step = "dump" => op = "plan",
           op = "approve" => rec.state = "approved" /\ by # rec.actor,
           op \in {"plan", "approve"} \/ step = "copy" => rec \in Record /\ p \in issued',
           op = "plan" \/ step = "copy" => FineNext(p, rec)
    PROVE  Handlers'
<1> DEFINE job == [op |-> op, plan |-> p, by |-> by, record |-> rec,
                   request |-> Approvals!NoEntry]
<1>1. /\ job \in Call /\ job.plan = p /\ job.record = rec /\ job.by = by /\ job.op = op
  BY DEF Call
<1>2. /\ pc' = [pc EXCEPT ![t] = step]
      /\ call' = [call EXCEPT ![t] = job]
      /\ draft' = draft /\ image' = [image EXCEPT ![t] = image[t]]
  BY HandlerFacts DEF IInv, Begin
<1> HIDE DEF job
<1>3. step \in Asking => AskGood(job, issued', granted', proved', signed')
  BY <1>1 DEF AskGood, FineNext, Asking, Deciding, Writing
<1>4. CallNext(step, job)
  BY <1>1, <1>3 DEF CallNext, CallGood, FineNext, Asking, Deciding, Writing, Storing
<1>5. QED
  BY <1>1, <1>2, <1>4, HandlerFacts, GoingOn
     DEF IInv, Steps, Asking, Deciding, Writing, Storing

\* The approval requests, in memory and in the file, keep their type.
LEMMA LedgersKept ==
    ASSUME IInv, UNCHANGED <<backup, proved>>, now' \in Nat,
           approval' \in [Plan -> Entries], approvalFile' \in [Plan -> Entries]
    PROVE  Ledgers'
BY DEF IInv, Ledgers, Entries, Approvals!TypeOK, Filed!TypeOK, Approvals!NoEntry,
       Filed!NoEntry, Approvals!Entries, Filed!Entries, Backups!TypeOK, Backups!Verified

LEMMA RequestsTyped ==
    IInv => /\ now \in Nat
            /\ approval \in [Plan -> Entries] /\ approvalFile \in [Plan -> Entries]
BY DEF IInv, Ledgers, Entries, Approvals!TypeOK, Filed!TypeOK, Approvals!NoEntry,
       Filed!NoEntry, Approvals!Entries, Filed!Entries

\* Retiring what is overdue touches open requests only.
LEMMA RetiredIsFine ==
    ASSUME IInv, NEW S \in {{}, Approvals!Overdue}
    PROVE  /\ Retired(S) \in [Plan -> Entries]
           /\ \A p \in Plan : approval[p].status \in {"approved", "expired"} =>
                              Retired(S)[p].status \in {"approved", "expired"}
           /\ S = {} => Retired(S) = approval
<1>1. approval \in [Plan -> Entries]
  BY RequestsTyped
<1>2. \A p \in S : p \in Plan /\ approval[p] \in Approvals!Entries
  BY <1>1 DEF Approvals!Overdue, Approvals!NoEntry, Entries
<1>3. ASSUME NEW e \in Approvals!Entries
      PROVE  /\ [e EXCEPT !.status = "expired", !.decidedBy = "system"] \in Approvals!Entries
             /\ [e EXCEPT !.status = "expired", !.decidedBy = "system"].status = "expired"
  BY DEF Approvals!Entries
<1>4. ASSUME NEW p \in Plan
      PROVE  /\ Retired(S)[p] \in Entries
             /\ approval[p].status \in {"approved", "expired"} =>
                    Retired(S)[p].status \in {"approved", "expired"}
  <2>1. CASE p \in S
    BY <1>2, <1>3, <2>1 DEF Retired, Entries
  <2>2. CASE p \notin S
    BY <1>1, <2>2 DEF Retired
  <2>3. QED
    BY <2>1, <2>2
<1>5. S = {} => Retired(S) = approval
  BY <1>1 DEF Retired
<1>6. QED
  BY <1>4, <1>5 DEF Retired

\* The decided copy of a pending request, and what memory is taken back to.
LEMMA DecidedIsFine ==
    ASSUME NEW e \in Approvals!Entries, NEW by \in Approver, NEW op
    PROVE  LET d == [e EXCEPT !.status = Verdict(op), !.decidedBy = by]
           IN  d \in Approvals!Entries /\ d.status = Verdict(op)
BY DEF Approvals!Entries, Verdict

LEMMA UndoneIsFine ==
    ASSUME IInv, NEW t \in Thread, pc[t] # "idle"
    PROVE  Undone(t) \in [Plan -> Entries]
BY RequestsTyped, HandlerFacts DEF Undone, IInv, Call, Entries

-----------------------------------------------------------------------------
(* One lemma for every action.                                             *)

LEMMA PlanStep ==
    ASSUME OperationAssumption, IInv, NEW t \in Thread, NEW p \in Plan, NEW u \in Requester,
           NEW outcome \in Outcome, StartPlan(t, p, u, outcome)
    PROVE  IInv'
<1> DEFINE rec == [state |-> outcome, actor |-> u, backup |-> None]
<1>1. rec \in Record /\ rec.state = outcome /\ rec.actor = u
  BY DEF Record, State
<1>2. /\ p \notin issued /\ issued' = issued \cup {p}
      /\ \/ /\ outcome = "approval_required"
            /\ Begin(t, "dump", "plan", p, u, rec)
            /\ Approvals!Create(p, u, now + Ttl, FALSE)
            /\ signed' = [signed EXCEPT ![p] = OperationHash(rec)]
         \/ /\ outcome # "approval_required"
            /\ Begin(t, "copy", "plan", p, u, rec)
            /\ UNCHANGED <<now, approval, signed>>
      /\ UNCHANGED <<approvalFile, plans, planFile, backup, granted, proved, acked>>
  BY DEF StartPlan
<1>3. OperationHash(rec) \in Hashes \/ outcome # "approval_required"
  BY DEF OperationHash, ManifestStatus, Hashes
<1> HIDE DEF rec
<1>4. /\ signed' \in [Plan -> Hashes]
      /\ \A q \in Plan : q # p => signed'[q] = signed[q]
      /\ outcome = "approval_required" => signed'[p] = OperationHash(rec)
  BY <1>2, <1>3 DEF IInv, Ghosts
<1>5. Growing
  BY <1>2, <1>4 DEF Growing, IInv, Ghosts
<1>6. FineNext(p, rec)
  BY <1>1, <1>2, <1>4 DEF FineNext, Good, Outcome
<1>7. Handlers'
  <2>1. PICK step \in {"dump", "copy"} : Begin(t, step, "plan", p, u, rec)
    BY <1>2
  <2>2. QED
    BY <1>1, <1>2, <1>5, <1>6, <2>1, Beginning
<1>8. Tables'
  BY <1>2, <1>5, TablesKept DEF IInv
<1>9. Ghosts'
  BY <1>2, <1>4 DEF IInv, Ghosts, Begin
<1>10. Ledgers'
  <2>1. CASE outcome # "approval_required"
    BY <1>2, <2>1, LedgersKept, RequestsTyped
  <2>2. CASE outcome = "approval_required"
    <3>1. /\ now' = now
          /\ approval' = [approval EXCEPT ![p] =
                            [status |-> "pending", actor |-> u, expiresAt |-> now + Ttl,
                             decidedBy |-> None]]
      BY <1>2, <2>2 DEF Approvals!Create
    <3>2. now \in Nat /\ now + Ttl \in Nat
      BY RequestsTyped DEF OperationAssumption
    <3>3. [status |-> "pending", actor |-> u, expiresAt |-> now + Ttl, decidedBy |-> None]
            \in Entries
      BY <3>2 DEF Approvals!Entries, Entries
    <3>4. QED
      BY <1>2, <3>1, <3>2, <3>3, LedgersKept, RequestsTyped
  <2>3. QED
    BY <2>1, <2>2
<1>11. QED
  BY <1>7, <1>8, <1>9, <1>10 DEF IInv

\* approve, attach_verified_backup, execute and the routes begin with a plan of
\* the dictionary, or with its request.
LEMMA BeginStep ==
    ASSUME OperationAssumption, IInv, NEW t \in Thread, NEW p \in Plan,
           \/ \E u \in Approver : StartApprove(t, p, u)
           \/ \E u \in Approver, op \in {"grant", "deny"} : StartRoute(t, p, u, op)
           \/ \E b \in Backup : StartAttach(t, p, b)
           \/ StartExecute(t, p)
    PROVE  IInv'
<1>1. UNCHANGED <<store, plans, planFile, backup, ghosts>>
  BY DEF StartApprove, StartRoute, StartAttach, StartExecute
<1>2. Growing
  BY <1>1 DEF Growing, ghosts, store
<1>3. ASSUME plans[p] # NoPlan
      PROVE  plans[p] \in Record /\ Fine(p, plans[p]) /\ p \in issued
  BY <1>3 DEF IInv, Tables, Table, Fine, Good
<1>4. ASSUME plans[p] # NoPlan, NEW st \in State
      PROVE  /\ [plans[p] EXCEPT !.state = st] \in Record
             /\ [plans[p] EXCEPT !.state = st].state = st
             /\ [plans[p] EXCEPT !.state = st].actor = plans[p].actor
             /\ [plans[p] EXCEPT !.state = st].backup = plans[p].backup
  BY <1>3, <1>4 DEF Record
<1>5. Handlers' /\ overlapped' \in BOOLEAN
  <2>1. ASSUME NEW u \in Approver, StartApprove(t, p, u)
        PROVE  Handlers' /\ overlapped' \in BOOLEAN
    <3> DEFINE rec == [plans[p] EXCEPT !.state = "approved"]
    <3>1. plans[p] # NoPlan
      BY <2>1 DEF StartApprove, Approvable, NoPlan
    <3>2. rec \in Record /\ rec.state = "approved" /\ rec.actor = plans[p].actor
      BY <1>4, <3>1 DEF State
    <3>3. Begin(t, "refresh", "approve", p, u, rec) /\ u # plans[p].actor
      BY <2>1 DEF StartApprove, Approvable
    <3> HIDE DEF rec
    <3>4. QED
      BY <1>1, <1>2, <1>3, <3>1, <3>2, <3>3, Beginning DEF ghosts, Begin, IInv, Ghosts
  <2>2. ASSUME NEW u \in Approver, NEW op \in {"grant", "deny"}, StartRoute(t, p, u, op)
        PROVE  Handlers' /\ overlapped' \in BOOLEAN
    <3>1. Begin(t, "refresh", op, p, u, NoPlan)
      BY <2>2 DEF StartRoute
    <3>2. QED
      BY <1>2, <3>1, Beginning DEF Begin, IInv, Ghosts
  <2>3. ASSUME StartExecute(t, p)
        PROVE  Handlers' /\ overlapped' \in BOOLEAN
    <3> DEFINE rec == [plans[p] EXCEPT !.state = "blocked_by_default"]
    <3>1. Begin(t, "copy", "execute", p, None, rec) /\ plans[p] # NoPlan
      BY <2>3 DEF StartExecute
    <3>2. rec \in Record /\ rec.state = "blocked_by_default"
      BY <1>4, <3>1 DEF State
    <3> HIDE DEF rec
    <3>3. FineNext(p, rec)
      BY <1>1, <1>3, <3>1, <3>2 DEF FineNext, Good, ghosts
    <3>4. QED
      BY <1>1, <1>2, <1>3, <3>1, <3>2, <3>3, Beginning DEF ghosts, Begin, IInv, Ghosts
  <2>4. ASSUME NEW b \in Backup, StartAttach(t, p, b)
        PROVE  Handlers' /\ overlapped' \in BOOLEAN
    <3> DEFINE rec == [plans[p] EXCEPT !.state = "ready", !.backup = b]
    <3>1. /\ Begin(t, "copy", "attach", p, None, rec)
          /\ plans[p].state = "approved" /\ Backups!Verified(b)
      BY <2>4 DEF StartAttach, Attachable
    <3>2. plans[p] # NoPlan
      BY <3>1 DEF NoPlan
    <3>3. /\ rec \in Record /\ rec.state = "ready" /\ rec.actor = plans[p].actor
          /\ rec.backup = b
      BY <1>3, <3>2 DEF Record, State
    <3>4. b \in proved
      BY <3>1 DEF IInv, Ledgers
    <3> HIDE DEF rec
    <3>5. FineNext(p, rec)
      BY <1>1, <1>3, <3>1, <3>2, <3>3, <3>4 DEF FineNext, Fine, Good, ghosts
    <3>6. QED
      BY <1>1, <1>2, <1>3, <3>1, <3>2, <3>3, <3>5, Beginning DEF ghosts, Begin, IInv, Ghosts
  <2>5. QED
    BY <2>1, <2>2, <2>3, <2>4
<1>6. Tables'
  BY <1>1, <1>2, TablesKept DEF IInv
<1>7. Ledgers'
  BY <1>1, LedgersKept, RequestsTyped DEF ghosts, store
<1>8. Ghosts'
  BY <1>1, <1>5 DEF IInv, Ghosts, ghosts, store
<1>9. QED
  BY <1>5, <1>6, <1>7, <1>8 DEF IInv

\* The steps of a call in the approval store, but for the one that gives an
\* approval.
LEMMA AskStep ==
    ASSUME IInv, NEW t \in Thread,
           \/ Refresh(t) \/ Decide(t) \/ Overwrite(t) \/ Dump(t)
           \/ RefreshFailsLate(t) \/ ReplaceFailsLate(t)
    PROVE  IInv'
<1>1. /\ UNCHANGED <<now, signed, plans, planFile, backup, ghosts, overlapped>>
      /\ pc[t] \in Asking
  BY DEF Refresh, Decide, Overwrite, Dump, RefreshFailsLate, ReplaceFailsLate, store,
         Asking, Deciding, Writing
<1>2. Growing
  BY <1>1 DEF Growing, ghosts
<1>3. Tables' /\ Ghosts'
  BY <1>1, <1>2, TablesKept DEF IInv, Ghosts, ghosts
<1>4. /\ call[t] \in Call /\ call[t].plan \in Plan /\ image[t] \in [Plan -> Entries]
      /\ AskGood(call[t], issued', granted', proved', signed')
      /\ pc[t] \in Deciding => call[t].op # "plan" /\ call[t].by \in Approver
      /\ pc[t] = "overwrite" => call[t].request.status = "pending"
  <2>1. CallNext(pc[t], call[t])
    BY <1>2, HandlerFacts, CallIsStable DEF IInv
  <2>2. QED
    BY <1>1, <2>1, HandlerFacts
       DEF IInv, CallNext, CallGood, AskGood, Asking, Deciding, Writing
<1>5. /\ approval \in [Plan -> Entries] /\ approvalFile \in [Plan -> Entries]
      /\ now \in Nat
  BY RequestsTyped
<1>6. approvalFile' \in [Plan -> Entries]
  BY <1>4, <1>5, RetiredIsFine
     DEF Refresh, Decide, Overwrite, Dump, RefreshFailsLate, ReplaceFailsLate, store
<1>7. approval' \in [Plan -> Entries]
  <2>1. CASE Overwrite(t)
    <3>1. call[t].request \in Approvals!Entries
      BY <1>4, <2>1 DEF Overwrite, Call, Approvals!NoEntry
    <3>2. [call[t].request EXCEPT !.status = Verdict(call[t].op), !.decidedBy = call[t].by]
            \in Entries
      BY <1>4, <2>1, <3>1, DecidedIsFine DEF Overwrite, Deciding, Entries
    <3>3. QED
      BY <1>4, <1>5, <2>1, <3>2 DEF Overwrite
  <2>2. CASE ReplaceFailsLate(t)
    BY <2>2, UndoneIsFine DEF ReplaceFailsLate
  <2>3. CASE Refresh(t)
    BY <2>3, RetiredIsFine DEF Refresh
  <2>4. QED
    BY <1>5, <2>1, <2>2, <2>3 DEF Decide, Dump, RefreshFailsLate, store
<1>8. Ledgers'
  BY <1>1, <1>5, <1>6, <1>7, LedgersKept DEF ghosts
<1>9. Handlers'
  <2>1. CASE Refresh(t) \/ Overwrite(t)
    <3>1. PICK step \in {"decide", "dump"} :
             /\ pc' = [pc EXCEPT ![t] = step] /\ UNCHANGED <<call, draft, image>>
             /\ step = "decide" => pc[t] = "refresh"
      BY <2>1 DEF Refresh, Overwrite
    <3>2. call' = [call EXCEPT ![t] = call[t]] /\ image' = [image EXCEPT ![t] = image[t]]
      BY <3>1, HandlerFacts DEF IInv
    <3>3. CallNext(step, call[t])
      BY <1>4, <3>1 DEF CallNext, CallGood, Storing, Asking, Deciding, Writing
    <3>4. QED
      BY <1>2, <1>4, <3>1, <3>2, <3>3, GoingOn DEF IInv, Steps, Asking, Deciding, Writing
  <2>2. CASE Decide(t)
    <3> DEFINE job == [call[t] EXCEPT !.request = approval[call[t].plan]]
    <3>1. /\ pc[t] = "decide" /\ pc' = [pc EXCEPT ![t] = "overwrite"]
          /\ call' = [call EXCEPT ![t] = job] /\ UNCHANGED <<draft, image>>
          /\ approval[call[t].plan].status = "pending"
      BY <2>2, HandlerFacts DEF Decide, IInv
    <3>2. approval[call[t].plan] \in Entries
      BY <1>4, <1>5
    <3>3. /\ job \in Call /\ job.request = approval[call[t].plan]
          /\ job.op = call[t].op /\ job.by = call[t].by /\ job.plan = call[t].plan
          /\ job.record = call[t].record
      BY <1>4, <3>2 DEF Call, Entries
    <3>4. image' = [image EXCEPT ![t] = image[t]]
      BY <3>1, HandlerFacts DEF IInv
    <3> HIDE DEF job
    <3>5. AskGood(job, issued', granted', proved', signed')
      BY <1>4, <3>3 DEF AskGood
    <3>6. CallNext("overwrite", job)
      BY <1>4, <3>1, <3>3, <3>5 DEF CallNext, CallGood, Storing, Asking, Deciding, Writing
    <3>7. QED
      BY <1>2, <1>4, <3>1, <3>3, <3>4, <3>6, GoingOn DEF IInv, Steps, Asking, Deciding
  <2>3. CASE Dump(t)
    <3>1. /\ pc[t] = "dump" /\ pc' = [pc EXCEPT ![t] = "replace"]
          /\ image' = [image EXCEPT ![t] = approval] /\ draft' = draft
          /\ call' = [call EXCEPT ![t] = call[t]]
      BY <2>3, HandlerFacts DEF Dump, IInv
    <3>2. CallNext("replace", call[t])
      BY <1>4 DEF CallNext, CallGood, Storing, Asking, Deciding, Writing
    <3>3. QED
      BY <1>2, <1>4, <1>5, <3>1, <3>2, GoingOn DEF IInv, Steps, Asking, Writing
  <2>4. CASE RefreshFailsLate(t) \/ ReplaceFailsLate(t)
    BY <1>2, <2>4, Finishing DEF IInv, RefreshFailsLate, ReplaceFailsLate
  <2>5. QED
    BY <2>1, <2>2, <2>3, <2>4
<1>10. QED
  BY <1>3, <1>8, <1>9 DEF IInv

LEMMA ReplaceStep ==
    ASSUME IInv, NEW t \in Thread, Replace(t)
    PROVE  IInv'
<1> DEFINE p  == call[t].plan
           by == call[t].by
<1>1. /\ pc[t] = "replace" /\ approvalFile' = image[t]
      /\ granted' = IF call[t].op \in {"approve", "grant"} THEN granted \cup {<<p, by>>}
                                                          ELSE granted
      /\ UNCHANGED <<now, approval, signed, plans, planFile, backup, issued, proved, acked,
                     overlapped>>
  BY DEF Replace
<1>2. Growing
  BY <1>1 DEF Growing
<1>3. /\ p \in Plan /\ call[t] \in Call /\ image[t] \in [Plan -> Entries]
      /\ AskGood(call[t], issued, granted, proved, signed)
  BY <1>1, HandlerFacts DEF IInv, CallFine, CallGood, Asking, Writing
<1>4. Handlers'
  <2>1. CASE Finish(t)
    BY <1>2, <2>1, Finishing DEF IInv
  <2>2. CASE /\ call[t].op \in {"plan", "approve"}
             /\ pc' = [pc EXCEPT ![t] = "copy"]
             /\ image' = [image EXCEPT ![t] = NoRequests]
             /\ UNCHANGED <<call, draft>>
    <3>1. call' = [call EXCEPT ![t] = call[t]]
      BY <2>2, HandlerFacts DEF IInv
    <3>2. Good(p, call[t].record, issued', granted', proved', signed')
      <4>1. CASE call[t].op = "plan"
        BY <1>2, <1>3, <4>1, FineIsStable DEF AskGood, Fine, FineNext
      <4>2. CASE call[t].op = "approve"
        <5>1. /\ call[t].record \in Record /\ call[t].record.state = "approved"
              /\ by \in Approver \ {call[t].record.actor} /\ p \in issued
          BY <1>3, <4>2 DEF AskGood
        <5>2. <<p, by>> \in granted'
          BY <1>1, <4>2
        <5>3. QED
          BY <1>1, <5>1, <5>2 DEF Good
      <4>3. QED
        BY <2>2, <4>1, <4>2
    <3>3. CallNext("copy", call[t])
      BY <1>1, <1>3, <2>2, <3>2
         DEF AskGood, CallNext, CallGood, Asking, Storing, Deciding, Writing
    <3>4. NoRequests \in [Plan -> Entries]
      BY EmptyIsFine
    <3>5. QED
      BY <1>2, <1>3, <2>2, <3>1, <3>3, <3>4, GoingOn DEF IInv, Steps, Storing
  <2>3. QED
    BY <2>1, <2>2 DEF Replace
<1>5. Tables'
  BY <1>1, <1>2, TablesKept DEF IInv
<1>6. Ledgers'
  BY <1>1, <1>3, LedgersKept, RequestsTyped
<1>7. Ghosts'
  <2>1. call[t].op \in {"approve", "grant"} => by \in Approver
    BY <1>3 DEF AskGood
  <2>2. QED
    BY <1>1, <1>3, <2>1 DEF IInv, Ghosts
<1>8. QED
  BY <1>4, <1>5, <1>6, <1>7 DEF IInv

\* The other users of the approval store, and the calls that raise.
LEMMA ElsewhereStep ==
    ASSUME IInv, StoreElsewhere
    PROVE  IInv'
<1>1. /\ UNCHANGED <<now, signed, plans, planFile, backup, control, ghosts>>
      /\ overlapped' \in BOOLEAN
  BY DEF StoreElsewhere, IInv, Ghosts
<1>2. Growing
  BY <1>1 DEF Growing, ghosts
<1>3. Handlers' /\ Tables'
  BY <1>1, <1>2, HandlersKept, TablesKept DEF IInv
<1>4. approval' \in [Plan -> Entries] /\ approvalFile' \in [Plan -> Entries]
  BY RetiredIsFine, RequestsTyped DEF StoreElsewhere
<1>5. Ledgers'
  BY <1>1, <1>4, LedgersKept, RequestsTyped DEF ghosts
<1>6. Ghosts'
  BY <1>1 DEF IInv, Ghosts, ghosts
<1>7. QED
  BY <1>3, <1>5, <1>6 DEF IInv

LEMMA RaiseStep ==
    ASSUME IInv, NEW t \in Thread, Raise(t)
    PROVE  IInv'
<1>1. /\ UNCHANGED <<now, approvalFile, signed, plans, planFile, backup, ghosts, overlapped>>
      /\ Finish(t) /\ pc[t] # "idle"
      /\ approval' = IF pc[t] \in Writing THEN Undone(t) ELSE approval
  BY DEF Raise, Failing
<1>2. Growing
  BY <1>1 DEF Growing, ghosts
<1>3. Handlers' /\ Tables' /\ Ghosts'
  BY <1>1, <1>2, Finishing, TablesKept DEF IInv, Ghosts, ghosts
<1>4. approval' \in [Plan -> Entries]
  BY <1>1, UndoneIsFine, RequestsTyped
<1>5. QED
  BY <1>1, <1>3, <1>4, LedgersKept, RequestsTyped DEF IInv, ghosts

\* The approvals and the backups do not change when a plan is stored.
LEMMA StoringKeeps ==
    ASSUME IInv, UNCHANGED <<store, backup, issued, granted, proved>>
    PROVE  Ledgers' /\ Growing
BY LedgersKept, RequestsTyped DEF store, Growing

LEMMA CopyStep ==
    ASSUME IInv, NEW t \in Thread, Copy(t)
    PROVE  IInv'
<1> DEFINE p == call[t].plan
           copies == [plans EXCEPT ![p] = call[t].record]
<1>1. /\ pc[t] = "copy" /\ pc' = [pc EXCEPT ![t] = "save"]
      /\ draft' = [draft EXCEPT ![t] = copies]
      /\ UNCHANGED <<store, plans, planFile, backup, call, image, ghosts, overlapped>>
  BY DEF Copy
<1>2. Growing /\ Ledgers'
  BY <1>1, StoringKeeps DEF ghosts
<1>3. /\ call[t].record \in Record /\ p \in Plan
      /\ Fine(p, call[t].record) /\ CallFine("copy", call[t])
  BY <1>1, HandlerFacts DEF IInv, CallFine, CallGood, Storing, Fine
<1>4. copies \in Table /\ \A q \in Plan : Fine(q, copies[q])
  BY <1>3 DEF IInv, Tables, Table
<1> HIDE DEF copies
<1>5. \A q \in Plan : FineNext(q, copies[q])
  BY <1>2, <1>4, FineIsStable
<1>6. CallNext("save", call[t])
  <2>1. CallNext("copy", call[t])
    BY <1>2, <1>3, CallIsStable
  <2>2. QED
    BY <2>1 DEF CallNext, CallGood, Asking, Deciding, Writing, Storing
<1>7. call' = [call EXCEPT ![t] = call[t]] /\ image' = [image EXCEPT ![t] = image[t]]
  BY <1>1, HandlerFacts DEF IInv
<1>8. Handlers'
  BY <1>1, <1>2, <1>4, <1>5, <1>6, <1>7, HandlerFacts, HandlerStep DEF IInv, Steps, Storing
<1>9. Tables'
  BY <1>1, <1>2, TablesKept DEF IInv
<1>10. Ghosts'
  BY <1>1 DEF IInv, Ghosts, ghosts, store
<1>11. QED
  BY <1>2, <1>8, <1>9, <1>10 DEF IInv

LEMMA StoreStep ==
    ASSUME IInv, NEW t \in Thread, Save(t) \/ Swap(t) \/ SaveFailsLate(t)
    PROVE  IInv'
<1>1. UNCHANGED <<store, backup, issued, granted, proved, overlapped>>
  BY DEF Save, Swap, SaveFailsLate, ghosts
<1>2. Growing /\ Ledgers'
  BY <1>1, StoringKeeps
<1>3. Tables'
  <2>1. /\ plans' \in {plans, draft[t]}
        /\ planFile' \in {planFile, draft[t]}
    BY DEF Save, Swap, SaveFailsLate
  <2>2. draft[t] \in Table /\ \A p \in Plan : FineNext(p, draft[t][p])
    BY <1>2, HandlerFacts, FineIsStable DEF IInv
  <2>3. \A p \in Plan : FineNext(p, plans[p]) /\ FineNext(p, planFile[p])
    BY <1>2, FineIsStable DEF IInv, Tables
  <2>4. \A p \in Plan : FineNext(p, plans'[p]) /\ FineNext(p, planFile'[p])
    BY <2>1, <2>2, <2>3
  <2>5. QED
    BY <2>1, <2>2, <2>4 DEF IInv, Tables, Fine, FineNext
<1>4. Ghosts'
  <2>1. acked' \subseteq Plan \X State
    <3>1. CASE Swap(t)
      <4>1. call[t].plan \in Plan /\ call[t].record.state \in State
        BY <3>1, HandlerFacts DEF IInv, Swap, Record, Storing
      <4>2. QED
        BY <3>1, <4>1 DEF Swap, IInv, Ghosts
    <3>2. CASE acked' = acked
      BY <3>2 DEF IInv, Ghosts
    <3>3. QED
      BY <3>1, <3>2 DEF Save, SaveFailsLate, ghosts
  <2>2. QED
    BY <1>1, <2>1 DEF IInv, Ghosts, store
<1>5. CASE Save(t)
  <2>1. /\ pc[t] = "save" /\ pc' = [pc EXCEPT ![t] = "swap"]
        /\ call' = [call EXCEPT ![t] = call[t]]
        /\ draft' = [draft EXCEPT ![t] = draft[t]]
        /\ image' = [image EXCEPT ![t] = image[t]]
    BY <1>5, HandlerFacts DEF Save, IInv
  <2>2. CallNext("swap", call[t])
    <3>1. CallNext("save", call[t])
      BY <1>2, <2>1, HandlerFacts, CallIsStable DEF IInv
    <3>2. QED
      BY <3>1 DEF CallNext, CallGood, Asking, Deciding, Writing, Storing
  <2>3. \A p \in Plan : FineNext(p, draft[t][p])
    BY <1>2, HandlerFacts, FineIsStable DEF IInv
  <2>4. Handlers'
    BY <1>2, <2>1, <2>2, <2>3, HandlerFacts, HandlerStep DEF IInv, Steps, Storing
  <2>5. QED
    BY <1>2, <1>3, <1>4, <2>4 DEF IInv
<1>6. CASE Swap(t) \/ SaveFailsLate(t)
  <2>1. Handlers'
    BY <1>2, <1>6, Finishing DEF IInv, Swap, SaveFailsLate
  <2>2. QED
    BY <1>2, <1>3, <1>4, <2>1 DEF IInv
<1>7. QED
  BY <1>5, <1>6

LEMMA RestartStep ==
    ASSUME IInv, Restart
    PROVE  IInv'
<1>1. Growing
  BY DEF Growing, Restart, ghosts
<1>2. Tables'
  BY DEF IInv, Tables, Restart, Fine, ghosts
<1>3. Handlers'
  <2>1. /\ CallNext("idle", NoCall) /\ NoCall \in Call /\ Empty \in Table
        /\ NoRequests \in [Plan -> Entries]
        /\ \A p \in Plan : FineNext(p, Empty[p])
    BY EmptyIsFine DEF CallNext, FineNext
  <2>2. QED
    BY <2>1 DEF Restart, Handlers, Steps, CallFine, CallNext, Fine, FineNext
<1>4. Ghosts'
  BY DEF IInv, Ghosts, Restart, ghosts
<1>5. Ledgers'
  BY LedgersKept, RequestsTyped DEF Restart, ghosts
<1>6. QED
  BY <1>1, <1>2, <1>3, <1>4, <1>5 DEF IInv

\* A backup moves, the clock goes on, or nothing happens.
LEMMA OutsideStep ==
    ASSUME IInv, (\E b \in Backup : BackupStep(b)) \/ Tick \/ UNCHANGED vars
    PROVE  IInv'
<1>1. /\ UNCHANGED <<approval, approvalFile, signed, plans, planFile, control, issued,
                     granted, acked, overlapped>>
      /\ proved \subseteq proved'
      /\ now' \in {now, now + 1}
  BY DEF BackupStep, Tick, vars, store, ghosts
<1>2. Growing
  BY <1>1 DEF Growing
<1>3. Handlers' /\ Tables'
  BY <1>1, <1>2, HandlersKept, TablesKept DEF IInv
<1>4. /\ backup' \in [Backup -> Backups!BackupState]
      /\ proved' \subseteq Backup
      /\ \A b \in Backup : backup'[b] \in {"verified", "restore_tested"} => b \in proved'
  <2>1. CASE Tick \/ UNCHANGED vars
    BY <2>1 DEF IInv, Ledgers, Ghosts, Backups!TypeOK, Backups!Verified, Tick, vars, ghosts
  <2>2. ASSUME NEW b \in Backup, BackupStep(b)
        PROVE  /\ backup' \in [Backup -> Backups!BackupState]
               /\ proved' \subseteq Backup
               /\ \A x \in Backup :
                      backup'[x] \in {"verified", "restore_tested"} => x \in proved'
    <3>1. PICK from \in {"absent", "prepared", "verified"},
               to \in {"prepared", "verified", "restore_tested", "blocked"} :
            /\ backup[b] = from
            /\ to = "restore_tested" => from = "verified"
            /\ backup' = [backup EXCEPT ![b] = to]
      BY <2>2 DEF BackupStep, Backups!Step, Backups!Prepare, Backups!Verify,
                  Backups!RestoreTest, Backups!Advance
    <3>2. proved' = IF backup'[b] = "verified" THEN proved \cup {b} ELSE proved
      BY <2>2 DEF BackupStep
    <3>3. QED
      BY <3>1, <3>2
         DEF IInv, Ledgers, Ghosts, Backups!TypeOK, Backups!BackupState, Backups!Verified
  <2>3. QED
    BY <2>1, <2>2
<1>5. Ledgers'
  <2>1. now' \in Nat
    BY <1>1 DEF IInv, Ledgers, Approvals!TypeOK
  <2>2. QED
    BY <1>1, <1>4, <2>1
       DEF IInv, Ledgers, Approvals!TypeOK, Filed!TypeOK, Backups!TypeOK, Backups!Verified
<1>6. Ghosts'
  BY <1>1, <1>4 DEF IInv, Ghosts
<1>7. QED
  BY <1>3, <1>5, <1>6 DEF IInv

-----------------------------------------------------------------------------
LEMMA StepIInv == OperationAssumption /\ IInv /\ [Next]_vars => IInv'
<1> SUFFICES ASSUME OperationAssumption, IInv, [Next]_vars
             PROVE  IInv'
  OBVIOUS
<1>1. ASSUME NEW t \in Thread, Start(t)
      PROVE  IInv'
  BY <1>1, PlanStep, BeginStep DEF Start
<1>2. ASSUME NEW t \in Thread, Ask(t) \/ Copy(t)
      PROVE  IInv'
  BY <1>2, AskStep, ReplaceStep, CopyStep DEF Ask
<1>3. ASSUME NEW t \in Thread, Save(t) \/ Swap(t) \/ Raise(t) \/ SaveFailsLate(t)
      PROVE  IInv'
  BY <1>3, StoreStep, RaiseStep
<1>4. CASE StoreElsewhere
  BY <1>4, ElsewhereStep
<1>5. CASE (\E b \in Backup : BackupStep(b)) \/ Tick \/ UNCHANGED vars
  BY <1>5, OutsideStep
<1>6. CASE Restart
  BY <1>6, RestartStep
<1>7. QED
  BY <1>1, <1>2, <1>3, <1>4, <1>5, <1>6 DEF Next

LEMMA InductiveInvariant == Spec => []IInv
<1>1. Init => IInv
  BY InitIInv, OperationAssumption
<1>2. IInv /\ [Next]_vars => IInv'
  BY StepIInv, OperationAssumption
<1>3. QED
  BY <1>1, <1>2, PTL DEF Spec

\* The places Copies names all hold good copies.
LEMMA CopiesAreFine ==
    ASSUME IInv, NEW p \in Plan, NEW c \in Copies(p)
    PROVE  Fine(p, c)
BY DEF IInv, Tables, Handlers, Copies

-----------------------------------------------------------------------------
\* Type correctness of the operations, their approvals and their backups.
THEOREM TypeCorrect == Spec => []TypeOK
<1>1. IInv => TypeOK
  BY DEF IInv, Tables, Handlers, Ledgers, Ghosts, TypeOK, Steps, Asking, Deciding, Writing,
     Storing, Hashes, Entries
<1>2. QED
  BY <1>1, InductiveInvariant, PTL

\* No copy of a plan is approved or ready unless somebody other than the user
\* who asked for it was granted the approval.
THEOREM ApprovalComesFirst == Spec => []ApprovedByAnother
<1>1. IInv => ApprovedByAnother
  <2> SUFFICES ASSUME IInv, NEW p \in Plan, NEW c \in Copies(p),
                      c.state \in {"approved", "ready"}
               PROVE  \E by \in Approver \ {c.actor} : <<p, by>> \in granted
    BY DEF ApprovedByAnother
  <2>1. c # NoPlan
    BY DEF NoPlan
  <2>2. QED
    BY <2>1, CopiesAreFine DEF Fine, Good
<1>2. QED
  BY <1>1, InductiveInvariant, PTL

\* No copy of a plan is ready with a backup that never passed verification.
THEOREM BackupComesFirst == Spec => []ReadyOnProvenBackup
<1>1. IInv => ReadyOnProvenBackup
  <2> SUFFICES ASSUME IInv, NEW p \in Plan, NEW c \in Copies(p), c.state = "ready"
               PROVE  c.backup \in proved
    BY DEF ReadyOnProvenBackup
  <2>1. c # NoPlan
    BY DEF NoPlan
  <2>2. QED
    BY <2>1, CopiesAreFine DEF Fine, Good
<1>2. QED
  BY <1>1, InductiveInvariant, PTL

\* The approval request of a plan that waits carries the hash of that plan.
THEOREM SignatureMatches == Spec => []SignedAsPlanned
<1>1. IInv => SignedAsPlanned
  <2> SUFFICES ASSUME IInv, NEW p \in Plan, NEW c \in Copies(p),
                      c.state = "approval_required"
               PROVE  signed[p] = OperationHash(c)
    BY DEF SignedAsPlanned
  <2>1. c # NoPlan
    BY DEF NoPlan
  <2>2. QED
    BY <2>1, CopiesAreFine DEF Fine, Good
<1>2. QED
  BY <1>1, InductiveInvariant, PTL
-----------------------------------------------------------------------------
(***************************************************************************)
(* As long as no two calls were in the approval store at once, a plan for  *)
(* which an approval was given has an approved or expired request, in      *)
(* memory and in the file. A call on its way through the store works on a  *)
(* request for which no approval was given, and nobody changes memory      *)
(* under it.                                                               *)
(***************************************************************************)
Held(ledger, gr) == \A g \in gr : ledger[g[1]].status \in {"approved", "expired"}

Busy(t) ==
    /\ pc[t] \in {"overwrite"} \cup Writing => \A g \in granted : g[1] # call[t].plan
    /\ pc[t] \in Writing /\ call[t].op # "plan" =>
           approval[call[t].plan].status = Verdict(call[t].op)
    /\ pc[t] = "replace" => image[t] = approval

Lone ==
    /\ \A s, t \in Thread : Inside(s) /\ Inside(t) => s = t
    /\ Held(approval, granted) /\ Held(approvalFile, granted)
    /\ \A t \in Thread : Busy(t)

\* Only the call of t is in the store after the step.
LEMMA LoneOf ==
    ASSUME NEW t \in Thread, \A s \in Thread : s # t => ~Inside(s)',
           Held(approval, granted)', Held(approvalFile, granted)', Busy(t)'
    PROVE  Lone'
<1>1. \A s \in Thread : s # t => Busy(s)'
  BY DEF Inside, Busy, Deciding, Writing
<1>2. QED
  BY <1>1 DEF Lone

\* The store is left alone and nobody enters it.
LEMMA LoneQuiet ==
    ASSUME Lone, UNCHANGED <<approval, approvalFile, granted>>,
           \A s \in Thread : \/ ~Inside(s)'
                             \/ pc'[s] = pc[s] /\ call'[s] = call[s] /\ image'[s] = image[s]
    PROVE  Lone'
<1>1. \A s \in Thread : Inside(s)' => Inside(s)
  BY DEF Inside
<1>2. ASSUME NEW s \in Thread
      PROVE  Busy(s)'
  <2>1. CASE ~Inside(s)'
    BY <2>1 DEF Inside, Busy, Deciding, Writing
  <2>2. CASE pc'[s] = pc[s] /\ call'[s] = call[s] /\ image'[s] = image[s]
    BY <2>2 DEF Lone, Busy
  <2>3. QED
    BY <2>1, <2>2
<1>3. QED
  BY <1>1, <1>2 DEF Lone, Held

LEMMA FinishedIsOut ==
    ASSUME IInv, NEW t \in Thread, Finish(t)
    PROVE  /\ ~Inside(t)'
           /\ \A s \in Thread : s # t =>
                  pc'[s] = pc[s] /\ call'[s] = call[s] /\ image'[s] = image[s]
BY DEF IInv, Handlers, Finish, Inside, Deciding, Writing

LEMMA LoneStart ==
    ASSUME IInv, Lone, ~overlapped', NEW t \in Thread, Start(t)
    PROVE  Lone'
<1>1. ASSUME NEW op, NEW p, NEW by, NEW rec, Begin(t, "copy", op, p, by, rec),
             UNCHANGED <<approval, approvalFile, granted>>
      PROVE  Lone'
  <2>1. \A s \in Thread : IF s = t THEN ~Inside(s)'
                          ELSE pc'[s] = pc[s] /\ call'[s] = call[s] /\ image'[s] = image[s]
    BY <1>1 DEF Begin, IInv, Handlers, Inside, Deciding, Writing
  <2>2. QED
    BY <1>1, <2>1, LoneQuiet
<1>2. ASSUME NEW step \in {"refresh", "dump"}, NEW op, NEW p, NEW by, NEW rec,
             Begin(t, step, op, p, by, rec)
      PROVE  /\ \A s \in Thread : s # t => ~Inside(s)'
             /\ pc'[t] = step /\ call'[t].op = op /\ call'[t].plan = p
  BY <1>2 DEF Begin, IInv, Handlers, Inside
<1>3. ASSUME NEW op, NEW p, NEW by, NEW rec, Begin(t, "refresh", op, p, by, rec),
             UNCHANGED <<approval, approvalFile, granted>>
      PROVE  Lone'
  <2>1. /\ \A s \in Thread : s # t => ~Inside(s)'
        /\ pc'[t] = "refresh"
    BY <1>2, <1>3
  <2>2. Busy(t)'
    BY <2>1 DEF Busy, Writing
  <2>3. Held(approval, granted)' /\ Held(approvalFile, granted)'
    BY <1>3 DEF Lone, Held
  <2>4. QED
    BY <2>1, <2>2, <2>3, LoneOf
<1>4. ASSUME NEW p \in Plan, NEW u \in Requester, NEW rec,
             Begin(t, "dump", "plan", p, u, rec), Approvals!Create(p, u, now + Ttl, FALSE),
             UNCHANGED <<approvalFile, granted>>
      PROVE  Lone'
  <2>1. /\ \A s \in Thread : s # t => ~Inside(s)'
        /\ pc'[t] = "dump" /\ call'[t].op = "plan" /\ call'[t].plan = p
    BY <1>2, <1>4
  <2>2. \A g \in granted : g[1] # p
    <3>1. approval[p].status = "absent"
      BY <1>4 DEF Approvals!Create, Approvals!NoEntry
    <3>2. QED
      BY <3>1 DEF Lone, Held
  <2>3. \A g \in granted : approval'[g[1]] = approval[g[1]]
    BY <1>4, <2>2, RequestsTyped DEF Approvals!Create, IInv, Ghosts
  <2>4. Held(approval, granted)' /\ Held(approvalFile, granted)'
    BY <1>4, <2>3 DEF Lone, Held
  <2>5. Busy(t)'
    BY <1>4, <2>1, <2>2 DEF Busy
  <2>6. QED
    BY <2>1, <2>4, <2>5, LoneOf
<1>5. ASSUME NEW p \in Plan, NEW u \in Requester, NEW outcome \in Outcome,
             StartPlan(t, p, u, outcome)
      PROVE  Lone'
  BY <1>1, <1>4, <1>5 DEF StartPlan
<1>6. ASSUME NEW p \in Plan, NEW u \in Approver, NEW op \in {"grant", "deny"},
             StartApprove(t, p, u) \/ StartRoute(t, p, u, op)
      PROVE  Lone'
  BY <1>3, <1>6 DEF StartApprove, StartRoute, store, ghosts
<1>7. ASSUME NEW p \in Plan, NEW b, StartAttach(t, p, b) \/ StartExecute(t, p)
      PROVE  Lone'
  BY <1>1, <1>7 DEF StartAttach, StartExecute, store, ghosts
<1>8. ASSUME NEW p \in Plan, NEW u \in Approver, StartApprove(t, p, u)
      PROVE  Lone'
  BY <1>3, <1>8 DEF StartApprove, store, ghosts
<1>9. QED
  BY <1>5, <1>6, <1>7, <1>8 DEF Start

\* A step of the only call in the store.
LEMMA LoneAsk ==
    ASSUME IInv, Lone, NEW t \in Thread, Ask(t) \/ (Raise(t) /\ Inside(t))
    PROVE  Lone'
<1> DEFINE p == call[t].plan
<1>1. /\ Inside(t) /\ p \in Plan /\ pc \in [Thread -> Steps] /\ call \in [Thread -> Call]
      /\ image \in [Thread -> [Plan -> Entries]]
      /\ approval \in [Plan -> Entries] /\ approvalFile \in [Plan -> Entries]
      /\ \A g \in granted : g[1] \in Plan
  <2>1. Inside(t)
    BY DEF Ask, Refresh, Decide, Overwrite, Dump, Replace, RefreshFailsLate,
           ReplaceFailsLate, Inside, Deciding, Writing
  <2>2. pc[t] # "idle"
    BY <2>1 DEF Inside, Deciding, Writing
  <2>3. QED
    BY <2>1, <2>2, HandlerFacts, RequestsTyped DEF IInv, Ghosts
<1>2. \A s \in Thread : s # t => ~Inside(s)
  BY <1>1 DEF Lone
<1>3. ASSUME NEW step, pc' = [pc EXCEPT ![t] = step]
      PROVE  (\A s \in Thread : s # t => ~Inside(s)') /\ pc'[t] = step
  BY <1>1, <1>2, <1>3 DEF Inside
<1>4. ASSUME NEW S \in {{}, Approvals!Overdue}
      PROVE  \A gr : (\A g \in gr : g[1] \in Plan) /\ Held(approval, gr) =>
                     Held(Retired(S), gr)
  BY RetiredIsFine DEF Held
<1>5. Held(approval, granted) /\ Held(approvalFile, granted) /\ Busy(t)
  BY DEF Lone
<1>6. CASE Refresh(t)
  <2>1. /\ pc' = [pc EXCEPT ![t] = "decide"] /\ granted' = granted
        /\ approval' = Retired(Approvals!Overdue) /\ approvalFile' \in {approvalFile, approval'}
    BY <1>6 DEF Refresh, ghosts
  <2>2. Held(approval', granted) /\ Held(approvalFile', granted)
    BY <1>1, <1>4, <1>5, <2>1
  <2>3. Busy(t)'
    BY <1>3, <2>1 DEF Busy, Writing
  <2>4. QED
    BY <1>3, <2>1, <2>2, <2>3, LoneOf DEF Held
<1>7. CASE Decide(t)
  <2>1. /\ pc' = [pc EXCEPT ![t] = "overwrite"] /\ call'[t].plan = p
        /\ UNCHANGED <<approval, approvalFile, granted>> /\ approval[p].status = "pending"
    BY <1>1, <1>7 DEF Decide, store, ghosts, Call
  <2>2. \A g \in granted : g[1] # p
    BY <1>5, <2>1 DEF Held
  <2>3. Busy(t)'
    BY <1>3, <2>1, <2>2 DEF Busy, Writing
  <2>4. QED
    BY <1>3, <1>5, <2>1, <2>3, LoneOf DEF Held
<1>8. CASE Overwrite(t)
  <2>1. /\ pc[t] = "overwrite" /\ pc' = [pc EXCEPT ![t] = "dump"]
        /\ UNCHANGED <<call, approvalFile, granted>>
        /\ approval' = [approval EXCEPT ![p] =
             [call[t].request EXCEPT !.status = Verdict(call[t].op), !.decidedBy = call[t].by]]
    BY <1>8 DEF Overwrite, ghosts
  <2>2. \A g \in granted : g[1] # p
    BY <1>5, <2>1 DEF Busy
  <2>3. approval'[p].status = Verdict(call[t].op)
    <3>1. /\ call[t].request \in Approvals!Entries
          /\ call[t].by \in Approver
      BY <2>1, HandlerFacts
         DEF IInv, CallFine, CallGood, AskGood, Call, Asking, Deciding, Approvals!NoEntry
    <3>2. [call[t].request EXCEPT !.status = Verdict(call[t].op),
                                  !.decidedBy = call[t].by].status = Verdict(call[t].op)
      BY <3>1, DecidedIsFine
    <3>3. QED
      BY <1>1, <2>1, <3>2
  <2>4. Held(approval', granted)
    BY <1>1, <1>5, <2>1, <2>2 DEF Held
  <2>5. Busy(t)'
    BY <1>3, <2>1, <2>2, <2>3 DEF Busy
  <2>6. QED
    BY <1>3, <1>5, <2>1, <2>4, <2>5, LoneOf DEF Held
<1>9. CASE Dump(t)
  <2>1. /\ pc[t] = "dump" /\ pc' = [pc EXCEPT ![t] = "replace"] /\ image'[t] = approval
        /\ UNCHANGED <<call, approval, approvalFile, granted>>
    BY <1>1, <1>9 DEF Dump, store, ghosts
  <2>2. Busy(t)'
    BY <1>3, <1>5, <2>1 DEF Busy, Writing
  <2>3. QED
    BY <1>3, <1>5, <2>1, <2>2, LoneOf DEF Held
<1>10. CASE Replace(t)
  <2>1. /\ pc[t] = "replace" /\ approvalFile' = approval /\ approval' = approval
        /\ granted' = IF call[t].op \in {"approve", "grant"}
                      THEN granted \cup {<<p, call[t].by>>} ELSE granted
    BY <1>5, <1>10 DEF Replace, Busy
  <2>2. call[t].op \in {"approve", "grant"} => approval[p].status = "approved"
    BY <1>5, <2>1 DEF Busy, Writing, Verdict
  <2>3. Held(approval', granted') /\ Held(approvalFile', granted')
    BY <1>5, <2>1, <2>2 DEF Held
  <2>4. PICK step \in {"copy", "idle"} : pc' = [pc EXCEPT ![t] = step]
    BY <1>10 DEF Replace, Finish
  <2>5. Busy(t)'
    BY <1>3, <2>4 DEF Busy, Writing
  <2>6. QED
    BY <1>3, <2>3, <2>4, <2>5, LoneOf DEF Held
<1>11. CASE RefreshFailsLate(t) \/ ReplaceFailsLate(t) \/ (Raise(t) /\ Inside(t))
  <2>1. pc' = [pc EXCEPT ![t] = "idle"] /\ granted' = granted
    BY <1>11 DEF RefreshFailsLate, ReplaceFailsLate, Raise, Finish, ghosts
  <2>2. pc[t] \in Writing => Held(Undone(t), granted)
    BY <1>1, <1>5 DEF Busy, Held, Undone
  <2>3. approval' = approval \/ (pc[t] \in Writing /\ approval' = Undone(t))
    BY <1>11 DEF RefreshFailsLate, ReplaceFailsLate, Raise, Writing
  <2>4. \/ approvalFile' \in {approvalFile, Retired(Approvals!Overdue)}
        \/ pc[t] = "replace" /\ approvalFile' = image[t]
    BY <1>11 DEF RefreshFailsLate, ReplaceFailsLate, Raise
  <2>5. Held(approval', granted) /\ Held(approvalFile', granted)
    BY <1>1, <1>4, <1>5, <2>2, <2>3, <2>4 DEF Busy
  <2>6. Busy(t)'
    BY <1>3, <2>1 DEF Busy, Writing
  <2>7. QED
    BY <1>3, <2>1, <2>5, <2>6, LoneOf DEF Held
<1>12. QED
  BY <1>6, <1>7, <1>8, <1>9, <1>10, <1>11 DEF Ask

LEMMA LoneStep ==
    ASSUME IInv, Lone, [Next]_vars, ~overlapped'
    PROVE  Lone'
<1>1. ASSUME NEW t \in Thread, Start(t) \/ Ask(t) \/ (Raise(t) /\ Inside(t))
      PROVE  Lone'
  BY <1>1, LoneStart, LoneAsk
<1>2. ASSUME NEW t \in Thread,
             Copy(t) \/ Save(t) \/ Swap(t) \/ SaveFailsLate(t) \/ (Raise(t) /\ ~Inside(t))
      PROVE  Lone'
  <2>1. UNCHANGED <<approval, approvalFile, granted>>
    BY <1>2 DEF Copy, Save, Swap, SaveFailsLate, Raise, Inside, store, ghosts
  <2>2. \A s \in Thread : \/ ~Inside(s)'
                          \/ pc'[s] = pc[s] /\ call'[s] = call[s] /\ image'[s] = image[s]
    <3>1. CASE Finish(t)
      BY <3>1, FinishedIsOut
    <3>2. CASE Copy(t) \/ Save(t)
      BY <3>2 DEF Copy, Save, Inside, Deciding, Writing, IInv, Handlers
    <3>3. QED
      BY <1>2, <3>1, <3>2 DEF Swap, SaveFailsLate, Raise
  <2>3. QED
    BY <2>1, <2>2, LoneQuiet
<1>3. CASE StoreElsewhere
  <2>1. /\ UNCHANGED <<control, granted>> /\ \A t \in Thread : ~Inside(t)
        /\ approval' \in {approval, approvalFile'}
    BY <1>3 DEF StoreElsewhere, ghosts
  <2>2. PICK S \in {{}, Approvals!Overdue} : approvalFile' = Retired(S)
    BY <1>3 DEF StoreElsewhere
  <2>3. Held(approval', granted) /\ Held(approvalFile', granted)
    BY <2>1, <2>2, RetiredIsFine DEF Lone, Held, IInv, Ghosts
  <2>4. \A t \in Thread : ~Inside(t)'
    BY <2>1 DEF control, Inside
  <2>5. \A t \in Thread : Busy(t)'
    BY <2>4 DEF Inside, Busy, Deciding, Writing
  <2>6. QED
    BY <2>1, <2>3, <2>4, <2>5 DEF Lone, Held
<1>4. CASE Restart
  <2>1. \A t \in Thread : ~Inside(t)'
    BY <1>4 DEF Restart, Inside, Deciding, Writing
  <2>2. \A t \in Thread : Busy(t)'
    BY <2>1 DEF Inside, Busy, Deciding, Writing
  <2>3. Held(approval, granted)' /\ Held(approvalFile, granted)'
    BY <1>4 DEF Restart, ghosts, Lone, Held
  <2>4. QED
    BY <2>1, <2>2, <2>3 DEF Lone
<1>5. CASE (\E b \in Backup : BackupStep(b)) \/ Tick \/ UNCHANGED vars
  <2>1. UNCHANGED <<approval, approvalFile, granted, control>>
    BY <1>5 DEF BackupStep, Tick, vars, store, ghosts
  <2>2. QED
    BY <2>1, LoneQuiet DEF control
<1>6. QED
  BY <1>1, <1>2, <1>3, <1>4, <1>5 DEF Next

\* Once two calls have met in the store, that stays on record.
LEMMA OverlapStays == [Next]_vars => (overlapped => overlapped')
<1> SUFFICES ASSUME [Next]_vars, overlapped
             PROVE  overlapped'
  OBVIOUS
<1>1. ASSUME NEW t \in Thread, Start(t)
      PROVE  overlapped'
  <2>1. \A step, op, p, by, rec : Begin(t, step, op, p, by, rec) => overlapped'
    BY DEF Begin
  <2>2. QED
    BY <1>1, <2>1 DEF Start, StartPlan, StartApprove, StartRoute, StartAttach, StartExecute
<1>2. ASSUME NEW t \in Thread,
             Ask(t) \/ Copy(t) \/ Save(t) \/ Swap(t) \/ Raise(t) \/ SaveFailsLate(t)
      PROVE  overlapped'
  BY <1>2 DEF Ask, Refresh, Decide, Overwrite, Dump, Replace, RefreshFailsLate,
     ReplaceFailsLate, Copy, Save, Swap, Raise, SaveFailsLate
<1>3. ASSUME \/ StoreElsewhere \/ Restart \/ Tick \/ UNCHANGED vars
             \/ \E b \in Backup : BackupStep(b)
      PROVE  overlapped'
  BY <1>3 DEF StoreElsewhere, Restart, Tick, vars, BackupStep
<1>4. QED
  BY <1>1, <1>2, <1>3 DEF Next

\* A plan whose request was denied, in memory or in the file, is neither approved
\* nor ready, in no copy, ever after, through failed saves and restarts, unless
\* two calls were in the approval store at once.
THEOREM DenialIsKept == Spec => []DenialHolds
<1>1. Init => (~overlapped => Lone)
  BY DEF Init, Lone, Held, Busy, Inside, Deciding, Writing
<1>2. IInv /\ (~overlapped => Lone) /\ [Next]_vars => (~overlapped => Lone)'
  BY LoneStep, OverlapStays
<1>3. IInv /\ (~overlapped => Lone) => DenialHolds
  <2> SUFFICES ASSUME IInv, Lone, NEW p \in Plan,
                      "denied" \in {approval[p].status, approvalFile[p].status},
                      NEW c \in Copies(p), c.state \in {"approved", "ready"}
               PROVE  FALSE
    BY DEF DenialHolds
  <2>1. c # NoPlan
    BY DEF NoPlan
  <2>2. PICK by \in Approver : <<p, by>> \in granted
    BY <2>1, CopiesAreFine DEF Fine, Good
  <2>3. QED
    BY <2>2 DEF Lone, Held
<1>4. QED
  BY <1>1, <1>2, <1>3, InductiveInvariant, PTL DEF Spec
-----------------------------------------------------------------------------
(***************************************************************************)
(* Plans served by a single thread. A save may fail after the file was     *)
(* replaced, so the file may be ahead of the dictionary, but never by more *)
(* than one transition of one plan; a restart then makes that transition.  *)
(***************************************************************************)

\* One transition in the life of plan p, from record a to record b.
Transition(p, a, b, gr, pr) ==
    \/ a = NoPlan /\ b \in Record /\ b.state \in Outcome /\ b.backup = None
    \/ /\ a.state = "approval_required" /\ b = [a EXCEPT !.state = "approved"]
       /\ \E by \in Approver : <<p, by>> \in gr
    \/ /\ a.state = "approved"
       /\ \E x \in Backup \cap pr : b = [a EXCEPT !.state = "ready", !.backup = x]
    \/ /\ a \in Record /\ a.state # "blocked_by_default"
       /\ b = [a EXCEPT !.state = "blocked_by_default"]

\* Table B is table A, or A after one transition of one plan.
OneStep(A, B, gr, pr) ==
    \/ B = A
    \/ \E p \in Plan : /\ \A q \in Plan : q # p => B[q] = A[q]
                       /\ Transition(p, A[p], B[p], gr, pr)

Near == OneStep(plans, planFile, granted, proved)

\* The handler of t makes at most one transition.
Doing(t) ==
    LET p == call[t].plan IN
    /\ pc[t] \in Asking /\ call[t].op = "approve" =>
           /\ plans[p].state = "approval_required"
           /\ call[t].record = [plans[p] EXCEPT !.state = "approved"]
    /\ pc[t] \in Asking /\ call[t].op = "plan" =>
           Transition(p, plans[p], call[t].record, granted, proved)
    /\ pc[t] \in Storing => \/ call[t].record = plans[p]
                            \/ Transition(p, plans[p], call[t].record, granted, proved)
    /\ pc[t] \in {"save", "swap"} => draft[t] = [plans EXCEPT ![p] = call[t].record]
    /\ pc[t] = "swap" => planFile = draft[t]

\* What a caller was told about a plan is in the dictionary, or a later state is.
Told == \A a \in acked : Rank(plans[a[1]].state) >= Rank(a[2])

LInv(t) == Near /\ Doing(t) /\ Told

LEMMA TransitionStays ==
    ASSUME NEW p, NEW a, NEW b, NEW gr, NEW pr, NEW gr2, NEW pr2,
           gr \subseteq gr2, pr \subseteq pr2, Transition(p, a, b, gr, pr)
    PROVE  Transition(p, a, b, gr2, pr2)
BY DEF Transition

LEMMA OneStepStays ==
    ASSUME NEW A, NEW B, NEW gr, NEW pr, NEW gr2, NEW pr2,
           gr \subseteq gr2, pr \subseteq pr2, OneStep(A, B, gr, pr)
    PROVE  OneStep(A, B, gr2, pr2)
BY TransitionStays DEF OneStep

LEMMA Ranks ==
    /\ \A s : Rank(s) \in Nat
    /\ Rank("absent") = 0 /\ \A s \in Outcome : Rank(s) = 1
    /\ Rank("approved") = 2 /\ Rank("ready") = 3 /\ Rank("blocked_by_default") = 4
    /\ \A s \in State : Rank(s) <= 4
<1>1. ASSUME NEW s PROVE Rank(s) \in {0, 1, 2, 3, 4}
  BY DEF Rank
<1>2. Rank("absent") = 0
  BY DEF Rank, Outcome
<1>3. \A s \in Outcome : Rank(s) = 1
  BY DEF Rank, Outcome
<1>4. Rank("approved") = 2 /\ Rank("ready") = 3 /\ Rank("blocked_by_default") = 4
  BY DEF Rank, Outcome
<1>5. QED
  BY <1>1, <1>2, <1>3, <1>4

\* No transition leads back.
LEMMA RankGrows ==
    ASSUME NEW p, NEW a \in Record \cup {NoPlan}, NEW b, NEW gr, NEW pr,
           Transition(p, a, b, gr, pr)
    PROVE  Rank(b.state) >= Rank(a.state)
<1>1. CASE a = NoPlan
  <2>1. Rank(a.state) = 0 /\ Rank(b.state) \in Nat
    BY <1>1, Ranks DEF NoPlan
  <2>2. QED
    BY <2>1
<1>2. CASE a \in Record
  <2>1. a.state \in State /\ a # NoPlan
    BY <1>2, NoPlanIsNoRecord DEF Record
  <2>2. CASE a.state = "approval_required" /\ b = [a EXCEPT !.state = "approved"]
    <3>1. b.state = "approved"
      BY <1>2, <2>2 DEF Record
    <3>2. Rank(a.state) = 1
      BY <2>2, Ranks DEF Outcome
    <3>3. QED
      BY <3>1, <3>2, Ranks
  <2>3. CASE a.state = "approved" /\ \E x : b = [a EXCEPT !.state = "ready", !.backup = x]
    <3>1. b.state = "ready"
      BY <1>2, <2>3 DEF Record
    <3>2. QED
      BY <2>3, <3>1, Ranks
  <2>4. CASE b = [a EXCEPT !.state = "blocked_by_default"]
    <3>1. b.state = "blocked_by_default"
      BY <1>2, <2>4 DEF Record
    <3>2. QED
      BY <2>1, <3>1, Ranks
  <2>5. QED
    BY <2>1, <2>2, <2>3, <2>4 DEF Transition
<1>3. QED
  BY <1>1, <1>2

LEMMA RanksGrow ==
    ASSUME NEW A \in Table, NEW B, NEW gr, NEW pr, OneStep(A, B, gr, pr), NEW p \in Plan
    PROVE  Rank(B[p].state) >= Rank(A[p].state)
<1>1. A[p] \in Record \cup {NoPlan}
  BY DEF Table
<1>2. B[p] = A[p] \/ Transition(p, A[p], B[p], gr, pr)
  BY DEF OneStep
<1>3. CASE B[p] = A[p]
  BY <1>3, Ranks
<1>4. CASE Transition(p, A[p], B[p], gr, pr)
  BY <1>1, <1>4, RankGrows
<1>5. QED
  BY <1>2, <1>3, <1>4

\* What was told stays true while the plans go on.
LEMMA ToldStays ==
    ASSUME IInv, Told, acked' = acked, NEW gr, NEW pr, OneStep(plans, plans', gr, pr)
    PROVE  Told'
<1> SUFFICES ASSUME NEW a \in acked
             PROVE  Rank(plans'[a[1]].state) >= Rank(a[2])
  BY DEF Told
<1>1. a[1] \in Plan /\ plans \in Table
  BY DEF IInv, Ghosts, Tables
<1>2. /\ Rank(plans[a[1]].state) >= Rank(a[2])
      /\ Rank(plans'[a[1]].state) >= Rank(plans[a[1]].state)
  BY <1>1, RanksGrow DEF Told
<1>3. /\ Rank(plans[a[1]].state) \in Nat /\ Rank(a[2]) \in Nat
      /\ Rank(plans'[a[1]].state) \in Nat
  BY Ranks
<1>4. QED
  BY <1>2, <1>3

\* Approvals and proofs of backups are never withdrawn.
LEMMA Grows == [Next]_vars => granted \subseteq granted' /\ proved \subseteq proved'
<1> SUFFICES ASSUME [Next]_vars
             PROVE  granted \subseteq granted' /\ proved \subseteq proved'
  OBVIOUS
<1>1. ASSUME NEW t \in Thread, Start(t)
      PROVE  UNCHANGED <<granted, proved>>
  BY <1>1 DEF Start, StartPlan, StartApprove, StartRoute, StartAttach, StartExecute, ghosts
<1>2. ASSUME NEW t \in Thread, Replace(t)
      PROVE  granted \subseteq granted' /\ proved' = proved
  BY <1>2 DEF Replace
<1>3. ASSUME NEW t \in Thread,
             \/ Refresh(t) \/ Decide(t) \/ Overwrite(t) \/ Dump(t) \/ RefreshFailsLate(t)
             \/ ReplaceFailsLate(t) \/ Copy(t) \/ Save(t) \/ Swap(t) \/ Raise(t)
             \/ SaveFailsLate(t)
      PROVE  UNCHANGED <<granted, proved>>
  BY <1>3 DEF Refresh, Decide, Overwrite, Dump, RefreshFailsLate, ReplaceFailsLate, Copy,
     Save, Swap, Raise, SaveFailsLate, ghosts
<1>4. ASSUME NEW b \in Backup, BackupStep(b)
      PROVE  granted' = granted /\ proved \subseteq proved'
  BY <1>4 DEF BackupStep
<1>5. ASSUME StoreElsewhere \/ Restart \/ Tick \/ UNCHANGED vars
      PROVE  UNCHANGED <<granted, proved>>
  BY <1>5 DEF StoreElsewhere, Restart, Tick, vars, ghosts
<1>6. QED
  BY <1>1, <1>2, <1>3, <1>4, <1>5 DEF Next, Ask

\* A step that leaves the dictionary, the file and what was told alone.
LEMMA NearStays ==
    ASSUME [Next]_vars, NEW t, LInv(t), UNCHANGED <<plans, planFile, acked>>
    PROVE  Near' /\ Told'
BY Grows, OneStepStays DEF LInv, Near, Told

LEMMA QuietL ==
    ASSUME [Next]_vars, NEW t \in Thread, LInv(t), UNCHANGED <<plans, planFile, control, acked>>
    PROVE  LInv(t)'
<1>1. Near' /\ Told'
  BY NearStays
<1>2. pc[t] \in Storing => \/ call[t].record = plans[call[t].plan]
                           \/ Transition(call[t].plan, plans[call[t].plan], call[t].record,
                                         granted', proved')
  BY Grows, TransitionStays DEF LInv, Doing
<1>3. pc[t] \in Asking /\ call[t].op = "plan" =>
          Transition(call[t].plan, plans[call[t].plan], call[t].record, granted', proved')
  BY Grows, TransitionStays DEF LInv, Doing
<1>4. Doing(t)'
  BY <1>2, <1>3 DEF LInv, Doing, control
<1>5. QED
  BY <1>1, <1>4 DEF LInv

\* The handler of t ends, or has begun.
LEMMA EndsL ==
    ASSUME NEW t \in Thread, Near', Told', pc'[t] = "idle"
    PROVE  LInv(t)'
BY DEF LInv, Doing, Asking, Deciding, Writing, Storing

LEMMA BeginsL ==
    ASSUME IInv, [Next]_vars, NEW t \in Thread, LInv(t),
           NEW step \in {"refresh", "dump", "copy"}, NEW op, NEW p \in Plan, NEW by, NEW rec,
           Begin(t, step, op, p, by, rec), UNCHANGED <<plans, planFile, acked, granted, proved>>,
           op = "approve" => /\ plans[p].state = "approval_required"
                             /\ rec = [plans[p] EXCEPT !.state = "approved"],
           op = "plan" => Transition(p, plans[p], rec, granted, proved),
           step = "copy" => rec = plans[p] \/ Transition(p, plans[p], rec, granted, proved)
    PROVE  LInv(t)'
<1>1. /\ pc'[t] = step /\ call'[t].plan = p /\ call'[t].record = rec
      /\ call'[t].op = op
  BY DEF Begin, IInv, Handlers
<1>2. Near' /\ Told'
  BY NearStays
<1>3. /\ step = "copy" => rec = plans[p] \/ Transition(p, plans[p], rec, granted, proved)
      /\ op = "plan" => Transition(p, plans[p], rec, granted, proved)
  OBVIOUS
<1>4. Doing(t)'
  BY <1>1, <1>3 DEF Doing, Asking, Deciding, Writing, Storing
<1>5. QED
  BY <1>2, <1>4 DEF LInv

LEMMA StartL ==
    ASSUME IInv, [Next]_vars, NEW t \in Thread, LInv(t), Start(t)
    PROVE  LInv(t)'
<1>1. ASSUME NEW p \in Plan, NEW u \in Requester, NEW outcome \in Outcome,
             StartPlan(t, p, u, outcome)
      PROVE  LInv(t)'
  <2> DEFINE rec == [state |-> outcome, actor |-> u, backup |-> None]
  <2>1. /\ p \notin issued
        /\ \E step \in {"dump", "copy"} : Begin(t, step, "plan", p, u, rec)
        /\ UNCHANGED <<plans, planFile, acked, granted, proved>>
    BY <1>1 DEF StartPlan
  <2>2. plans[p] = NoPlan
    BY <2>1 DEF IInv, Tables, Fine, Good
  <2>3. rec \in Record /\ rec.state = outcome /\ rec.backup = None
    BY DEF Record, State
  <2> HIDE DEF rec
  <2>4. Transition(p, plans[p], rec, granted, proved)
    BY <2>2, <2>3 DEF Transition
  <2>5. QED
    BY <2>1, <2>4, BeginsL
<1>2. ASSUME NEW p \in Plan, NEW u \in Approver, StartApprove(t, p, u)
      PROVE  LInv(t)'
  <2> DEFINE rec == [plans[p] EXCEPT !.state = "approved"]
  <2>1. /\ Begin(t, "refresh", "approve", p, u, rec) /\ plans[p].state = "approval_required"
        /\ UNCHANGED <<plans, planFile, acked, granted, proved>>
    BY <1>2 DEF StartApprove, Approvable, ghosts
  <2> HIDE DEF rec
  <2>2. rec = [plans[p] EXCEPT !.state = "approved"]
    BY DEF rec
  <2>3. QED
    BY <2>1, <2>2, BeginsL
<1>3. ASSUME NEW p \in Plan, NEW b \in Backup, StartAttach(t, p, b)
      PROVE  LInv(t)'
  <2> DEFINE rec == [plans[p] EXCEPT !.state = "ready", !.backup = b]
  <2>1. /\ Begin(t, "copy", "attach", p, None, rec) /\ plans[p].state = "approved"
        /\ Backups!Verified(b) /\ UNCHANGED <<plans, planFile, acked, granted, proved>>
    BY <1>3 DEF StartAttach, Attachable, ghosts
  <2>2. b \in proved
    BY <2>1 DEF IInv, Ledgers
  <2>3. Transition(p, plans[p], rec, granted, proved)
    BY <2>1, <2>2 DEF Transition
  <2> HIDE DEF rec
  <2>4. QED
    BY <2>1, <2>3, BeginsL
<1>4. ASSUME NEW p \in Plan, StartExecute(t, p)
      PROVE  LInv(t)'
  <2> DEFINE rec == [plans[p] EXCEPT !.state = "blocked_by_default"]
  <2>1. /\ Begin(t, "copy", "execute", p, None, rec) /\ plans[p] # NoPlan
        /\ UNCHANGED <<plans, planFile, acked, granted, proved>>
    BY <1>4 DEF StartExecute, ghosts
  <2>2. plans[p] \in Record
    BY <2>1 DEF IInv, Tables, Table
  <2>3. plans[p].state = "blocked_by_default" => rec = plans[p]
    BY <2>2 DEF Record
  <2>4. plans[p].state # "blocked_by_default" => Transition(p, plans[p], rec, granted, proved)
    BY <2>2 DEF Transition
  <2> HIDE DEF rec
  <2>5. QED
    BY <2>1, <2>3, <2>4, BeginsL
<1>5. ASSUME NEW p \in Plan, NEW u \in Approver, NEW op \in {"grant", "deny"},
             StartRoute(t, p, u, op)
      PROVE  LInv(t)'
  <2>1. /\ Begin(t, "refresh", op, p, u, NoPlan)
        /\ UNCHANGED <<plans, planFile, acked, granted, proved>>
    BY <1>5 DEF StartRoute, ghosts
  <2>2. QED
    BY <2>1, BeginsL
<1>6. QED
  BY <1>1, <1>2, <1>3, <1>4, <1>5 DEF Start

LEMMA AskL ==
    ASSUME IInv, [Next]_vars, NEW t \in Thread, LInv(t), Ask(t)
    PROVE  LInv(t)'
<1>1. pc[t] \in Asking /\ UNCHANGED <<plans, planFile, acked, proved>>
  BY DEF Ask, Refresh, Decide, Overwrite, Dump, Replace, RefreshFailsLate, ReplaceFailsLate,
     Asking, Deciding, Writing, store, ghosts
<1>2. Near' /\ Told'
  BY <1>1, NearStays
<1>3. call[t].op = "approve" => /\ plans[call[t].plan].state = "approval_required"
                                /\ call[t].record = [plans[call[t].plan] EXCEPT
                                                       !.state = "approved"]
  BY <1>1 DEF LInv, Doing
<1>4. call[t].op = "plan" =>
          Transition(call[t].plan, plans[call[t].plan], call[t].record, granted', proved')
  BY <1>1, Grows, TransitionStays DEF LInv, Doing
<1>5. CASE \/ RefreshFailsLate(t) \/ ReplaceFailsLate(t)
           \/ Replace(t) /\ Finish(t)
  <2>1. pc'[t] = "idle"
    BY <1>5 DEF RefreshFailsLate, ReplaceFailsLate, Finish, IInv, Handlers
  <2>2. QED
    BY <1>2, <2>1, EndsL
<1>6. CASE Refresh(t) \/ Decide(t) \/ Overwrite(t) \/ Dump(t)
  <2>1. /\ pc'[t] \in Asking
        /\ call'[t].op = call[t].op /\ call'[t].plan = call[t].plan
        /\ call'[t].record = call[t].record
    BY <1>6 DEF Refresh, Decide, Overwrite, Dump, IInv, Handlers, Call, Asking, Deciding,
       Writing
  <2>2. Doing(t)'
    BY <1>1, <1>3, <1>4, <2>1 DEF Doing, Asking, Deciding, Writing, Storing
  <2>3. QED
    BY <1>2, <2>2 DEF LInv
<1>7. CASE Replace(t) /\ ~Finish(t)
  <2>1. /\ pc'[t] = "copy" /\ call' = call /\ call[t].op \in {"plan", "approve"}
        /\ call[t].op = "approve" => granted' = granted \cup {<<call[t].plan, call[t].by>>}
    BY <1>7 DEF Replace, IInv, Handlers
  <2>2. call[t].op = "approve" => call[t].by \in Approver
    BY <1>1, HandlerFacts DEF IInv, CallFine, CallGood, AskGood
  <2>3. Transition(call[t].plan, plans[call[t].plan], call[t].record, granted', proved')
    <3>1. CASE call[t].op = "plan"
      BY <1>4, <3>1
    <3>2. CASE call[t].op = "approve"
      BY <1>3, <2>1, <2>2, <3>2 DEF Transition
    <3>3. QED
      BY <2>1, <3>1, <3>2
  <2>4. Doing(t)'
    BY <1>1, <2>1, <2>3 DEF Doing, Asking, Deciding, Writing, Storing
  <2>5. QED
    BY <1>2, <2>4 DEF LInv
<1>8. QED
  BY <1>5, <1>6, <1>7 DEF Ask

LEMMA StoreL ==
    ASSUME IInv, [Next]_vars, NEW t \in Thread, LInv(t),
           Copy(t) \/ Save(t) \/ Raise(t) \/ SaveFailsLate(t)
    PROVE  LInv(t)'
<1>1. UNCHANGED <<plans, acked, granted, proved>> /\ pc[t] \in Asking \cup Storing
  BY DEF Copy, Save, Raise, SaveFailsLate, Failing, ghosts, Asking, Deciding, Writing, Storing
<1>2. Told'
  BY <1>1 DEF LInv, Told
<1>3. pc[t] \in Storing => /\ call[t].plan \in Plan
                          /\ \/ call[t].record = plans[call[t].plan]
                             \/ Transition(call[t].plan, plans[call[t].plan], call[t].record,
                                           granted, proved)
  BY HandlerFacts DEF IInv, LInv, Doing, Storing
<1>4. pc[t] \in {"save", "swap"} => OneStep(plans, draft[t], granted, proved)
  <2> SUFFICES ASSUME pc[t] \in {"save", "swap"}
               PROVE  OneStep(plans, draft[t], granted, proved)
    OBVIOUS
  <2> DEFINE p == call[t].plan
  <2>1. /\ p \in Plan /\ draft[t] = [plans EXCEPT ![p] = call[t].record] /\ plans \in Table
        /\ call[t].record = plans[p] \/ Transition(p, plans[p], call[t].record, granted, proved)
    BY <1>3 DEF LInv, Doing, Storing, IInv, Tables
  <2> HIDE DEF p
  <2>2. CASE call[t].record = plans[p]
    <3>1. draft[t] = plans
      BY <2>1, <2>2 DEF Table
    <3>2. QED
      BY <3>1 DEF OneStep
  <2>3. CASE Transition(p, plans[p], call[t].record, granted, proved)
    <3>1. /\ \A q \in Plan : q # p => draft[t][q] = plans[q]
          /\ draft[t][p] = call[t].record
      BY <2>1 DEF Table
    <3>2. Transition(p, plans[p], draft[t][p], granted, proved)
      BY <2>3, <3>1
    <3>3. QED
      BY <2>1, <3>1, <3>2 DEF OneStep
  <2>4. QED
    BY <2>1, <2>2, <2>3
<1>5. CASE Copy(t)
  <2>1. /\ pc[t] = "copy" /\ pc'[t] = "save" /\ UNCHANGED <<planFile, call>>
        /\ draft'[t] = [plans EXCEPT ![call[t].plan] = call[t].record]
    BY <1>5 DEF Copy, IInv, Handlers
  <2>2. Near'
    BY <1>1, <2>1 DEF LInv, Near
  <2>3. Doing(t)'
    BY <1>1, <1>3, <2>1 DEF Doing, Asking, Deciding, Writing, Storing
  <2>4. QED
    BY <1>2, <2>2, <2>3 DEF LInv
<1>6. CASE Save(t)
  <2>1. /\ pc[t] = "save" /\ pc'[t] = "swap" /\ UNCHANGED <<call, draft>>
        /\ planFile' = draft[t]
    BY <1>6 DEF Save, IInv, Handlers
  <2>2. Near'
    BY <1>1, <1>4, <2>1 DEF Near
  <2>3. draft[t] = [plans EXCEPT ![call[t].plan] = call[t].record]
    BY <2>1 DEF LInv, Doing
  <2>4. Doing(t)'
    BY <1>1, <1>3, <2>1, <2>3 DEF Doing, Asking, Deciding, Writing, Storing
  <2>5. QED
    BY <1>2, <2>2, <2>4 DEF LInv
<1>7. CASE Raise(t) \/ SaveFailsLate(t)
  <2>1. pc'[t] = "idle"
    BY <1>7 DEF Raise, SaveFailsLate, Finish, IInv, Handlers
  <2>2. planFile' = planFile \/ (pc[t] = "save" /\ planFile' = draft[t])
    BY <1>7 DEF Raise, SaveFailsLate
  <2>3. Near'
    BY <1>1, <1>4, <2>2 DEF LInv, Near
  <2>4. QED
    BY <1>2, <2>1, <2>3, EndsL
<1>8. QED
  BY <1>5, <1>6, <1>7

\* The two steps that change the dictionary make it what the file is.
LEMMA ReadL ==
    ASSUME IInv, [Next]_vars, NEW t \in Thread, LInv(t), Swap(t) \/ Restart
    PROVE  LInv(t)' /\ plans' = planFile /\ UNCHANGED <<granted, proved>>
<1>1. plans' = planFile /\ UNCHANGED <<planFile, granted, proved>> /\ pc'[t] = "idle"
  BY DEF Swap, Restart, Finish, LInv, Doing, IInv, Handlers, ghosts
<1>2. Near' /\ OneStep(plans, plans', granted, proved)
  BY <1>1 DEF LInv, Near, OneStep
<1>3. CASE Restart
  <2>1. Told'
    BY <1>2, <1>3, ToldStays DEF Restart, ghosts, LInv
  <2>2. QED
    BY <1>1, <1>2, <2>1, EndsL
<1>4. CASE Swap(t)
  <2> DEFINE p   == call[t].plan
             rec == call[t].record
  <2>1. /\ pc[t] = "swap" /\ acked' = acked \cup {<<p, rec.state>>}
        /\ p \in Plan /\ plans \in Table
    BY <1>4, HandlerFacts DEF Swap, IInv, Tables
  <2>2. plans'[p] = rec
    BY <1>4, <2>1 DEF Swap, LInv, Doing, Table
  <2> HIDE DEF p, rec
  <2>3. ASSUME NEW a \in acked'
        PROVE  Rank(plans'[a[1]].state) >= Rank(a[2])
    <3>1. CASE a = <<p, rec.state>>
      BY <2>2, <3>1, Ranks
    <3>2. CASE a \in acked
      <4>1. a[1] \in Plan
        BY <3>2 DEF IInv, Ghosts
      <4>2. /\ Rank(plans[a[1]].state) >= Rank(a[2])
            /\ Rank(plans'[a[1]].state) >= Rank(plans[a[1]].state)
        BY <1>2, <2>1, <3>2, <4>1, RanksGrow DEF LInv, Told
      <4>3. /\ Rank(plans[a[1]].state) \in Nat /\ Rank(a[2]) \in Nat
            /\ Rank(plans'[a[1]].state) \in Nat
        BY Ranks
      <4>4. QED
        BY <4>2, <4>3
    <3>3. QED
      BY <2>1, <2>3, <3>1, <3>2
  <2>4. Told'
    BY <2>3 DEF Told
  <2>5. QED
    BY <1>1, <1>2, <2>4, EndsL
<1>5. QED
  BY <1>3, <1>4

\* One step of a service with a single thread: the dictionary stays or becomes
\* what the file is.
LEMMA StepLInv ==
    ASSUME IInv, [Next]_vars, NEW t \in Thread, Thread = {t}, LInv(t)
    PROVE  /\ LInv(t)'
           /\ plans' = plans \/ (plans' = planFile /\ UNCHANGED <<granted, proved>>)
<1>1. \A x \in Thread : x = t
  OBVIOUS
<1>2. ASSUME Start(t) \/ Ask(t)
      PROVE  LInv(t)' /\ plans' = plans
  BY <1>2, StartL, AskL DEF Start, StartPlan, StartApprove, StartRoute, StartAttach,
     StartExecute, Ask, Refresh, Decide, Overwrite, Dump, Replace, RefreshFailsLate,
     ReplaceFailsLate
<1>3. ASSUME Copy(t) \/ Save(t) \/ Raise(t) \/ SaveFailsLate(t)
      PROVE  LInv(t)' /\ plans' = plans
  BY <1>3, StoreL DEF Copy, Save, Raise, SaveFailsLate
<1>4. ASSUME Swap(t) \/ Restart
      PROVE  LInv(t)' /\ plans' = planFile /\ UNCHANGED <<granted, proved>>
  BY <1>4, ReadL
<1>5. ASSUME \/ StoreElsewhere
             \/ \E b \in Backup : BackupStep(b)
             \/ Tick
             \/ UNCHANGED vars
      PROVE  LInv(t)' /\ plans' = plans
  <2>1. UNCHANGED <<plans, planFile, control, acked>>
    BY <1>5 DEF StoreElsewhere, BackupStep, Tick, vars, ghosts
  <2>2. QED
    BY <2>1, QuietL
<1>6. QED
  BY <1>1, <1>2, <1>3, <1>4, <1>5 DEF Next

LEMMA InitLInv ==
    ASSUME Init, NEW t \in Thread
    PROVE  LInv(t)
BY DEF Init, LInv, Near, OneStep, Told, Doing, Asking, Deciding, Writing, Storing

\* The service has one thread (the instance of operation_serial).
Serial == \E t \in Thread : Thread = {t}

LEMMA SerialInvariant ==
    ASSUME NEW t \in Thread, Thread = {t}
    PROVE  Spec => [](IInv /\ LInv(t))
<1>1. Init => LInv(t)
  BY InitLInv
<1>2. IInv /\ LInv(t) /\ [Next]_vars => LInv(t)'
  BY StepLInv
<1>3. QED
  BY <1>1, <1>2, InductiveInvariant, PTL DEF Spec

\* A plan the only caller was told about is in the file, or has gone on, whatever
\* save failed and whenever the server was restarted.
THEOREM PlansLast == ASSUME Serial PROVE Spec => []AckedPlanIsDurable
<1>1. PICK t \in Thread : Thread = {t}
  BY DEF Serial
<1>2. ASSUME IInv, LInv(t)
      PROVE  AckedPlanIsDurable
  <2> SUFFICES ASSUME NEW a \in acked
               PROVE  Rank(planFile[a[1]].state) >= Rank(a[2])
    BY DEF AckedPlanIsDurable
  <2>1. a[1] \in Plan /\ plans \in Table
    BY <1>2 DEF IInv, Ghosts, Tables
  <2>2. /\ Rank(plans[a[1]].state) >= Rank(a[2])
        /\ Rank(planFile[a[1]].state) >= Rank(plans[a[1]].state)
    BY <1>2, <2>1, RanksGrow DEF LInv, Near, Told
  <2>3. /\ Rank(plans[a[1]].state) \in Nat /\ Rank(a[2]) \in Nat
        /\ Rank(planFile[a[1]].state) \in Nat
    BY Ranks
  <2>4. QED
    BY <2>2, <2>3
<1>3. Spec => [](IInv /\ LInv(t))
  BY <1>1, SerialInvariant
<1>4. QED
  BY <1>2, <1>3, PTL

-----------------------------------------------------------------------------
(***************************************************************************)
(* The refinement of OperationLifecycle: where the plans of the dictionary *)
(* stand, and the backups attached to them.                                *)
(***************************************************************************)

\* Plan p moves from record a to record b and the others stay.
LEMMA StageMoves ==
    ASSUME NEW p \in Plan, NEW to,
           \A q \in Plan : q # p => plans'[q] = plans[q], plans'[p].state = to
    PROVE  [q \in Plan |-> plans[q].state]' =
               [[q \in Plan |-> plans[q].state] EXCEPT ![p] = to]
OBVIOUS

LEMMA AttachedMoves ==
    ASSUME NEW p \in Plan, NEW to,
           \A q \in Plan : q # p => plans'[q] = plans[q], plans'[p].backup = to
    PROVE  [q \in Plan |-> plans[q].backup]' =
               [[q \in Plan |-> plans[q].backup] EXCEPT ![p] = to]
OBVIOUS

LEMMA AttachedStays ==
    ASSUME NEW p \in Plan,
           \A q \in Plan : q # p => plans'[q] = plans[q], plans'[p].backup = plans[p].backup
    PROVE  [q \in Plan |-> plans[q].backup]' = [q \in Plan |-> plans[q].backup]
OBVIOUS

LEMMA LifeMoves ==
    ASSUME plans \in Table, UNCHANGED <<granted, proved>>,
           NEW p \in Plan, \A q \in Plan : q # p => plans'[q] = plans[q],
           Transition(p, plans[p], plans'[p], granted, proved)
    PROVE  Lifecycle!Next
<1> DEFINE a == plans[p]
           b == plans'[p]
<1>1. a \in Record \cup {NoPlan} /\ \A q \in Plan : q # p => plans'[q] = plans[q]
  BY DEF Table
<1>2. ASSUME a = NoPlan, b.backup = None,
             NEW to \in {"approval_required", "rejected", "planned"}, b.state = to
      PROVE  Lifecycle!Next
  <2>1. a.state = "absent" /\ b.backup = a.backup
    BY <1>2 DEF NoPlan
  <2>2. Lifecycle!Move(p, {"absent"}, to)
    BY <1>1, <1>2, <2>1, StageMoves DEF Lifecycle!Move
  <2>3. UNCHANGED [q \in Plan |-> plans[q].backup]
    BY <1>1, <2>1, AttachedStays
  <2>4. Lifecycle!Propose(p)
    BY <2>2, <2>3 DEF Lifecycle!Propose
  <2>5. QED
    BY <2>4 DEF Lifecycle!Next
<1>3. ASSUME a.state = "approval_required", b = [a EXCEPT !.state = "approved"],
             \E by \in Approver : <<p, by>> \in granted
      PROVE  Lifecycle!Next
  <2>1. b.state = "approved" /\ b.backup = a.backup
    BY <1>1, <1>3 DEF Record, NoPlan
  <2>2. Lifecycle!Move(p, {"approval_required"}, "approved")
    BY <1>1, <1>3, <2>1, StageMoves DEF Lifecycle!Move
  <2>3. Lifecycle!Approve(p)
    BY <1>1, <1>3, <2>1, <2>2, AttachedStays DEF Lifecycle!Approve
  <2>4. QED
    BY <2>3 DEF Lifecycle!Next
<1>4. ASSUME a.state = "approved", NEW x \in Backup, x \in proved,
             b = [a EXCEPT !.state = "ready", !.backup = x]
      PROVE  Lifecycle!Next
  <2>1. b.state = "ready" /\ b.backup = x
    BY <1>1, <1>4 DEF Record, NoPlan
  <2>2. Lifecycle!Move(p, {"approved"}, "ready")
    BY <1>1, <1>4, <2>1, StageMoves DEF Lifecycle!Move
  <2>3. Lifecycle!Ready(p, x)
    BY <1>1, <1>4, <2>1, <2>2, AttachedMoves DEF Lifecycle!Ready
  <2>4. QED
    BY <2>3 DEF Lifecycle!Next
<1>5. ASSUME a \in Record, a.state # "blocked_by_default",
             b = [a EXCEPT !.state = "blocked_by_default"]
      PROVE  Lifecycle!Next
  <2>1. /\ b.state = "blocked_by_default" /\ b.backup = a.backup
        /\ a.state \in {"approval_required", "rejected", "planned", "approved", "ready"}
    BY <1>5 DEF Record, State, Outcome
  <2>2. Lifecycle!Move(p, {"approval_required", "rejected", "planned", "approved", "ready"},
                       "blocked_by_default")
    BY <1>1, <2>1, StageMoves DEF Lifecycle!Move
  <2>3. Lifecycle!Block(p)
    BY <1>1, <2>1, <2>2, AttachedStays DEF Lifecycle!Block
  <2>4. QED
    BY <2>3 DEF Lifecycle!Next
<1>6. QED
  BY <1>2, <1>3, <1>4, <1>5 DEF Transition, Outcome

\* A step that leaves the dictionary alone gives an approval, verifies a backup
\* or is none of the life's business.
LEMMA LifeOutside ==
    ASSUME IInv, [Next]_vars, plans' = plans
    PROVE  Lifecycle!Next \/ UNCHANGED Lifecycle!vars
<1> SUFFICES ASSUME ~ UNCHANGED <<granted, proved>>
             PROVE  Lifecycle!Next
  BY DEF Lifecycle!vars
<1>1. ASSUME NEW p \in Plan, NEW by \in Approver, granted' = granted \cup {<<p, by>>},
             proved' = proved
      PROVE  Lifecycle!Next
  BY <1>1 DEF Lifecycle!Next, Lifecycle!Grant
<1>2. ASSUME NEW t \in Thread, Replace(t)
      PROVE  Lifecycle!Next
  <2>1. /\ proved' = proved /\ call[t].op \in {"approve", "grant"}
        /\ granted' = granted \cup {<<call[t].plan, call[t].by>>}
    BY <1>2 DEF Replace
  <2>2. call[t].plan \in Plan /\ call[t].by \in Approver
    BY <1>2, <2>1, HandlerFacts
       DEF IInv, Replace, CallFine, CallGood, AskGood, Asking, Writing
  <2>3. QED
    BY <1>1, <2>1, <2>2
<1>3. ASSUME NEW b \in Backup, BackupStep(b)
      PROVE  Lifecycle!Next
  <2>1. granted' = granted /\ (proved' # proved => proved' = proved \cup {b})
    BY <1>3 DEF BackupStep
  <2>2. Lifecycle!Prove(b)
    BY <2>1 DEF Lifecycle!Prove
  <2>3. QED
    BY <2>2 DEF Lifecycle!Next
<1>4. ASSUME NEW t \in Thread,
             \/ Start(t) \/ Refresh(t) \/ Decide(t) \/ Overwrite(t) \/ Dump(t)
             \/ RefreshFailsLate(t) \/ ReplaceFailsLate(t)
             \/ Copy(t) \/ Save(t) \/ Swap(t) \/ Raise(t) \/ SaveFailsLate(t)
      PROVE  FALSE
  BY <1>4 DEF Start, StartPlan, StartApprove, StartRoute, StartAttach, StartExecute, Refresh,
     Decide, Overwrite, Dump, RefreshFailsLate, ReplaceFailsLate, Copy, Save, Swap, Raise,
     SaveFailsLate, ghosts
<1>5. ASSUME StoreElsewhere \/ Restart \/ Tick \/ UNCHANGED vars
      PROVE  FALSE
  BY <1>5 DEF StoreElsewhere, Restart, Tick, vars, ghosts
<1>6. QED
  BY <1>2, <1>3, <1>4, <1>5 DEF Next, Ask

\* A service with one thread takes its plans through the life of an operation,
\* failed saves and restarts included.
THEOREM Implements == ASSUME Serial PROVE Spec => ImplementsLifecycle
<1>1. PICK t \in Thread : Thread = {t}
  BY DEF Serial
<1>2. Init => Lifecycle!Init
  BY DEF Init, Empty, NoPlan, Lifecycle!Init
<1>3. IInv /\ LInv(t) /\ [Next]_vars => [Lifecycle!Next]_(Lifecycle!vars)
  <2> SUFFICES ASSUME IInv, LInv(t), [Next]_vars
               PROVE  Lifecycle!Next \/ UNCHANGED Lifecycle!vars
    OBVIOUS
  <2>1. plans' = plans \/ (plans' = planFile /\ UNCHANGED <<granted, proved>>)
    BY <1>1, StepLInv
  <2>2. CASE plans' = plans
    BY <2>2, LifeOutside
  <2>3. CASE plans' = planFile /\ plans' # plans /\ UNCHANGED <<granted, proved>>
    <3>1. PICK p \in Plan : /\ \A q \in Plan : q # p => planFile[q] = plans[q]
                            /\ Transition(p, plans[p], planFile[p], granted, proved)
      BY <2>3 DEF LInv, Near, OneStep
    <3>2. plans \in Table
      BY DEF IInv, Tables
    <3>3. QED
      BY <2>3, <3>1, <3>2, LifeMoves
  <2>4. QED
    BY <2>1, <2>2, <2>3
<1>4. Spec => [](IInv /\ LInv(t))
  BY <1>1, SerialInvariant
<1>5. QED
  BY <1>2, <1>3, <1>4, PTL DEF Spec, ImplementsLifecycle, Lifecycle!Spec
=============================================================================
