------------------------ MODULE ReleaseControlProofs ------------------------
(***************************************************************************)
(* The CURRENT pointer and the plans behind it, for any number of plans,   *)
(* handlers, commits and backups. A plan lies in several places at once:   *)
(* in the dictionary, in the file, in the calls that work on it and in the *)
(* copies that are about to be stored. The invariant says of each of them  *)
(* what a single one must satisfy (Good), and that they agree on who asked *)
(* for the plan and on its target (origin).                                *)
(***************************************************************************)
EXTENDS ReleaseControl, TLAPS

Executing == {"preflight", "backup", "publish", "rename", "tidy", "locate", "point",
              "reread", "validate", "activate"}
Admitted  == Executing \ {"preflight"}
Deploying == {"publish", "rename", "tidy"}
Backed    == Deploying \cup {"point", "reread", "validate", "activate"}
Pointing  == {"reread", "validate", "activate"}

Steps     == Executing \cup {"idle", "copy", "save", "swap"}
Jobs      == [plan : Plan \cup {None}, record : Record \cup {NoPlan}]
Origins   == [Plan -> [by : Requester \cup {None}, target : Name \cup {None}]]

\* What any copy c of plan p satisfies, given the ghosts.
Good(p, c, origin, iss, gr, pr, sw) ==
    c # NoPlan =>
        /\ c \in Record
        /\ p \in iss
        /\ c.by = origin[p].by /\ c.commit = origin[p].target
        /\ p \in Deployment => c.commit \in Commit
        /\ p \in Rollback => c.state # "failed"
        /\ c.state \in {"approved", "verified"} =>
               \E u \in Approver \ {origin[p].by} : <<p, u>> \in gr
        /\ c.state = "verified" => <<p, c.commit>> \in sw /\ (p \in Deployment => c.backup \in pr)

Fine(p, c, origin) == Good(p, c, origin, issued, granted, proved, switched)

Tables(origin) ==
    /\ plans \in [Plan -> Record \cup {NoPlan}]
    /\ planFile \in [Plan -> Record \cup {NoPlan}]
    /\ \A p \in Plan : Fine(p, plans[p], origin) /\ Fine(p, planFile[p], origin)

\* A working handler has an approved plan and has passed what lies behind it.
Working(t) ==
    /\ pc[t] \in Executing => call[t].record.state = "approved"
    /\ pc[t] \in Admitted => activation # "disabled"
    /\ pc[t] \in Backed /\ call[t].plan \in Deployment => call[t].record.backup \in proved
    /\ pc[t] = "locate" => call[t].plan \in Rollback
    /\ pc[t] \in Deploying => call[t].plan \in Deployment
    /\ pc[t] = "tidy" => call[t].record.commit \in releases
    /\ pc[t] = "point" =>
           \/ call[t].record.commit \in releases
           \/ call[t].plan \in Rollback /\ call[t].record.commit \notin Commit
    /\ pc[t] \in Pointing => <<call[t].plan, call[t].record.commit>> \in switched

Calls(origin) ==
    /\ pc \in [Thread -> Steps]
    /\ call \in [Thread -> Jobs]
    /\ \A t \in Thread :
           /\ pc[t] # "idle" => /\ call[t].plan \in Plan
                                /\ call[t].record # NoPlan
                                /\ Fine(call[t].plan, call[t].record, origin)
           /\ pc[t] = "idle" => call[t] = NoCall
           /\ Working(t)

Drafts(origin) ==
    /\ draft = [t \in Thread |-> draft[t]]
    /\ \A t \in Thread :
           IF pc[t] \in {"save", "swap"}
           THEN /\ draft[t] \in [Siblings(call[t].plan) -> Record \cup {NoPlan}]
                /\ \A q \in Siblings(call[t].plan) : Fine(q, draft[t][q], origin)
           ELSE draft[t] = <<>>

Rest(origin) ==
    /\ releases \subseteq Commit
    /\ current \in Name \cup {None}
    /\ CurrentIsPublished
    /\ backup \in [Backup -> {"absent", "prepared", "verified", "restore_tested", "blocked"}]
    /\ activation \in Activations
    /\ issued \subseteq Plan
    /\ granted \subseteq Plan \X Approver
    /\ proved \subseteq Backup
    /\ switched \subseteq Plan \X Name
    /\ \A b \in Backup : backup[b] \in {"verified", "restore_tested"} => b \in proved
    /\ \A p \in Plan, n \in Name : <<p, n>> \in switched =>
           /\ p \in issued /\ n = origin[p].target
           /\ \E u \in Approver \ {origin[p].by} : <<p, u>> \in granted

AllGood(origin) == Tables(origin) /\ Calls(origin) /\ Drafts(origin) /\ Rest(origin)

Consistent == \E origin \in Origins : AllGood(origin)

\* Staging directories have the names they may have.
Staged ==
    /\ staging \subseteq Staging
    /\ stage \in [Thread -> Staging \cup {None}]

IInv == Consistent /\ Staged

-----------------------------------------------------------------------------
\* The ghosts only grow, and a plan that was issued keeps its origin.
Growing(origin, heir) ==
    /\ issued \subseteq issued'
    /\ granted \subseteq granted'
    /\ proved \subseteq proved'
    /\ switched \subseteq switched'
    /\ \A p \in issued : heir[p] = origin[p]

\* Good after the step.
FineNext(p, c, origin) == Good(p, c, origin, issued', granted', proved', switched')

LEMMA FineIsStable ==
    ASSUME NEW p, NEW c, NEW origin, NEW heir, Growing(origin, heir), Fine(p, c, origin)
    PROVE  FineNext(p, c, heir)
BY DEF Growing, Fine, FineNext, Good

LEMMA NoPlanIsNoRecord == ReleaseAssumption => NoPlan \notin Record
BY DEF ReleaseAssumption, NoPlan, Record

LEMMA InitConsistent == ReleaseAssumption /\ Init => Consistent
<1> SUFFICES ASSUME ReleaseAssumption, Init PROVE Consistent
  OBVIOUS
<1> DEFINE origin == [p \in Plan |-> [by |-> None, target |-> None]]
<1>1. origin \in Origins
  BY DEF Origins
<1>2. Tables(origin)
  BY DEF Tables, Fine, Good, Init
<1>3. Calls(origin)
  BY DEF Calls, Steps, Jobs, Working, Init, NoCall, Executing, Admitted, Backed, Deploying,
     Pointing
<1>4. Drafts(origin)
  BY DEF Drafts, Init
<1>5. Rest(origin)
  BY DEF Rest, Init, Backups!Init, CurrentIsPublished
<1>6. QED
  BY <1>1, <1>2, <1>3, <1>4, <1>5 DEF Consistent, AllGood

-----------------------------------------------------------------------------
\* One handler goes to another step, with another call and another draft that
\* are good; those of the others stay good.
LEMMA HandlerStep ==
    ASSUME ReleaseAssumption, NEW origin \in Origins, NEW heir \in Origins,
           AllGood(origin), Growing(origin, heir),
           activation' = activation, releases \subseteq releases',
           NEW t \in Thread, NEW step \in Steps, NEW job \in Jobs, NEW copies,
           pc' = [pc EXCEPT ![t] = step],
           call' = [call EXCEPT ![t] = job],
           draft' = [draft EXCEPT ![t] = copies],
           IF step = "idle" THEN job = NoCall
                            ELSE /\ job.plan \in Plan
                                 /\ job.record # NoPlan
                                 /\ FineNext(job.plan, job.record, heir),
           IF step \in {"save", "swap"}
           THEN /\ copies \in [Siblings(job.plan) -> Record \cup {NoPlan}]
                /\ \A q \in Siblings(job.plan) : FineNext(q, copies[q], heir)
           ELSE copies = <<>>,
           Working(t)'
    PROVE  Calls(heir)' /\ Drafts(heir)'
<1>1. pc \in [Thread -> Steps] /\ call \in [Thread -> Jobs]
      /\ draft = [s \in Thread |-> draft[s]]
  BY DEF AllGood, Calls, Drafts
<1>2. ASSUME NEW s \in Thread, s # t
      PROVE  pc'[s] = pc[s] /\ call'[s] = call[s] /\ draft'[s] = draft[s]
  BY <1>1, <1>2
<1>3. pc'[t] = step /\ call'[t] = job /\ draft'[t] = copies
  BY <1>1
<1>4. Calls(heir)'
  <2>1. pc' \in [Thread -> Steps] /\ call' \in [Thread -> Jobs]
    BY <1>1
  <2>2. ASSUME NEW s \in Thread
        PROVE  /\ pc'[s] # "idle" => /\ call'[s].plan \in Plan
                                     /\ call'[s].record # NoPlan
                                     /\ FineNext(call'[s].plan, call'[s].record, heir)
               /\ pc'[s] = "idle" => call'[s] = NoCall
    <3>1. CASE s = t
      BY <1>3, <3>1
    <3>2. CASE s # t
      <4>1. pc[s] # "idle" => FineNext(call[s].plan, call[s].record, heir)
        BY FineIsStable DEF AllGood, Calls
      <4>2. QED
        BY <1>2, <3>2, <4>1 DEF AllGood, Calls
    <3>3. QED
      BY <3>1, <3>2
  <2>3. ASSUME NEW s \in Thread, s # t
        PROVE  Working(s)'
    BY <1>2, <2>3 DEF AllGood, Calls, Working, Growing
  <2>4. QED
    BY <1>3, <2>1, <2>2, <2>3 DEF Calls, Fine, FineNext
<1>5. Drafts(heir)'
  <2>1. draft' = [s \in Thread |-> draft'[s]]
    BY <1>1
  <2>2. ASSUME NEW s \in Thread
        PROVE  IF pc'[s] \in {"save", "swap"}
               THEN /\ draft'[s] \in [Siblings(call'[s].plan) -> Record \cup {NoPlan}]
                    /\ \A q \in Siblings(call'[s].plan) : FineNext(q, draft'[s][q], heir)
               ELSE draft'[s] = <<>>
    <3>1. CASE s = t
      BY <1>3, <3>1
    <3>2. CASE s # t
      <4>1. ASSUME pc[s] \in {"save", "swap"}, NEW q \in Siblings(call[s].plan)
            PROVE  FineNext(q, draft[s][q], heir)
        BY <4>1, FineIsStable DEF AllGood, Drafts
      <4>2. QED
        BY <1>2, <3>2, <4>1 DEF AllGood, Drafts
    <3>3. QED
      BY <3>1, <3>2
  <2>3. QED
    BY <2>1, <2>2 DEF Drafts, Fine, FineNext, Siblings
<1>6. QED
  BY <1>4, <1>5

LEMMA TablesKept ==
    ASSUME NEW origin, NEW heir, AllGood(origin), Growing(origin, heir),
           plans' = plans, planFile' = planFile
    PROVE  Tables(heir)'
<1>1. \A p \in Plan : FineNext(p, plans[p], heir) /\ FineNext(p, planFile[p], heir)
  BY FineIsStable DEF AllGood, Tables
<1>2. QED
  BY <1>1 DEF AllGood, Tables, Fine, FineNext

\* What holds of the handler of t before the step.
LEMMA HandlerFacts ==
    ASSUME NEW origin, AllGood(origin), NEW t \in Thread
    PROVE  /\ pc \in [Thread -> Steps] /\ call \in [Thread -> Jobs]
           /\ draft = [s \in Thread |-> draft[s]]
           /\ call[t] \in Jobs
           /\ pc[t] # "idle" => /\ call[t].plan \in Plan
                                /\ call[t].record \in Record
                                /\ call[t].record # NoPlan
                                /\ Fine(call[t].plan, call[t].record, origin)
           /\ pc[t] \notin {"save", "swap"} => draft[t] = <<>>
           /\ Working(t)
BY DEF AllGood, Calls, Drafts, Jobs

LEMMA GoingOn ==
    ASSUME ReleaseAssumption, NEW origin \in Origins, AllGood(origin), NEW t \in Thread,
           NEW from \in Executing, NEW to \in Executing, Go(t, from, to),
           Growing(origin, origin), activation' = activation, releases \subseteq releases',
           Working(t)'
    PROVE  Calls(origin)' /\ Drafts(origin)'
<1>1. /\ pc[t] = from
      /\ pc' = [pc EXCEPT ![t] = to]
      /\ call' = [call EXCEPT ![t] = call[t]]
      /\ draft' = [draft EXCEPT ![t] = draft[t]]
  BY HandlerFacts DEF Go
<1>2. /\ call[t].plan \in Plan
      /\ call[t].record # NoPlan
      /\ FineNext(call[t].plan, call[t].record, origin)
      /\ draft[t] = <<>>
  BY <1>1, HandlerFacts, FineIsStable DEF Executing
<1>3. QED
  BY <1>1, <1>2, HandlerFacts, HandlerStep DEF Executing, Steps

LEMMA Concluding ==
    ASSUME ReleaseAssumption, NEW origin \in Origins, AllGood(origin), NEW t \in Thread,
           NEW state \in {"blocked", "failed", "verified"},
           pc[t] \in Executing, Conclude(t, state),
           state = "failed" => call[t].plan \notin Rollback,
           state = "verified" => pc[t] = "activate",
           UNCHANGED <<activation, releases, issued, granted, proved, switched>>
    PROVE  Calls(origin)' /\ Drafts(origin)'
<1> DEFINE job == [call[t] EXCEPT !.record.state = state]
<1>1. /\ pc' = [pc EXCEPT ![t] = "copy"]
      /\ call' = [call EXCEPT ![t] = job]
      /\ draft' = [draft EXCEPT ![t] = draft[t]]
      /\ draft[t] = <<>>
  BY HandlerFacts DEF Conclude, Executing
<1>2. /\ job \in Jobs
      /\ job.plan = call[t].plan
      /\ job.record = [call[t].record EXCEPT !.state = state]
      /\ job.record \in Record
      /\ job.record.state = state
      /\ job.record.by = call[t].record.by
      /\ job.record.backup = call[t].record.backup
      /\ job.record.commit = call[t].record.commit
  BY HandlerFacts DEF Executing, Jobs, Record
<1>3. job.record # NoPlan
  BY <1>2, NoPlanIsNoRecord
<1>4. FineNext(job.plan, job.record, origin)
  <2>1. Good(call[t].plan, call[t].record, origin, issued, granted, proved, switched)
    BY HandlerFacts DEF Executing, Fine
  <2>2. call[t].record.state = "approved" /\ call[t].record # NoPlan
    BY HandlerFacts DEF Executing, Working
  <2>3. state = "verified" => /\ <<call[t].plan, call[t].record.commit>> \in switched
                              /\ call[t].plan \in Deployment =>
                                     call[t].record.backup \in proved
    BY HandlerFacts DEF Executing, Working, Backed, Deploying, Pointing
  <2>4. QED
    BY <1>2, <2>1, <2>2, <2>3 DEF FineNext, Good
<1>5. Working(t)'
  BY <1>1, HandlerFacts DEF Working, Executing, Admitted, Backed, Deploying, Pointing
<1>6. Growing(origin, origin)
  BY DEF Growing
<1>7. call[t].plan \in Plan
  BY HandlerFacts DEF Executing
<1> HIDE DEF job
<1>8. QED
  BY <1>1, <1>2, <1>3, <1>4, <1>5, <1>6, <1>7, HandlerStep DEF Steps

-----------------------------------------------------------------------------
(* One lemma for every action.                                             *)

LEMMA PrepareStep ==
    ASSUME ReleaseAssumption, NEW origin \in Origins, AllGood(origin), NEW t \in Thread,
           NEW p \in Plan, NEW u \in Requester, NEW c \in Name, p \in Deployment => c \in Commit,
           NEW b \in Backup \cup {None}, NEW state \in {"awaiting_approval", "blocked"},
           p \notin issued, issued' = issued \cup {p},
           Begin(t, "copy", p, [state |-> state, by |-> u, commit |-> c, backup |-> b]),
           UNCHANGED <<plans, planFile, disk, backup, activation, granted, proved, switched>>
    PROVE  Consistent'
<1> DEFINE rec  == [state |-> state, by |-> u, commit |-> c, backup |-> b]
           job  == [plan |-> p, record |-> rec]
           from == [by |-> u, target |-> c]
           heir == [origin EXCEPT ![p] = from]
<1>1. heir \in Origins /\ heir[p].by = u /\ heir[p].target = c
      /\ \A q \in Plan : q # p => heir[q] = origin[q]
  BY DEF Origins
<1>2. issued \subseteq Plan /\ \A q \in issued : q \in Plan /\ q # p
  BY DEF AllGood, Rest
<1>3. Growing(origin, heir)
  BY <1>1, <1>2 DEF Growing
<1>4. rec \in Record /\ rec # NoPlan
  BY NoPlanIsNoRecord DEF Record
<1>5. job \in Jobs
  BY <1>4 DEF Jobs
<1>6. FineNext(p, rec, heir)
  BY <1>1, <1>4 DEF FineNext, Good
<1>7. /\ pc' = [pc EXCEPT ![t] = "copy"]
      /\ call' = [call EXCEPT ![t] = job]
      /\ draft' = [draft EXCEPT ![t] = draft[t]]
      /\ draft[t] = <<>>
      /\ pc'[t] = "copy"
  BY HandlerFacts DEF Begin
<1>8. Working(t)'
  BY <1>7 DEF Working, Executing, Admitted, Backed, Deploying, Pointing
<1>9. \A q \in Plan, n \in Name : <<q, n>> \in switched =>
           /\ q \in issued /\ n = origin[q].target
           /\ \E v \in Approver \ {origin[q].by} : <<q, v>> \in granted
  BY DEF AllGood, Rest
<1>10. Calls(heir)' /\ Drafts(heir)'
  <2> HIDE DEF rec, heir
  <2>1. job.plan = p /\ job.record = rec
    OBVIOUS
  <2> HIDE DEF job
  <2>2. QED
    BY <1>1, <1>3, <1>4, <1>5, <1>6, <1>7, <1>8, <2>1, HandlerStep DEF Steps, disk
<1>11. Tables(heir)'
  BY <1>3, TablesKept
<1>12. Rest(heir)'
  <2> HIDE DEF heir
  <2>1. QED
    BY <1>2, <1>1, <1>9 DEF AllGood, Rest, disk, CurrentIsPublished
<1>13. QED
  BY <1>1, <1>10, <1>11, <1>12 DEF Consistent, AllGood

LEMMA ApproveStep ==
    ASSUME ReleaseAssumption, NEW origin \in Origins, AllGood(origin), NEW t \in Thread,
           NEW p \in Plan, NEW u \in Approver, Approve(t, p, u)
    PROVE  AllGood(origin)'
<1> DEFINE rec == [plans[p] EXCEPT !.state = "approved"]
           job == [plan |-> p, record |-> rec]
<1>1. plans[p] # NoPlan /\ plans[p] \in Record /\ plans[p].by # u
  BY DEF Approve, MayApprove, NoPlan, AllGood, Tables
<1>2. /\ rec \in Record /\ rec # NoPlan
      /\ rec.by = plans[p].by /\ rec.commit = plans[p].commit
      /\ rec.state = "approved"
  BY <1>1, NoPlanIsNoRecord DEF Record
<1>3. job \in Jobs
  BY <1>2 DEF Jobs
<1>4. Growing(origin, origin) /\ granted' = granted \cup {<<p, u>>}
  BY DEF Approve, Growing
<1>5. /\ p \in issued /\ plans[p].by = origin[p].by /\ plans[p].commit = origin[p].target
      /\ p \in Deployment => plans[p].commit \in Commit
  BY <1>1 DEF AllGood, Tables, Fine, Good
<1>6. FineNext(p, rec, origin)
  <2> HIDE DEF rec
  <2>1. <<p, u>> \in granted' /\ u \in Approver \ {origin[p].by} /\ p \in issued'
    BY <1>1, <1>4, <1>5 DEF Approve
  <2>2. QED
    BY <1>2, <1>5, <2>1 DEF FineNext, Good
<1>7. /\ pc' = [pc EXCEPT ![t] = "copy"]
      /\ call' = [call EXCEPT ![t] = job]
      /\ draft' = [draft EXCEPT ![t] = draft[t]]
      /\ draft[t] = <<>>
      /\ pc'[t] = "copy"
  BY HandlerFacts DEF Approve, Begin
<1>8. Working(t)'
  BY <1>7 DEF Working, Executing, Admitted, Backed, Deploying, Pointing
<1>9. Calls(origin)' /\ Drafts(origin)'
  <2> HIDE DEF rec
  <2>1. job.plan = p /\ job.record = rec
    OBVIOUS
  <2> HIDE DEF job
  <2>2. QED
    BY <1>2, <1>3, <1>4, <1>6, <1>7, <1>8, <2>1, HandlerStep DEF Steps, Approve, disk
<1>10. Tables(origin)'
  BY <1>4, TablesKept DEF Approve
<1>11. Rest(origin)'
  BY <1>4 DEF AllGood, Rest, Approve, disk, CurrentIsPublished
<1>12. QED
  BY <1>9, <1>10, <1>11 DEF AllGood

LEMMA ExecuteStep ==
    ASSUME ReleaseAssumption, NEW origin \in Origins, AllGood(origin), NEW t \in Thread,
           NEW p \in Plan, Execute(t, p) \/ ExecuteUnapproved(t, p)
    PROVE  AllGood(origin)'
<1>1. PICK step \in {"preflight", "copy"}, rec \in Record :
        /\ Begin(t, step, p, rec)
        /\ rec # NoPlan
        /\ step = "preflight" => rec = plans[p] /\ rec.state = "approved"
        /\ step = "copy" => /\ rec.state = "blocked"
                             /\ rec.by = plans[p].by /\ rec.commit = plans[p].commit
        /\ plans[p] # NoPlan
  <2>1. plans[p] \in Record /\ plans[p] # NoPlan
    BY DEF Execute, ExecuteUnapproved, NoPlan, AllGood, Tables
  <2>2. CASE Execute(t, p)
    BY <2>1, <2>2 DEF Execute
  <2>3. CASE ExecuteUnapproved(t, p)
    <3> DEFINE rec == [plans[p] EXCEPT !.state = "blocked"]
    <3>1. rec \in Record /\ rec.state = "blocked" /\ rec.by = plans[p].by /\ rec # NoPlan
          /\ rec.commit = plans[p].commit
      BY <2>1, NoPlanIsNoRecord DEF Record
    <3>2. Begin(t, "copy", p, rec)
      BY <2>3 DEF ExecuteUnapproved
    <3>3. QED
      BY <2>1, <3>1, <3>2
  <2>4. QED
    BY <2>2, <2>3
<1>2. UNCHANGED <<plans, planFile, disk, backup, activation, ghosts>>
  BY DEF Execute, ExecuteUnapproved
<1>3. Growing(origin, origin)
  BY <1>2 DEF Growing, ghosts
<1>4. FineNext(p, rec, origin)
  BY <1>1, <1>2 DEF AllGood, Tables, Fine, FineNext, Good, ghosts
<1> DEFINE job == [plan |-> p, record |-> rec]
<1>5. job \in Jobs /\ job.plan = p /\ job.record = rec
  BY DEF Jobs
<1>6. /\ pc' = [pc EXCEPT ![t] = step]
      /\ call' = [call EXCEPT ![t] = job]
      /\ draft' = [draft EXCEPT ![t] = draft[t]]
      /\ draft[t] = <<>>
      /\ pc'[t] = step
      /\ call'[t].record = rec
  BY <1>1, HandlerFacts DEF Begin
<1>7. Working(t)'
  BY <1>1, <1>6 DEF Working, Executing, Admitted, Backed, Deploying, Pointing
<1>8. Calls(origin)' /\ Drafts(origin)'
  <2> HIDE DEF job
  <2>1. QED
    BY <1>1, <1>2, <1>3, <1>4, <1>5, <1>6, <1>7, HandlerStep DEF Steps, Executing, disk
<1>9. Tables(origin)' /\ Rest(origin)'
  BY <1>2, <1>3, TablesKept DEF AllGood, Rest, CurrentIsPublished, disk, ghosts
<1>10. QED
  BY <1>8, <1>9 DEF AllGood

LEMMA PreflightStep ==
    ASSUME ReleaseAssumption, NEW origin \in Origins, AllGood(origin), NEW t \in Thread,
           Preflight(t)
    PROVE  AllGood(origin)'
<1>1. UNCHANGED <<plans, planFile, disk, backup, activation, ghosts>>
  BY DEF Preflight
<1>2. Growing(origin, origin)
  BY <1>1 DEF Growing, ghosts
<1>3. Tables(origin)' /\ Rest(origin)'
  BY <1>1, <1>2, TablesKept DEF AllGood, Rest, CurrentIsPublished, disk, ghosts
<1>4. CASE activation \in {"none", "runner"} /\ Go(t, "preflight", "backup")
  <2>1. Working(t)'
    BY <1>1, <1>4, HandlerFacts
       DEF Go, Working, Executing, Admitted, Backed, Deploying, Pointing, Steps
  <2>2. Calls(origin)' /\ Drafts(origin)'
    BY <1>1, <1>2, <1>4, <2>1, GoingOn DEF Executing, disk
  <2>3. QED
    BY <1>3, <2>2 DEF AllGood
<1>5. CASE pc[t] = "preflight" /\ activation = "disabled" /\ Conclude(t, "blocked")
  <2>1. Calls(origin)' /\ Drafts(origin)'
    BY <1>1, <1>5, Concluding DEF Executing, disk, ghosts
  <2>2. QED
    BY <1>3, <2>1 DEF AllGood
<1>6. CASE pc[t] = "preflight" /\ activation # "none" /\ Conclude(t, Failure(call[t].plan))
  <2>1. Failure(call[t].plan) \in {"blocked", "failed"}
        /\ (Failure(call[t].plan) = "failed" => call[t].plan \notin Rollback)
    BY DEF Failure, ReleaseAssumption
  <2>2. Calls(origin)' /\ Drafts(origin)'
    BY <1>1, <1>6, <2>1, Concluding DEF Executing, disk, ghosts
  <2>3. QED
    BY <1>3, <2>2 DEF AllGood
<1>7. QED
  BY <1>4, <1>5, <1>6 DEF Preflight

LEMMA CheckBackupStep ==
    ASSUME ReleaseAssumption, NEW origin \in Origins, AllGood(origin), NEW t \in Thread,
           CheckBackup(t)
    PROVE  AllGood(origin)'
<1>1. UNCHANGED <<plans, planFile, disk, backup, activation, ghosts>>
  BY DEF CheckBackup
<1>2. Growing(origin, origin)
  BY <1>1 DEF Growing, ghosts
<1>3. Tables(origin)' /\ Rest(origin)'
  BY <1>1, <1>2, TablesKept DEF AllGood, Rest, CurrentIsPublished, disk, ghosts
<1>4. CASE call[t].plan \in Rollback /\ Go(t, "backup", "locate")
  <2>1. Working(t)'
    BY <1>1, <1>4, HandlerFacts
       DEF Go, Working, Executing, Admitted, Backed, Deploying, Pointing, Steps
  <2>2. Calls(origin)' /\ Drafts(origin)'
    BY <1>1, <1>2, <1>4, <2>1, GoingOn DEF Executing, disk
  <2>3. QED
    BY <1>3, <2>2 DEF AllGood
<1>5. CASE /\ call[t].plan \in Deployment
           /\ call[t].record.backup # None
           /\ Backups!Verified(call[t].record.backup)
           /\ Go(t, "backup", "publish")
  <2>1. call[t].record.backup \in proved
    <3>1. pc[t] # "idle"
      BY <1>5 DEF Go
    <3>2. call[t].record.backup \in Backup
      BY <1>5, <3>1, HandlerFacts DEF Record
    <3>3. QED
      BY <1>5, <3>2 DEF AllGood, Rest, Backups!Verified
  <2>2. Working(t)'
    BY <1>1, <1>5, <2>1, HandlerFacts
       DEF Go, Working, Executing, Admitted, Backed, Deploying, Pointing, Steps, ghosts
  <2>3. Calls(origin)' /\ Drafts(origin)'
    BY <1>1, <1>2, <1>5, <2>2, GoingOn DEF Executing, disk
  <2>4. QED
    BY <1>3, <2>3 DEF AllGood
<1>6. CASE pc[t] = "backup" /\ Conclude(t, "blocked")
  <2>1. Calls(origin)' /\ Drafts(origin)'
    BY <1>1, <1>6, Concluding DEF Executing, disk, ghosts
  <2>2. QED
    BY <1>3, <2>1 DEF AllGood
<1>7. QED
  BY <1>4, <1>5, <1>6 DEF CheckBackup

LEMMA ProviderStep ==
    ASSUME ReleaseAssumption, NEW origin \in Origins, AllGood(origin), Staged, NEW t \in Thread,
           \/ Stage(t) \/ Publish(t) \/ Tidy(t) \/ Locate(t) \/ Point(t)
           \/ Reread(t) \/ Validate(t)
    PROVE  AllGood(origin)'
<1> DEFINE p == call[t].plan
           n == call[t].record.commit
<1>1. PICK from \in Deploying \cup {"locate", "point", "reread", "validate"},
           to \in {"rename", "tidy", "point", "reread", "validate", "activate"} :
           Go(t, from, to)
  BY DEF Stage, Publish, Tidy, Locate, Point, Reread, Validate, Deploying
<1>2. /\ p \in Plan /\ p \in issued
      /\ call[t].record \in Record
      /\ n \in Name /\ n = origin[p].target
      /\ p \in Deployment => n \in Commit
      /\ \E u \in Approver \ {origin[p].by} : <<p, u>> \in granted
  <2>1. pc[t] # "idle" /\ pc[t] \in Executing
    BY <1>1 DEF Go, Executing, Deploying
  <2>2. call[t].record.state = "approved"
    BY <2>1, HandlerFacts DEF Working
  <2>3. QED
    BY <2>1, <2>2, HandlerFacts DEF Fine, Good, Record
<1>3. /\ UNCHANGED <<plans, planFile, backup, activation, issued, granted, proved>>
      /\ releases \subseteq releases' /\ releases' \subseteq Commit
      /\ switched \subseteq switched' /\ switched' \subseteq switched \cup {<<p, n>>}
      /\ current' = current \/ (current' = n /\ Point(t))
  <2>1. releases \subseteq Commit
    BY DEF AllGood, Rest
  <2>2. CASE Publish(t)
    <3>1. n \in Commit
      BY <1>2, <2>2, HandlerFacts DEF Publish, Go, Working, Deploying
    <3>2. QED
      BY <2>1, <2>2, <3>1 DEF Publish, ghosts
  <2>3. CASE Point(t)
    BY <2>1, <2>3 DEF Point
  <2>4. CASE Stage(t) \/ Tidy(t) \/ Locate(t) \/ Reread(t) \/ Validate(t)
    BY <2>1, <2>4 DEF Stage, Tidy, Locate, Reread, Validate, disk, ghosts
  <2>5. QED
    BY <2>2, <2>3, <2>4
<1>4. Growing(origin, origin)
  BY <1>3 DEF Growing
<1>5. CurrentIsPublished'
  <2>1. CASE current' = current
    BY <1>3, <2>1 DEF AllGood, Rest, CurrentIsPublished
  <2>2. CASE current' = n /\ Point(t)
    <3>1. n \in releases \/ (p \in Rollback /\ n \notin Commit)
      BY <2>2, HandlerFacts DEF Point, Go, Working
    <3>2. <<p, n>> \in switched'
      BY <2>2 DEF Point
    <3>3. QED
      BY <1>3, <2>2, <3>1, <3>2 DEF CurrentIsPublished
  <2>3. QED
    BY <1>3, <2>1, <2>2
<1>6. Working(t)'
  <2>1. Working(t) /\ pc \in [Thread -> Steps] /\ call' = call
    BY <1>1, HandlerFacts DEF Go
  <2>2. CASE Stage(t)
    BY <1>3, <2>1, <2>2
       DEF Stage, Go, Working, Executing, Admitted, Backed, Deploying, Pointing
  <2>3. CASE Publish(t)
    BY <1>3, <2>1, <2>3
       DEF Publish, Go, Working, Executing, Admitted, Backed, Deploying, Pointing
  <2>4. CASE Tidy(t)
    BY <1>3, <2>1, <2>4
       DEF Tidy, Go, Working, Executing, Admitted, Backed, Deploying, Pointing
  <2>5. CASE Locate(t)
    <3>1. n \in releases \/ n \notin Commit
      BY <2>5, ReleaseAssumption DEF Locate, Staged, ReleaseAssumption
    <3>2. p \in Rollback /\ p \notin Deployment
      BY <2>1, <2>5, ReleaseAssumption DEF Locate, Go, Working, ReleaseAssumption
    <3>3. QED
      BY <1>3, <2>1, <2>5, <3>1, <3>2
         DEF Locate, Go, Working, Executing, Admitted, Backed, Deploying, Pointing, disk
  <2>6. CASE Point(t)
    BY <1>3, <2>1, <2>6
       DEF Point, Go, Working, Executing, Admitted, Backed, Deploying, Pointing
  <2>7. CASE Reread(t) \/ Validate(t)
    BY <1>3, <2>1, <2>7
       DEF Reread, Validate, Go, Working, Executing, Admitted, Backed, Deploying, Pointing
  <2>8. QED
    BY <2>2, <2>3, <2>4, <2>5, <2>6, <2>7
<1>7. Calls(origin)' /\ Drafts(origin)'
  BY <1>1, <1>3, <1>4, <1>6, GoingOn DEF Executing, Deploying
<1>8. Tables(origin)'
  BY <1>3, <1>4, TablesKept
<1>9. Rest(origin)'
  BY <1>2, <1>3, <1>5 DEF AllGood, Rest
<1>10. QED
  BY <1>7, <1>8, <1>9 DEF AllGood

LEMMA OutcomeStep ==
    ASSUME ReleaseAssumption, NEW origin \in Origins, AllGood(origin), NEW t \in Thread,
           ProviderFails(t) \/ Activate(t)
    PROVE  AllGood(origin)'
<1>1. UNCHANGED <<plans, planFile, releases, current, backup, activation, ghosts>>
  BY DEF ProviderFails, Activate, disk
<1>2. Growing(origin, origin)
  BY <1>1 DEF Growing, ghosts
<1>3. Tables(origin)' /\ Rest(origin)'
  BY <1>1, <1>2, TablesKept DEF AllGood, Rest, CurrentIsPublished, disk, ghosts
<1>4. Failure(call[t].plan) \in {"blocked", "failed"}
      /\ (Failure(call[t].plan) = "failed" => call[t].plan \notin Rollback)
  BY DEF Failure, ReleaseAssumption
<1>5. PICK state \in {"blocked", "failed", "verified"} :
        /\ Conclude(t, state)
        /\ state = "failed" => call[t].plan \notin Rollback
        /\ state = "verified" => pc[t] = "activate"
  BY <1>4 DEF ProviderFails, Activate
<1>6. pc[t] \in Executing
  BY DEF ProviderFails, Activate, Executing
<1>7. Calls(origin)' /\ Drafts(origin)'
  BY <1>1, <1>5, <1>6, Concluding DEF disk, ghosts
<1>8. QED
  BY <1>3, <1>7 DEF AllGood

LEMMA CopyStep ==
    ASSUME ReleaseAssumption, NEW origin \in Origins, AllGood(origin), NEW t \in Thread, Copy(t)
    PROVE  AllGood(origin)'
<1> DEFINE p == call[t].plan
           copies == [q \in Siblings(p) |-> IF q = p THEN call[t].record ELSE plans[q]]
<1>1. /\ pc[t] = "copy" /\ p \in Plan
      /\ call[t].record \in Record
      /\ call[t].record # NoPlan
      /\ Fine(p, call[t].record, origin)
  BY HandlerFacts DEF Copy
<1>2. UNCHANGED <<plans, planFile, disk, backup, activation, ghosts>>
  BY DEF Copy
<1>3. Growing(origin, origin)
  BY <1>2 DEF Growing, ghosts
<1>4. Siblings(p) \subseteq Plan
  BY DEF Siblings, Plan
<1>5. copies \in [Siblings(p) -> Record \cup {NoPlan}]
  BY <1>1, <1>4 DEF AllGood, Tables
<1>6. \A q \in Siblings(p) : FineNext(q, copies[q], origin)
  <2> TAKE q \in Siblings(p)
  <2>1. Fine(q, copies[q], origin)
    BY <1>1, <1>4 DEF AllGood, Tables
  <2>2. QED
    BY <1>3, <2>1, FineIsStable
<1>7. FineNext(p, call[t].record, origin)
  BY <1>1, <1>3, FineIsStable
<1>8. /\ pc' = [pc EXCEPT ![t] = "save"]
      /\ call' = [call EXCEPT ![t] = call[t]]
      /\ draft' = [draft EXCEPT ![t] = copies]
      /\ pc'[t] = "save"
  BY HandlerFacts DEF Copy
<1>9. Working(t)'
  BY <1>8 DEF Working, Executing, Admitted, Backed, Deploying, Pointing
<1>10. Calls(origin)' /\ Drafts(origin)'
  <2> HIDE DEF copies
  <2>1. QED
    BY <1>1, <1>2, <1>3, <1>5, <1>6, <1>7, <1>8, <1>9, HandlerFacts, HandlerStep
       DEF Steps, disk
<1>11. Tables(origin)' /\ Rest(origin)'
  BY <1>2, <1>3, TablesKept DEF AllGood, Rest, CurrentIsPublished, disk, ghosts
<1>12. QED
  BY <1>10, <1>11 DEF AllGood

\* Saving or installing the draft of a handler leaves good tables.
LEMMA TablesStored ==
    ASSUME NEW origin \in Origins, AllGood(origin), NEW t \in Thread, pc[t] \in {"save", "swap"},
           UNCHANGED ghosts,
           \/ plans' = plans /\ planFile' = Stored(draft[t], planFile)
           \/ plans' = Stored(draft[t], plans) /\ planFile' = planFile
    PROVE  Tables(origin)'
<1> DEFINE S == Siblings(call[t].plan)
           R == Record \cup {NoPlan}
<1>1. S \subseteq Plan
  BY DEF Siblings, Plan
<1>2. draft[t] \in [S -> R] /\ \A q \in S : Fine(q, draft[t][q], origin)
  BY DEF AllGood, Drafts
<1>3. /\ plans \in [Plan -> R] /\ planFile \in [Plan -> R]
      /\ \A p \in Plan : Fine(p, plans[p], origin) /\ Fine(p, planFile[p], origin)
  BY DEF AllGood, Tables
<1> HIDE DEF S, R
<1>4. ASSUME NEW old \in [Plan -> R], \A p \in Plan : Fine(p, old[p], origin)
      PROVE  /\ Stored(draft[t], old) \in [Plan -> R]
             /\ \A p \in Plan : Fine(p, Stored(draft[t], old)[p], origin)
  <2>1. /\ Stored(draft[t], old) \in [Plan -> R]
        /\ \A p \in Plan : Stored(draft[t], old)[p] = IF p \in S THEN draft[t][p] ELSE old[p]
    BY <1>1, <1>2 DEF Stored
  <2>2. QED
    BY <1>2, <1>4, <2>1
<1>5. /\ plans' \in [Plan -> R] /\ planFile' \in [Plan -> R]
      /\ \A p \in Plan : Fine(p, plans'[p], origin) /\ Fine(p, planFile'[p], origin)
  BY <1>3, <1>4
<1>6. QED
  BY <1>5 DEF R, Tables, Fine, ghosts

LEMMA StoreStep ==
    ASSUME ReleaseAssumption, NEW origin \in Origins, AllGood(origin), NEW t \in Thread,
           Save(t) \/ Swap(t) \/ Raise(t) \/ SaveFailsLate(t)
    PROVE  AllGood(origin)'
<1>1. UNCHANGED <<disk, backup, activation, ghosts>>
  BY DEF Save, Swap, Raise, SaveFailsLate
<1>2. Growing(origin, origin)
  BY <1>1 DEF Growing, ghosts
<1>3. pc[t] \in {"save", "swap"}
  BY DEF Save, Swap, Raise, SaveFailsLate, Go
<1>4. Tables(origin)'
  <2>1. CASE plans' = plans /\ planFile' = planFile
    BY <1>2, <2>1, TablesKept
  <2>2. CASE ~(plans' = plans /\ planFile' = planFile)
    BY <1>1, <1>3, <2>2, TablesStored DEF Save, Swap, Raise, SaveFailsLate
  <2>3. QED
    BY <2>1, <2>2
<1>5. Rest(origin)'
  BY <1>1 DEF AllGood, Rest, CurrentIsPublished, disk, ghosts
<1>6. CASE Save(t)
  <2>1. /\ pc' = [pc EXCEPT ![t] = "swap"]
        /\ call' = [call EXCEPT ![t] = call[t]]
        /\ draft' = [draft EXCEPT ![t] = draft[t]]
        /\ pc'[t] = "swap"
    BY <1>6, HandlerFacts DEF Save, Go
  <2>2. Working(t)'
    BY <2>1 DEF Working, Executing, Admitted, Backed, Deploying, Pointing
  <2>3. /\ call[t].plan \in Plan /\ call[t].record # NoPlan
        /\ FineNext(call[t].plan, call[t].record, origin)
    BY <1>2, <1>3, HandlerFacts, FineIsStable
  <2>4. /\ draft[t] \in [Siblings(call[t].plan) -> Record \cup {NoPlan}]
        /\ \A q \in Siblings(call[t].plan) : FineNext(q, draft[t][q], origin)
    BY <1>2, <1>3, FineIsStable DEF AllGood, Drafts
  <2>5. Calls(origin)' /\ Drafts(origin)'
    BY <1>1, <1>2, <2>1, <2>2, <2>3, <2>4, HandlerFacts, HandlerStep DEF Steps, disk
  <2>6. QED
    BY <1>4, <1>5, <2>5 DEF AllGood
<1>7. CASE Swap(t) \/ Raise(t) \/ SaveFailsLate(t)
  <2>1. /\ pc' = [pc EXCEPT ![t] = "idle"]
        /\ call' = [call EXCEPT ![t] = NoCall]
        /\ draft' = [draft EXCEPT ![t] = <<>>]
        /\ pc'[t] = "idle"
    BY <1>7, HandlerFacts DEF Swap, Raise, SaveFailsLate, Finish
  <2>2. Working(t)'
    BY <2>1 DEF Working, Executing, Admitted, Backed, Deploying, Pointing
  <2>3. NoCall \in Jobs
    BY DEF NoCall, Jobs
  <2>4. Calls(origin)' /\ Drafts(origin)'
    BY <1>1, <1>2, <2>1, <2>2, <2>3, HandlerStep DEF Steps, disk
  <2>5. QED
    BY <1>4, <1>5, <2>4 DEF AllGood
<1>8. QED
  BY <1>6, <1>7

LEMMA RestartStep ==
    ASSUME ReleaseAssumption, NEW origin \in Origins, AllGood(origin), Restart
    PROVE  AllGood(origin)'
<1>1. Tables(origin)'
  BY DEF AllGood, Tables, Fine, Restart, ghosts
<1>2. Calls(origin)'
  BY DEF Calls, Steps, Jobs, NoCall, Working, Executing, Admitted, Backed, Deploying, Pointing,
     Restart
<1>3. Drafts(origin)'
  BY DEF Drafts, Restart
<1>4. Rest(origin)'
  BY DEF AllGood, Rest, CurrentIsPublished, Restart, disk, ghosts
<1>5. QED
  BY <1>1, <1>2, <1>3, <1>4 DEF AllGood

\* The handlers and the plans do not move, but perhaps a backup does.
LEMMA BackupsMove ==
    ASSUME ReleaseAssumption, NEW origin \in Origins, AllGood(origin),
           (\E b \in Backup : BackupStep(b)) \/ UNCHANGED vars
    PROVE  AllGood(origin)'
<1>1. UNCHANGED <<plans, planFile, disk, activation, handler, issued, granted, switched>>
      /\ proved \subseteq proved'
  BY DEF BackupStep, vars, ghosts
<1>2. Growing(origin, origin)
  BY <1>1 DEF Growing
<1>3. Tables(origin)'
  BY <1>1, <1>2, TablesKept
<1>4. Calls(origin)'
  <2>1. ASSUME NEW t \in Thread
        PROVE  Working(t)' /\ (pc[t] # "idle" => FineNext(call[t].plan, call[t].record, origin))
    BY <1>1, <1>2, FineIsStable, HandlerFacts DEF Working, handler, disk
  <2>2. QED
    BY <1>1, <2>1 DEF AllGood, Calls, Fine, FineNext, handler
<1>5. Drafts(origin)'
  <2>1. ASSUME NEW t \in Thread, pc[t] \in {"save", "swap"},
               NEW q \in Siblings(call[t].plan)
        PROVE  FineNext(q, draft[t][q], origin)
    BY <1>2, <2>1, FineIsStable DEF AllGood, Drafts
  <2>2. QED
    BY <1>1, <2>1 DEF AllGood, Drafts, Fine, FineNext, handler
<1>6. Rest(origin)'
  <2>1. /\ backup' \in [Backup -> {"absent", "prepared", "verified", "restore_tested", "blocked"}]
        /\ proved' \subseteq Backup
        /\ \A b \in Backup : backup'[b] \in {"verified", "restore_tested"} => b \in proved'
    <3>1. CASE UNCHANGED vars
      BY <3>1 DEF AllGood, Rest, vars, ghosts
    <3>2. ASSUME NEW b \in Backup, BackupStep(b)
          PROVE  /\ backup' \in [Backup -> {"absent", "prepared", "verified",
                                        "restore_tested", "blocked"}]
                 /\ proved' \subseteq Backup
                 /\ \A x \in Backup :
                       backup'[x] \in {"verified", "restore_tested"} => x \in proved'
      <4>1. PICK from \in {"absent", "prepared", "verified"},
                 to \in {"prepared", "verified", "restore_tested", "blocked"} :
              /\ backup[b] = from
              /\ to = "restore_tested" => from = "verified"
              /\ backup' = [backup EXCEPT ![b] = to]
        BY <3>2 DEF BackupStep, Backups!Step, Backups!Prepare, Backups!Verify,
                    Backups!RestoreTest, Backups!Advance
      <4>2. proved' = IF backup'[b] = "verified" THEN proved \cup {b} ELSE proved
        BY <3>2 DEF BackupStep
      <4>3. QED
        BY <4>1, <4>2 DEF AllGood, Rest
    <3>3. QED
      BY <3>1, <3>2
  <2>2. QED
    BY <1>1, <2>1 DEF AllGood, Rest, CurrentIsPublished, disk
<1>7. QED
  BY <1>3, <1>4, <1>5, <1>6 DEF AllGood

-----------------------------------------------------------------------------
LEMMA StepConsistent == ReleaseAssumption /\ IInv /\ [Next]_vars => Consistent'
<1> SUFFICES ASSUME ReleaseAssumption, IInv, [Next]_vars
             PROVE  Consistent'
  OBVIOUS
<1>1. Staged /\ \E origin \in Origins : AllGood(origin)
  BY DEF IInv, Consistent
<1> PICK origin \in Origins : AllGood(origin)
  BY <1>1
<1>2. ASSUME AllGood(origin)' PROVE Consistent'
  BY <1>2 DEF Consistent
<1>3. CASE UNCHANGED vars
  BY <1>1, <1>2, <1>3, BackupsMove
<1>4. CASE \E b \in Backup : BackupStep(b)
  BY <1>1, <1>2, <1>4, BackupsMove
<1>5. CASE Restart
  BY <1>1, <1>2, <1>5, RestartStep
<1>6. ASSUME NEW t \in Thread,
             \/ \E p \in Plan, u \in Approver : Approve(t, p, u)
             \/ \E p \in Plan : Execute(t, p) \/ ExecuteUnapproved(t, p)
      PROVE  Consistent'
  BY <1>1, <1>2, <1>6, ApproveStep, ExecuteStep
<1>7. ASSUME NEW t \in Thread, Preflight(t) \/ CheckBackup(t)
      PROVE  Consistent'
  BY <1>1, <1>2, <1>7, PreflightStep, CheckBackupStep
<1>8. ASSUME NEW t \in Thread,
             \/ Stage(t) \/ Publish(t) \/ Tidy(t) \/ Locate(t) \/ Point(t)
             \/ Reread(t) \/ Validate(t)
      PROVE  Consistent'
  BY <1>1, <1>2, <1>8, ProviderStep
<1>9. ASSUME NEW t \in Thread, ProviderFails(t) \/ Activate(t)
      PROVE  Consistent'
  BY <1>1, <1>2, <1>9, OutcomeStep
<1>10. ASSUME NEW t \in Thread,
              Copy(t) \/ Save(t) \/ Swap(t) \/ Raise(t) \/ SaveFailsLate(t)
       PROVE  Consistent'
  BY <1>1, <1>2, <1>10, CopyStep, StoreStep
<1>11. ASSUME NEW t \in Thread, Prepare(t)
       PROVE  Consistent'
  <2>1. PICK u \in Requester :
          \/ \E p \in Deployment, c \in Commit, b \in Backup \cup {None}, checks \in BOOLEAN :
                 PrepareDeployment(t, p, u, c, b, checks)
          \/ \E p \in Rollback, target \in Name : PrepareRollback(t, p, u, target)
    BY <1>11 DEF Prepare
  <2>2. ASSUME NEW p \in Deployment, NEW c \in Commit,
               NEW b \in Backup \cup {None}, NEW checks \in BOOLEAN,
               PrepareDeployment(t, p, u, c, b, checks)
        PROVE  Consistent'
    <3>1. p \in Plan /\ c \in Name
      BY DEF Plan, Name
    <3>2. PICK state \in {"awaiting_approval", "blocked"} :
            Begin(t, "copy", p, [state |-> state, by |-> u, commit |-> c, backup |-> b])
      BY <2>2 DEF PrepareDeployment
    <3>3. QED
      BY <1>1, <2>2, <3>1, <3>2, PrepareStep DEF PrepareDeployment
  <2>3. ASSUME NEW p \in Rollback, NEW target \in Name, PrepareRollback(t, p, u, target)
        PROVE  Consistent'
    <3>1. p \in Plan /\ p \notin Deployment
      BY DEF Plan, ReleaseAssumption
    <3>2. QED
      BY <1>1, <2>3, <3>1, PrepareStep DEF PrepareRollback
  <2>4. QED
    BY <2>1, <2>2, <2>3
<1>12. QED
  BY <1>3, <1>4, <1>5, <1>6, <1>7, <1>8, <1>9, <1>10, <1>11 DEF Next

\* Only a deployment makes a staging directory, and one that may be made.
LEMMA StepStaged == Staged /\ [Next]_vars => Staged'
<1> SUFFICES ASSUME Staged, [Next]_vars PROVE Staged'
  OBVIOUS
<1>1. ASSUME NEW t \in Thread,
             \/ Prepare(t)
             \/ \E p \in Plan, u \in Approver : Approve(t, p, u)
             \/ \E p \in Plan : Execute(t, p) \/ ExecuteUnapproved(t, p)
      PROVE  Staged'
  BY <1>1 DEF Staged, Prepare, PrepareDeployment, PrepareRollback, Approve, Execute,
     ExecuteUnapproved, Begin, disk
<1>2. ASSUME NEW t \in Thread, Stage(t) \/ Tidy(t) \/ ProviderFails(t)
      PROVE  Staged'
  BY <1>2 DEF Staged, Stage, Tidy, ProviderFails
<1>3. ASSUME NEW t \in Thread,
             \/ Preflight(t) \/ CheckBackup(t) \/ Publish(t) \/ Locate(t) \/ Point(t)
             \/ Reread(t) \/ Validate(t) \/ Activate(t)
      PROVE  Staged'
  BY <1>3 DEF Staged, Preflight, CheckBackup, Publish, Locate, Point, Reread, Validate,
     Activate, disk
<1>4. ASSUME NEW t \in Thread, Copy(t) \/ Save(t) \/ Swap(t) \/ Raise(t) \/ SaveFailsLate(t)
      PROVE  Staged'
  BY <1>4 DEF Staged, Copy, Save, Swap, Raise, SaveFailsLate, Finish, disk
<1>5. CASE (\E b \in Backup : BackupStep(b)) \/ Restart \/ UNCHANGED vars
  BY <1>5 DEF Staged, BackupStep, Restart, vars, disk, handler
<1>6. QED
  BY <1>1, <1>2, <1>3, <1>4, <1>5 DEF Next

LEMMA InductiveInvariant == Spec => []IInv
<1>1. Init => IInv
  BY InitConsistent, ReleaseAssumption DEF IInv, Staged, Init
<1>2. IInv /\ [Next]_vars => IInv'
  BY StepConsistent, StepStaged, ReleaseAssumption DEF IInv
<1>3. QED
  BY <1>1, <1>2, PTL DEF Spec

-----------------------------------------------------------------------------
\* Type correctness; in particular no rollback is ever stored as "failed",
\* which the decoder of its file would refuse.
THEOREM TypeCorrect == Spec => []TypeOK
<1>1. IInv => TypeOK
  <2> SUFFICES ASSUME NEW origin \in Origins, AllGood(origin), Staged PROVE TypeOK
    BY DEF IInv, Consistent
  <2>1. \A p \in Rollback : plans[p].state # "failed" /\ planFile[p].state # "failed"
    <3> SUFFICES ASSUME NEW p \in Rollback
                 PROVE  plans[p].state # "failed" /\ planFile[p].state # "failed"
      OBVIOUS
    <3>1. p \in Plan /\ NoPlan.state # "failed"
      BY DEF Plan, NoPlan
    <3>2. Fine(p, plans[p], origin) /\ Fine(p, planFile[p], origin)
      BY <3>1 DEF AllGood, Tables
    <3>3. QED
      BY <3>1, <3>2 DEF Fine, Good
  <2>2. \A t \in Thread :
           IF pc[t] \in {"save", "swap"}
           THEN draft[t] \in [Siblings(call[t].plan) -> Record \cup {NoPlan}]
           ELSE draft[t] = <<>>
    BY DEF AllGood, Drafts
  <2>3. Backups!TypeOK
    BY DEF AllGood, Rest, Backups!TypeOK, Backups!BackupState
  <2>4. /\ pc \in [Thread -> {"idle", "preflight", "backup", "publish", "rename",
                              "tidy", "locate", "point", "reread", "validate", "activate",
                              "copy", "save", "swap"}]
        /\ call \in [Thread -> [plan : Plan \cup {None}, record : Record \cup {NoPlan}]]
    BY DEF AllGood, Calls, Steps, Executing, Jobs
  <2>5. QED
    BY <2>1, <2>2, <2>3, <2>4 DEF AllGood, Tables, Rest, Staged, TypeOK
<1>2. QED
  BY <1>1, InductiveInvariant, PTL

\* Whatever handler stops or fails between publishing a release and switching
\* the pointer, CURRENT names a published release, or a directory that a
\* rollback was asked to point to and that no artifact has the name of.
THEOREM PointerIsPublished == Spec => []CurrentIsPublished
<1>1. IInv => CurrentIsPublished
  BY DEF IInv, Consistent, AllGood, Rest
<1>2. QED
  BY <1>1, InductiveInvariant, PTL

\* What the pointer was switched to is the target of a plan, and somebody other
\* than the user who asked for it approved that plan.
THEOREM PointerIsApproved == Spec => []SwitchedByAnother
<1>1. IInv => SwitchedByAnother
  <2> SUFFICES ASSUME NEW origin \in Origins, AllGood(origin), NEW s \in switched,
                      NEW c \in Copies(s[1]) \ {NoPlan}
               PROVE  /\ c.commit = s[2]
                      /\ \E u \in Approver \ {c.by} : <<s[1], u>> \in granted
    BY DEF IInv, Consistent, SwitchedByAnother
  <2>1. PICK p \in Plan, n \in Name : s = <<p, n>>
    BY DEF AllGood, Rest
  <2>2. Fine(p, c, origin)
    BY <2>1 DEF Copies, AllGood, Tables, Calls, NoCall
  <2>3. c.by = origin[p].by /\ c.commit = origin[p].target
    BY <2>2 DEF Fine, Good
  <2>4. QED
    BY <2>1, <2>3 DEF AllGood, Rest
<1>2. QED
  BY <1>1, InductiveInvariant, PTL

\* A verified plan did switch the pointer to its target, and a verified deployment had a
\* backup that passed its verification.
THEOREM VerifiedIsEarned == Spec => []VerifiedWasServed
<1>1. IInv => VerifiedWasServed
  <2> SUFFICES ASSUME NEW origin \in Origins, AllGood(origin), NEW p \in Plan,
                      NEW c \in Copies(p), c.state = "verified"
               PROVE  <<p, c.commit>> \in switched /\ (p \in Deployment => c.backup \in proved)
    BY DEF IInv, Consistent, VerifiedWasServed
  <2>1. c # NoPlan
    BY DEF NoPlan
  <2>2. Fine(p, c, origin)
    BY <2>1 DEF Copies, AllGood, Tables, Calls, NoCall
  <2>3. QED
    BY <2>1, <2>2 DEF Fine, Good
<1>2. QED
  BY <1>1, InductiveInvariant, PTL

\* Under a disabled service activation no handler publishes a release or
\* switches the pointer, whatever plans it finds.
THEOREM DisabledActivationHolds == Spec => DisabledHoldsBack
<1>1. IInv /\ [Next]_vars => [activation = "disabled" => UNCHANGED disk]_vars
  <2> SUFFICES ASSUME NEW origin \in Origins, AllGood(origin), Next,
                      activation = "disabled"
               PROVE  UNCHANGED disk
    BY DEF IInv, Consistent
  <2>1. ASSUME NEW t \in Thread
        PROVE  ~Stage(t) /\ ~Publish(t) /\ ~Tidy(t) /\ ~Point(t) /\ ~ProviderFails(t)
    BY HandlerFacts DEF Stage, Publish, Tidy, Point, ProviderFails, Go, Working, Admitted,
       Executing
  <2>2. ASSUME NEW t \in Thread,
               \/ Prepare(t)
               \/ \E p \in Plan, u \in Approver : Approve(t, p, u)
               \/ \E p \in Plan : Execute(t, p) \/ ExecuteUnapproved(t, p)
        PROVE  UNCHANGED disk
    BY <2>2 DEF Prepare, PrepareDeployment, PrepareRollback, Approve, Execute, ExecuteUnapproved
  <2>3. ASSUME NEW t \in Thread,
               \/ Preflight(t) \/ CheckBackup(t) \/ Locate(t) \/ Reread(t) \/ Validate(t)
               \/ Activate(t)
        PROVE  UNCHANGED disk
    BY <2>3 DEF Preflight, CheckBackup, Locate, Reread, Validate, Activate, disk
  <2>4. ASSUME NEW t \in Thread,
               Copy(t) \/ Save(t) \/ Swap(t) \/ Raise(t) \/ SaveFailsLate(t)
        PROVE  UNCHANGED disk
    BY <2>4 DEF Copy, Save, Swap, Raise, SaveFailsLate
  <2>5. ASSUME NEW b \in Backup, BackupStep(b) PROVE UNCHANGED disk
    BY <2>5 DEF BackupStep
  <2>6. ASSUME Restart PROVE UNCHANGED disk
    BY <2>6 DEF Restart
  <2>7. QED
    BY <2>1, <2>2, <2>3, <2>4, <2>5, <2>6 DEF Next
<1>2. QED
  BY <1>1, InductiveInvariant, PTL DEF Spec, DisabledHoldsBack
=============================================================================
