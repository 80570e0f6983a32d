-------------------------- MODULE ProviderRunsProofs --------------------------
(***************************************************************************)
(* That providers only run for requests that were entitled to it, and what *)
(* becomes of what they answered, for any number of threads, runs and      *)
(* sessions. The checks of a request are made one after the other while    *)
(* sessions end and the manifest changes: the invariant says that whoever  *)
(* still has an open session, or is covered now, was so when it counted    *)
(* (Gates), because a session id is never given out again. A run is found  *)
(* in the dictionary, the file and the draft of whoever may replace them   *)
(* (Kept).                                                                 *)
(***************************************************************************)
EXTENDS ProviderRuns, TLAPS

Jobs    == [kind : Kind, run : Run, session : Session, record : Record]
Filled  == {"copy", "save", "swap", "audit"}
Working == {"provide"} \cup Filled
Steps   == {"idle", "session", "token", "gate", "require"} \cup Working

Busy(t) == pc[t] # "idle"

\* Requests are only served by a server that is up, and every run has an id of
\* its own.
Ids ==
    /\ \A t \in Thread : Busy(t) => up /\ call[t].run \in issued /\ call[t].session \in issued
    /\ \A t, u \in Thread : Busy(t) /\ Busy(u) /\ t # u => call[t].run # call[u].run
    /\ \A a \in answered : a.run \in issued
    /\ \A a \in answered, t \in Thread : Busy(t) => call[t].run # a.run

\* A session that may ask for k, and a manifest that covers k.
Entitled(s, k)  == Open(s) /\ k \in MayAsk(session[s].role)
Covering(k)     == k \in Authorized(manifest, now)

\* Whoever is entitled, or covered, at some step was so when it counted.
Gates ==
    \A t \in Thread : Busy(t) =>
        /\ Entitled(call[t].session, call[t].kind) => t \in welcome
        /\ Covering(call[t].kind) => t \in covered
        /\ pc[t] = "provide" => t \in welcome
        /\ pc[t] \in {"require", "provide"} /\ provider[call[t].kind] = "live" => t \in covered

\* What a record of kind k looks like, wherever it lies.
Sound(k, r) == r.text \in Accepted(k) /\ (r.evidence <=> r.state = "completed")

Shapes ==
    /\ \A k \in Kind, r \in Run : Sound(k, records[k][r]) /\ Sound(k, recordFile[k][r])
    /\ \A t \in Thread :
           /\ pc[t] \in Working => call[t].record.text \in Accepted(call[t].kind)
           /\ pc[t] \in Filled => Sound(call[t].kind, call[t].record)
           /\ pc[t] \in {"save", "swap"} => \A r \in Run : Sound(call[t].kind, draft[t][r])

\* Runs that were stored: in the copies that matter while the requests of their
\* kind do not overlap.
Held(k, run, record) == recordFile[k][run] = record /\ (up => records[k][run] = record)
Alone(t) == Busy(t) /\ call[t].kind \notin overlapped

Kept ==
    /\ audited \subseteq saved
    /\ \A t \in Thread : pc[t] \in {"swap", "audit"} => call[t].run \in saved
    /\ \A t, u \in Thread : Alone(t) /\ Alone(u) /\ call[t].kind = call[u].kind => t = u
    /\ \A a \in answered : a.kind \notin overlapped =>
           /\ Held(a.kind, a.run, a.record)
           /\ \A t \in Thread : pc[t] \in {"save", "swap"} /\ call[t].kind = a.kind =>
                  draft[t][a.run] = a.record
    /\ \A t \in Thread :
           /\ pc[t] \in {"save", "swap"} => draft[t][call[t].run] = call[t].record
           /\ Alone(t) /\ pc[t] = "swap" =>
                  recordFile[call[t].kind][call[t].run] = call[t].record
           /\ Alone(t) /\ pc[t] = "audit" => Held(call[t].kind, call[t].run, call[t].record)

\* The checks of a request turn it away, or let it pass to the next step.
Turned(t) ==
    /\ Busy(t)
    /\ Leave(t)
    /\ session' \in {session, [session EXCEPT ![call[t].session] = None]}
    /\ UNCHANGED <<store, manifest, provider, up, now, issued, told, overlapped>>
Passed(t, from, to) ==
    /\ Go(t, from, to)
    /\ UNCHANGED <<store, env, call, draft, issued, gate, told, overlapped>>
Gated(t) ==
    /\ provider[call[t].kind] = "live" => Covers(manifest, call[t].kind, now)
    /\ Passed(t, "gate", "require")
Admitted(t) == Permitted(t) /\ Passed(t, "require", "provide")
Outcomes == {"completed", "rejected", "blocked"}
Fills(t, state) == call' = [call EXCEPT ![t].record = Outcome(@, state)]
Planned(t, state) ==
    /\ Permitted(t)
    /\ Go(t, "require", "copy")
    /\ Fills(t, state)
    /\ UNCHANGED <<store, env, draft, issued, gate, told, overlapped>>

IInv == TypeOK /\ Ids /\ Gates /\ Shapes /\ Kept

-----------------------------------------------------------------------------
LEMMA NoCallIsNoJob == RunAssumption => NoCall \notin Jobs
BY DEF RunAssumption, NoCall, Jobs

LEMMA NoDraftIsTyped == NoDraft \in [Run -> Record] /\ NoRun \in Record
BY DEF NoDraft, NoRun, Record, ChatAccepts

LEMMA ProvidedCases ==
    ASSUME NEW t \in Thread,
           RunTests(t) \/ RunBuild(t) \/ AnalyzeCodex(t) \/ AskChat(t)
    PROVE  \E k \in Kind, state \in {"completed", "rejected"} : Provided(t, k, state)
BY DEF RunTests, RunBuild, AnalyzeCodex, AskChat, Kind

LEMMA CheckCases ==
    ASSUME NEW t \in Thread, Enter(t) \/ Token(t) \/ Gate(t) \/ Require(t)
    PROVE  \/ Turned(t) \/ Gated(t) \/ Admitted(t)
           \/ \E from \in {"session", "token"}, to \in {"token", "gate"} : Passed(t, from, to)
           \/ \E state \in Outcomes : Planned(t, state)
<1>1. CASE Enter(t)
  BY <1>1 DEF Enter, Turned, Passed, Busy, env, gate, Go
<1>2. CASE Token(t)
  BY <1>2 DEF Token, Turned, Passed, Busy, env, gate, Go
<1>3. CASE Gate(t)
  BY <1>3 DEF Gate, Turned, Gated, Passed, Busy, env, gate, Go
<1>4. CASE Require(t)
  <2>1. CASE ~Permitted(t)
    BY <1>4, <2>1 DEF Require, Turned, Busy, env
  <2>2. CASE Permitted(t) /\ provider[call[t].kind] # "none"
    BY <1>4, <2>2 DEF Require, Admitted, Passed
  <2>3. CASE Permitted(t) /\ provider[call[t].kind] = "none"
    BY <1>4, <2>3 DEF Require, Planned, Fills, Outcomes
  <2>4. QED
    BY <2>1, <2>2, <2>3
<1>5. QED
  BY <1>1, <1>2, <1>3, <1>4

LEMMA OutcomeIsSound ==
    ASSUME NEW r \in Record, NEW state \in Outcomes
    PROVE  /\ Outcome(r, state) \in Record
           /\ Outcome(r, state).text = r.text
           /\ Outcome(r, state).evidence <=> Outcome(r, state).state = "completed"
BY DEF Outcome, Record, Outcomes

\* The record of a request gets its outcome, and nothing else changes.
LEMMA FillStep ==
    ASSUME RunAssumption, TypeOK, NEW t \in Thread, Busy(t), NEW state \in Outcomes,
           Fills(t, state)
    PROVE  /\ call' \in [Thread -> Jobs \cup {NoCall}]
           /\ call'[t] \in Jobs /\ call'[t] # NoCall
           /\ call'[t].kind = call[t].kind /\ call'[t].run = call[t].run
           /\ call'[t].session = call[t].session
           /\ call'[t].record.text = call[t].record.text
           /\ call'[t].record.evidence <=> call'[t].record.state = "completed"
           /\ \A u \in Thread \ {t} : call'[u] = call[u]
<1>1. call \in [Thread -> Jobs \cup {NoCall}] /\ call[t] \in Jobs
  BY DEF TypeOK, Jobs, Busy
<1>2. call' = [call EXCEPT ![t] = [call[t] EXCEPT !.record = Outcome(call[t].record, state)]]
  BY <1>1 DEF Fills
<1> DEFINE o == Outcome(call[t].record, state)
           j == [call[t] EXCEPT !.record = o]
<1>3. /\ o \in Record /\ o.text = call[t].record.text
      /\ o.evidence <=> o.state = "completed"
  BY <1>1, OutcomeIsSound DEF Jobs
<1>5. call' = [call EXCEPT ![t] = j]
  BY <1>2
<1> HIDE DEF o
<1>4. /\ j \in Jobs /\ j.kind = call[t].kind /\ j.run = call[t].run
      /\ j.session = call[t].session /\ j.record = o
  BY <1>1, <1>3 DEF Jobs
<1> HIDE DEF j
<1>6. call'[t] = j /\ \A u \in Thread \ {t} : call'[u] = call[u]
  BY <1>1, <1>5
<1>7. call' \in [Thread -> Jobs \cup {NoCall}]
  BY <1>1, <1>4, <1>5
<1>8. QED
  BY <1>3, <1>4, <1>6, <1>7, NoCallIsNoJob

LEMMA InitIInv == RunAssumption /\ Init => IInv
<1> SUFFICES ASSUME RunAssumption, Init PROVE IInv
  OBVIOUS
<1>1. TypeOK
  <2>1. /\ records \in [Kind -> [Run -> Record]] /\ recordFile \in [Kind -> [Run -> Record]]
        /\ draft \in [Thread -> [Run -> Record]]
    BY NoDraftIsTyped DEF Init
  <2>2. /\ session \in [Session -> [role : {"VIEWER", "DEVELOPER"}, until : Nat] \cup {None}]
        /\ manifest \in Manifest \cup {None}
        /\ provider \in [Kind -> {"none", "synthetic", "live"}]
        /\ up \in BOOLEAN
    BY DEF Init
  <2>5. now \in 0..MaxTime
    BY DEF Init, RunAssumption
  <2>3. /\ pc \in [Thread -> Steps]
        /\ call \in [Thread -> Jobs \cup {NoCall}]
        /\ \A t \in Thread : call[t] = NoCall <=> pc[t] = "idle"
    BY DEF Init, Steps
  <2>4. QED
    BY <2>1, <2>2, <2>3, <2>5 DEF Init, TypeOK, Jobs, Steps, Working, Filled
<1>2. Ids /\ Gates /\ Kept
  BY DEF Init, Ids, Gates, Kept, Busy, Alone
<1>3. Shapes
  BY DEF Init, Shapes, Sound, NoDraft, NoRun, Working, Filled, Accepted, Kind, TestsAccept,
         BuildsAccept, CodexAccepts, ChatAccepts
<1>4. QED
  BY <1>1, <1>2, <1>3 DEF IInv

LEMMA TypeOKStep ==
    ASSUME RunAssumption, IInv, [Next]_vars PROVE TypeOK'
<1>1. ASSUME NEW t \in Thread, NEW k \in Kind, NEW r \in Run, NEW s \in Session,
                       NEW text \in ChatAccepts, Begin(t, k, r, s, text) PROVE TypeOK'
  <2> DEFINE rec == [NoRun EXCEPT !.text = text]
             j == [kind |-> k, run |-> r, session |-> s, record |-> rec]
  <2>1. rec \in Record
    BY <1>1 DEF Record, NoRun
  <2>2. call' = [call EXCEPT ![t] = j]
    BY <1>1 DEF Begin
  <2>3. pc[t] = "idle" /\ pc' = [pc EXCEPT ![t] = "session"]
    BY <1>1 DEF Begin, Go
  <2> HIDE DEF rec
  <2>4. j \in Jobs /\ j # NoCall
    BY <2>1, NoCallIsNoJob, <1>1 DEF Jobs
  <2> HIDE DEF j
  <2>5. /\ pc' \in [Thread -> Steps]
        /\ call' \in [Thread -> Jobs \cup {NoCall}]
        /\ \A u \in Thread : call'[u] = NoCall <=> pc'[u] = "idle"
    BY <2>2, <2>3, <2>4, NoCallIsNoJob DEF IInv, TypeOK, Jobs, Steps, Working, Filled
  <2>6. covered' \cup welcome' \subseteq {u \in Thread : pc'[u] # "idle"}
    BY <2>3, <1>1 DEF IInv, TypeOK, Begin
  <2>7. QED
    BY <1>1, <2>5, <2>6 DEF IInv, TypeOK, Begin, Jobs, Steps, Working, Filled, vars, store,
       env, handler, gate, told
<1>2. ASSUME NEW t \in Thread, Turned(t) PROVE TypeOK'
  BY <1>2, NoCallIsNoJob, NoDraftIsTyped DEF IInv, TypeOK, Turned, Go, Leave, Jobs, vars,
       store, env, handler, gate, told
<1>3. ASSUME NEW t \in Thread, NEW to \in {"token", "gate"}, NEW from \in {"session", "token"},
                       Passed(t, from, to) PROVE TypeOK'
  BY <1>3, NoCallIsNoJob, NoDraftIsTyped DEF IInv, TypeOK, Passed, Go, Leave, Jobs, vars,
       store, env, handler, gate, told
<1>4. ASSUME NEW t \in Thread, Gated(t) PROVE TypeOK'
  BY <1>4 DEF IInv, TypeOK, Gated, Passed, Go, vars, store, env, handler, gate, told
<1>5. ASSUME NEW t \in Thread, Admitted(t) PROVE TypeOK'
  BY <1>5 DEF IInv, TypeOK, Admitted, Passed, Go, vars, store, env, handler, gate, told
<1>6. ASSUME NEW t \in Thread, NEW state \in Outcomes, Planned(t, state) PROVE TypeOK'
  <2>1. Busy(t) /\ Fills(t, state) /\ state \in Outcomes
    BY <1>6 DEF Planned, Go, Busy, Fills, Outcomes
  <2>2. QED
    BY <1>6, <2>1, FillStep DEF IInv, TypeOK, Jobs, Planned, Go, vars, store, env, handler,
       gate, told
<1>7. ASSUME NEW t \in Thread, NEW k \in Kind, NEW state \in {"completed", "rejected"},
                       Provided(t, k, state) PROVE TypeOK'
  <2>1. Busy(t) /\ Fills(t, state) /\ state \in Outcomes
    BY <1>7 DEF Provided, Go, Busy, Fills, Outcomes
  <2>2. pc[t] = "provide" /\ pc' = [pc EXCEPT ![t] = "copy"]
    BY <1>7 DEF Provided, Go
  <2>3. /\ call' \in [Thread -> Jobs \cup {NoCall}]
        /\ \A u \in Thread : call'[u] = NoCall <=> pc'[u] = "idle"
        /\ pc' \in [Thread -> Steps]
        /\ \A u \in Thread : pc[u] # "idle" => pc'[u] # "idle"
    BY <2>1, <2>2, FillStep DEF IInv, TypeOK, Steps, Working, Filled
  <2>4. QED
    BY <1>7, <2>3 DEF IInv, TypeOK, Provided, Jobs, Steps, Working, Filled, vars, store, env,
       handler, gate, told
<1>8. ASSUME NEW t \in Thread, Copy(t) PROVE TypeOK'
  BY <1>8, NoCallIsNoJob, NoDraftIsTyped DEF IInv, TypeOK, Copy, Go, Leave, Jobs, vars,
       store, env, handler, gate, told
<1>9. ASSUME NEW t \in Thread, Save(t) PROVE TypeOK'
  BY <1>9, NoCallIsNoJob, NoDraftIsTyped DEF IInv, TypeOK, Save, Go, Leave, Jobs, vars,
       store, env, handler, gate, told
<1>10. ASSUME NEW t \in Thread, SaveFails(t) PROVE TypeOK'
  BY <1>10, NoCallIsNoJob, NoDraftIsTyped DEF IInv, TypeOK, SaveFails, Go, Leave, Jobs,
       vars, store, env, handler, gate, told
<1>11. ASSUME NEW t \in Thread, SaveFailsLate(t) PROVE TypeOK'
  BY <1>11, NoCallIsNoJob, NoDraftIsTyped DEF IInv, TypeOK, SaveFailsLate, Go, Leave, Jobs,
       vars, store, env, handler, gate, told
<1>12. ASSUME NEW t \in Thread, Swap(t) PROVE TypeOK'
  BY <1>12, NoCallIsNoJob, NoDraftIsTyped DEF IInv, TypeOK, Swap, Go, Leave, Jobs, vars,
       store, env, handler, gate, told
<1>13. ASSUME NEW t \in Thread, Audit(t) PROVE TypeOK'
  BY <1>13, NoDraftIsTyped, NoCallIsNoJob DEF IInv, TypeOK, Audit, Answer, Go, Leave, Jobs,
       vars, store, env, handler, gate, told
<1>14. ASSUME NEW t \in Thread, AuditFails(t) PROVE TypeOK'
  BY <1>14, NoCallIsNoJob, NoDraftIsTyped DEF IInv, TypeOK, AuditFails, Go, Leave, Jobs,
       vars, store, env, handler, gate, told
<1>15. ASSUME NEW s \in Session, Logout(s) PROVE TypeOK'
  BY <1>15, NoCallIsNoJob, NoDraftIsTyped DEF IInv, TypeOK, Logout, Go, Leave, Jobs, vars,
       store, env, handler, gate, told
<1>16. ASSUME NEW s \in Session, NEW role \in {"VIEWER", "DEVELOPER"}, Login(s, role) PROVE TypeOK'
  BY <1>16, NoCallIsNoJob DEF IInv, TypeOK, Login, RunAssumption, vars, store, env, handler,
       gate, told
<1>17. ASSUME NEW m \in Manifest \cup {None}, ReplaceManifest(m) PROVE TypeOK'
  BY <1>17 DEF IInv, TypeOK, ReplaceManifest, CoveredBy, vars, store, env, handler, gate, told
<1>18. CASE Tick
  BY <1>18 DEF IInv, TypeOK, Tick, CoveredBy, RunAssumption, vars, store, env, handler,
       gate, told
<1>19. CASE Stop
  BY <1>19, NoCallIsNoJob, NoDraftIsTyped DEF IInv, TypeOK, Stop, Go, Leave, Jobs, vars,
       store, env, handler, gate, told
<1>20. ASSUME NEW c \in Compositions, Start(c) PROVE TypeOK'
  BY <1>20 DEF IInv, TypeOK, Start, RunAssumption, vars, store, env, handler, gate, told
<1>21. CASE UNCHANGED vars
  BY <1>21 DEF IInv, TypeOK, vars, store, env, handler, gate, told
<1>22. QED
  BY <1>1, <1>2, <1>3, <1>4, <1>5, <1>6, <1>7, <1>8, <1>9, <1>10, <1>11, <1>12, <1>13,
       <1>14, <1>15, <1>16, <1>17, <1>18, <1>19, <1>20, <1>21, ProvidedCases, CheckCases
       DEF Next

\* A step that gives the request of thread t its record and leaves who it is.
LEMMA SameRequest ==
    ASSUME Ids, NEW t \in Thread, Busy(t), UNCHANGED <<up, issued, answered>>,
           call'[t].run = call[t].run, call'[t].session = call[t].session,
           \A u \in Thread \ {t} : pc'[u] = pc[u] /\ call'[u] = call[u]
    PROVE  Ids'
BY DEF Ids, Busy

LEMMA IdsStep ==
    ASSUME RunAssumption, IInv, [Next]_vars PROVE Ids'
<1>1. ASSUME NEW t \in Thread, NEW k \in Kind, NEW r \in Run, NEW s \in Session,
                       NEW text \in ChatAccepts, Begin(t, k, r, s, text) PROVE Ids'
  BY <1>1 DEF IInv, TypeOK, Ids, Busy, Begin, Go, Leave, vars, store, env, handler, gate, told
<1>2. ASSUME NEW t \in Thread, Turned(t) PROVE Ids'
  BY <1>2 DEF IInv, TypeOK, Ids, Busy, Turned, Go, Leave, vars, store, env, handler, gate,
       told
<1>3. ASSUME NEW t \in Thread, NEW to \in {"token", "gate"}, NEW from \in {"session", "token"},
                       Passed(t, from, to) PROVE Ids'
  BY <1>3 DEF IInv, TypeOK, Ids, Busy, Passed, Go, Leave, vars, store, env, handler, gate,
       told
<1>4. ASSUME NEW t \in Thread, Gated(t) PROVE Ids'
  BY <1>4 DEF IInv, TypeOK, Ids, Busy, Gated, Passed, Go, vars, store, env, handler, gate,
       told
<1>5. ASSUME NEW t \in Thread, Admitted(t) PROVE Ids'
  BY <1>5 DEF IInv, TypeOK, Ids, Busy, Admitted, Passed, Go, vars, store, env, handler,
       gate, told
<1>6. ASSUME NEW t \in Thread, NEW state \in Outcomes, Planned(t, state) PROVE Ids'
  <2>1. Busy(t) /\ Fills(t, state) /\ state \in Outcomes
    BY <1>6 DEF Planned, Go, Busy, Fills, Outcomes
  <2>2. /\ call'[t].run = call[t].run /\ call'[t].session = call[t].session
        /\ \A u \in Thread \ {t} : call'[u] = call[u]
    BY <2>1, FillStep DEF IInv
  <2>3. /\ \A u \in Thread \ {t} : pc'[u] = pc[u]
        /\ UNCHANGED <<up, issued, answered>>
    BY <1>6 DEF Planned, Go, IInv, TypeOK, env, told
  <2>4. QED
    BY <2>1, <2>2, <2>3, SameRequest DEF IInv
<1>7. ASSUME NEW t \in Thread, NEW k \in Kind, NEW state \in {"completed", "rejected"},
                       Provided(t, k, state) PROVE Ids'
  <2>1. Busy(t) /\ Fills(t, state) /\ state \in Outcomes
    BY <1>7 DEF Provided, Go, Busy, Fills, Outcomes
  <2>2. /\ call'[t].run = call[t].run /\ call'[t].session = call[t].session
        /\ \A u \in Thread \ {t} : call'[u] = call[u]
    BY <2>1, FillStep DEF IInv
  <2>3. /\ \A u \in Thread \ {t} : pc'[u] = pc[u]
        /\ UNCHANGED <<up, issued, answered>>
    BY <1>7 DEF Provided, Go, IInv, TypeOK, env, told
  <2>4. QED
    BY <2>1, <2>2, <2>3, SameRequest DEF IInv
<1>8. ASSUME NEW t \in Thread, Copy(t) PROVE Ids'
  BY <1>8 DEF IInv, TypeOK, Ids, Busy, Copy, Go, Leave, vars, store, env, handler, gate, told
<1>9. ASSUME NEW t \in Thread, Save(t) PROVE Ids'
  BY <1>9 DEF IInv, TypeOK, Ids, Busy, Save, Go, Leave, vars, store, env, handler, gate, told
<1>10. ASSUME NEW t \in Thread, SaveFails(t) PROVE Ids'
  BY <1>10 DEF IInv, TypeOK, Ids, Busy, SaveFails, Go, Leave, vars, store, env, handler,
       gate, told
<1>11. ASSUME NEW t \in Thread, SaveFailsLate(t) PROVE Ids'
  BY <1>11 DEF IInv, TypeOK, Ids, Busy, SaveFailsLate, Go, Leave, vars, store, env, handler,
       gate, told
<1>12. ASSUME NEW t \in Thread, Swap(t) PROVE Ids'
  BY <1>12 DEF IInv, TypeOK, Ids, Busy, Swap, Go, Leave, vars, store, env, handler, gate, told
<1>13. ASSUME NEW t \in Thread, Audit(t) PROVE Ids'
  BY <1>13 DEF IInv, TypeOK, Ids, Busy, Audit, Answer, Leave, vars, store, env, handler,
       gate, told
<1>14. ASSUME NEW t \in Thread, AuditFails(t) PROVE Ids'
  BY <1>14 DEF IInv, TypeOK, Ids, Busy, AuditFails, Go, Leave, vars, store, env, handler,
       gate, told
<1>15. ASSUME NEW s \in Session, Logout(s) PROVE Ids'
  BY <1>15 DEF IInv, TypeOK, Ids, Busy, Logout, Go, Leave, vars, store, env, handler, gate,
       told
<1>16. ASSUME NEW s \in Session, NEW role \in {"VIEWER", "DEVELOPER"}, Login(s, role) PROVE Ids'
  BY <1>16 DEF IInv, TypeOK, Ids, Busy, Login, Go, Leave, vars, store, env, handler, gate,
       told
<1>17. ASSUME NEW m \in Manifest \cup {None}, ReplaceManifest(m) PROVE Ids'
  BY <1>17 DEF IInv, TypeOK, Ids, Busy, ReplaceManifest, Go, Leave, vars, store, env,
       handler, gate, told
<1>18. CASE Tick
  BY <1>18 DEF IInv, TypeOK, Ids, Busy, Tick, Go, Leave, vars, store, env, handler, gate, told
<1>19. CASE Stop
  BY <1>19 DEF IInv, TypeOK, Ids, Busy, Stop, Go, Leave, vars, store, env, handler, gate, told
<1>20. ASSUME NEW c \in Compositions, Start(c) PROVE Ids'
  BY <1>20 DEF IInv, TypeOK, Ids, Busy, Start, Go, Leave, vars, store, env, handler, gate,
       told
<1>21. CASE UNCHANGED vars
  BY <1>21 DEF IInv, Ids, Busy, vars, store, env, handler, gate, told
<1>22. QED
  BY <1>1, <1>2, <1>3, <1>4, <1>5, <1>6, <1>7, <1>8, <1>9, <1>10, <1>11, <1>12, <1>13,
       <1>14, <1>15, <1>16, <1>17, <1>18, <1>19, <1>20, <1>21, ProvidedCases, CheckCases
       DEF Next

LEMMA GatesStep ==
    ASSUME RunAssumption, IInv, [Next]_vars PROVE Gates'
<1>1. ASSUME NEW t \in Thread, NEW k \in Kind, NEW r \in Run, NEW s \in Session,
                       NEW text \in ChatAccepts, Begin(t, k, r, s, text) PROVE Gates'
  BY <1>1 DEF IInv, TypeOK, Ids, Gates, Busy, Entitled, Covering, Open, Begin, Go, Leave,
       vars, store, env, handler, gate, told
<1>2. ASSUME NEW t \in Thread, Turned(t) PROVE Gates'
  BY <1>2 DEF IInv, TypeOK, Ids, Gates, Busy, Entitled, Covering, Open, Turned, Go, Leave,
       vars, store, env, handler, gate, told
<1>3. ASSUME NEW t \in Thread, NEW to \in {"token", "gate"}, NEW from \in {"session", "token"},
                       Passed(t, from, to) PROVE Gates'
  BY <1>3 DEF IInv, TypeOK, Ids, Gates, Busy, Entitled, Covering, Open, Passed, Go, Leave,
       vars, store, env, handler, gate, told
<1>4. ASSUME NEW t \in Thread, Gated(t) PROVE Gates'
  BY <1>4 DEF IInv, TypeOK, Gates, Busy, Entitled, Covering, Open, Gated, Passed, Covers,
       Authorized, Go, vars, store, env, handler, gate, told
<1>5. ASSUME NEW t \in Thread, Admitted(t) PROVE Gates'
  BY <1>5 DEF IInv, TypeOK, Gates, Busy, Entitled, Covering, Open, Admitted, Permitted,
       Passed, Go, vars, store, env, handler, gate, told
<1>6. ASSUME NEW t \in Thread, NEW state \in Outcomes, Planned(t, state) PROVE Gates'
  <2>1. Busy(t) /\ Fills(t, state) /\ state \in Outcomes
    BY <1>6 DEF Planned, Go, Busy, Fills, Outcomes
  <2>2. QED
    BY <1>6, <2>1, FillStep DEF IInv, TypeOK, Gates, Busy, Entitled, Covering, Open, Planned,
       Go, vars, store, env, handler, gate, told
<1>7. ASSUME NEW t \in Thread, NEW k \in Kind, NEW state \in {"completed", "rejected"},
                       Provided(t, k, state) PROVE Gates'
  <2>1. Busy(t) /\ Fills(t, state) /\ state \in Outcomes
    BY <1>7 DEF Provided, Go, Busy, Fills, Outcomes
  <2>2. QED
    BY <1>7, <2>1, FillStep DEF IInv, TypeOK, Gates, Busy, Entitled, Covering, Open, Provided,
       Go, vars, store, env, handler, gate, told
<1>8. ASSUME NEW t \in Thread, Copy(t) PROVE Gates'
  BY <1>8 DEF IInv, TypeOK, Ids, Gates, Busy, Entitled, Covering, Open, Copy, Go, Leave,
       vars, store, env, handler, gate, told
<1>9. ASSUME NEW t \in Thread, Save(t) PROVE Gates'
  BY <1>9 DEF IInv, TypeOK, Ids, Gates, Busy, Entitled, Covering, Open, Save, Go, Leave,
       vars, store, env, handler, gate, told
<1>10. ASSUME NEW t \in Thread, SaveFails(t) PROVE Gates'
  BY <1>10 DEF IInv, TypeOK, Ids, Gates, Busy, Entitled, Covering, Open, SaveFails, Go,
       Leave, vars, store, env, handler, gate, told
<1>11. ASSUME NEW t \in Thread, SaveFailsLate(t) PROVE Gates'
  BY <1>11 DEF IInv, TypeOK, Ids, Gates, Busy, Entitled, Covering, Open, SaveFailsLate, Go,
       Leave, vars, store, env, handler, gate, told
<1>12. ASSUME NEW t \in Thread, Swap(t) PROVE Gates'
  BY <1>12 DEF IInv, TypeOK, Ids, Gates, Busy, Entitled, Covering, Open, Swap, Go, Leave,
       vars, store, env, handler, gate, told
<1>13. ASSUME NEW t \in Thread, Audit(t) PROVE Gates'
  BY <1>13 DEF IInv, TypeOK, Ids, Gates, Busy, Entitled, Covering, Open, Audit, Go, Leave,
       vars, store, env, handler, gate, told
<1>14. ASSUME NEW t \in Thread, AuditFails(t) PROVE Gates'
  BY <1>14 DEF IInv, TypeOK, Ids, Gates, Busy, Entitled, Covering, Open, AuditFails, Go,
       Leave, vars, store, env, handler, gate, told
<1>15. ASSUME NEW s \in Session, Logout(s) PROVE Gates'
  BY <1>15 DEF IInv, TypeOK, Ids, Gates, Busy, Entitled, Covering, Open, Logout, Go, Leave,
       vars, store, env, handler, gate, told
<1>16. ASSUME NEW s \in Session, NEW role \in {"VIEWER", "DEVELOPER"}, Login(s, role) PROVE Gates'
  BY <1>16 DEF IInv, TypeOK, Ids, Gates, Busy, Entitled, Covering, Open, Login, vars, store,
       env, handler, gate, told
<1>17. ASSUME NEW m \in Manifest \cup {None}, ReplaceManifest(m) PROVE Gates'
  BY <1>17 DEF IInv, TypeOK, Gates, Busy, Entitled, Covering, Open, ReplaceManifest,
       CoveredBy, vars, store, env, handler, gate, told
<1>18. CASE Tick
  BY <1>18 DEF IInv, TypeOK, Gates, Busy, Entitled, Covering, Open, Tick, CoveredBy,
       RunAssumption, vars, store, env, handler, gate, told
<1>19. CASE Stop
  BY <1>19 DEF IInv, TypeOK, Ids, Gates, Busy, Entitled, Covering, Open, Stop, Go, Leave,
       vars, store, env, handler, gate, told
<1>20. ASSUME NEW c \in Compositions, Start(c) PROVE Gates'
  BY <1>20 DEF IInv, TypeOK, Ids, Gates, Busy, Entitled, Covering, Open, Start, Go, Leave,
       vars, store, env, handler, gate, told
<1>21. CASE UNCHANGED vars
  BY <1>21 DEF IInv, Gates, Busy, Entitled, Covering, Open, vars, store, env, handler, gate,
       told
<1>22. QED
  BY <1>1, <1>2, <1>3, <1>4, <1>5, <1>6, <1>7, <1>8, <1>9, <1>10, <1>11, <1>12, <1>13,
       <1>14, <1>15, <1>16, <1>17, <1>18, <1>19, <1>20, <1>21, ProvidedCases, CheckCases
       DEF Next

LEMMA NoDraftIsSound == \A k \in Kind : \A r \in Run : Sound(k, NoDraft[r])
BY DEF Sound, NoDraft, NoRun, Accepted, Kind, TestsAccept, BuildsAccept, CodexAccepts,
       ChatAccepts

LEMMA ShapesStep ==
    ASSUME RunAssumption, IInv, [Next]_vars PROVE Shapes'
<1>1. ASSUME NEW t \in Thread, NEW k \in Kind, NEW r \in Run, NEW s \in Session,
                       NEW text \in ChatAccepts, Begin(t, k, r, s, text) PROVE Shapes'
  BY <1>1, NoDraftIsSound DEF IInv, TypeOK, Shapes, Working, Filled, Begin, Go, Leave, vars,
       store, env, handler, gate, told
<1>2. ASSUME NEW t \in Thread, Turned(t) PROVE Shapes'
  BY <1>2, NoDraftIsSound DEF IInv, TypeOK, Shapes, Working, Filled, Turned, Go, Leave,
       vars, store, env, handler, gate, told
<1>3. ASSUME NEW t \in Thread, NEW to \in {"token", "gate"}, NEW from \in {"session", "token"},
                       Passed(t, from, to) PROVE Shapes'
  BY <1>3, NoDraftIsSound DEF IInv, TypeOK, Shapes, Working, Filled, Passed, Go, Leave,
       vars, store, env, handler, gate, told
<1>4. ASSUME NEW t \in Thread, Gated(t) PROVE Shapes'
  BY <1>4 DEF IInv, TypeOK, Shapes, Working, Filled, Gated, Passed, Go, vars, store, env,
       handler, gate, told
<1>5. ASSUME NEW t \in Thread, Admitted(t) PROVE Shapes'
  BY <1>5 DEF IInv, TypeOK, Shapes, Working, Filled, Admitted, Permitted, Passed, Go, vars,
       store, env, handler, gate, told
<1>6. ASSUME NEW t \in Thread, NEW state \in Outcomes, Planned(t, state) PROVE Shapes'
  <2>1. Busy(t) /\ Fills(t, state) /\ state \in Outcomes
    BY <1>6 DEF Planned, Go, Busy, Fills, Outcomes
  <2>2. QED
    BY <1>6, <2>1, FillStep DEF IInv, TypeOK, Shapes, Sound, Working, Filled, Permitted,
       Planned, Go, vars, store, env, handler, gate, told
<1>7. ASSUME NEW t \in Thread, NEW k \in Kind, NEW state \in {"completed", "rejected"},
                       Provided(t, k, state) PROVE Shapes'
  <2>1. Busy(t) /\ Fills(t, state) /\ state \in Outcomes
    BY <1>7 DEF Provided, Go, Busy, Fills, Outcomes
  <2>2. QED
    BY <1>7, <2>1, FillStep DEF IInv, TypeOK, Shapes, Sound, Working, Filled, Provided, Go,
       vars, store, env, handler, gate, told
<1>8. ASSUME NEW t \in Thread, Copy(t) PROVE Shapes'
  BY <1>8, NoDraftIsSound DEF IInv, TypeOK, Shapes, Working, Filled, Copy, Go, Leave, vars,
       store, env, handler, gate, told
<1>9. ASSUME NEW t \in Thread, Save(t) PROVE Shapes'
  BY <1>9, NoDraftIsSound DEF IInv, TypeOK, Shapes, Working, Filled, Save, Go, Leave, vars,
       store, env, handler, gate, told
<1>10. ASSUME NEW t \in Thread, SaveFails(t) PROVE Shapes'
  BY <1>10, NoDraftIsSound DEF IInv, TypeOK, Shapes, Working, Filled, SaveFails, Go, Leave,
       vars, store, env, handler, gate, told
<1>11. ASSUME NEW t \in Thread, SaveFailsLate(t) PROVE Shapes'
  BY <1>11, NoDraftIsSound DEF IInv, TypeOK, Shapes, Working, Filled, SaveFailsLate, Go,
       Leave, vars, store, env, handler, gate, told
<1>12. ASSUME NEW t \in Thread, Swap(t) PROVE Shapes'
  BY <1>12, NoDraftIsSound DEF IInv, TypeOK, Shapes, Working, Filled, Swap, Go, Leave, vars,
       store, env, handler, gate, told
<1>13. ASSUME NEW t \in Thread, Audit(t) PROVE Shapes'
  BY <1>13, NoDraftIsSound DEF IInv, TypeOK, Shapes, Working, Filled, Audit, Go, Leave,
       vars, store, env, handler, gate, told
<1>14. ASSUME NEW t \in Thread, AuditFails(t) PROVE Shapes'
  BY <1>14, NoDraftIsSound DEF IInv, TypeOK, Shapes, Working, Filled, AuditFails, Go, Leave,
       vars, store, env, handler, gate, told
<1>15. ASSUME NEW s \in Session, Logout(s) PROVE Shapes'
  BY <1>15, NoDraftIsSound DEF IInv, TypeOK, Shapes, Working, Filled, Logout, Go, Leave,
       vars, store, env, handler, gate, told
<1>16. ASSUME NEW s \in Session, NEW role \in {"VIEWER", "DEVELOPER"}, Login(s, role) PROVE Shapes'
  BY <1>16, NoDraftIsSound DEF IInv, TypeOK, Shapes, Working, Filled, Login, Go, Leave,
       vars, store, env, handler, gate, told
<1>17. ASSUME NEW m \in Manifest \cup {None}, ReplaceManifest(m) PROVE Shapes'
  BY <1>17, NoDraftIsSound DEF IInv, TypeOK, Shapes, Working, Filled, ReplaceManifest, Go,
       Leave, vars, store, env, handler, gate, told
<1>18. CASE Tick
  BY <1>18, NoDraftIsSound DEF IInv, TypeOK, Shapes, Working, Filled, Tick, Go, Leave, vars,
       store, env, handler, gate, told
<1>19. CASE Stop
  BY <1>19, NoDraftIsSound DEF IInv, TypeOK, Shapes, Working, Filled, Stop, Go, Leave, vars,
       store, env, handler, gate, told
<1>20. ASSUME NEW c \in Compositions, Start(c) PROVE Shapes'
  BY <1>20, NoDraftIsSound DEF IInv, TypeOK, Shapes, Working, Filled, Start, Go, Leave,
       vars, store, env, handler, gate, told
<1>21. CASE UNCHANGED vars
  BY <1>21 DEF IInv, Shapes, vars, store, env, handler, gate, told
<1>22. QED
  BY <1>1, <1>2, <1>3, <1>4, <1>5, <1>6, <1>7, <1>8, <1>9, <1>10, <1>11, <1>12, <1>13,
       <1>14, <1>15, <1>16, <1>17, <1>18, <1>19, <1>20, <1>21, ProvidedCases, CheckCases
       DEF Next

\* A step after which thread t has nothing in hand that is to be stored, or that
\* is.
LEMMA NothingStored ==
    ASSUME Kept, NEW t \in Thread,
           UNCHANGED <<recordFile, records, up, saved, audited, answered, overlapped>>,
           \A u \in Thread \ {t} :
               pc'[u] = pc[u] /\ call'[u] = call[u] /\ draft'[u] = draft[u],
           pc'[t] \notin {"save", "swap", "audit"},
           pc'[t] # "idle" => Busy(t) /\ call'[t].kind = call[t].kind
    PROVE  Kept'
<1>1. \A k, r, x : Held(k, r, x)' <=> Held(k, r, x)
  BY DEF Held
<1>2. \A u \in Thread : Alone(u)' => Alone(u) /\ call'[u].kind = call[u].kind
  BY DEF Alone, Busy
<1>3. QED
  BY <1>1, <1>2 DEF Kept

LEMMA KeptStep ==
    ASSUME RunAssumption, IInv, [Next]_vars PROVE Kept'
<1>1. ASSUME NEW t \in Thread, NEW k \in Kind, NEW r \in Run, NEW s \in Session,
                       NEW text \in ChatAccepts, Begin(t, k, r, s, text) PROVE Kept'
  BY <1>1 DEF IInv, TypeOK, Ids, Kept, Held, Alone, Busy, Begin, Go, Leave, vars, store,
       env, handler, gate, told
<1>2. ASSUME NEW t \in Thread, Turned(t) PROVE Kept'
  <2>1. /\ \A u \in Thread \ {t} :
               pc'[u] = pc[u] /\ call'[u] = call[u] /\ draft'[u] = draft[u]
        /\ UNCHANGED <<recordFile, records, up, saved, audited, answered, overlapped>>
    BY <1>2 DEF Turned, Leave, IInv, TypeOK, store, env, told
  <2>2. pc'[t] = "idle"
    BY <1>2 DEF Turned, Leave, IInv, TypeOK
  <2>3. QED
    BY <2>1, <2>2, NothingStored DEF IInv
<1>3. ASSUME NEW t \in Thread, NEW to \in {"token", "gate"}, NEW from \in {"session", "token"},
                       Passed(t, from, to) PROVE Kept'
  <2>1. /\ Busy(t) /\ UNCHANGED call
        /\ \A u \in Thread \ {t} : pc'[u] = pc[u] /\ draft'[u] = draft[u]
        /\ UNCHANGED <<recordFile, records, up, saved, audited, answered, overlapped>>
        /\ pc'[t] \notin {"save", "swap", "audit"}
    BY <1>3 DEF Passed, Go, Busy, IInv, TypeOK, store, env, told
  <2>2. QED
    BY <2>1, NothingStored DEF IInv
<1>4. ASSUME NEW t \in Thread, Gated(t) PROVE Kept'
  <2>1. /\ Busy(t) /\ UNCHANGED call
        /\ \A u \in Thread \ {t} : pc'[u] = pc[u] /\ draft'[u] = draft[u]
        /\ UNCHANGED <<recordFile, records, up, saved, audited, answered, overlapped>>
        /\ pc'[t] \notin {"save", "swap", "audit"}
    BY <1>4 DEF Gated, Passed, Go, Busy, IInv, TypeOK, store, env, told
  <2>2. QED
    BY <2>1, NothingStored DEF IInv
<1>5. ASSUME NEW t \in Thread, Admitted(t) PROVE Kept'
  <2>1. /\ Busy(t) /\ UNCHANGED call
        /\ \A u \in Thread \ {t} : pc'[u] = pc[u] /\ draft'[u] = draft[u]
        /\ UNCHANGED <<recordFile, records, up, saved, audited, answered, overlapped>>
        /\ pc'[t] \notin {"save", "swap", "audit"}
    BY <1>5 DEF Admitted, Passed, Go, Busy, IInv, TypeOK, store, env, told
  <2>2. QED
    BY <2>1, NothingStored DEF IInv
<1>6. ASSUME NEW t \in Thread, NEW state \in Outcomes, Planned(t, state) PROVE Kept'
  <2>1. Busy(t) /\ Fills(t, state) /\ state \in Outcomes
    BY <1>6 DEF Planned, Go, Busy, Fills, Outcomes
  <2>2. call'[t].kind = call[t].kind /\ \A u \in Thread \ {t} : call'[u] = call[u]
    BY <2>1, FillStep DEF IInv
  <2>3. /\ \A u \in Thread \ {t} : pc'[u] = pc[u] /\ draft'[u] = draft[u]
        /\ UNCHANGED <<recordFile, records, up, saved, audited, answered, overlapped>>
        /\ pc'[t] = "copy"
    BY <1>6 DEF Planned, Go, IInv, TypeOK, store, env, told
  <2>4. QED
    BY <2>1, <2>2, <2>3, NothingStored DEF IInv
<1>7. ASSUME NEW t \in Thread, NEW k \in Kind, NEW state \in {"completed", "rejected"},
                       Provided(t, k, state) PROVE Kept'
  <2>1. Busy(t) /\ Fills(t, state) /\ state \in Outcomes
    BY <1>7 DEF Provided, Go, Busy, Fills, Outcomes
  <2>2. call'[t].kind = call[t].kind /\ \A u \in Thread \ {t} : call'[u] = call[u]
    BY <2>1, FillStep DEF IInv
  <2>3. /\ \A u \in Thread \ {t} : pc'[u] = pc[u] /\ draft'[u] = draft[u]
        /\ UNCHANGED <<recordFile, records, up, saved, audited, answered, overlapped>>
        /\ pc'[t] = "copy"
    BY <1>7 DEF Provided, Go, IInv, TypeOK, store, env, told
  <2>4. QED
    BY <2>1, <2>2, <2>3, NothingStored DEF IInv
<1>8. ASSUME NEW t \in Thread, Copy(t) PROVE Kept'
  <2> DEFINE j == call[t]
             d == [records[j.kind] EXCEPT ![j.run] = j.record]
  <2>1. /\ pc[t] = "copy" /\ pc'[t] = "save" /\ draft'[t] = d
        /\ \A u \in Thread \ {t} : pc'[u] = pc[u] /\ draft'[u] = draft[u]
        /\ UNCHANGED <<call, recordFile, records, up, saved, audited, answered, overlapped>>
    BY <1>8 DEF Copy, Go, IInv, TypeOK, store, env, told
  <2>2. j \in Jobs /\ up
    BY <2>1 DEF Busy, IInv, TypeOK, Ids, Jobs
  <2>3. d[j.run] = j.record /\ \A r \in Run \ {j.run} : d[r] = records[j.kind][r]
    BY <2>2 DEF IInv, TypeOK, Jobs
  <2> HIDE DEF d
  <2>4. \A a \in answered : a.kind \notin overlapped /\ a.kind = j.kind => d[a.run] = a.record
    <3> SUFFICES ASSUME NEW a \in answered, a.kind \notin overlapped, a.kind = j.kind
                 PROVE  d[a.run] = a.record
      OBVIOUS
    <3>1. a.run \in Run /\ a.run # j.run
      BY <2>1 DEF Busy, IInv, TypeOK, Ids, Jobs
    <3>2. records[j.kind][a.run] = a.record
      BY <2>2 DEF Held, IInv, Kept
    <3>3. QED
      BY <2>3, <3>1, <3>2
  <2>5. \A u \in Thread : Alone(u)' <=> Alone(u)
    BY <2>1 DEF Alone, Busy
  <2>6. \A k, r, x : Held(k, r, x)' <=> Held(k, r, x)
    BY <2>1 DEF Held
  <2>7. QED
    BY <2>1, <2>3, <2>4, <2>5, <2>6 DEF IInv, Kept
<1>9. ASSUME NEW t \in Thread, Save(t) PROVE Kept'
  BY <1>9 DEF IInv, TypeOK, Ids, Kept, Held, Alone, Busy, Save, Go, Leave, vars, store, env,
       handler, gate, told
<1>10. ASSUME NEW t \in Thread, SaveFails(t) PROVE Kept'
  <2>1. /\ \A u \in Thread \ {t} :
               pc'[u] = pc[u] /\ call'[u] = call[u] /\ draft'[u] = draft[u]
        /\ UNCHANGED <<recordFile, records, up, saved, audited, answered, overlapped>>
    BY <1>10 DEF SaveFails, Leave, IInv, TypeOK, store, env, told
  <2>2. pc'[t] = "idle"
    BY <1>10 DEF SaveFails, Leave, IInv, TypeOK
  <2>3. QED
    BY <2>1, <2>2, NothingStored DEF IInv
<1>11. ASSUME NEW t \in Thread, SaveFailsLate(t) PROVE Kept'
  <2> DEFINE j == call[t]
  <2>1. /\ pc[t] = "save" /\ pc'[t] = "idle" /\ saved' = saved \cup {j.run}
        /\ \A u \in Thread \ {t} :
               pc'[u] = pc[u] /\ call'[u] = call[u] /\ draft'[u] = draft[u]
        /\ UNCHANGED <<records, up, audited, answered, overlapped>>
    BY <1>11 DEF SaveFailsLate, Leave, IInv, TypeOK, env
  <2>2. /\ recordFile'[j.kind] = draft[t]
        /\ \A k \in Kind \ {j.kind} : recordFile'[k] = recordFile[k]
    BY <1>11, <2>1 DEF SaveFailsLate, Busy, IInv, TypeOK, Jobs
  <2>3. \A u \in Thread : Alone(u)' <=> Alone(u) /\ u # t
    BY <2>1 DEF Alone, Busy
  <2>4. \A u \in Thread : Alone(u) /\ u # t /\ call[u].kind = j.kind => ~Alone(t)
    BY DEF IInv, Kept
  <2>5. \A a \in answered : a.kind \in Kind
    BY DEF IInv, TypeOK
  <2>6. \A u \in Thread : Busy(u) => call[u].kind \in Kind
    BY DEF Busy, IInv, TypeOK, Jobs
  <2>7. \A a \in answered : a.kind \notin overlapped => Held(a.kind, a.run, a.record)'
    BY <2>1, <2>2, <2>5 DEF Held, IInv, Kept
  <2>8. \A k \in Kind \ {j.kind} : \A r, x : Held(k, r, x)' <=> Held(k, r, x)
    BY <2>1, <2>2 DEF Held
  <2>9. \A u \in Thread : Alone(u)' => Busy(u) /\ call[u].kind \in Kind \ {j.kind}
    BY <2>1, <2>3, <2>4, <2>6 DEF Alone, Busy
  <2>10. \A u \in Thread : Alone(u)' /\ pc'[u] = "swap" =>
             recordFile'[call'[u].kind][call'[u].run] = call'[u].record
    BY <2>1, <2>2, <2>3, <2>9 DEF IInv, Kept
  <2>11. \A u \in Thread : Alone(u)' /\ pc'[u] = "audit" =>
             Held(call[u].kind, call[u].run, call[u].record)'
    BY <2>1, <2>3, <2>8, <2>9 DEF IInv, Kept
  <2>12. QED
    BY <2>1, <2>3, <2>7, <2>10, <2>11 DEF IInv, Kept
<1>12. ASSUME NEW t \in Thread, Swap(t) PROVE Kept'
  BY <1>12 DEF IInv, TypeOK, Ids, Kept, Held, Alone, Busy, Swap, Go, Leave, vars, store,
       env, handler, gate, told
<1>13. ASSUME NEW t \in Thread, Audit(t) PROVE Kept'
  <2> DEFINE b == Answer(t)
  <2>1. /\ pc[t] = "audit" /\ pc'[t] = "idle"
        /\ audited' = audited \cup {b.run} /\ answered' = answered \cup {b}
        /\ \A u \in Thread \ {t} :
               pc'[u] = pc[u] /\ call'[u] = call[u] /\ draft'[u] = draft[u]
        /\ UNCHANGED <<recordFile, records, up, saved, overlapped>>
    BY <1>13 DEF Audit, Answer, Leave, IInv, TypeOK, store, env
  <2>2. b.kind = call[t].kind /\ b.run = call[t].run /\ b.record = call[t].record
    BY DEF Answer
  <2> HIDE DEF b
  <2>3. \A k, r, x : Held(k, r, x)' <=> Held(k, r, x)
    BY <2>1 DEF Held
  <2>4. \A u \in Thread : Alone(u)' <=> Alone(u) /\ u # t
    BY <2>1 DEF Alone, Busy
  <2>5. b.run \in saved
    BY <2>1, <2>2 DEF IInv, Kept
  <2>6. ASSUME b.kind \notin overlapped
        PROVE  /\ Held(b.kind, b.run, b.record)
               /\ \A u \in Thread \ {t} : Busy(u) => call[u].kind # b.kind
    BY <2>1, <2>2, <2>6 DEF Alone, Busy, IInv, Kept
  <2>7. \A c \in answered' : c.kind \notin overlapped =>
            /\ Held(c.kind, c.run, c.record)
            /\ \A u \in Thread \ {t} : pc[u] \in {"save", "swap"} /\ call[u].kind = c.kind =>
                   draft[u][c.run] = c.record
    BY <2>1, <2>6 DEF Busy, IInv, Kept
  <2>8. QED
    BY <2>1, <2>3, <2>4, <2>5, <2>7 DEF IInv, Kept
<1>14. ASSUME NEW t \in Thread, AuditFails(t) PROVE Kept'
  <2>1. /\ \A u \in Thread \ {t} :
               pc'[u] = pc[u] /\ call'[u] = call[u] /\ draft'[u] = draft[u]
        /\ UNCHANGED <<recordFile, records, up, saved, audited, answered, overlapped>>
    BY <1>14 DEF AuditFails, Leave, IInv, TypeOK, store, env, told
  <2>2. pc'[t] = "idle"
    BY <1>14 DEF AuditFails, Leave, IInv, TypeOK
  <2>3. QED
    BY <2>1, <2>2, NothingStored DEF IInv
<1>15. ASSUME NEW s \in Session, Logout(s) PROVE Kept'
  BY <1>15 DEF IInv, TypeOK, Ids, Kept, Held, Alone, Busy, Logout, Go, Leave, vars, store,
       env, handler, gate, told
<1>16. ASSUME NEW s \in Session, NEW role \in {"VIEWER", "DEVELOPER"}, Login(s, role) PROVE Kept'
  BY <1>16 DEF IInv, TypeOK, Ids, Kept, Held, Alone, Busy, Login, Go, Leave, vars, store,
       env, handler, gate, told
<1>17. ASSUME NEW m \in Manifest \cup {None}, ReplaceManifest(m) PROVE Kept'
  BY <1>17 DEF IInv, TypeOK, Ids, Kept, Held, Alone, Busy, ReplaceManifest, Go, Leave, vars,
       store, env, handler, gate, told
<1>18. CASE Tick
  BY <1>18 DEF IInv, TypeOK, Ids, Kept, Held, Alone, Busy, Tick, Go, Leave, vars, store,
       env, handler, gate, told
<1>19. CASE Stop
  BY <1>19 DEF IInv, TypeOK, Ids, Kept, Held, Alone, Busy, Stop, Go, Leave, vars, store,
       env, handler, gate, told
<1>20. ASSUME NEW c \in Compositions, Start(c) PROVE Kept'
  BY <1>20 DEF IInv, TypeOK, Ids, Kept, Held, Alone, Busy, Start, Go, Leave, vars, store,
       env, handler, gate, told
<1>21. CASE UNCHANGED vars
  BY <1>21 DEF IInv, Kept, Held, Alone, Busy, vars, store, env, handler, gate, told
<1>22. QED
  BY <1>1, <1>2, <1>3, <1>4, <1>5, <1>6, <1>7, <1>8, <1>9, <1>10, <1>11, <1>12, <1>13,
       <1>14, <1>15, <1>16, <1>17, <1>18, <1>19, <1>20, <1>21, ProvidedCases, CheckCases
       DEF Next

-----------------------------------------------------------------------------
LEMMA IInvHolds == Spec => []IInv
<1>1. Init => IInv
  BY InitIInv, RunAssumption
<1>2. IInv /\ [Next]_vars => IInv'
  <2> SUFFICES ASSUME IInv, [Next]_vars PROVE IInv'
    OBVIOUS
  <2> QED
    BY RunAssumption, TypeOKStep, IdsStep, GatesStep, ShapesStep, KeptStep DEF IInv
<1>3. QED
  BY <1>1, <1>2, PTL DEF Spec

\* For any number of threads, runs and sessions, whatever the manifest file and
\* the composition of the server, every variable keeps its type.
THEOREM TypeCorrect == Spec => []TypeOK
<1>1. IInv => TypeOK
  BY DEF IInv
<1>2. QED
  BY <1>1, IInvHolds, PTL

\* A provider is only put to work for a request that arrived with an open session
\* whose role may ask for it, and a live one only for a request that the manifest
\* has covered.
THEOREM OnlyEntitledRuns == Spec => []RunsAreAuthorized
<1>1. IInv => RunsAreAuthorized
  BY DEF IInv, Gates, Busy, RunsAreAuthorized
<1>2. QED
  BY <1>1, IInvHolds, PTL

\* The only records that a service stores and cannot decode are those of builds
\* with a tab in their target and of messages with a carriage return.
THEOREM FilesAreSound == Spec => []OnlyControlsRefuse
<1>1. IInv => OnlyControlsRefuse
  <2> SUFFICES ASSUME IInv, NEW k \in Kind, NEW r \in Run, ~Decodes(k, recordFile[k][r])
               PROVE  \/ k = "builds" /\ recordFile[k][r].text = "tab"
                      \/ k = "chat" /\ recordFile[k][r].text = "return"
    BY DEF OnlyControlsRefuse, Decodable
  <2> DEFINE c == recordFile[k][r]
  <2>1. Sound(k, c)
    BY DEF IInv, Shapes
  <2> HIDE DEF c
  <2>2. ~Decodes(k, c)
    BY DEF c
  <2>3. CASE k = "tests"
    BY <2>1, <2>2, <2>3 DEF Sound, Decodes, Accepted, TestsAccept, TestsDecode
  <2>4. CASE k = "builds"
    BY <2>1, <2>2, <2>4 DEF Sound, Decodes, Accepted, BuildsAccept, BuildsDecode, c
  <2>5. CASE k = "codex"
    BY <2>1, <2>2, <2>5 DEF Sound, Decodes, Accepted, CodexAccepts, CodexDecodes
  <2>6. CASE k = "chat"
    BY <2>1, <2>2, <2>6 DEF Sound, Decodes, Accepted, ChatAccepts, ChatDecodes, c
  <2>7. QED
    BY <2>3, <2>4, <2>5, <2>6 DEF Kind
<1>2. QED
  BY <1>1, IInvHolds, PTL

\* As long as the requests of a service do not overlap, what it has answered with
\* is in its file, and in its memory whenever the server is up.
THEOREM AnswersLast == Spec => []AnsweredIsKept
<1>1. IInv => AnsweredIsKept
  BY DEF IInv, Kept, Held, AnsweredIsKept
<1>2. QED
  BY <1>1, IInvHolds, PTL

\* No run is in the audit log that was not stored before.
THEOREM AuditComesLast == Spec => []AuditedIsStored
<1>1. IInv => AuditedIsStored
  BY DEF IInv, Kept, AuditedIsStored
<1>2. QED
  BY <1>1, IInvHolds, PTL
=============================================================================
