-------------------------- MODULE ObservationsProofs --------------------------
(***************************************************************************)
(* That the two halves of a collection keep their order, that an incident  *)
(* keeps its severity and the time it was closed, and that nothing that    *)
(* was answered is lost while requests do not overlap, for any number of   *)
(* threads, snapshots and incidents. A copy of an incident lies in the     *)
(* dictionary, in the file, in the call that changes it and in the draft   *)
(* that is about to replace the dictionary; lost updates and restarts move *)
(* any of them over any other. The invariant says of every copy what the   *)
(* property says of the dictionary (Copies), of every handler what it has  *)
(* behind it (Ordered), and that a handler on its own only ever makes the  *)
(* dictionary and the log of snapshots grow (IncidentsGrow, HistoryMoves). *)
(***************************************************************************)
EXTENDS Observations, TLAPS

Steps    == {"idle", "alarm", "audit"} \cup MonitoringSteps \cup IncidentSteps
Routes   == {"collect", "snapshot", "create", "transition", "analyze", None}
Calls    == [route : Routes, snapshot : Snapshot \cup {None}, level : Level,
             incident : Incident \cup {None}, record : IncidentRecord,
             note : Note \cup {None}]
Drafts   == [history : Seq(Snapshot), incidents : [Incident -> IncidentRecord] \cup {<<>>}]
Openings == [incident : Incident, snapshot : Snapshot, level : Level]
Answers  == [route : Routes, snapshot : Snapshot \cup {None}, level : Level,
             incident : Incident \cup {None}, note : Note \cup {None}]

\* What a handler has in hand at each step.
InHand ==
    /\ draft \in [Thread -> Drafts]
    /\ opened \subseteq Openings
    /\ answered \subseteq Answers
    /\ \A t \in Thread :
           /\ pc[t] \in {"record", "history", "recorded", "alarm"} =>
                  call[t].snapshot \in Snapshot
           /\ pc[t] \in IncidentSteps => call[t].incident \in Incident
           /\ pc[t] \in {"history", "recorded"} => Len(draft[t].history) <= MaxHistory
           /\ pc[t] \in {"incidents", "changed"} =>
                  draft[t].incidents \in [Incident -> IncidentRecord]

Types == TypeOK /\ InHand

Stored(s) == \E k \in DOMAIN saved : saved[k] = s

\* The incident of an anomalous collection has been opened for its snapshot.
Alarmed(c) ==
    c.route = "collect" /\ c.level # "calm" =>
        \E o \in opened : o.incident = c.incident /\ o.snapshot = c.snapshot

\* What a handler, and whoever was answered, has behind it.
Ordered ==
    /\ \A o \in opened : Stored(o.snapshot)
    /\ \A a \in answered : Alarmed(a)
    /\ \A t \in Thread :
           /\ pc[t] \in {"recorded", "alarm"} => Stored(call[t].snapshot)
           /\ pc[t] = "collect" => call[t].level = "calm"
           /\ pc[t] \in IncidentSteps \cup {"audit"} => Alarmed(call[t])

\* A record r that may lie wherever incident i does.
Fits(i, r) ==
    /\ r.status = "RESOLVED" => r.closed
    /\ \A o \in opened : o.incident = i /\ r # NoIncident =>
           r.severity = SeverityOf(o.level)

\* What lies at incident i is the record of it, and of an incident that no one
\* has created there is none.
Fitting(i, r) == Fits(i, r) /\ (i \notin issued => r = NoIncident)

Copies ==
    /\ \A o \in opened : o.incident \in issued
    /\ \A t \in Thread : call[t].incident \in Incident => call[t].incident \in issued
    /\ \A i \in Incident :
           /\ Fitting(i, incidents[i]) /\ Fitting(i, incidentFile[i])
           /\ \A t \in Thread :
                  /\ call[t].incident = i => Fits(i, call[t].record)
                  /\ pc[t] \in {"incidents", "changed"} => Fitting(i, draft[t].incidents[i])

\* Nothing of record r is missing from record q, and q says that n was added.
Grown(r, q)   == r # NoIncident => q # NoIncident /\ r.actions \subseteq q.actions
HasNote(q, n) == q # NoIncident /\ (n # None => n \in q.actions)

\* While the requests for incidents do not overlap, the dictionary only grows.
IncidentsGrow ==
    /\ \A t \in Thread : pc[t] \in MonitoringSteps \cup {"alarm"} =>
           call[t].incident = None /\ call[t].note = None
    /\ "incidents" \notin overlapped =>
        /\ \A t, u \in Thread : pc[t] \in IncidentSteps /\ pc[u] \in IncidentSteps => t = u
        /\ \A i \in Incident : Grown(incidents[i], incidentFile[i])
        /\ \A a \in answered : a.incident \in Incident =>
               HasNote(incidents[a.incident], a.note)
        /\ \A t \in Thread :
               /\ pc[t] = "change" => Grown(incidents[call[t].incident], call[t].record)
               /\ pc[t] = "change" => HasNote(call[t].record, call[t].note)
               /\ pc[t] \in {"incidents", "changed"} =>
                      /\ \A i \in Incident : Grown(incidents[i], draft[t].incidents[i])
                      /\ HasNote(draft[t].incidents[call[t].incident], call[t].note)
               /\ pc[t] = "changed" => incidentFile = draft[t].incidents
               /\ pc[t] = "audit" /\ call[t].incident \in Incident =>
                      HasNote(incidents[call[t].incident], call[t].note)

\* Snapshot x is in history h, or so old in the log of all that was stored that
\* it may be gone.
In(h, x)          == \E k \in DOMAIN h : h[k] = x
Gone(log, x)      == \E k \in DOMAIN log : log[k] = x /\ Len(log) - k >= MaxHistory
KeptIn(h, log, x) == In(h, x) \/ Gone(log, x)

\* Every snapshot of history h is at least as old in the log.
Traced(h, log) ==
    \A j \in DOMAIN h : \E k \in DOMAIN log : log[k] = h[j] /\ Len(log) - k >= Len(h) - j

\* While the requests for snapshots do not overlap, a snapshot only leaves the
\* history for newer ones.
HistoryMoves ==
    /\ \A t \in Thread : pc[t] = "collect" => call[t].snapshot = None
    /\ "monitoring" \notin overlapped =>
        /\ \A t, u \in Thread :
               pc[t] \in MonitoringSteps /\ pc[u] \in MonitoringSteps => t = u
        /\ Traced(history, saved) /\ Traced(historyFile, saved)
        /\ \A a \in answered : a.snapshot \in Snapshot =>
               KeptIn(history, saved, a.snapshot) /\ KeptIn(historyFile, saved, a.snapshot)
        /\ \A t \in Thread :
               /\ pc[t] = "history" =>
                      draft[t].history = LatestOf(Append(history, call[t].snapshot))
               /\ pc[t] = "recorded" =>
                      /\ draft[t].history = historyFile
                      /\ KeptIn(historyFile, saved, call[t].snapshot)
               /\ pc[t] \in {"alarm", "audit"} \cup IncidentSteps =>
                      \/ call[t].snapshot \notin Snapshot
                      \/ /\ KeptIn(history, saved, call[t].snapshot)
                         /\ KeptIn(historyFile, saved, call[t].snapshot)

IInv == Types /\ Ordered /\ Copies /\ IncidentsGrow /\ HistoryMoves

-----------------------------------------------------------------------------
LEMMA NoneIsTyped ==
    /\ NoIncident \in IncidentRecord
    /\ NoDraft \in Drafts
    /\ NoCall \in Calls
<1>1. NoIncident \in IncidentRecord
  BY DEF NoIncident, IncidentRecord, Severity
<1>2. <<>> \in Seq(Snapshot)
  OBVIOUS
<1>3. QED
  BY <1>1, <1>2 DEF NoDraft, Drafts, NoCall, Calls, Routes, Level

LEMMA LatestIsTyped ==
    ASSUME ObservationAssumption, NEW h \in Seq(Snapshot)
    PROVE  LatestOf(h) \in Seq(Snapshot) /\ Len(LatestOf(h)) <= MaxHistory
<1>1. MaxHistory \in Nat \ {0} /\ Len(h) \in Nat
  BY DEF ObservationAssumption
<1>2. CASE Len(h) > MaxHistory
  <2> DEFINE m == Len(h) - MaxHistory + 1
  <2>1. m \in Nat /\ m >= 1 /\ m <= Len(h)
    BY <1>1, <1>2
  <2>2. LatestOf(h) = SubSeq(h, m, Len(h))
    BY <1>2 DEF LatestOf
  <2>3. SubSeq(h, m, Len(h)) \in Seq(Snapshot) /\ Len(SubSeq(h, m, Len(h))) = Len(h) - m + 1
    BY <2>1
  <2>4. QED
    BY <1>1, <2>1, <2>2, <2>3
<1>3. CASE ~(Len(h) > MaxHistory)
  BY <1>1, <1>3 DEF LatestOf
<1>4. QED
  BY <1>2, <1>3

LEMMA AppendIsTyped ==
    ASSUME NEW h \in Seq(Snapshot), NEW s \in Snapshot
    PROVE  /\ Append(h, s) \in Seq(Snapshot)
           /\ \A x : (\E k \in DOMAIN h : h[k] = x) =>
                  \E k \in DOMAIN Append(h, s) : Append(h, s)[k] = x
           /\ \E k \in DOMAIN Append(h, s) : Append(h, s)[k] = s
<1>1. /\ Append(h, s) \in Seq(Snapshot) /\ Len(Append(h, s)) = Len(h) + 1
      /\ \A k \in 1..Len(h) : Append(h, s)[k] = h[k]
      /\ Append(h, s)[Len(h) + 1] = s
      /\ DOMAIN h = 1..Len(h) /\ DOMAIN Append(h, s) = 1..(Len(h) + 1) /\ Len(h) \in Nat
  OBVIOUS
<1>2. Len(h) + 1 \in DOMAIN Append(h, s) /\ \A k \in DOMAIN h : k \in DOMAIN Append(h, s)
  BY <1>1
<1>3. QED
  BY <1>1, <1>2

\* Thread t gets a call, or a draft, of the right shape.
LEMMA CallStep ==
    ASSUME TypeOK, NEW t \in Thread, NEW c \in Calls, call' = [call EXCEPT ![t] = c]
    PROVE  /\ call' \in [Thread -> Calls]
           /\ call'[t] = c /\ \A u \in Thread \ {t} : call'[u] = call[u]
BY DEF TypeOK, Calls, Routes

LEMMA DraftStep ==
    ASSUME InHand, NEW t \in Thread, NEW d \in Drafts, draft' = [draft EXCEPT ![t] = d]
    PROVE  /\ draft' \in [Thread -> Drafts]
           /\ draft'[t] = d /\ \A u \in Thread \ {t} : draft'[u] = draft[u]
BY DEF InHand

\* Saving a history, with s as its newest, when the log has been extended by s.
LEMMA HistoryStep ==
    ASSUME ObservationAssumption, NEW h \in Seq(Snapshot), NEW log \in Seq(Snapshot),
           NEW s \in Snapshot, Traced(h, log)
    PROVE  /\ Traced(h, Append(log, s)) /\ Traced(LatestOf(Append(h, s)), Append(log, s))
           /\ In(LatestOf(Append(h, s)), s)
           /\ \A x : Gone(log, x) => Gone(Append(log, s), x)
           /\ \A x : KeptIn(h, log, x) => KeptIn(LatestOf(Append(h, s)), Append(log, s), x)
<1> DEFINE longer == Append(h, s)
           later  == Append(log, s)
           kept   == LatestOf(longer)
           drop   == IF Len(longer) > MaxHistory THEN Len(longer) - MaxHistory ELSE 0
<1>1. /\ longer \in Seq(Snapshot) /\ Len(longer) = Len(h) + 1 /\ Len(h) \in Nat
      /\ \A j \in 1..Len(h) : longer[j] = h[j]
      /\ longer[Len(h) + 1] = s
      /\ DOMAIN h = 1..Len(h) /\ DOMAIN longer = 1..(Len(h) + 1)
  OBVIOUS
<1>2. /\ later \in Seq(Snapshot) /\ Len(later) = Len(log) + 1 /\ Len(log) \in Nat
      /\ \A j \in 1..Len(log) : later[j] = log[j]
      /\ later[Len(log) + 1] = s
      /\ DOMAIN log = 1..Len(log) /\ DOMAIN later = 1..(Len(log) + 1)
  OBVIOUS
<1>3. MaxHistory \in Nat \ {0}
  BY DEF ObservationAssumption
<1>4. drop \in Nat /\ drop <= Len(h)
  BY <1>1, <1>3
<1>5. /\ Len(kept) = Len(longer) - drop
      /\ DOMAIN kept = 1..Len(kept)
      /\ \A j \in DOMAIN kept : kept[j] = longer[j + drop]
  <2>1. kept = SubSeq(longer, drop + 1, Len(longer))
    BY <1>1, <1>3 DEF LatestOf
  <2> HIDE DEF longer, kept, drop
  <2>2. QED
    BY <2>1, <1>1, <1>4
<1> HIDE DEF longer, later, kept
<1>6. Traced(h, later)
  BY <1>1, <1>2 DEF Traced
<1>7. Traced(longer, later)
  <2> SUFFICES ASSUME NEW j \in DOMAIN longer
               PROVE  \E k \in DOMAIN later :
                          later[k] = longer[j] /\ Len(later) - k >= Len(longer) - j
    BY DEF Traced
  <2>1. CASE j = Len(h) + 1
    BY <1>1, <1>2, <2>1
  <2>2. CASE j \in DOMAIN h
    <3>1. PICK k \in DOMAIN log : log[k] = h[j] /\ Len(log) - k >= Len(h) - j
      BY <2>2 DEF Traced
    <3>2. k \in DOMAIN later /\ later[k] = longer[j] /\ Len(later) - k >= Len(longer) - j
      BY <1>1, <1>2, <2>2, <3>1
    <3>3. QED
      BY <3>2
  <2>3. QED
    BY <1>1, <2>1, <2>2
<1>8. Traced(kept, later)
  <2> SUFFICES ASSUME NEW j \in DOMAIN kept
               PROVE  \E k \in DOMAIN later :
                          later[k] = kept[j] /\ Len(later) - k >= Len(kept) - j
    BY DEF Traced
  <2> HIDE DEF drop
  <2>1. j + drop \in DOMAIN longer /\ kept[j] = longer[j + drop]
        /\ Len(kept) - j = Len(longer) - (j + drop)
    BY <1>1, <1>4, <1>5
  <2>2. QED
    BY <1>7, <2>1 DEF Traced
<1>9. In(kept, s)
  <2> HIDE DEF drop
  <2>1. Len(kept) \in DOMAIN kept /\ Len(kept) + drop = Len(h) + 1
    BY <1>1, <1>4, <1>5
  <2>2. QED
    BY <1>1, <1>5, <2>1 DEF In
<1>10. \A x : Gone(log, x) => Gone(later, x)
  BY <1>2, <1>3 DEF Gone
<1>11. ASSUME NEW j \in DOMAIN h PROVE KeptIn(kept, later, h[j])
  <2>1. CASE j > drop
    <3> HIDE DEF drop
    <3>1. j - drop \in DOMAIN kept /\ kept[j - drop] = longer[j]
      BY <1>1, <1>4, <1>5, <2>1
    <3>2. QED
      BY <1>1, <3>1 DEF KeptIn, In
  <2>2. CASE j <= drop
    <3>1. Len(h) - j >= MaxHistory - 1
      BY <1>1, <1>3, <2>2
    <3>2. PICK k \in DOMAIN log : log[k] = h[j] /\ Len(log) - k >= Len(h) - j
      BY DEF Traced
    <3>3. k \in DOMAIN later /\ later[k] = h[j] /\ Len(later) - k >= MaxHistory
      BY <1>1, <1>2, <1>3, <3>1, <3>2
    <3>4. QED
      BY <3>3 DEF KeptIn, Gone
  <2>3. QED
    BY <1>1, <1>4, <2>1, <2>2
<1>12. \A x : KeptIn(h, log, x) => KeptIn(kept, later, x)
  BY <1>10, <1>11 DEF KeptIn, In
<1>13. QED
  BY <1>6, <1>8, <1>9, <1>10, <1>12 DEF longer, later, kept

LEMMA InitIInv == ObservationAssumption /\ Init => IInv
<1> SUFFICES ASSUME ObservationAssumption, Init PROVE IInv
  OBVIOUS
<1>1. Types
  <2>1. <<>> \in Seq(Snapshot) /\ Len(<<>>) = 0
    OBVIOUS
  <2>2. 0 <= MaxHistory
    BY DEF ObservationAssumption
  <2>3. QED
    BY <2>1, <2>2, NoneIsTyped DEF Types, TypeOK, InHand, Init, Calls, Routes,
       MonitoringSteps, IncidentSteps
<1>2. Ordered
  BY DEF Ordered, Init, IncidentSteps
<1>3. Copies
  BY DEF Copies, Fitting, Fits, Init, NoIncident, NoCall, ObservationAssumption
<1>4. IncidentsGrow
  BY DEF IncidentsGrow, Grown, Init, MonitoringSteps, IncidentSteps
<1>5. HistoryMoves
  BY DEF HistoryMoves, Traced, Init, MonitoringSteps, IncidentSteps
<1>6. QED
  BY <1>1, <1>2, <1>3, <1>4, <1>5 DEF IInv

LEMMA TypesStep ==
    ASSUME ObservationAssumption, Types, [Next]_vars PROVE Types'
<1>1. ASSUME NEW t \in Thread, StartCollect(t) PROVE Types'
  BY <1>1, NoneIsTyped DEF StartCollect, Arrive, Overlap, Types, TypeOK, InHand, Calls,
     Steps, Routes, MonitoringSteps, IncidentSteps, vars, stores, handler, ghosts
<1>2. ASSUME NEW t \in Thread, CollectNothing(t) PROVE Types'
  BY <1>2, NoneIsTyped DEF CollectNothing, Go, Types, TypeOK, InHand, Calls, Steps, Routes,
     MonitoringSteps, IncidentSteps, vars, stores, handler, ghosts
<1>3. ASSUME NEW t \in Thread, NEW s \in Snapshot, StartRecord(t, s) PROVE Types'
  BY <1>3, NoneIsTyped DEF StartRecord, Arrive, Overlap, Types, TypeOK, InHand, Calls,
     Steps, Routes, MonitoringSteps, IncidentSteps, vars, stores, handler, ghosts
<1>4. ASSUME NEW t \in Thread, NEW s \in Snapshot, NEW level \in Level,
           Collect(t, s, level)
     PROVE  Types'
  <2> DEFINE c == [call[t] EXCEPT !.snapshot = s, !.level = level]
  <2>1. call[t] \in Calls
    BY DEF Types, TypeOK, Calls, Routes
  <2>2. c \in Calls /\ c.snapshot = s
    BY <2>1 DEF Calls
  <2>3. call' = [call EXCEPT ![t] = c]
    BY <1>4 DEF Types, TypeOK, Collect
  <2> HIDE DEF c
  <2>4. /\ call' \in [Thread -> Calls]
        /\ call'[t] = c /\ \A u \in Thread \ {t} : call'[u] = call[u]
    BY <2>2, <2>3, CallStep DEF Types
  <2>5. /\ pc' \in [Thread -> Steps]
        /\ pc'[t] = "record" /\ \A u \in Thread \ {t} : pc'[u] = pc[u]
    BY <1>4 DEF Collect, Go, Types, TypeOK, Steps, MonitoringSteps
  <2>6. /\ issued' \subseteq Snapshot \cup Incident \cup Note
        /\ UNCHANGED <<stores, draft, saved, opened, answered, overlapped>>
    BY <1>4 DEF Collect, Types, TypeOK
  <2>7. TypeOK'
    BY <2>4, <2>5, <2>6 DEF Types, TypeOK, Calls, Routes, Steps, stores
  <2>8. InHand'
    BY <2>2, <2>4, <2>5, <2>6 DEF Types, InHand, IncidentSteps
  <2>9. QED
    BY <2>7, <2>8 DEF Types
<1>5. ASSUME NEW t \in Thread, Record(t) PROVE Types'
  <2> DEFINE h == LatestOf(Append(history, call[t].snapshot))
             d == [draft[t] EXCEPT !.history = h]
  <2>1. h \in Seq(Snapshot) /\ Len(h) <= MaxHistory
    <3>1. call[t].snapshot \in Snapshot /\ history \in Seq(Snapshot)
      BY <1>5 DEF Types, TypeOK, InHand, Record, Go
    <3>2. Append(history, call[t].snapshot) \in Seq(Snapshot)
      BY <3>1
    <3>3. QED
      BY <3>2, LatestIsTyped
  <2>2. draft' = [draft EXCEPT ![t] = d]
    BY <1>5 DEF Types, InHand, Record
  <2> HIDE DEF h
  <2>3. d \in Drafts /\ d.history = h
    BY <2>1 DEF Types, InHand, Drafts
  <2> HIDE DEF d
  <2>4. /\ draft' \in [Thread -> Drafts]
        /\ draft'[t] = d /\ \A u \in Thread \ {t} : draft'[u] = draft[u]
    BY <2>2, <2>3, DraftStep DEF Types
  <2>5. QED
    BY <1>5, <2>1, <2>3, <2>4 DEF Record, Go, Types, TypeOK, InHand, Calls, Steps, Routes,
       MonitoringSteps, IncidentSteps, vars, stores, handler, ghosts
<1>6. ASSUME NEW t \in Thread, SaveHistory(t) PROVE Types'
  <2>1. draft[t].history \in Seq(Snapshot) /\ Len(draft[t].history) <= MaxHistory
    BY <1>6 DEF SaveHistory, Go, Types, InHand, Drafts
  <2>2. call[t].snapshot \in Snapshot /\ saved \in Seq(Snapshot)
    BY <1>6 DEF SaveHistory, Go, Types, TypeOK, InHand
  <2>3. saved' \in Seq(Snapshot)
    BY <1>6, <2>2 DEF SaveHistory
  <2>4. QED
    BY <1>6, <2>1, <2>3 DEF SaveHistory, Go, Types, TypeOK, InHand, Calls, Steps, Routes,
       MonitoringSteps, IncidentSteps, vars, stores, handler, ghosts
<1>7. ASSUME NEW t \in Thread, SaveHistoryFailsLate(t) PROVE Types'
  <2>1. draft[t].history \in Seq(Snapshot) /\ Len(draft[t].history) <= MaxHistory
    BY <1>7 DEF SaveHistoryFailsLate, Types, InHand, Drafts
  <2>2. call[t].snapshot \in Snapshot /\ saved \in Seq(Snapshot)
    BY <1>7 DEF SaveHistoryFailsLate, Types, TypeOK, InHand
  <2>3. saved' \in Seq(Snapshot)
    BY <1>7, <2>2 DEF SaveHistoryFailsLate
  <2>4. QED
    BY <1>7, <2>1, <2>3, NoneIsTyped DEF SaveHistoryFailsLate, Leave, Types, TypeOK, InHand,
       Calls, Steps, Routes, MonitoringSteps, IncidentSteps, vars, stores, handler, ghosts
<1>8. ASSUME NEW t \in Thread, SwapHistory(t) PROVE Types'
  <2>1. draft[t].history \in Seq(Snapshot) /\ Len(draft[t].history) <= MaxHistory
    BY <1>8 DEF SwapHistory, Go, Types, InHand, Drafts
  <2>2. call[t].snapshot \in Snapshot
    BY <1>8 DEF SwapHistory, Go, Types, InHand
  <2>3. QED
    BY <1>8, <2>1, <2>2 DEF SwapHistory, Go, Types, TypeOK, InHand, Calls, Steps, Routes,
       MonitoringSteps, IncidentSteps, vars, stores, handler, ghosts
<1>9. ASSUME NEW t \in Thread, NEW i \in Incident, Alarm(t, i) PROVE Types'
  <2> DEFINE r == [NoIncident EXCEPT !.status = "OPEN",
                                   !.severity = SeverityOf(call[t].level)]
             c == [call[t] EXCEPT !.incident = i, !.record = r]
  <2>1. r \in IncidentRecord
    BY NoneIsTyped DEF NoIncident, IncidentRecord, Severity, SeverityOf
  <2>2. call' = [call EXCEPT ![t] = c]
    BY <1>9 DEF Types, TypeOK, Alarm, Go
  <2> HIDE DEF r
  <2>3. call[t] \in Calls
    BY DEF Types, TypeOK, Calls, Routes
  <2>4. c \in Calls /\ c.incident = i
    BY <2>1, <2>3 DEF Calls
  <2> HIDE DEF c
  <2>5. /\ call' \in [Thread -> Calls]
        /\ call'[t] = c /\ \A u \in Thread \ {t} : call'[u] = call[u]
    BY <2>2, <2>4, CallStep DEF Types
  <2>6. opened' \subseteq Openings
    <3>1. call[t].snapshot \in Snapshot /\ call[t].level \in Level
      BY <1>9, <2>3 DEF Alarm, Go, Types, InHand, Calls
    <3>2. QED
      BY <1>9, <3>1 DEF Alarm, Types, InHand, Openings
  <2>7. /\ pc' \in [Thread -> Steps]
        /\ pc'[t] = "change" /\ \A u \in Thread \ {t} : pc'[u] = pc[u]
    BY <1>9 DEF Alarm, Go, Types, TypeOK, Steps, IncidentSteps
  <2>8. /\ issued' \subseteq Snapshot \cup Incident \cup Note
        /\ overlapped' \subseteq {"monitoring", "incidents"}
        /\ UNCHANGED <<stores, draft, saved, answered>>
    BY <1>9 DEF Alarm, Overlap, Types, TypeOK
  <2>9. TypeOK'
    BY <2>5, <2>7, <2>8 DEF Types, TypeOK, Calls, Routes, Steps, stores
  <2>10. InHand'
    BY <2>4, <2>5, <2>6, <2>7, <2>8 DEF Types, InHand, IncidentSteps
  <2>11. QED
    BY <2>9, <2>10 DEF Types
<1>10. ASSUME NEW t \in Thread, NEW i \in Incident, StartIncident(t, i) PROVE Types'
  <2> DEFINE c == [NoCall EXCEPT !.route = "create", !.incident = i,
                                   !.record = [NoIncident EXCEPT !.status = "OPEN"]]
  <2>1. c \in Calls /\ c.incident = i
    BY <1>10, NoneIsTyped DEF StartIncident, Arrive, Overlap, Types, TypeOK, Calls, Routes,
       Level, NoCall, NoIncident, IncidentRecord, Severity, SeverityOf, Moved
  <2>2. call' = [call EXCEPT ![t] = c]
    BY <1>10 DEF Types, TypeOK, StartIncident, Arrive, Overlap
  <2> HIDE DEF c
  <2>3. /\ call' \in [Thread -> Calls]
        /\ call'[t] = c /\ \A u \in Thread \ {t} : call'[u] = call[u]
    BY <2>1, <2>2, CallStep DEF Types
  <2>4. QED
    BY <1>10, <2>1, <2>3 DEF StartIncident, Arrive, Overlap, Types, TypeOK, InHand, Calls,
       Steps, Routes, MonitoringSteps, IncidentSteps, vars, stores, handler, ghosts
<1>11. ASSUME NEW t \in Thread, NEW i \in Incident, NEW status \in {"OPEN", "RESOLVED"},
           NEW note \in Note,
           StartTransition(t, i, status, note)
     PROVE  Types'
  <2> DEFINE r == Moved(incidents[i], status, note)
             c == [NoCall EXCEPT !.route = "transition", !.incident = i, !.note = note,
                            !.record = r]
  <2>1. incidents[i] \in IncidentRecord
    BY DEF Types, TypeOK
  <2>2. r \in IncidentRecord
    BY <2>1 DEF Moved, IncidentRecord
  <2>3. call' = [call EXCEPT ![t] = c]
    BY <1>11 DEF StartTransition, Arrive
  <2> HIDE DEF r
  <2>4. c \in Calls /\ c.incident = i
    BY <2>2 DEF NoCall, Calls, Routes, Level
  <2> HIDE DEF c
  <2>5. /\ call' \in [Thread -> Calls]
        /\ call'[t] = c /\ \A u \in Thread \ {t} : call'[u] = call[u]
    BY <2>3, <2>4, CallStep DEF Types
  <2>6. QED
    BY <1>11, <2>4, <2>5 DEF StartTransition, Arrive, Overlap, Types, TypeOK, InHand, Calls,
       Steps, Routes, MonitoringSteps, IncidentSteps, vars, stores, handler, ghosts
<1>12. ASSUME NEW t \in Thread, NEW i \in Incident, StartAnalyze(t, i) PROVE Types'
  <2> DEFINE r == [incidents[i] EXCEPT !.status = "IDENTIFIED"]
             c == [NoCall EXCEPT !.route = "analyze", !.incident = i,
                            !.record = r]
  <2>1. incidents[i] \in IncidentRecord
    BY DEF Types, TypeOK
  <2>2. r \in IncidentRecord
    BY <2>1 DEF Moved, IncidentRecord
  <2>3. call' = [call EXCEPT ![t] = c]
    BY <1>12 DEF StartAnalyze, Arrive
  <2> HIDE DEF r
  <2>4. c \in Calls /\ c.incident = i
    BY <2>2 DEF NoCall, Calls, Routes, Level
  <2> HIDE DEF c
  <2>5. /\ call' \in [Thread -> Calls]
        /\ call'[t] = c /\ \A u \in Thread \ {t} : call'[u] = call[u]
    BY <2>3, <2>4, CallStep DEF Types
  <2>6. QED
    BY <1>12, <2>4, <2>5 DEF StartAnalyze, Arrive, Overlap, Types, TypeOK, InHand, Calls,
       Steps, Routes, MonitoringSteps, IncidentSteps, vars, stores, handler, ghosts
<1>13. ASSUME NEW t \in Thread, Change(t) PROVE Types'
  <2> DEFINE m == [incidents EXCEPT ![call[t].incident] = call[t].record]
             d == [draft[t] EXCEPT !.incidents = m]
  <2>1. m \in [Incident -> IncidentRecord]
    BY <1>13 DEF Change, Go, Types, TypeOK, InHand, IncidentSteps
  <2>2. draft' = [draft EXCEPT ![t] = d]
    BY <1>13 DEF Types, InHand, Change
  <2> HIDE DEF m
  <2>3. d \in Drafts /\ d.incidents = m
    BY <2>1 DEF Types, InHand, Drafts
  <2> HIDE DEF d
  <2>4. /\ draft' \in [Thread -> Drafts]
        /\ draft'[t] = d /\ \A u \in Thread \ {t} : draft'[u] = draft[u]
    BY <2>2, <2>3, DraftStep DEF Types
  <2>5. QED
    BY <1>13, <2>1, <2>3, <2>4 DEF Change, Go, Types, TypeOK, InHand, Calls, Steps, Routes,
       MonitoringSteps, IncidentSteps, vars, stores, handler, ghosts
<1>14. ASSUME NEW t \in Thread, SaveIncidents(t) PROVE Types'
  BY <1>14, NoneIsTyped DEF SaveIncidents, Go, Types, TypeOK, InHand, Calls, Steps, Routes,
     MonitoringSteps, IncidentSteps, vars, stores, handler, ghosts
<1>15. ASSUME NEW t \in Thread, SaveIncidentsFailsLate(t) PROVE Types'
  BY <1>15, NoneIsTyped DEF SaveIncidentsFailsLate, Leave, Types, TypeOK, InHand, Calls,
     Steps, Routes, MonitoringSteps, IncidentSteps, vars, stores, handler, ghosts
<1>16. ASSUME NEW t \in Thread, SwapIncidents(t) PROVE Types'
  BY <1>16, NoneIsTyped DEF SwapIncidents, Go, Types, TypeOK, InHand, Calls, Steps, Routes,
     MonitoringSteps, IncidentSteps, vars, stores, handler, ghosts
<1>17. ASSUME NEW t \in Thread, Refuse(t) PROVE Types'
  BY <1>17, NoneIsTyped DEF Refuse, Fail, Leave, Types, TypeOK, InHand, Calls, Steps,
     Routes, MonitoringSteps, IncidentSteps, vars, stores, handler, ghosts
<1>18. ASSUME NEW t \in Thread, Audit(t) PROVE Types'
  <2> DEFINE a == [route |-> call[t].route, snapshot |-> call[t].snapshot,
                    level |-> call[t].level, incident |-> call[t].incident,
                    note |-> call[t].note]
  <2>1. a \in Answers
    BY DEF Types, TypeOK, Answers, Routes
  <2>2. answered' = answered \cup {a}
    BY <1>18 DEF Audit
  <2> HIDE DEF a
  <2>3. QED
    BY <1>18, <2>1, <2>2, NoneIsTyped DEF Audit, Leave, Types, TypeOK, InHand, Calls, Steps,
       Routes, MonitoringSteps, IncidentSteps, vars, stores, handler, ghosts
<1>19. CASE Restart
  <2>1. LatestOf(historyFile) \in Seq(Snapshot) /\ Len(LatestOf(historyFile)) <= MaxHistory
    BY LatestIsTyped DEF Types, TypeOK
  <2>2. QED
    BY <1>19, <2>1, NoneIsTyped DEF Restart, Types, TypeOK, InHand, Calls, Steps, Routes,
       MonitoringSteps, IncidentSteps, vars, stores, handler, ghosts
<1>20. CASE UNCHANGED vars
  BY <1>20, NoneIsTyped DEF vars, Types, TypeOK, InHand, Calls, Steps, Routes,
     MonitoringSteps, IncidentSteps, stores, handler, ghosts
<1>21. QED
  BY <1>1, <1>2, <1>3, <1>4, <1>5, <1>6, <1>7, <1>8, <1>9, <1>10, <1>11, <1>12, <1>13,
     <1>14, <1>15, <1>16, <1>17, <1>18, <1>19, <1>20 DEF Next

LEMMA OrderedStep ==
    ASSUME ObservationAssumption, IInv, [Next]_vars PROVE Ordered'
<1>1. ASSUME NEW t \in Thread, StartCollect(t) PROVE Ordered'
  BY <1>1 DEF StartCollect, Arrive, Overlap, IInv, Types, TypeOK, InHand, Ordered, Alarmed,
     Stored, NoCall, ObservationAssumption, IncidentSteps, MonitoringSteps, vars, stores,
     handler, ghosts
<1>2. ASSUME NEW t \in Thread, CollectNothing(t) PROVE Ordered'
  BY <1>2 DEF CollectNothing, Go, IInv, Types, TypeOK, InHand, Ordered, Alarmed, Stored,
     NoCall, ObservationAssumption, IncidentSteps, MonitoringSteps, vars, stores, handler,
     ghosts
<1>3. ASSUME NEW t \in Thread, NEW s \in Snapshot, StartRecord(t, s) PROVE Ordered'
  BY <1>3 DEF StartRecord, Arrive, Overlap, IInv, Types, TypeOK, InHand, Ordered, Alarmed,
     Stored, NoCall, ObservationAssumption, IncidentSteps, MonitoringSteps, vars, stores,
     handler, ghosts
<1>4. ASSUME NEW t \in Thread, NEW s \in Snapshot, NEW level \in Level,
           Collect(t, s, level)
     PROVE  Ordered'
  BY <1>4 DEF Collect, Go, IInv, Types, TypeOK, InHand, Ordered, Alarmed, Stored, NoCall,
     ObservationAssumption, IncidentSteps, MonitoringSteps, vars, stores, handler, ghosts
<1>5. ASSUME NEW t \in Thread, Record(t) PROVE Ordered'
  BY <1>5 DEF Record, Go, IInv, Types, TypeOK, InHand, Ordered, Alarmed, Stored, NoCall,
     ObservationAssumption, IncidentSteps, MonitoringSteps, vars, stores, handler, ghosts
<1>6. ASSUME NEW t \in Thread, SaveHistory(t) PROVE Ordered'
  <2>1. call[t].snapshot \in Snapshot /\ saved \in Seq(Snapshot)
    BY <1>6 DEF SaveHistory, Go, IInv, Types, TypeOK, InHand
  <2>2. (\A x : Stored(x) => Stored(x)') /\ Stored(call[t].snapshot)'
    BY <1>6, <2>1, AppendIsTyped DEF SaveHistory, Stored
  <2>3. QED
    BY <1>6, <2>2 DEF SaveHistory, Go, IInv, Types, TypeOK, Ordered, Alarmed,
       MonitoringSteps, IncidentSteps
<1>7. ASSUME NEW t \in Thread, SaveHistoryFailsLate(t) PROVE Ordered'
  <2>1. call[t].snapshot \in Snapshot /\ saved \in Seq(Snapshot)
    BY <1>7 DEF SaveHistoryFailsLate, IInv, Types, TypeOK, InHand
  <2>2. \A x : Stored(x) => Stored(x)'
    BY <1>7, <2>1, AppendIsTyped DEF SaveHistoryFailsLate, Stored
  <2>3. QED
    BY <1>7, <2>2 DEF SaveHistoryFailsLate, Leave, IInv, Types, TypeOK, Ordered, Alarmed,
       MonitoringSteps, IncidentSteps
<1>8. ASSUME NEW t \in Thread, SwapHistory(t) PROVE Ordered'
  BY <1>8 DEF SwapHistory, Go, IInv, Types, TypeOK, InHand, Ordered, Alarmed, Stored,
     NoCall, ObservationAssumption, IncidentSteps, MonitoringSteps, vars, stores, handler,
     ghosts
<1>9. ASSUME NEW t \in Thread, NEW i \in Incident, Alarm(t, i) PROVE Ordered'
  <2> DEFINE o == [incident |-> i, snapshot |-> call[t].snapshot, level |-> call[t].level]
  <2>1. /\ opened' = opened \cup {o} /\ pc[t] = "alarm" /\ pc' = [pc EXCEPT ![t] = "change"]
        /\ call'[t].incident = i /\ call'[t].snapshot = call[t].snapshot
        /\ \A u \in Thread \ {t} : call'[u] = call[u]
        /\ answered' = answered /\ saved' = saved
    BY <1>9 DEF Alarm, Go, IInv, Types, TypeOK
  <2>2. o.incident = i /\ o.snapshot = call[t].snapshot
    OBVIOUS
  <2> HIDE DEF o
  <2>3. Alarmed(call[t])'
    BY <2>1, <2>2 DEF Alarmed
    <2>4. \A a \in answered : Alarmed(a)'
      BY <2>1 DEF Alarmed, IInv, Ordered
  <2>5. \A u \in Thread \ {t} : /\ pc'[u] = pc[u]
                                /\ Alarmed(call[u]) => Alarmed(call[u])'
    BY <2>1 DEF Alarmed, IInv, Types, TypeOK
  <2>6. QED
    BY <2>1, <2>2, <2>3, <2>4, <2>5 DEF IInv, Types, TypeOK, Ordered, Stored, IncidentSteps
<1>10. ASSUME NEW t \in Thread, NEW i \in Incident, StartIncident(t, i) PROVE Ordered'
  BY <1>10 DEF StartIncident, Arrive, Overlap, IInv, Types, TypeOK, InHand, Ordered,
     Alarmed, Stored, NoCall, ObservationAssumption, IncidentSteps, MonitoringSteps, vars,
     stores, handler, ghosts
<1>11. ASSUME NEW t \in Thread, NEW i \in Incident, NEW status \in {"OPEN", "RESOLVED"},
           NEW note \in Note,
           StartTransition(t, i, status, note)
     PROVE  Ordered'
  BY <1>11 DEF StartTransition, Arrive, Overlap, IInv, Types, TypeOK, InHand, Ordered,
     Alarmed, Stored, NoCall, ObservationAssumption, IncidentSteps, MonitoringSteps, vars,
     stores, handler, ghosts
<1>12. ASSUME NEW t \in Thread, NEW i \in Incident, StartAnalyze(t, i) PROVE Ordered'
  BY <1>12 DEF StartAnalyze, Arrive, Overlap, IInv, Types, TypeOK, InHand, Ordered, Alarmed,
     Stored, NoCall, ObservationAssumption, IncidentSteps, MonitoringSteps, vars, stores,
     handler, ghosts
<1>13. ASSUME NEW t \in Thread, Change(t) PROVE Ordered'
  BY <1>13 DEF Change, Go, IInv, Types, TypeOK, InHand, Ordered, Alarmed, Stored, NoCall,
     ObservationAssumption, IncidentSteps, MonitoringSteps, vars, stores, handler, ghosts
<1>14. ASSUME NEW t \in Thread, SaveIncidents(t) PROVE Ordered'
  BY <1>14 DEF SaveIncidents, Go, IInv, Types, TypeOK, InHand, Ordered, Alarmed, Stored,
     NoCall, ObservationAssumption, IncidentSteps, MonitoringSteps, vars, stores, handler,
     ghosts
<1>15. ASSUME NEW t \in Thread, SaveIncidentsFailsLate(t) PROVE Ordered'
  BY <1>15 DEF SaveIncidentsFailsLate, Leave, IInv, Types, TypeOK, InHand, Ordered, Alarmed,
     Stored, NoCall, ObservationAssumption, IncidentSteps, MonitoringSteps, vars, stores,
     handler, ghosts
<1>16. ASSUME NEW t \in Thread, SwapIncidents(t) PROVE Ordered'
  BY <1>16 DEF SwapIncidents, Go, IInv, Types, TypeOK, InHand, Ordered, Alarmed, Stored,
     NoCall, ObservationAssumption, IncidentSteps, MonitoringSteps, vars, stores, handler,
     ghosts
<1>17. ASSUME NEW t \in Thread, Refuse(t) PROVE Ordered'
  BY <1>17 DEF Refuse, Fail, Leave, IInv, Types, TypeOK, InHand, Ordered, Alarmed, Stored,
     NoCall, ObservationAssumption, IncidentSteps, MonitoringSteps, vars, stores, handler,
     ghosts
<1>18. ASSUME NEW t \in Thread, Audit(t) PROVE Ordered'
  BY <1>18 DEF Audit, Leave, IInv, Types, TypeOK, InHand, Ordered, Alarmed, Stored, NoCall,
     ObservationAssumption, IncidentSteps, MonitoringSteps, vars, stores, handler, ghosts
<1>19. CASE Restart
  BY <1>19 DEF Restart, IInv, Types, TypeOK, InHand, Ordered, Alarmed, Stored, NoCall,
     ObservationAssumption, IncidentSteps, MonitoringSteps, vars, stores, handler, ghosts
<1>20. CASE UNCHANGED vars
  BY <1>20 DEF vars, IInv, Types, TypeOK, InHand, Ordered, Alarmed, Stored, NoCall,
     ObservationAssumption, IncidentSteps, MonitoringSteps, stores, handler, ghosts
<1>21. QED
  BY <1>1, <1>2, <1>3, <1>4, <1>5, <1>6, <1>7, <1>8, <1>9, <1>10, <1>11, <1>12, <1>13,
     <1>14, <1>15, <1>16, <1>17, <1>18, <1>19, <1>20 DEF Next

LEMMA CopiesStep ==
    ASSUME ObservationAssumption, IInv, [Next]_vars PROVE Copies'
<1>1. ASSUME NEW t \in Thread, StartCollect(t) PROVE Copies'
  BY <1>1 DEF StartCollect, Arrive, Overlap, IInv, Types, TypeOK, InHand, Copies, Fitting,
     Fits, NoCall, NoIncident, ObservationAssumption, IncidentSteps, MonitoringSteps, vars,
     stores, handler, ghosts
<1>2. ASSUME NEW t \in Thread, CollectNothing(t) PROVE Copies'
  BY <1>2 DEF CollectNothing, Go, IInv, Types, TypeOK, InHand, Copies, Fitting, Fits,
     NoCall, NoIncident, ObservationAssumption, IncidentSteps, MonitoringSteps, vars,
     stores, handler, ghosts
<1>3. ASSUME NEW t \in Thread, NEW s \in Snapshot, StartRecord(t, s) PROVE Copies'
  BY <1>3 DEF StartRecord, Arrive, Overlap, IInv, Types, TypeOK, InHand, Copies, Fitting,
     Fits, NoCall, NoIncident, ObservationAssumption, IncidentSteps, MonitoringSteps, vars,
     stores, handler, ghosts
<1>4. ASSUME NEW t \in Thread, NEW s \in Snapshot, NEW level \in Level,
           Collect(t, s, level)
     PROVE  Copies'
  BY <1>4 DEF Collect, Go, IInv, Types, TypeOK, InHand, Copies, Fitting, Fits, NoCall,
     NoIncident, ObservationAssumption, IncidentSteps, MonitoringSteps, vars, stores,
     handler, ghosts
<1>5. ASSUME NEW t \in Thread, Record(t) PROVE Copies'
  BY <1>5 DEF Record, Go, IInv, Types, TypeOK, InHand, Copies, Fitting, Fits, NoCall,
     NoIncident, ObservationAssumption, IncidentSteps, MonitoringSteps, vars, stores,
     handler, ghosts
<1>6. ASSUME NEW t \in Thread, SaveHistory(t) PROVE Copies'
  BY <1>6 DEF SaveHistory, Go, IInv, Types, TypeOK, InHand, Copies, Fitting, Fits, NoCall,
     NoIncident, ObservationAssumption, IncidentSteps, MonitoringSteps, vars, stores,
     handler, ghosts
<1>7. ASSUME NEW t \in Thread, SaveHistoryFailsLate(t) PROVE Copies'
  BY <1>7 DEF SaveHistoryFailsLate, Leave, IInv, Types, TypeOK, InHand, Copies, Fitting,
     Fits, NoCall, NoIncident, ObservationAssumption, IncidentSteps, MonitoringSteps, vars,
     stores, handler, ghosts
<1>8. ASSUME NEW t \in Thread, SwapHistory(t) PROVE Copies'
  BY <1>8 DEF SwapHistory, Go, IInv, Types, TypeOK, InHand, Copies, Fitting, Fits, NoCall,
     NoIncident, ObservationAssumption, IncidentSteps, MonitoringSteps, vars, stores,
     handler, ghosts
<1>9. ASSUME NEW t \in Thread, NEW i \in Incident, Alarm(t, i) PROVE Copies'
  <2> DEFINE r == [NoIncident EXCEPT !.status = "OPEN",
                                   !.severity = SeverityOf(call[t].level)]
             o == [incident |-> i, snapshot |-> call[t].snapshot, level |-> call[t].level]
  <2>1. /\ i \notin issued /\ issued' = issued \cup {i}
        /\ opened' = opened \cup {o} /\ o.incident = i /\ o.level = call[t].level
        /\ \A u \in Thread \ {t} : pc'[u] = pc[u] /\ call'[u] = call[u]
        /\ pc'[t] = "change" /\ call'[t].incident = i /\ call'[t].record = r
        /\ UNCHANGED <<incidents, incidentFile, draft>>
    BY <1>9 DEF Alarm, Go, IInv, Types, TypeOK, stores
  <2>2. r.status = "OPEN" /\ r.severity = SeverityOf(o.level)
    BY DEF NoIncident
  <2> HIDE DEF r, o
  <2>3. \A p \in opened : p.incident # i
    BY <2>1 DEF IInv, Copies
  <2>4. \A u \in Thread : call[u].incident # i
    BY <2>1 DEF IInv, Copies
  <2>5. Fits(i, call[t].record)'
    BY <2>1, <2>2, <2>3 DEF Fits
  <2>6. \A j \in Incident, q \in IncidentRecord : Fitting(j, q) => Fitting(j, q)'
    BY <2>1 DEF Fitting, Fits
  <2>7. \A j \in Incident, q \in IncidentRecord :
            j # i /\ Fits(j, q) => Fits(j, q)'
    BY <2>1 DEF Fits
  <2>8. \A u \in Thread : call[u].record \in IncidentRecord
    BY DEF IInv, Types, TypeOK
  <2>9. \A u \in Thread : pc[u] \in {"incidents", "changed"} =>
            \A j \in Incident : draft[u].incidents[j] \in IncidentRecord
    BY DEF IInv, Types, InHand
  <2>10. \A j \in Incident :
             incidents[j] \in IncidentRecord /\ incidentFile[j] \in IncidentRecord
    BY DEF IInv, Types, TypeOK
  <2>11. /\ \A p \in opened' : p.incident \in issued'
         /\ \A u \in Thread : call'[u].incident \in Incident => call'[u].incident \in issued'
    BY <2>1 DEF IInv, Copies
  <2>12. ASSUME NEW j \in Incident
         PROVE  Fitting(j, incidents[j])' /\ Fitting(j, incidentFile[j])'
    BY <2>1, <2>6, <2>10 DEF IInv, Copies
  <2>13. ASSUME NEW j \in Incident, NEW u \in Thread, call'[u].incident = j
         PROVE  Fits(j, call[u].record)'
    <3>1. CASE u = t
      BY <2>1, <2>5, <2>13, <3>1
    <3>2. CASE u # t
      <4>1. /\ call'[u] = call[u] /\ call[u].incident = j /\ j # i
            /\ call[u].record \in IncidentRecord
        BY <2>1, <2>4, <2>8, <2>13, <3>2
      <4>2. Fits(j, call[u].record)
        BY <4>1 DEF IInv, Copies
      <4>3. QED
        BY <2>7, <4>1, <4>2
    <3>3. QED
      BY <3>1, <3>2
  <2>14. ASSUME NEW j \in Incident, NEW u \in Thread, pc'[u] \in {"incidents", "changed"}
         PROVE  Fitting(j, draft[u].incidents[j])'
    BY <2>1, <2>6, <2>9, <2>14 DEF IInv, Copies
  <2>15. QED
    BY <2>11, <2>12, <2>13, <2>14 DEF Copies
<1>10. ASSUME NEW t \in Thread, NEW i \in Incident, StartIncident(t, i) PROVE Copies'
  BY <1>10 DEF StartIncident, Arrive, Overlap, IInv, Types, TypeOK, InHand, Copies, Fitting,
     Fits, NoCall, NoIncident, ObservationAssumption, IncidentSteps, MonitoringSteps, vars,
     stores, handler, ghosts
<1>11. ASSUME NEW t \in Thread, NEW i \in Incident, NEW status \in {"OPEN", "RESOLVED"},
           NEW note \in Note,
           StartTransition(t, i, status, note)
     PROVE  Copies'
  <2> DEFINE r == Moved(incidents[i], status, note)
             c == [NoCall EXCEPT !.route = "transition", !.incident = i, !.note = note,
                                 !.record = r]
  <2>1. incidents[i] \in IncidentRecord /\ incidents[i] # NoIncident
    BY <1>11 DEF IInv, Types, TypeOK, StartTransition
  <2>2. /\ r.status = "RESOLVED" => r.closed
        /\ r.severity = incidents[i].severity
    BY <2>1 DEF Moved, IncidentRecord, IInv, Copies, Fitting, Fits
  <2>3. Fits(i, r) /\ i \in issued
    BY <2>1, <2>2 DEF IInv, Copies, Fitting, Fits
  <2>4. call' = [call EXCEPT ![t] = c]
    BY <1>11 DEF StartTransition, Arrive
  <2> HIDE DEF r
  <2>5. c.incident = i /\ c.record = r
    BY DEF NoCall
  <2> HIDE DEF c
  <2>6. call'[t] = c /\ \A u \in Thread \ {t} : call'[u] = call[u]
    BY <2>4 DEF IInv, Types, TypeOK
  <2>7. /\ issued \subseteq issued' /\ issued' \subseteq issued \cup {note}
        /\ opened' = opened /\ incidents' = incidents /\ incidentFile' = incidentFile
        /\ draft' = draft
        /\ \A u \in Thread : pc'[u] \in {"incidents", "changed"} => pc[u] = pc'[u]
    BY <1>11 DEF StartTransition, Arrive, IInv, Types, TypeOK, stores
  <2>8. QED
    BY <2>3, <2>5, <2>6, <2>7 DEF IInv, Copies, Fitting, Fits
<1>12. ASSUME NEW t \in Thread, NEW i \in Incident, StartAnalyze(t, i) PROVE Copies'
  BY <1>12 DEF StartAnalyze, Arrive, Overlap, IInv, Types, TypeOK, InHand, Copies, Fitting,
     Fits, NoCall, NoIncident, ObservationAssumption, IncidentSteps, MonitoringSteps, vars,
     stores, handler, ghosts
<1>13. ASSUME NEW t \in Thread, Change(t) PROVE Copies'
  <2> DEFINE m == [incidents EXCEPT ![call[t].incident] = call[t].record]
             d == [draft[t] EXCEPT !.incidents = m]
  <2>1. call[t].incident \in Incident /\ incidents \in [Incident -> IncidentRecord]
    BY <1>13 DEF Change, Go, IInv, Types, TypeOK, InHand, IncidentSteps
  <2>2. \A j \in Incident : Fitting(j, m[j])
    BY <2>1 DEF IInv, Copies, Fitting
  <2>3. draft' = [draft EXCEPT ![t] = d]
    BY <1>13 DEF IInv, Types, InHand, Change
  <2> HIDE DEF m
  <2>4. draft'[t].incidents = m /\ \A u \in Thread \ {t} : draft'[u] = draft[u]
    BY <2>3 DEF IInv, Types, InHand, Drafts
  <2>5. QED
    BY <1>13, <2>2, <2>4 DEF Change, Go, IInv, Types, TypeOK, Copies, Fitting, Fits, stores,
       ghosts
<1>14. ASSUME NEW t \in Thread, SaveIncidents(t) PROVE Copies'
  BY <1>14 DEF SaveIncidents, Go, IInv, Types, TypeOK, InHand, Copies, Fitting, Fits,
     NoCall, NoIncident, ObservationAssumption, IncidentSteps, MonitoringSteps, vars,
     stores, handler, ghosts
<1>15. ASSUME NEW t \in Thread, SaveIncidentsFailsLate(t) PROVE Copies'
  BY <1>15 DEF SaveIncidentsFailsLate, Leave, IInv, Types, TypeOK, InHand, Copies, Fitting,
     Fits, NoCall, NoIncident, ObservationAssumption, IncidentSteps, MonitoringSteps, vars,
     stores, handler, ghosts
<1>16. ASSUME NEW t \in Thread, SwapIncidents(t) PROVE Copies'
  BY <1>16 DEF SwapIncidents, Go, IInv, Types, TypeOK, InHand, Copies, Fitting, Fits,
     NoCall, NoIncident, ObservationAssumption, IncidentSteps, MonitoringSteps, vars,
     stores, handler, ghosts
<1>17. ASSUME NEW t \in Thread, Refuse(t) PROVE Copies'
  BY <1>17 DEF Refuse, Fail, Leave, IInv, Types, TypeOK, InHand, Copies, Fitting, Fits,
     NoCall, NoIncident, ObservationAssumption, IncidentSteps, MonitoringSteps, vars,
     stores, handler, ghosts
<1>18. ASSUME NEW t \in Thread, Audit(t) PROVE Copies'
  BY <1>18 DEF Audit, Leave, IInv, Types, TypeOK, InHand, Copies, Fitting, Fits, NoCall,
     NoIncident, ObservationAssumption, IncidentSteps, MonitoringSteps, vars, stores,
     handler, ghosts
<1>19. CASE Restart
  BY <1>19 DEF Restart, IInv, Types, TypeOK, InHand, Copies, Fitting, Fits, NoCall,
     NoIncident, ObservationAssumption, IncidentSteps, MonitoringSteps, vars, stores,
     handler, ghosts
<1>20. CASE UNCHANGED vars
  BY <1>20 DEF vars, IInv, Types, TypeOK, InHand, Copies, Fitting, Fits, NoCall, NoIncident,
     ObservationAssumption, IncidentSteps, MonitoringSteps, stores, handler, ghosts
<1>21. QED
  BY <1>1, <1>2, <1>3, <1>4, <1>5, <1>6, <1>7, <1>8, <1>9, <1>10, <1>11, <1>12, <1>13,
     <1>14, <1>15, <1>16, <1>17, <1>18, <1>19, <1>20 DEF Next

\* A step that touches neither the incidents nor who was answered.
LEMMA QuietStep ==
    ASSUME ObservationAssumption, IncidentsGrow, NEW t \in Thread,
           UNCHANGED <<incidents, incidentFile, answered, overlapped>>,
           \A u \in Thread \ {t} :
               pc'[u] = pc[u] /\ call'[u] = call[u] /\ draft'[u] = draft[u],
           pc'[t] \notin IncidentSteps,
           pc'[t] \in MonitoringSteps \cup {"alarm", "audit"} =>
               call'[t].incident = None /\ call'[t].note = None
    PROVE  IncidentsGrow'
<1>1. None \notin Incident
  BY DEF ObservationAssumption
<1>2. QED
  BY <1>1 DEF IncidentsGrow, MonitoringSteps, IncidentSteps

LEMMA IncidentsStep ==
    ASSUME ObservationAssumption, IInv, [Next]_vars PROVE IncidentsGrow'
<1>1. ASSUME NEW t \in Thread, StartCollect(t) PROVE IncidentsGrow'
  BY <1>1 DEF StartCollect, Arrive, Overlap, IInv, Types, TypeOK, InHand, IncidentsGrow,
     Grown, HasNote, NoCall, ObservationAssumption, IncidentSteps, MonitoringSteps, vars,
     stores, handler, ghosts
<1>2. ASSUME NEW t \in Thread, CollectNothing(t) PROVE IncidentsGrow'
  BY <1>2 DEF CollectNothing, Go, IInv, Types, TypeOK, InHand, IncidentsGrow, Grown,
     HasNote, NoCall, ObservationAssumption, IncidentSteps, MonitoringSteps, vars, stores,
     handler, ghosts
<1>3. ASSUME NEW t \in Thread, NEW s \in Snapshot, StartRecord(t, s) PROVE IncidentsGrow'
  BY <1>3 DEF StartRecord, Arrive, Overlap, IInv, Types, TypeOK, InHand, IncidentsGrow,
     Grown, HasNote, NoCall, ObservationAssumption, IncidentSteps, MonitoringSteps, vars,
     stores, handler, ghosts
<1>4. ASSUME NEW t \in Thread, NEW s \in Snapshot, NEW level \in Level,
           Collect(t, s, level)
     PROVE  IncidentsGrow'
  <2>1. /\ UNCHANGED <<incidents, incidentFile, answered, overlapped>>
        /\ \A u \in Thread \ {t} :
               pc'[u] = pc[u] /\ call'[u] = call[u] /\ draft'[u] = draft[u]
    BY <1>4 DEF Collect, Go, IInv, Types, TypeOK, InHand, stores, ghosts
  <2>2. /\ pc'[t] \notin IncidentSteps
        /\ pc'[t] \in MonitoringSteps \cup {"alarm", "audit"} =>
               call'[t].incident = None /\ call'[t].note = None
    BY <1>4 DEF Collect, Go, IInv, Types, TypeOK, InHand, IncidentsGrow, NoCall,
       MonitoringSteps, IncidentSteps, ghosts
  <2>3. QED
    BY <2>1, <2>2, QuietStep DEF IInv
<1>5. ASSUME NEW t \in Thread, Record(t) PROVE IncidentsGrow'
  <2>1. /\ UNCHANGED <<incidents, incidentFile, answered, overlapped>>
        /\ \A u \in Thread \ {t} :
               pc'[u] = pc[u] /\ call'[u] = call[u] /\ draft'[u] = draft[u]
    BY <1>5 DEF Record, Go, IInv, Types, TypeOK, InHand, stores, ghosts
  <2>2. /\ pc'[t] \notin IncidentSteps
        /\ pc'[t] \in MonitoringSteps \cup {"alarm", "audit"} =>
               call'[t].incident = None /\ call'[t].note = None
    BY <1>5 DEF Record, Go, IInv, Types, TypeOK, InHand, IncidentsGrow, NoCall,
       MonitoringSteps, IncidentSteps, ghosts
  <2>3. QED
    BY <2>1, <2>2, QuietStep DEF IInv
<1>6. ASSUME NEW t \in Thread, SaveHistory(t) PROVE IncidentsGrow'
  <2>1. /\ UNCHANGED <<incidents, incidentFile, answered, overlapped>>
        /\ \A u \in Thread \ {t} :
               pc'[u] = pc[u] /\ call'[u] = call[u] /\ draft'[u] = draft[u]
    BY <1>6 DEF SaveHistory, Go, IInv, Types, TypeOK, InHand, stores, ghosts
  <2>2. /\ pc'[t] \notin IncidentSteps
        /\ pc'[t] \in MonitoringSteps \cup {"alarm", "audit"} =>
               call'[t].incident = None /\ call'[t].note = None
    BY <1>6 DEF SaveHistory, Go, IInv, Types, TypeOK, InHand, IncidentsGrow, NoCall,
       MonitoringSteps, IncidentSteps, ghosts
  <2>3. QED
    BY <2>1, <2>2, QuietStep DEF IInv
<1>7. ASSUME NEW t \in Thread, SaveHistoryFailsLate(t) PROVE IncidentsGrow'
  <2>1. /\ UNCHANGED <<incidents, incidentFile, answered, overlapped>>
        /\ \A u \in Thread \ {t} :
               pc'[u] = pc[u] /\ call'[u] = call[u] /\ draft'[u] = draft[u]
    BY <1>7 DEF SaveHistoryFailsLate, Leave, IInv, Types, TypeOK, InHand, stores, ghosts
  <2>2. /\ pc'[t] \notin IncidentSteps
        /\ pc'[t] \in MonitoringSteps \cup {"alarm", "audit"} =>
               call'[t].incident = None /\ call'[t].note = None
    BY <1>7 DEF SaveHistoryFailsLate, Leave, IInv, Types, TypeOK, InHand, IncidentsGrow,
       NoCall, MonitoringSteps, IncidentSteps, ghosts
  <2>3. QED
    BY <2>1, <2>2, QuietStep DEF IInv
<1>8. ASSUME NEW t \in Thread, SwapHistory(t) PROVE IncidentsGrow'
  <2>1. /\ UNCHANGED <<incidents, incidentFile, answered, overlapped>>
        /\ \A u \in Thread \ {t} :
               pc'[u] = pc[u] /\ call'[u] = call[u] /\ draft'[u] = draft[u]
    BY <1>8 DEF SwapHistory, Go, IInv, Types, TypeOK, InHand, stores, ghosts
  <2>2. /\ pc'[t] \notin IncidentSteps
        /\ pc'[t] \in MonitoringSteps \cup {"alarm", "audit"} =>
               call'[t].incident = None /\ call'[t].note = None
    BY <1>8 DEF SwapHistory, Go, IInv, Types, TypeOK, InHand, IncidentsGrow, NoCall,
       MonitoringSteps, IncidentSteps, ghosts
  <2>3. QED
    BY <2>1, <2>2, QuietStep DEF IInv
<1>9. ASSUME NEW t \in Thread, NEW i \in Incident, Alarm(t, i) PROVE IncidentsGrow'
  <2>1. /\ incidents[i] \in IncidentRecord /\ NoIncident \in IncidentRecord
        /\ incidents[i] = NoIncident
    BY <1>9, NoneIsTyped DEF IInv, Types, TypeOK, Copies, Fitting, Alarm
  <2> DEFINE r == [NoIncident EXCEPT !.status = "OPEN",
                                   !.severity = SeverityOf(call[t].level)]
  <2>2. Grown(incidents[i], r) /\ HasNote(r, None)
    BY <2>1 DEF Grown, HasNote, Moved, NoIncident, IncidentRecord
  <2> HIDE DEF r
  <2>3. /\ call'[t].incident = i /\ call'[t].record = r /\ call'[t].note = None
        /\ \A u \in Thread \ {t} : call'[u] = call[u]
    BY <1>9 DEF r, Alarm, Go, NoCall, IInv, Types, TypeOK, IncidentsGrow
  <2>4. /\ \A u \in Thread \ {t} : pc'[u] = pc[u]
        /\ pc'[t] = "change"
        /\ UNCHANGED <<incidents, incidentFile, draft, answered>>
        /\ "incidents" \notin overlapped' =>
               /\ "incidents" \notin overlapped
               /\ \A u \in Thread \ {t} : pc[u] \notin IncidentSteps
    BY <1>9 DEF Alarm, Go, Overlap, IInv, Types, TypeOK, stores
  <2>5. QED
    BY <2>2, <2>3, <2>4 DEF IInv, IncidentsGrow, MonitoringSteps, IncidentSteps
<1>10. ASSUME NEW t \in Thread, NEW i \in Incident, StartIncident(t, i) PROVE IncidentsGrow'
  <2>1. /\ incidents[i] \in IncidentRecord /\ NoIncident \in IncidentRecord
        /\ incidents[i] = NoIncident
    BY <1>10, NoneIsTyped DEF IInv, Types, TypeOK, Copies, Fitting, StartIncident, Arrive
  <2> DEFINE r == [NoIncident EXCEPT !.status = "OPEN"]
  <2>2. Grown(incidents[i], r) /\ HasNote(r, None)
    BY <2>1 DEF Grown, HasNote, Moved, NoIncident, IncidentRecord
  <2> HIDE DEF r
  <2>3. /\ call'[t].incident = i /\ call'[t].record = r /\ call'[t].note = None
        /\ \A u \in Thread \ {t} : call'[u] = call[u]
    BY <1>10 DEF r, StartIncident, Arrive, Go, NoCall, IInv, Types, TypeOK, IncidentsGrow
  <2>4. /\ \A u \in Thread \ {t} : pc'[u] = pc[u]
        /\ pc'[t] = "change"
        /\ UNCHANGED <<incidents, incidentFile, draft, answered>>
        /\ "incidents" \notin overlapped' =>
               /\ "incidents" \notin overlapped
               /\ \A u \in Thread \ {t} : pc[u] \notin IncidentSteps
    BY <1>10 DEF StartIncident, Arrive, Go, Overlap, IInv, Types, TypeOK, stores
  <2>5. QED
    BY <2>2, <2>3, <2>4 DEF IInv, IncidentsGrow, MonitoringSteps, IncidentSteps
<1>11. ASSUME NEW t \in Thread, NEW i \in Incident, NEW status \in {"OPEN", "RESOLVED"},
           NEW note \in Note,
           StartTransition(t, i, status, note)
     PROVE  IncidentsGrow'
  <2>1. /\ incidents[i] \in IncidentRecord /\ NoIncident \in IncidentRecord
        /\ incidents[i] # NoIncident
    BY <1>11, NoneIsTyped DEF IInv, Types, TypeOK, Copies, Fitting, StartTransition, Arrive
  <2> DEFINE r == Moved(incidents[i], status, note)
  <2>2. Grown(incidents[i], r) /\ HasNote(r, note)
    BY <2>1 DEF Grown, HasNote, Moved, NoIncident, IncidentRecord
  <2> HIDE DEF r
  <2>3. /\ call'[t].incident = i /\ call'[t].record = r /\ call'[t].note = note
        /\ \A u \in Thread \ {t} : call'[u] = call[u]
    BY <1>11 DEF r, StartTransition, Arrive, Go, NoCall, IInv, Types, TypeOK, IncidentsGrow
  <2>4. /\ \A u \in Thread \ {t} : pc'[u] = pc[u]
        /\ pc'[t] = "change"
        /\ UNCHANGED <<incidents, incidentFile, draft, answered>>
        /\ "incidents" \notin overlapped' =>
               /\ "incidents" \notin overlapped
               /\ \A u \in Thread \ {t} : pc[u] \notin IncidentSteps
    BY <1>11 DEF StartTransition, Arrive, Go, Overlap, IInv, Types, TypeOK, stores
  <2>5. QED
    BY <2>2, <2>3, <2>4 DEF IInv, IncidentsGrow, MonitoringSteps, IncidentSteps
<1>12. ASSUME NEW t \in Thread, NEW i \in Incident, StartAnalyze(t, i) PROVE IncidentsGrow'
  <2>1. /\ incidents[i] \in IncidentRecord /\ NoIncident \in IncidentRecord
        /\ incidents[i] # NoIncident
    BY <1>12, NoneIsTyped DEF IInv, Types, TypeOK, Copies, Fitting, StartAnalyze, Arrive
  <2> DEFINE r == [incidents[i] EXCEPT !.status = "IDENTIFIED"]
  <2>2. Grown(incidents[i], r) /\ HasNote(r, None)
    BY <2>1 DEF Grown, HasNote, Moved, NoIncident, IncidentRecord
  <2> HIDE DEF r
  <2>3. /\ call'[t].incident = i /\ call'[t].record = r /\ call'[t].note = None
        /\ \A u \in Thread \ {t} : call'[u] = call[u]
    BY <1>12 DEF r, StartAnalyze, Arrive, Go, NoCall, IInv, Types, TypeOK, IncidentsGrow
  <2>4. /\ \A u \in Thread \ {t} : pc'[u] = pc[u]
        /\ pc'[t] = "change"
        /\ UNCHANGED <<incidents, incidentFile, draft, answered>>
        /\ "incidents" \notin overlapped' =>
               /\ "incidents" \notin overlapped
               /\ \A u \in Thread \ {t} : pc[u] \notin IncidentSteps
    BY <1>12 DEF StartAnalyze, Arrive, Go, Overlap, IInv, Types, TypeOK, stores
  <2>5. QED
    BY <2>2, <2>3, <2>4 DEF IInv, IncidentsGrow, MonitoringSteps, IncidentSteps
<1>13. ASSUME NEW t \in Thread, Change(t) PROVE IncidentsGrow'
  <2> DEFINE m == [incidents EXCEPT ![call[t].incident] = call[t].record]
  <2>1. /\ pc[t] = "change" /\ pc'[t] = "incidents" /\ draft'[t].incidents = m
        /\ \A u \in Thread \ {t} : pc'[u] = pc[u] /\ draft'[u] = draft[u]
        /\ UNCHANGED <<incidents, incidentFile, call, answered, overlapped>>
    BY <1>13 DEF Change, Go, IInv, Types, TypeOK, InHand, Drafts, stores, ghosts
  <2>2. call[t].incident \in Incident
    BY <2>1 DEF IInv, Types, InHand, IncidentSteps
  <2>3. /\ m[call[t].incident] = call[t].record
        /\ \A i \in Incident \ {call[t].incident} : m[i] = incidents[i]
    BY <2>2 DEF IInv, Types, TypeOK
  <2> HIDE DEF m
  <2>4. \A i \in Incident : Grown(incidents[i], incidents[i])
    BY DEF Grown
  <2>5. "incidents" \notin overlapped =>
            /\ \A i \in Incident : Grown(incidents[i], m[i])
            /\ HasNote(m[call[t].incident], call[t].note)
    BY <2>1, <2>2, <2>3, <2>4 DEF IInv, IncidentsGrow
  <2>6. QED
    BY <2>1, <2>5 DEF IInv, IncidentsGrow, MonitoringSteps, IncidentSteps
<1>14. ASSUME NEW t \in Thread, SaveIncidents(t) PROVE IncidentsGrow'
  BY <1>14 DEF SaveIncidents, Go, IInv, Types, TypeOK, InHand, IncidentsGrow, Grown,
     HasNote, NoCall, ObservationAssumption, IncidentSteps, MonitoringSteps, vars, stores,
     handler, ghosts
<1>15. ASSUME NEW t \in Thread, SaveIncidentsFailsLate(t) PROVE IncidentsGrow'
  <2>1. /\ pc[t] = "incidents" /\ pc'[t] = "idle"
        /\ \A u \in Thread \ {t} :
               pc'[u] = pc[u] /\ call'[u] = call[u] /\ draft'[u] = draft[u]
        /\ incidentFile' = draft[t].incidents
        /\ UNCHANGED <<incidents, answered, overlapped>>
    BY <1>15 DEF SaveIncidentsFailsLate, Leave, IInv, Types, TypeOK, InHand, ghosts
  <2>2. "incidents" \notin overlapped =>
            /\ \A u \in Thread \ {t} : pc[u] \notin IncidentSteps
            /\ \A i \in Incident : Grown(incidents[i], draft[t].incidents[i])
    BY <2>1 DEF IInv, IncidentsGrow, IncidentSteps
  <2>3. QED
    BY <2>1, <2>2 DEF IInv, IncidentsGrow, MonitoringSteps, IncidentSteps
<1>16. ASSUME NEW t \in Thread, SwapIncidents(t) PROVE IncidentsGrow'
  <2>1. /\ pc[t] = "changed" /\ pc' = [pc EXCEPT ![t] = "audit"]
        /\ incidents' = draft[t].incidents
        /\ UNCHANGED <<incidentFile, call, draft, answered, overlapped>>
    BY <1>16 DEF SwapIncidents, Go, ghosts
  <2>2. /\ \A u \in Thread \ {t} : pc'[u] = pc[u]
        /\ pc'[t] = "audit"
    BY <2>1 DEF IInv, Types, TypeOK
  <2>3. CASE "incidents" \in overlapped
    BY <2>1, <2>2, <2>3 DEF IInv, IncidentsGrow, MonitoringSteps, IncidentSteps
  <2>4. CASE "incidents" \notin overlapped
    <3>1. /\ \A i \in Incident : Grown(incidents[i], incidents'[i])
          /\ incidentFile = incidents'
          /\ HasNote(incidents'[call[t].incident], call[t].note)
          /\ \A u \in Thread \ {t} : pc[u] \notin IncidentSteps
      BY <2>1, <2>4 DEF IInv, IncidentsGrow, IncidentSteps
    <3>2. /\ \A i \in Incident : Grown(incidents'[i], incidentFile'[i])
          /\ \A i \in Incident : \A n : HasNote(incidents[i], n) => HasNote(incidents'[i], n)
      BY <2>1, <3>1 DEF Grown, HasNote
    <3>3. QED
      <4>1. \A a \in answered : a.incident \in Incident =>
                HasNote(incidents'[a.incident], a.note)
        BY <2>4, <3>2 DEF IInv, IncidentsGrow
      <4>2. \A u \in Thread : pc'[u] = "audit" /\ call[u].incident \in Incident =>
                HasNote(incidents'[call[u].incident], call[u].note)
        BY <2>1, <2>2, <2>4, <3>1, <3>2 DEF IInv, IncidentsGrow
      <4>3. \A u \in Thread : pc'[u] \notin IncidentSteps
        BY <2>2, <3>1 DEF IncidentSteps
      <4>4. \A u \in Thread : pc'[u] \in MonitoringSteps \cup {"alarm"} =>
                call[u].incident = None /\ call[u].note = None
        BY <2>2 DEF IInv, IncidentsGrow, MonitoringSteps
      <4>5. QED
        BY <2>1, <3>2, <4>1, <4>2, <4>3, <4>4 DEF IncidentsGrow, IncidentSteps
  <2>5. QED
    BY <2>3, <2>4
<1>17. ASSUME NEW t \in Thread, Refuse(t) PROVE IncidentsGrow'
  <2>1. /\ UNCHANGED <<incidents, incidentFile, answered, overlapped>>
        /\ \A u \in Thread \ {t} :
               pc'[u] = pc[u] /\ call'[u] = call[u] /\ draft'[u] = draft[u]
    BY <1>17 DEF Refuse, Fail, Leave, IInv, Types, TypeOK, InHand, stores, ghosts
  <2>2. /\ pc'[t] \notin IncidentSteps
        /\ pc'[t] \in MonitoringSteps \cup {"alarm", "audit"} =>
               call'[t].incident = None /\ call'[t].note = None
    BY <1>17 DEF Refuse, Fail, Leave, IInv, Types, TypeOK, InHand, IncidentsGrow, NoCall,
       MonitoringSteps, IncidentSteps, ghosts
  <2>3. QED
    BY <2>1, <2>2, QuietStep DEF IInv
<1>18. ASSUME NEW t \in Thread, Audit(t) PROVE IncidentsGrow'
  <2> DEFINE a == [route |-> call[t].route, snapshot |-> call[t].snapshot,
                   level |-> call[t].level, incident |-> call[t].incident,
                   note |-> call[t].note]
  <2>1. /\ pc[t] = "audit" /\ pc'[t] = "idle" /\ answered' = answered \cup {a}
        /\ a.incident = call[t].incident /\ a.note = call[t].note
        /\ \A u \in Thread \ {t} :
               pc'[u] = pc[u] /\ call'[u] = call[u] /\ draft'[u] = draft[u]
        /\ UNCHANGED <<incidents, incidentFile, overlapped>>
    BY <1>18 DEF Audit, Leave, IInv, Types, TypeOK, InHand, stores
  <2> HIDE DEF a
  <2>2. "incidents" \notin overlapped =>
            \A b \in answered' : b.incident \in Incident =>
                HasNote(incidents[b.incident], b.note)
    BY <2>1 DEF IInv, IncidentsGrow
  <2>3. QED
    BY <2>1, <2>2 DEF IInv, IncidentsGrow, MonitoringSteps, IncidentSteps
<1>19. CASE Restart
  BY <1>19 DEF Restart, IInv, Types, TypeOK, InHand, IncidentsGrow, Grown, HasNote, NoCall,
     ObservationAssumption, IncidentSteps, MonitoringSteps, vars, stores, handler, ghosts
<1>20. CASE UNCHANGED vars
  BY <1>20 DEF vars, IInv, Types, TypeOK, InHand, IncidentsGrow, Grown, HasNote, NoCall,
     ObservationAssumption, IncidentSteps, MonitoringSteps, stores, handler, ghosts
<1>21. QED
  BY <1>1, <1>2, <1>3, <1>4, <1>5, <1>6, <1>7, <1>8, <1>9, <1>10, <1>11, <1>12, <1>13,
     <1>14, <1>15, <1>16, <1>17, <1>18, <1>19, <1>20 DEF Next

LEMMA HistoriesStep ==
    ASSUME ObservationAssumption, IInv, [Next]_vars PROVE HistoryMoves'
<1>1. ASSUME NEW t \in Thread, StartCollect(t) PROVE HistoryMoves'
  BY <1>1 DEF StartCollect, Arrive, Overlap, IInv, Types, TypeOK, InHand, HistoryMoves,
     NoCall, ObservationAssumption, IncidentSteps, MonitoringSteps, vars, stores, handler,
     ghosts
<1>2. ASSUME NEW t \in Thread, CollectNothing(t) PROVE HistoryMoves'
  BY <1>2 DEF CollectNothing, Go, IInv, Types, TypeOK, InHand, HistoryMoves, NoCall,
     ObservationAssumption, IncidentSteps, MonitoringSteps, vars, stores, handler, ghosts
<1>3. ASSUME NEW t \in Thread, NEW s \in Snapshot, StartRecord(t, s) PROVE HistoryMoves'
  BY <1>3 DEF StartRecord, Arrive, Overlap, IInv, Types, TypeOK, InHand, HistoryMoves,
     NoCall, ObservationAssumption, IncidentSteps, MonitoringSteps, vars, stores, handler,
     ghosts
<1>4. ASSUME NEW t \in Thread, NEW s \in Snapshot, NEW level \in Level,
           Collect(t, s, level)
     PROVE  HistoryMoves'
  BY <1>4 DEF Collect, Go, IInv, Types, TypeOK, InHand, HistoryMoves, NoCall,
     ObservationAssumption, IncidentSteps, MonitoringSteps, vars, stores, handler, ghosts
<1>5. ASSUME NEW t \in Thread, Record(t) PROVE HistoryMoves'
  BY <1>5 DEF Record, Go, IInv, Types, TypeOK, InHand, HistoryMoves, NoCall,
     ObservationAssumption, IncidentSteps, MonitoringSteps, vars, stores, handler, ghosts
<1>6. ASSUME NEW t \in Thread, SaveHistory(t) PROVE HistoryMoves'
  <2>1. /\ pc[t] = "history" /\ call[t].snapshot \in Snapshot
        /\ history \in Seq(Snapshot) /\ saved \in Seq(Snapshot)
        /\ historyFile' = draft[t].history /\ saved' = Append(saved, call[t].snapshot)
        /\ UNCHANGED <<history, answered, overlapped, call, draft>>
        /\ \A u \in Thread \ {t} : pc'[u] = pc[u] /\ call'[u] = call[u]
        /\ pc'[t] = "recorded"
    BY <1>6 DEF SaveHistory, Go, ghosts, IInv, Types, TypeOK, InHand
  <2>2. CASE "monitoring" \in overlapped
    BY <2>1, <2>2 DEF IInv, HistoryMoves, MonitoringSteps, IncidentSteps
  <2>3. CASE "monitoring" \notin overlapped
    <3>1. /\ historyFile' = LatestOf(Append(history, call[t].snapshot))
          /\ Traced(history, saved)
          /\ \A u \in Thread \ {t} : pc[u] \notin MonitoringSteps
      BY <2>1, <2>3 DEF IInv, HistoryMoves, MonitoringSteps
    <3>2. /\ Traced(history, saved') /\ Traced(historyFile', saved')
          /\ In(historyFile', call[t].snapshot)
          /\ \A x : KeptIn(history, saved, x) => KeptIn(history, saved', x)
          /\ \A x : KeptIn(history, saved, x) => KeptIn(historyFile', saved', x)
      BY <2>1, <3>1, HistoryStep DEF KeptIn
    <3>3. QED
      BY <2>1, <2>3, <3>1, <3>2 DEF IInv, HistoryMoves, KeptIn, MonitoringSteps,
         IncidentSteps
  <2>4. QED
    BY <2>2, <2>3
<1>7. ASSUME NEW t \in Thread, SaveHistoryFailsLate(t) PROVE HistoryMoves'
  <2>1. /\ pc[t] = "history" /\ call[t].snapshot \in Snapshot
        /\ history \in Seq(Snapshot) /\ saved \in Seq(Snapshot)
        /\ historyFile' = draft[t].history /\ saved' = Append(saved, call[t].snapshot)
        /\ UNCHANGED <<history, answered, overlapped>>
        /\ \A u \in Thread \ {t} : pc'[u] = pc[u] /\ call'[u] = call[u]
        /\ pc'[t] = "idle"
    BY <1>7 DEF SaveHistoryFailsLate, Leave, IInv, Types, TypeOK, InHand
  <2>2. CASE "monitoring" \in overlapped
    BY <2>1, <2>2 DEF IInv, HistoryMoves, MonitoringSteps, IncidentSteps
  <2>3. CASE "monitoring" \notin overlapped
    <3>1. /\ historyFile' = LatestOf(Append(history, call[t].snapshot))
          /\ Traced(history, saved)
          /\ \A u \in Thread \ {t} : pc[u] \notin MonitoringSteps
      BY <2>1, <2>3 DEF IInv, HistoryMoves, MonitoringSteps
    <3>2. /\ Traced(history, saved') /\ Traced(historyFile', saved')
          /\ In(historyFile', call[t].snapshot)
          /\ \A x : KeptIn(history, saved, x) => KeptIn(history, saved', x)
          /\ \A x : KeptIn(history, saved, x) => KeptIn(historyFile', saved', x)
      BY <2>1, <3>1, HistoryStep DEF KeptIn
    <3>3. QED
      BY <2>1, <2>3, <3>1, <3>2 DEF IInv, HistoryMoves, KeptIn, MonitoringSteps,
         IncidentSteps
  <2>4. QED
    BY <2>2, <2>3
<1>8. ASSUME NEW t \in Thread, SwapHistory(t) PROVE HistoryMoves'
  BY <1>8 DEF SwapHistory, Go, IInv, Types, TypeOK, InHand, HistoryMoves, NoCall,
     ObservationAssumption, IncidentSteps, MonitoringSteps, vars, stores, handler, ghosts
<1>9. ASSUME NEW t \in Thread, NEW i \in Incident, Alarm(t, i) PROVE HistoryMoves'
  BY <1>9 DEF Alarm, Go, Overlap, IInv, Types, TypeOK, InHand, HistoryMoves, NoCall,
     ObservationAssumption, IncidentSteps, MonitoringSteps, vars, stores, handler, ghosts
<1>10. ASSUME NEW t \in Thread, NEW i \in Incident, StartIncident(t, i) PROVE HistoryMoves'
  BY <1>10 DEF StartIncident, Arrive, Overlap, IInv, Types, TypeOK, InHand, HistoryMoves,
     NoCall, ObservationAssumption, IncidentSteps, MonitoringSteps, vars, stores, handler,
     ghosts
<1>11. ASSUME NEW t \in Thread, NEW i \in Incident, NEW status \in {"OPEN", "RESOLVED"},
           NEW note \in Note,
           StartTransition(t, i, status, note)
     PROVE  HistoryMoves'
  BY <1>11 DEF StartTransition, Arrive, Overlap, IInv, Types, TypeOK, InHand, HistoryMoves,
     NoCall, ObservationAssumption, IncidentSteps, MonitoringSteps, vars, stores, handler,
     ghosts
<1>12. ASSUME NEW t \in Thread, NEW i \in Incident, StartAnalyze(t, i) PROVE HistoryMoves'
  BY <1>12 DEF StartAnalyze, Arrive, Overlap, IInv, Types, TypeOK, InHand, HistoryMoves,
     NoCall, ObservationAssumption, IncidentSteps, MonitoringSteps, vars, stores, handler,
     ghosts
<1>13. ASSUME NEW t \in Thread, Change(t) PROVE HistoryMoves'
  BY <1>13 DEF Change, Go, IInv, Types, TypeOK, InHand, HistoryMoves, NoCall,
     ObservationAssumption, IncidentSteps, MonitoringSteps, vars, stores, handler, ghosts
<1>14. ASSUME NEW t \in Thread, SaveIncidents(t) PROVE HistoryMoves'
  BY <1>14 DEF SaveIncidents, Go, IInv, Types, TypeOK, InHand, HistoryMoves, NoCall,
     ObservationAssumption, IncidentSteps, MonitoringSteps, vars, stores, handler, ghosts
<1>15. ASSUME NEW t \in Thread, SaveIncidentsFailsLate(t) PROVE HistoryMoves'
  BY <1>15 DEF SaveIncidentsFailsLate, Leave, IInv, Types, TypeOK, InHand, HistoryMoves,
     NoCall, ObservationAssumption, IncidentSteps, MonitoringSteps, vars, stores, handler,
     ghosts
<1>16. ASSUME NEW t \in Thread, SwapIncidents(t) PROVE HistoryMoves'
  BY <1>16 DEF SwapIncidents, Go, IInv, Types, TypeOK, InHand, HistoryMoves, NoCall,
     ObservationAssumption, IncidentSteps, MonitoringSteps, vars, stores, handler, ghosts
<1>17. ASSUME NEW t \in Thread, Refuse(t) PROVE HistoryMoves'
  BY <1>17 DEF Refuse, Fail, Leave, IInv, Types, TypeOK, InHand, HistoryMoves, NoCall,
     ObservationAssumption, IncidentSteps, MonitoringSteps, vars, stores, handler, ghosts
<1>18. ASSUME NEW t \in Thread, Audit(t) PROVE HistoryMoves'
  BY <1>18 DEF Audit, Leave, IInv, Types, TypeOK, InHand, HistoryMoves, NoCall,
     ObservationAssumption, IncidentSteps, MonitoringSteps, vars, stores, handler, ghosts
<1>19. CASE Restart
  <2>1. history' = historyFile
    <3>1. Len(historyFile) <= MaxHistory /\ historyFile \in Seq(Snapshot)
      BY DEF IInv, Types, TypeOK
    <3>2. SubSeq(historyFile, 1, Len(historyFile)) = historyFile
      BY <3>1
    <3>3. ~(Len(historyFile) > MaxHistory)
      BY <3>1 DEF ObservationAssumption
    <3>4. QED
      BY <1>19, <3>2, <3>3 DEF Restart, LatestOf
  <2>2. QED
    BY <1>19, <2>1 DEF Restart, IInv, HistoryMoves, ghosts, MonitoringSteps, IncidentSteps
<1>20. CASE UNCHANGED vars
  BY <1>20 DEF vars, IInv, Types, TypeOK, InHand, HistoryMoves, NoCall,
     ObservationAssumption, IncidentSteps, MonitoringSteps, stores, handler, ghosts
<1>21. QED
  BY <1>1, <1>2, <1>3, <1>4, <1>5, <1>6, <1>7, <1>8, <1>9, <1>10, <1>11, <1>12, <1>13,
     <1>14, <1>15, <1>16, <1>17, <1>18, <1>19, <1>20 DEF Next

LEMMA StepIInv == ObservationAssumption /\ IInv /\ [Next]_vars => IInv'
BY TypesStep, OrderedStep, CopiesStep, IncidentsStep, HistoriesStep DEF IInv

LEMMA AlwaysIInv == Spec => []IInv
BY InitIInv, StepIInv, ObservationAssumption, PTL DEF Spec

-----------------------------------------------------------------------------
\* Every variable of monitoring.py and incidents.py holds what its annotation
\* promises, and no history is longer than max_history.
THEOREM TypeCorrect == Spec => []TypeOK
<1>1. IInv => TypeOK
  BY DEF IInv, Types
<1>2. QED
  BY <1>1, AlwaysIInv, PTL

\* The collect route opens an incident only for a snapshot that has been stored,
\* and never answers for an anomaly without one (readonly_server.py 749-812).
THEOREM AlarmComesSecond == Spec => []AlarmFollowsSnapshot
<1>1. IInv => AlarmFollowsSnapshot
  BY DEF IInv, Ordered, Alarmed, Stored, AlarmFollowsSnapshot
<1>2. QED
  BY <1>1, AlwaysIInv, PTL

\* Every copy of a resolved incident says when it was closed, and the severity
\* of an incident opened for an anomaly is that of the anomaly (incidents.py).
THEOREM ClosingIsKept == Spec => []ClosedAndSevere
<1>1. IInv => ClosedAndSevere
  BY DEF IInv, Copies, Fitting, Fits, ClosedAndSevere
<1>2. QED
  BY <1>1, AlwaysIInv, PTL

\* While the requests of a service do not overlap, nothing it has answered with
\* is lost, through late failures and restarts (monitoring.py, incidents.py).
THEOREM AnswersAreKept == Spec => []AnsweredIsKept
<1>1. IInv => AnsweredIsKept
  BY DEF IInv, Types, InHand, Answers, IncidentsGrow, HistoryMoves, HasNote, KeptIn, In,
     Gone, AnsweredIsKept
<1>2. QED
  BY <1>1, AlwaysIInv, PTL
=============================================================================
