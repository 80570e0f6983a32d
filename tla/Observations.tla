---------------------------- MODULE Observations ----------------------------
(***************************************************************************)
(* Monitoring and incidents (control_center/monitoring.py, incidents.py)   *)
(* and the route that joins them: /api/monitoring/collect asks the         *)
(* provider for a snapshot, records it in a bounded history and, when the  *)
(* snapshot is anomalous, opens an incident with a check and a file of its *)
(* own, so that it may fail with its first half done. Both services copy,  *)
(* save and swap what they keep without a lock.                            *)
(*                                                                         *)
(* A snapshot is abstracted to what anomalies and the route make of it:    *)
(* nothing, a HIGH or a CRITICAL incident; the incidents that operators    *)
(* open are HIGH. Of the statuses, RESOLVED stands for itself and CLOSED,  *)
(* and OPEN for the others that neither close an incident nor are set by   *)
(* analyze.                                                                *)
(***************************************************************************)
EXTENDS Naturals, Sequences

CONSTANTS
    Snapshot,    \* snapshots, in the order of no particular clock
    Incident,    \* incident ids
    Note,        \* the notes that transitions add
    Thread,      \* handler threads
    MaxHistory,  \* max_history
    None

ASSUME ObservationAssumption ==
    /\ MaxHistory \in Nat \ {0}
    /\ None \notin Snapshot \cup Incident \cup Note

VARIABLES
    history,       \* MonitoringService._snapshots
    historyFile,   \* the JSON file behind it
    incidents,     \* IncidentManager._incidents
    incidentFile,  \* the JSON file behind them
    pc,            \* next step of every thread
    call,          \* the request it serves
    draft,         \* updated_snapshots or updated_incidents
    issued,        \* ghost: snapshots, incidents and notes that were used
    saved,         \* ghost: snapshots that have been in the file, in order
    opened,        \* ghost: incidents opened for an anomaly, with their cause
    answered,      \* ghost: requests that were answered with success
    overlapped     \* ghost: services in which two requests were at work at once

stores  == <<history, historyFile, incidents, incidentFile>>
handler == <<pc, call, draft>>
ghosts  == <<issued, saved, opened, answered, overlapped>>
vars    == <<stores, handler, ghosts>>

-----------------------------------------------------------------------------
Level    == {"calm", "high", "disk_high"}
Severity == {"HIGH", "CRITICAL"}

\* A full disk is critical, any other anomaly is not.
SeverityOf(level) == IF level = "disk_high" THEN "CRITICAL" ELSE "HIGH"

NoIncident == [status |-> "absent", severity |-> "HIGH", closed |-> FALSE, actions |-> {}]
NoCall     == [route |-> None, snapshot |-> None, level |-> "calm",
               incident |-> None, record |-> NoIncident, note |-> None]
NoDraft    == [history |-> <<>>, incidents |-> <<>>]

\* Mutant: the newest is dropped from a full history.
OldestOf(h) == SubSeq(h, 1, IF Len(h) > MaxHistory THEN MaxHistory ELSE Len(h))

\* Mutant: the history is never cut.
AllOf(h) == h

\* del snapshots[:-max_history].
LatestOf(h) == SubSeq(h, IF Len(h) > MaxHistory THEN Len(h) - MaxHistory + 1 ELSE 1, Len(h))

Init ==
    /\ history = <<>>
    /\ historyFile = <<>>
    /\ incidents = [i \in Incident |-> NoIncident]
    /\ incidentFile = [i \in Incident |-> NoIncident]
    /\ pc = [t \in Thread |-> "idle"]
    /\ call = [t \in Thread |-> NoCall]
    /\ draft = [t \in Thread |-> NoDraft]
    /\ issued = {}
    /\ saved = <<>>
    /\ opened = {}
    /\ answered = {}
    /\ overlapped = {}

\* Which service a step works for.
MonitoringSteps == {"collect", "record", "history", "recorded"}
IncidentSteps   == {"change", "incidents", "changed"}

\* Thread t is about to work for a service: does another one, too?
Overlap(t, steps, service) ==
    IF \E u \in Thread \ {t} : pc[u] \in steps THEN overlapped \cup {service} ELSE overlapped

Arrive(t, step, request, new) ==
    /\ pc[t] = "idle"
    /\ issued \cap new = {}
    /\ issued' = issued \cup new
    /\ pc' = [pc EXCEPT ![t] = step]
    /\ call' = [call EXCEPT ![t] = request]
    /\ UNCHANGED <<stores, draft, saved, opened, answered>>

Go(t, from, to) ==
    /\ pc[t] = from
    /\ pc' = [pc EXCEPT ![t] = to]

\* The request is over, with or without success.
Leave(t) ==
    /\ pc' = [pc EXCEPT ![t] = "idle"]
    /\ call' = [call EXCEPT ![t] = NoCall]
    /\ draft' = [draft EXCEPT ![t] = NoDraft]

Fail(t, steps) ==
    /\ pc[t] \in steps
    /\ Leave(t)
    /\ UNCHANGED <<stores, ghosts>>

-----------------------------------------------------------------------------
\* POST /api/monitoring/collect and /snapshot.
StartCollect(t) ==
    /\ Arrive(t, "collect", [NoCall EXCEPT !.route = "collect"], {})
    /\ overlapped' = Overlap(t, MonitoringSteps, "monitoring")

StartRecord(t, s) ==
    /\ Arrive(t, "record", [NoCall EXCEPT !.route = "snapshot", !.snapshot = s], {s})
    /\ overlapped' = Overlap(t, MonitoringSteps, "monitoring")

\* Mutant: the incident is opened before the snapshot is recorded.
CollectAlarmed(t, s, level) ==
    /\ Go(t, "collect", IF level = "calm" THEN "record" ELSE "alarm")
    /\ s \notin issued
    /\ issued' = issued \cup {s}
    /\ call' = [call EXCEPT ![t].snapshot = s, ![t].level = level]
    /\ UNCHANGED <<stores, draft, saved, opened, answered, overlapped>>

\* The provider answers with a snapshot of any level.
Collect(t, s, level) ==
    /\ Go(t, "collect", "record")
    /\ s \notin issued
    /\ issued' = issued \cup {s}
    /\ call' = [call EXCEPT ![t].snapshot = s, ![t].level = level]
    /\ UNCHANGED <<stores, draft, saved, opened, answered, overlapped>>

\* There is no provider, it raises or its snapshot is not valid: a result without
\* a snapshot.
CollectNothing(t) ==
    /\ Go(t, "collect", "audit")
    /\ UNCHANGED <<stores, call, draft, ghosts>>

\* updated_snapshots = [*self._snapshots, snapshot], cut to the newest.
Record(t) ==
    /\ Go(t, "record", "history")
    /\ draft' = [draft EXCEPT ![t].history =
                              LatestOf(Append(history, call[t].snapshot))]
    /\ UNCHANGED <<stores, call, ghosts>>

SaveHistory(t) ==
    /\ Go(t, "history", "recorded")
    /\ historyFile' = draft[t].history
    /\ saved' = Append(saved, call[t].snapshot)
    /\ UNCHANGED <<history, incidents, incidentFile, call, draft,
                   issued, opened, answered, overlapped>>

\* An OSError after os.replace.
SaveHistoryFailsLate(t) ==
    /\ pc[t] = "history"
    /\ historyFile' = draft[t].history
    /\ saved' = Append(saved, call[t].snapshot)
    /\ Leave(t)
    /\ UNCHANGED <<history, incidents, incidentFile, issued, opened, answered, overlapped>>

\* self._snapshots = updated_snapshots; then the anomalies of this snapshot.
SwapHistory(t) ==
    /\ Go(t, "recorded",
          IF call[t].route = "collect" /\ call[t].level # "calm" THEN "alarm" ELSE "audit")
    /\ history' = draft[t].history
    /\ UNCHANGED <<historyFile, incidents, incidentFile, call, draft, ghosts>>

\* incidents.create for the anomalies: the session is checked again.
Alarm(t, i) ==
    /\ Go(t, "alarm", "change")
    /\ i \notin issued
    /\ issued' = issued \cup {i}
    /\ call' = [call EXCEPT ![t].incident = i,
                            ![t].record = [NoIncident EXCEPT
                                !.status = "OPEN",
                                !.severity = SeverityOf(call[t].level)]]
    /\ opened' = opened \cup {[incident |-> i, snapshot |-> call[t].snapshot,
                               level |-> call[t].level]}
    /\ overlapped' = Overlap(t, IncidentSteps, "incidents")
    /\ UNCHANGED <<stores, draft, saved, answered>>

-----------------------------------------------------------------------------
\* IncidentManager.create, transition and analyze, up to the copy: the incident
\* is read first, and the dictionary after it.
StartIncident(t, i) ==
    /\ Arrive(t, "change",
              [NoCall EXCEPT !.route = "create", !.incident = i,
                             !.record = [NoIncident EXCEPT !.status = "OPEN"]],
              {i})
    /\ overlapped' = Overlap(t, IncidentSteps, "incidents")

\* Mutant: only an incident that is still open can be closed.
MovedFromOpen(r, status, note) ==
    [r EXCEPT !.status = status, !.actions = @ \cup {note},
              !.closed = @ \/ (status = "RESOLVED" /\ r.status = "OPEN")]

\* Any status may follow any other; an incident that is opened again keeps the
\* time it was closed at.
Moved(r, status, note) ==
    [r EXCEPT !.status = status, !.actions = @ \cup {note},
              !.closed = @ \/ status = "RESOLVED"]

StartTransition(t, i, status, note) ==
    /\ incidents[i] # NoIncident
    /\ Arrive(t, "change",
              [NoCall EXCEPT !.route = "transition", !.incident = i, !.note = note,
                             !.record = Moved(incidents[i], status, note)],
              {note})
    /\ overlapped' = Overlap(t, IncidentSteps, "incidents")

StartAnalyze(t, i) ==
    /\ incidents[i] # NoIncident
    /\ Arrive(t, "change",
              [NoCall EXCEPT !.route = "analyze", !.incident = i,
                             !.record = [incidents[i] EXCEPT !.status = "IDENTIFIED"]],
              {})
    /\ overlapped' = Overlap(t, IncidentSteps, "incidents")

\* updated_incidents = dict(self._incidents), with the record.
Change(t) ==
    /\ Go(t, "change", "incidents")
    /\ draft' = [draft EXCEPT ![t].incidents =
                              [incidents EXCEPT ![call[t].incident] = call[t].record]]
    /\ UNCHANGED <<stores, call, ghosts>>

SaveIncidents(t) ==
    /\ Go(t, "incidents", "changed")
    /\ incidentFile' = draft[t].incidents
    /\ UNCHANGED <<history, historyFile, incidents, call, draft, ghosts>>

SaveIncidentsFailsLate(t) ==
    /\ pc[t] = "incidents"
    /\ incidentFile' = draft[t].incidents
    /\ Leave(t)
    /\ UNCHANGED <<history, historyFile, incidents, ghosts>>

\* self._incidents = updated_incidents, and the audit record of the manager.
SwapIncidents(t) ==
    /\ Go(t, "changed", "audit")
    /\ incidents' = draft[t].incidents
    /\ UNCHANGED <<history, historyFile, incidentFile, call, draft, ghosts>>

\* The request fails: the session has ended since the route looked, a file or
\* the audit log cannot be written.
Refuse(t) == Fail(t, {"alarm", "history", "incidents", "audit"})

Audit(t) ==
    /\ pc[t] = "audit"
    /\ answered' = answered \cup {[route |-> call[t].route, snapshot |-> call[t].snapshot,
                                   level |-> call[t].level, incident |-> call[t].incident,
                                   note |-> call[t].note]}
    /\ Leave(t)
    /\ UNCHANGED <<stores, issued, saved, opened, overlapped>>

\* The server stops at any point and reads its files when it starts again.
Restart ==
    /\ history' = LatestOf(historyFile)
    /\ incidents' = incidentFile
    /\ pc' = [t \in Thread |-> "idle"]
    /\ call' = [t \in Thread |-> NoCall]
    /\ draft' = [t \in Thread |-> NoDraft]
    /\ UNCHANGED <<historyFile, incidentFile, ghosts>>

Next ==
    \/ \E t \in Thread :
        \/ StartCollect(t) \/ CollectNothing(t)
        \/ \E s \in Snapshot :
            \/ StartRecord(t, s)
            \/ \E level \in Level : Collect(t, s, level)
        \/ Record(t) \/ SaveHistory(t) \/ SaveHistoryFailsLate(t) \/ SwapHistory(t)
        \/ \E i \in Incident :
            \/ Alarm(t, i)
            \/ StartIncident(t, i)
            \/ \E status \in {"OPEN", "RESOLVED"}, note \in Note :
                   StartTransition(t, i, status, note)
            \/ StartAnalyze(t, i)
        \/ Change(t) \/ SaveIncidents(t) \/ SaveIncidentsFailsLate(t) \/ SwapIncidents(t)
        \/ Refuse(t) \/ Audit(t)
    \/ Restart

Spec == Init /\ [][Next]_vars

-----------------------------------------------------------------------------
IncidentRecord == [status : {"absent", "OPEN", "IDENTIFIED", "RESOLVED"},
                   severity : Severity, closed : BOOLEAN, actions : SUBSET Note]

\* Every variable holds what the Python annotations promise.
TypeOK ==
    /\ history \in Seq(Snapshot) /\ historyFile \in Seq(Snapshot)
    /\ Len(history) <= MaxHistory /\ Len(historyFile) <= MaxHistory
    /\ incidents \in [Incident -> IncidentRecord]
    /\ incidentFile \in [Incident -> IncidentRecord]
    /\ pc \in [Thread -> {"idle", "alarm", "audit"} \cup MonitoringSteps \cup IncidentSteps]
    /\ call \in [Thread -> [route : {"collect", "snapshot", "create", "transition",
                                     "analyze", None},
                            snapshot : Snapshot \cup {None}, level : Level,
                            incident : Incident \cup {None}, record : IncidentRecord,
                            note : Note \cup {None}]]
    /\ issued \subseteq Snapshot \cup Incident \cup Note
    /\ saved \in Seq(Snapshot)
    /\ overlapped \subseteq {"monitoring", "incidents"}

\* The two halves of a collection: an incident is only opened for a snapshot
\* that has been stored, and a collection that found an anomaly is not answered
\* unless its incident, as severe as the anomaly, has been opened.
AlarmFollowsSnapshot ==
    /\ \A o \in opened : \E k \in DOMAIN saved : saved[k] = o.snapshot
    /\ \A a \in answered : a.route = "collect" /\ a.level # "calm" =>
           \E o \in opened : o.incident = a.incident /\ o.snapshot = a.snapshot

\* While the requests of a service do not overlap, nothing it has answered with
\* is lost: a snapshot stays until as many newer ones have been stored as the
\* history holds, an incident and the notes of its transitions for good.
AnsweredIsKept ==
    \A a \in answered :
        /\ a.snapshot # None /\ "monitoring" \notin overlapped =>
               \/ \E k \in DOMAIN historyFile : historyFile[k] = a.snapshot
               \/ \E k \in DOMAIN saved : saved[k] = a.snapshot /\ Len(saved) - k >= MaxHistory
        /\ a.incident # None /\ "incidents" \notin overlapped =>
               /\ incidents[a.incident] # NoIncident
               /\ a.note # None => a.note \in incidents[a.incident].actions

\* Whatever transitions, analyses and lost updates follow one another, every
\* copy of an incident that is resolved says when it was closed, and the
\* severity of an incident opened for an anomaly stays that of the anomaly.
ClosedAndSevere ==
    LET Copies(i) == {incidents[i], incidentFile[i]}
                       \cup {call[t].record : t \in {t \in Thread : call[t].incident = i}}
    IN \A i \in Incident : \A c \in Copies(i) :
           /\ c.status = "RESOLVED" => c.closed
           /\ \A o \in opened : o.incident = i /\ c # NoIncident =>
                  c.severity = SeverityOf(o.level)
=============================================================================
