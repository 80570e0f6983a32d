---------------------------- MODULE ProviderRuns ----------------------------
(***************************************************************************)
(* The requests that put a provider to work and keep what it answered:     *)
(* test runs, builds, Codex analyses and the chat (control_center/         *)
(* testing.py, builds.py, codex.py, conversation.py), from the checks of   *)
(* their routes in api/readonly_server.py to the audit record. Each        *)
(* service keeps a dictionary (the chat, a list) that its handlers copy,   *)
(* save and swap without a lock.                                           *)
(*                                                                         *)
(* Meanwhile sessions end or expire, the activation manifest is replaced,  *)
(* removed or expires, and the server stops and starts again, when its     *)
(* files can be decoded. A session id is never given out twice. Text is    *)
(* told apart by the control characters in it: a tab, a carriage return.   *)
(***************************************************************************)
EXTENDS Naturals

CONSTANTS
    Run,           \* run ids; for the chat, of an exchange of two messages
    Session,       \* session ids
    Thread,        \* handler threads
    Manifest,      \* what the manifest file may hold
    Compositions,  \* the providers the server may be started with
    Ttl,           \* session_ttl_seconds
    MaxLifetime,   \* MAX_MANIFEST_LIFETIME
    MaxTime,       \* bound of the clock
    None

Kind == {"tests", "builds", "codex", "chat"}

ASSUME RunAssumption ==
    /\ Manifest \subseteq [providers : SUBSET Kind, permissions : SUBSET Kind,
                           from : Nat, until : Nat]
    /\ Compositions \subseteq [Kind -> {"none", "synthetic", "live"}]
    /\ Ttl \in Nat /\ MaxLifetime \in Nat
    /\ MaxTime \in Nat
    /\ None \notin Manifest \cup Run \cup Session

VARIABLES
    records,     \* _runs of every service, _messages of the chat
    recordFile,  \* the JSON files behind them
    session,     \* AuthService._sessions
    manifest,    \* the activation manifest's file
    provider,    \* the provider of every service, since the server started
    up,          \* the server runs
    now,         \* the clock
    pc,          \* next step of every thread
    call,        \* the request it serves
    draft,       \* updated
    issued,      \* ghost: run and session ids given out
    covered,     \* ghost: threads whose provider the manifest has covered at
                 \* some instant since the request arrived
    welcome,     \* ghost: threads whose session was open, with a role that may
                 \* do it, when the request arrived
    saved,       \* ghost: runs that have ever been in a file
    audited,     \* ghost: runs with an audit record
    answered,    \* ghost: what requests were answered with
    overlapped   \* ghost: kinds of which two requests were at work at once

store   == <<records, recordFile>>
env     == <<session, manifest, provider, up, now>>
handler == <<pc, call, draft>>
gate    == <<covered, welcome>>
told    == <<saved, audited, answered>>
vars    == <<store, env, handler, issued, gate, told, overlapped>>

-----------------------------------------------------------------------------
NoRun  == [state |-> "absent", text |-> "plain", evidence |-> FALSE]
NoCall == [kind |-> None, run |-> None, session |-> None, record |-> NoRun]
NoDraft == [r \in Run |-> NoRun]

\* What a role may ask for; every role may look at projects and chat.
MayAsk(role) == IF role = "VIEWER" THEN {"codex", "chat"} ELSE Kind

\* A session opens nothing from its deadline on.
Open(s) == session[s] # None /\ now < session[s].until

\* The texts a service takes: a build target may hold a tab, and a chat message
\* whatever redact_text leaves in it.
TestsAccept  == {"plain"}
BuildsAccept == {"plain", "tab"}
CodexAccepts == {"plain"}
ChatAccepts  == {"plain", "tab", "return"}
Accepted(k) ==
    CASE k = "tests" -> TestsAccept
      [] k = "builds" -> BuildsAccept
      [] k = "codex" -> CodexAccepts
      [] k = "chat" -> ChatAccepts

\* The records that _decode_run and _decode_message take back.
TestsDecode(r)  == r.text = "plain" /\ (r.evidence <=> r.state = "completed")
BuildsDecode(r) == r.text = "plain"
CodexDecodes(r) == r.text = "plain" /\ (r.evidence <=> r.state = "completed")
ChatDecodes(r)  == r.text # "return"
Decodes(k, r) ==
    CASE k = "tests" -> TestsDecode(r)
      [] k = "builds" -> BuildsDecode(r)
      [] k = "codex" -> CodexDecodes(r)
      [] k = "chat" -> ChatDecodes(r)

Decodable(k) == \A r \in Run : recordFile[k][r] # NoRun => Decodes(k, recordFile[k][r])

\* _decode_manifest: lists that are not empty, and a window that is neither
\* empty nor too long.
Readable(m) ==
    /\ m # None
    /\ m.providers # {} /\ m.permissions # {}
    /\ m.from < m.until /\ m.until - m.from <= MaxLifetime

\* ActivationManifest.is_active.
Active(m, time) == m.from <= time /\ time < m.until

\* Mutant: the manifest is not read again, and is not asked when it ends.
CoversForEver(m, k, time) == Readable(m) /\ m.from <= time /\ k \in m.providers \cap m.permissions

\* A manifest that lets the live provider of k work at a time.
Covers(m, k, time) ==
    /\ Readable(m)
    /\ Active(m, time)
    /\ k \in m.providers
    /\ k \in m.permissions

\* The kinds whose live provider is authorised, by the manifest m, at a time; and
\* the threads that are once m is in the file and the clock shows that time.
Authorized(m, time) ==
    IF Readable(m) /\ Active(m, time) THEN m.providers \cap m.permissions ELSE {}
CoveredBy(m, time) ==
    covered \cup {t \in Thread : pc[t] # "idle" /\ call[t].kind \in Authorized(m, time)}

-----------------------------------------------------------------------------
Init ==
    /\ records = [k \in Kind |-> NoDraft]
    /\ recordFile = [k \in Kind |-> NoDraft]
    /\ session = [s \in Session |-> None]
    /\ manifest \in Manifest \cup {None}
    /\ provider = [k \in Kind |-> "none"]
    /\ up = FALSE
    /\ now = 0
    /\ pc = [t \in Thread |-> "idle"]
    /\ call = [t \in Thread |-> NoCall]
    /\ draft = [t \in Thread |-> NoDraft]
    /\ issued = {}
    /\ covered = {}
    /\ welcome = {}
    /\ saved = {}
    /\ audited = {}
    /\ answered = {}
    /\ overlapped = {}

Go(t, from, to) ==
    /\ pc[t] = from
    /\ pc' = [pc EXCEPT ![t] = to]

\* The request is over, with or without an answer.
Leave(t) ==
    /\ pc' = [pc EXCEPT ![t] = "idle"]
    /\ call' = [call EXCEPT ![t] = NoCall]
    /\ draft' = [draft EXCEPT ![t] = NoDraft]
    /\ covered' = covered \ {t}
    /\ welcome' = welcome \ {t}

\* A request arrives with the id of a session, open or not. Its run will get an
\* id of its own (uuid4).
Begin(t, k, r, s, text) ==
    /\ up
    /\ s \in issued
    /\ r \notin issued
    /\ issued' = issued \cup {r}
    /\ Go(t, "idle", "session")
    /\ call' = [call EXCEPT ![t] = [kind |-> k, run |-> r, session |-> s,
                                    record |-> [NoRun EXCEPT !.text = text]]]
    /\ covered' = IF k \in Authorized(manifest, now) THEN covered \cup {t} ELSE covered
    /\ welcome' = IF Open(s) /\ k \in MayAsk(session[s].role)
                  THEN welcome \cup {t} ELSE welcome
    /\ overlapped' = IF \E u \in Thread : pc[u] # "idle" /\ call[u].kind = k
                     THEN overlapped \cup {k} ELSE overlapped
    /\ UNCHANGED <<store, env, draft, told>>

\* user_for_session, which drops an expired session.
Enter(t) ==
    LET s == call[t].session IN
    /\ pc[t] = "session"
    /\ IF Open(s)
       THEN Go(t, "session", "token") /\ UNCHANGED <<session, call, draft, gate>>
       ELSE Leave(t) /\ session' = [session EXCEPT ![s] = None]
    /\ UNCHANGED <<store, manifest, provider, up, now, issued, told, overlapped>>

\* require_csrf looks the session up a second time, and may find it gone.
Token(t) ==
    /\ pc[t] = "token"
    /\ IF session[call[t].session] # None
       THEN Go(t, "token", "gate") /\ UNCHANGED <<call, draft, gate>>
       ELSE Leave(t)
    /\ UNCHANGED <<store, env, issued, told, overlapped>>

\* _require_live_provider, with the manifest as its file is at this moment.
Gate(t) ==
    LET k == call[t].kind IN
    /\ pc[t] = "gate"
    /\ IF provider[k] = "live" => Covers(manifest, k, now)
       THEN Go(t, "gate", "require") /\ UNCHANGED <<call, draft, gate>>
       ELSE Leave(t)
    /\ UNCHANGED <<store, env, issued, told, overlapped>>

\* The permission the service requires, of the session as it is by now, and its
\* check of the text.
Permitted(t) ==
    /\ Open(call[t].session)
    /\ call[t].kind \in MayAsk(session[call[t].session].role)
    /\ call[t].record.text \in Accepted(call[t].kind)

\* Mutant: a provider that failed leaves its evidence in the record.
OutcomeWithEvidence(r, state) == [r EXCEPT !.state = state, !.evidence = state # "blocked"]

\* The record of a run: only one that is completed carries evidence.
Outcome(r, state) == [r EXCEPT !.state = state, !.evidence = (state = "completed")]

\* Without a provider the run is recorded as blocked; the chat has a planner of
\* its own.
Require(t) ==
    LET k == call[t].kind IN
    /\ pc[t] = "require"
    /\ IF ~Permitted(t)
       THEN Leave(t)
       ELSE /\ IF provider[k] # "none"
               THEN Go(t, "require", "provide") /\ UNCHANGED call
               ELSE /\ Go(t, "require", "copy")
                    /\ call' = [call EXCEPT ![t].record =
                                  Outcome(@, IF k = "chat" THEN "completed" ELSE "blocked")]
            /\ UNCHANGED <<draft, gate>>
    /\ UNCHANGED <<store, env, issued, told, overlapped>>

-----------------------------------------------------------------------------
Provided(t, k, state) ==
    /\ Go(t, "provide", "copy")
    /\ call[t].kind = k
    /\ call' = [call EXCEPT ![t].record = Outcome(@, state)]
    /\ UNCHANGED <<store, env, draft, issued, gate, told, overlapped>>

\* The suite ran; or there is none, or its sub-tests failed more often than it
\* has tests, which _validate_evidence refuses.
RunTests(t) == \E state \in {"completed", "rejected"} : Provided(t, "tests", state)

\* A declared target is built; or its process is killed by a signal, does not
\* end in time or prints what it should not.
RunBuild(t) ==
    \/ Provided(t, "builds", "rejected")
    \/ /\ provider["builds"] = "live" => call[t].record.text = "plain"
       /\ Provided(t, "builds", "completed")

\* The CLI answers with the metadata object; or fails, or takes longer than the
\* service believes.
AnalyzeCodex(t) == \E state \in {"completed", "rejected"} : Provided(t, "codex", state)

\* The model's proposal, or the local plan when the model has failed.
AskChat(t) == Provided(t, "chat", "completed")

-----------------------------------------------------------------------------
\* updated = dict(self._runs), with the new run; [*self._messages, ...].
Copy(t) ==
    /\ Go(t, "copy", "save")
    /\ draft' = [draft EXCEPT ![t] = [records[call[t].kind]
                                         EXCEPT ![call[t].run] = call[t].record]]
    /\ UNCHANGED <<store, env, call, issued, gate, told, overlapped>>

\* _persist: JsonMetadataStore.save renames a complete new file into place.
Save(t) ==
    /\ Go(t, "save", "swap")
    /\ recordFile' = [recordFile EXCEPT ![call[t].kind] = draft[t]]
    /\ saved' = saved \cup {call[t].run}
    /\ UNCHANGED <<records, env, call, draft, issued, gate, audited, answered, overlapped>>

\* The file cannot be written and the request fails; or fails after os.replace.
SaveFails(t) ==
    /\ pc[t] = "save"
    /\ Leave(t)
    /\ UNCHANGED <<store, env, issued, told, overlapped>>

SaveFailsLate(t) ==
    /\ pc[t] = "save"
    /\ recordFile' = [recordFile EXCEPT ![call[t].kind] = draft[t]]
    /\ saved' = saved \cup {call[t].run}
    /\ Leave(t)
    /\ UNCHANGED <<records, env, issued, audited, answered, overlapped>>

\* Mutant: only what is in memory is kept up to date.
SwapLater(t) ==
    /\ Go(t, "swap", "audit")
    /\ UNCHANGED <<store, env, call, draft, issued, gate, told, overlapped>>

\* self._runs = updated.
Swap(t) ==
    /\ Go(t, "swap", "audit")
    /\ records' = [records EXCEPT ![call[t].kind] = draft[t]]
    /\ UNCHANGED <<recordFile, env, call, draft, issued, gate, told, overlapped>>

Answer(t) == [kind |-> call[t].kind, run |-> call[t].run, record |-> call[t].record]

\* Mutant: the audit record is written while the run may still fail.
AuditEarly(t) ==
    /\ pc[t] \in {"copy", "save", "swap", "audit"}
    /\ audited' = audited \cup {call[t].run}
    /\ answered' = answered \cup {Answer(t)}
    /\ Leave(t)
    /\ UNCHANGED <<store, env, issued, saved, overlapped>>

\* The audit record, and the answer.
Audit(t) ==
    /\ pc[t] = "audit"
    /\ audited' = audited \cup {call[t].run}
    /\ answered' = answered \cup {Answer(t)}
    /\ Leave(t)
    /\ UNCHANGED <<store, env, issued, saved, overlapped>>

\* The log cannot be written: an error for a run that is stored.
AuditFails(t) ==
    /\ pc[t] = "audit"
    /\ Leave(t)
    /\ UNCHANGED <<store, env, issued, told, overlapped>>

-----------------------------------------------------------------------------
\* A login (of a user whose role is read from the account).
Login(s, role) ==
    /\ up
    /\ s \notin issued
    /\ issued' = issued \cup {s}
    /\ session' = [session EXCEPT ![s] = [role |-> role, until |-> now + Ttl]]
    /\ UNCHANGED <<store, manifest, provider, up, now, handler, gate, told, overlapped>>

\* A logout, by another request of the same session.
Logout(s) ==
    /\ up
    /\ session[s] # None
    /\ session' = [session EXCEPT ![s] = None]
    /\ UNCHANGED <<store, manifest, provider, up, now, handler, issued, gate, told, overlapped>>

\* Somebody replaces or removes the manifest.
ReplaceManifest(m) ==
    /\ m # manifest
    /\ manifest' = m
    /\ covered' = CoveredBy(m, now)
    /\ UNCHANGED <<store, session, provider, up, now, handler, issued, welcome, told, overlapped>>

Tick ==
    /\ now < MaxTime
    /\ now' = now + 1
    /\ covered' = CoveredBy(manifest, now + 1)
    /\ UNCHANGED <<store, session, manifest, provider, up, handler, issued, welcome,
                   told, overlapped>>

\* The server stops at any point of any request.
Stop ==
    /\ up
    /\ up' = FALSE
    /\ session' = [s \in Session |-> None]
    /\ records' = [k \in Kind |-> NoDraft]
    /\ pc' = [t \in Thread |-> "idle"]
    /\ call' = [t \in Thread |-> NoCall]
    /\ draft' = [t \in Thread |-> NoDraft]
    /\ covered' = {}
    /\ welcome' = {}
    /\ UNCHANGED <<recordFile, manifest, provider, now, issued, told, overlapped>>

\* validate_activation_scope: live providers only start under an active manifest
\* that names them.
MayStart(c) ==
    LET live == {k \in Kind : c[k] = "live"} IN
    live # {} => Readable(manifest) /\ Active(manifest, now) /\ live \subseteq manifest.providers

\* Every service decodes its file, or the server does not start.
Start(c) ==
    /\ ~up
    /\ MayStart(c)
    /\ \A k \in Kind : Decodable(k)
    /\ up' = TRUE
    /\ provider' = c
    /\ records' = recordFile
    /\ UNCHANGED <<recordFile, session, manifest, now, handler, issued, gate, told, overlapped>>

Next ==
    \/ \E t \in Thread :
        \/ \E k \in Kind, r \in Run, s \in Session, text \in ChatAccepts : Begin(t, k, r, s, text)
        \/ Enter(t) \/ Token(t) \/ Gate(t) \/ Require(t)
        \/ RunTests(t) \/ RunBuild(t) \/ AnalyzeCodex(t) \/ AskChat(t)
        \/ Copy(t) \/ Save(t) \/ SaveFails(t) \/ SaveFailsLate(t) \/ Swap(t)
        \/ Audit(t) \/ AuditFails(t)
    \/ \E s \in Session : Logout(s) \/ \E role \in {"VIEWER", "DEVELOPER"} : Login(s, role)
    \/ \E m \in Manifest \cup {None} : ReplaceManifest(m)
    \/ Tick
    \/ Stop
    \/ \E c \in Compositions : Start(c)

Spec == Init /\ [][Next]_vars

-----------------------------------------------------------------------------
Record == [state : {"absent", "completed", "rejected", "blocked"},
           text : ChatAccepts, evidence : BOOLEAN]

\* Every variable holds what the Python annotations promise.
TypeOK ==
    /\ records \in [Kind -> [Run -> Record]]
    /\ recordFile \in [Kind -> [Run -> Record]]
    /\ session \in [Session -> [role : {"VIEWER", "DEVELOPER"}, until : Nat] \cup {None}]
    /\ manifest \in Manifest \cup {None}
    /\ provider \in [Kind -> {"none", "synthetic", "live"}]
    /\ up \in BOOLEAN
    /\ now \in 0..MaxTime
    /\ pc \in [Thread -> {"idle", "session", "token", "gate", "require", "provide",
                          "copy", "save", "swap", "audit"}]
    /\ call \in [Thread -> [kind : Kind, run : Run, session : Session, record : Record]
                              \cup {NoCall}]
    /\ \A t \in Thread : call[t] = NoCall <=> pc[t] = "idle"
    /\ draft \in [Thread -> [Run -> Record]]
    /\ issued \subseteq Run \cup Session
    /\ saved \subseteq Run
    /\ covered \cup welcome \subseteq {t \in Thread : pc[t] # "idle"}
    /\ audited \subseteq Run
    /\ answered \subseteq [kind : Kind, run : Run, record : Record]
    /\ overlapped \subseteq Kind

\* Three checks are made one after the other while sessions end and the manifest
\* changes. Whatever happens between them, a provider is only put to work for a
\* request whose session was open, with a role that may, when it arrived; and a
\* live one only if the manifest has covered it at some instant since.
RunsAreAuthorized ==
    \A t \in Thread : pc[t] = "provide" =>
        /\ t \in welcome
        /\ provider[call[t].kind] = "live" => t \in covered

\* What is stored can be decoded, so that the server starts again, unless a
\* build target holds a tab or a chat message a carriage return.
OnlyControlsRefuse ==
    \A k \in Kind : ~Decodable(k) =>
        \/ k = "builds" /\ \E r \in Run : recordFile[k][r].text = "tab"
        \/ k = "chat" /\ \E r \in Run : recordFile[k][r].text = "return"

\* While the requests of a service do not overlap, no run it has answered with
\* is lost, to a later run, a failed save or a restart.
AnsweredIsKept ==
    \A a \in answered : a.kind \notin overlapped =>
        /\ recordFile[a.kind][a.run] = a.record
        /\ up => records[a.kind][a.run] = a.record

\* A run in the audit log was stored before: a request that fails on the way
\* leaves no record of a run that is nowhere.
AuditedIsStored == audited \subseteq saved

\* A history that the chat has stored is read back when the server starts again.
HistoryReloads == Decodable("chat")
=============================================================================
