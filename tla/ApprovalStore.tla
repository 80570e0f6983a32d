--------------------------- MODULE ApprovalStore ---------------------------
(***************************************************************************)
(* The durable approval store of core_operator/approvals.py                *)
(* (InMemoryApprovalStore and its subclass JsonApprovalStore) as it runs   *)
(* under ThreadingHTTPServer: one thread per request, no lock around the   *)
(* in-memory dictionary, one JSON file shared by every process.            *)
(*                                                                         *)
(* A call of the store is a sequence of steps, because another thread may  *)
(* run between any two of them:                                            *)
(*   scan    _refresh_expired computes the records that are past expiry    *)
(*   body    _decide reads and checks the record / get returns it          *)
(*   write   self._requests is overwritten on the touched ids              *)
(*   dump    _persist serialises the whole dictionary                      *)
(*   replace _persist takes the file locks and renames the new file        *)
(* A failing _persist puts the overwritten records back and raises.        *)
(***************************************************************************)
EXTENDS Naturals

CONSTANTS
    Request,      \* request ids (uuid4 values)
    Process,      \* server processes that share the JSON file
    Thread,       \* handler threads
    Home,         \* the process each thread belongs to
    Requester,    \* users whose role has REQUEST_APPROVAL
    Approver,     \* users whose role has APPROVE_OPERATION
    ActionText,   \* the kinds of text a request may come with
    ReasonText,   \* the kinds of reason a decision may come with
    Ttl,          \* lifetime of a request (24 hours in _future_expiry)
    MaxTime,      \* bound on the clock
    None          \* Python's None

\* What a caller wrote is "plain", or "odd": blank, longer than 512 characters,
\* like a secret or like a raw stream. _decode_request refuses odd text, and
\* nobody looks before it is stored. "action" stands for action and command_id;
\* the other texts of a record pass _validate_snapshot_text before they get in.
Text == {"plain", "odd"}

ASSUME ApprovalAssumption ==
    /\ ActionText \subseteq Text
    /\ ReasonText \subseteq Text
    /\ Home \in [Thread -> Process]
    /\ Ttl \in Nat
    /\ MaxTime \in Nat
    /\ None \notin Requester \cup Approver \cup {"policy", "system"}

VARIABLES
    now,          \* the wall clock
    up,           \* which processes are running
    memory,       \* self._requests of every process
    disk,         \* the JSON file
    pc,           \* next step of every thread
    call,         \* the call every thread is serving
    touched,      \* the ids this call overwrites
    next,         \* the records it will write there
    old,          \* the records it put aside to undo a failed write
    image,        \* the serialised dictionary not yet on disk
    born,         \* ghost: the record every id was created with
    acked         \* ghost: the outcomes acknowledged to a caller

store  == <<memory, disk>>
locals == <<pc, call, touched, next, old, image>>
ghosts == <<born, acked>>
vars   == <<now, up, store, locals, ghosts>>

-----------------------------------------------------------------------------
Open    == {"pending", "approved"}            \* what _refresh_expired looks at
Decided == {"approved", "denied"}
Status  == Open \cup Decided \cup {"expired"}

Absent == [status |-> "absent", actor |-> None, expiresAt |-> 0, action |-> "plain",
           reason |-> "plain", decidedBy |-> None, seal |-> None]
Nothing == [r \in Request |-> Absent]

\* _approval_hash: a digest of the fields the properties tell apart.
ApprovalHash(rec) == [status |-> rec.status, actor |-> rec.actor,
                      expiresAt |-> rec.expiresAt, action |-> rec.action,
                      reason |-> rec.reason, decidedBy |-> rec.decidedBy]

\* _build_request, called by create_pending and by create_denied. The texts are
\* redacted and not bounded.
PendingRequest(u, action, reason) ==
    [status |-> "pending", actor |-> u, expiresAt |-> now + Ttl, action |-> action,
     reason |-> reason, decidedBy |-> None, seal |-> None]

DeniedRequest(u, action, reason) ==
    [PendingRequest(u, action, reason) EXCEPT !.status = "denied", !.decidedBy = "policy"]

\* Mutant: the hash is taken before the decision is in the record.
CopySealedEarly(rec, verdict, by, reason) ==
    [rec EXCEPT !.status = verdict, !.decidedBy = by, !.reason = reason,
                !.seal = ApprovalHash(rec)]

\* The copy _decide writes back with the reason of the call, sealed with its hash.
DecidedCopy(rec, verdict, by, reason) ==
    LET d == [rec EXCEPT !.status = verdict, !.decidedBy = by, !.reason = reason]
    IN  [d EXCEPT !.seal = ApprovalHash(d)]

\* Mutant: who expired the request is not recorded.
CopyWithoutDecider(rec) == [rec EXCEPT !.status = "expired", !.reason = "plain"]

\* The copy _refresh_expired writes back, its reason "approval expired"; the hash
\* of a decision is kept.
ExpiredCopy(rec) == [rec EXCEPT !.status = "expired", !.reason = "plain",
                                !.decidedBy = "system"]

\* Mutants: no status is exempt; a tick too early; approvals never expire.
StaleWhateverStatus(rec) == rec.status # "absent" /\ now >= rec.expiresAt
StaleTooEarly(rec)       == rec.status \in Open /\ now + 1 >= rec.expiresAt
StalePendingOnly(rec)    == rec.status = "pending" /\ now >= rec.expiresAt

\* What _refresh_expired looks for.
Stale(rec) == rec.status \in Open /\ now >= rec.expiresAt

\* _decode_request, the first half: no text of the record is refused.
Readable(rec) == rec.action = "plain" /\ rec.reason = "plain"

\* The second half: status, decision and hash fit together.
Consistent(rec) ==
    /\ rec.status = "pending" => rec.decidedBy = None
    /\ rec.status \in Decided \cup {"expired"} => rec.decidedBy # None
    /\ rec.status = "approved" => rec.actor # rec.decidedBy
    /\ rec.status \in Decided /\ rec.seal # None => rec.seal = ApprovalHash(rec)

\* What a record of the file must satisfy to be loaded.
Decodable(rec) == Readable(rec) /\ Consistent(rec)

NoCall == [op |-> "none", id |-> None, by |-> None, stage |-> "body", began |-> 0]
Verdict(op) == IF op = "approve" THEN "approved" ELSE "denied"

Override(base, S, upd) == [r \in Request |-> IF r \in S THEN upd[r] ELSE base[r]]

-----------------------------------------------------------------------------
Init ==
    /\ now = 0
    /\ up = [p \in Process |-> TRUE]
    /\ memory = [p \in Process |-> Nothing]
    /\ disk = Nothing
    /\ pc = [t \in Thread |-> "idle"]
    /\ call = [t \in Thread |-> NoCall]
    /\ touched = [t \in Thread |-> {}]
    /\ next = [t \in Thread |-> Nothing]
    /\ old = [t \in Thread |-> Nothing]
    /\ image = [t \in Thread |-> Nothing]
    /\ born = Nothing
    /\ acked = {}

\* The call of t is over, with a result or an exception.
Finish(t) ==
    /\ pc' = [pc EXCEPT ![t] = "idle"]
    /\ call' = [call EXCEPT ![t] = NoCall]
    /\ touched' = [touched EXCEPT ![t] = {}]
    /\ next' = [next EXCEPT ![t] = Nothing]
    /\ old' = [old EXCEPT ![t] = Nothing]
    /\ image' = [image EXCEPT ![t] = Nothing]

Idle(t) == pc[t] = "idle" /\ up[Home[t]]

\* create_pending and create_denied up to the insertion. Neither refreshes.
StartCreate(t, r, u, denied, action, reason) ==
    LET rec == IF denied THEN DeniedRequest(u, action, reason)
                         ELSE PendingRequest(u, action, reason) IN
    /\ Idle(t)
    /\ born[r] = Absent
    /\ born' = [born EXCEPT ![r] = rec]
    /\ pc' = [pc EXCEPT ![t] = "write"]
    /\ call' = [call EXCEPT ![t] = [NoCall EXCEPT !.op = "create", !.id = r,
                                                  !.by = u, !.began = now]]
    /\ touched' = [touched EXCEPT ![t] = {r}]
    /\ next' = [next EXCEPT ![t] = [Nothing EXCEPT ![r] = rec]]
    /\ UNCHANGED <<now, up, store, old, image, acked>>

\* approve, deny and get all begin with _get_request.
StartLookup(t, r, u, op) ==
    /\ Idle(t)
    /\ born[r] # Absent
    /\ pc' = [pc EXCEPT ![t] = "scan"]
    /\ call' = [call EXCEPT ![t] = [NoCall EXCEPT !.op = op, !.id = r, !.by = u]]
    /\ UNCHANGED <<now, up, store, touched, next, old, image, ghosts>>

\* _refresh_expired reads the clock and collects the expired copies.
Scan(t) ==
    LET mem == memory[Home[t]]
        S   == {r \in Request : Stale(mem[r])} IN
    /\ pc[t] = "scan"
    /\ call' = [call EXCEPT ![t].began = now,
                            ![t].stage = IF S = {} THEN "body" ELSE "refresh"]
    /\ pc' = [pc EXCEPT ![t] = IF S = {} THEN "body" ELSE "write"]
    /\ touched' = [touched EXCEPT ![t] = S]
    /\ next' = [next EXCEPT ![t] =
                   [r \in Request |-> IF r \in S THEN ExpiredCopy(mem[r]) ELSE Absent]]
    /\ UNCHANGED <<now, up, store, old, image, ghosts>>

\* The loop over self._requests raises RuntimeError when a creation of another
\* thread changes the size of the dictionary under it.
ScanAborts(t) ==
    /\ pc[t] = "scan"
    /\ \E u \in Thread \ {t} : Home[u] = Home[t] /\ call[u].op = "create"
    /\ Finish(t)
    /\ UNCHANGED <<now, up, store, ghosts>>

\* get returns the record it finds, or raises when there is none.
Get(t) ==
    /\ pc[t] = "body"
    /\ call[t].op = "get"
    /\ Finish(t)
    /\ UNCHANGED <<now, up, store, ghosts>>

\* Mutants: requesters may decide; decided requests may be decided again.
MayDecideOwn(rec, by)   == rec.status = "pending"
MayDecideAgain(rec, by) == rec.status # "absent" /\ rec.actor # by

\* The checks of _decide: still pending, and requester # approver.
MayDecide(rec, by) == rec.status = "pending" /\ rec.actor # by

\* _decide reads the record, checks it and builds the decided copy with the
\* reason it was called with, which only passes redact_text.
Decide(t, reason) ==
    LET r   == call[t].id
        rec == memory[Home[t]][r]
        new == DecidedCopy(rec, Verdict(call[t].op), call[t].by, reason) IN
    /\ pc[t] = "body"
    /\ call[t].op \in {"approve", "deny"}
    /\ MayDecide(rec, call[t].by)
    /\ pc' = [pc EXCEPT ![t] = "write"]
    /\ touched' = [touched EXCEPT ![t] = {r}]
    /\ next' = [next EXCEPT ![t] = [Nothing EXCEPT ![r] = new]]
    /\ old' = [old EXCEPT ![t] = [Nothing EXCEPT ![r] = rec]]
    /\ UNCHANGED <<now, up, store, call, image, ghosts>>

\* "does not exist", "already decided" or "must be different users".
Refuse(t) ==
    LET rec == memory[Home[t]][call[t].id] IN
    /\ pc[t] = "body"
    /\ call[t].op \in {"approve", "deny"}
    /\ ~MayDecide(rec, call[t].by)
    /\ Finish(t)
    /\ UNCHANGED <<now, up, store, ghosts>>

\* self._requests is overwritten on the touched ids. _refresh_expired puts the
\* present records aside here; _decide goes back to the record it had read.
Write(t) ==
    LET p == Home[t] IN
    /\ pc[t] = "write"
    /\ old' = [old EXCEPT ![t] = IF call[t].stage = "refresh"
                                  THEN Override(Nothing, touched[t], memory[p])
                                  ELSE @]
    /\ memory' = [memory EXCEPT ![p] = Override(memory[p], touched[t], next[t])]
    /\ pc' = [pc EXCEPT ![t] = "dump"]
    /\ next' = [next EXCEPT ![t] = Nothing]
    /\ UNCHANGED <<now, up, disk, call, touched, image, ghosts>>

\* _persist serialises self._requests before it takes any lock.
Dump(t) ==
    /\ pc[t] = "dump"
    /\ image' = [image EXCEPT ![t] = memory[Home[t]]]
    /\ pc' = [pc EXCEPT ![t] = "replace"]
    /\ UNCHANGED <<now, up, store, call, touched, next, old, ghosts>>

\* The renamed file is in place and the call goes on or returns its result.
Replace(t) ==
    /\ pc[t] = "replace"
    /\ disk' = image[t]
    /\ \/ /\ call[t].stage = "refresh"
          /\ pc' = [pc EXCEPT ![t] = "body"]
          /\ call' = [call EXCEPT ![t].stage = "body"]
          /\ touched' = [touched EXCEPT ![t] = {}]
          /\ old' = [old EXCEPT ![t] = Nothing]
          /\ image' = [image EXCEPT ![t] = Nothing]
          /\ UNCHANGED <<next, acked>>
       \/ /\ call[t].stage = "body"
          /\ Finish(t)
          /\ acked' = acked \cup {<<call[t].id,
                          IF call[t].op = "create" THEN born[call[t].id].status
                                                   ELSE Verdict(call[t].op)>>}
    /\ UNCHANGED <<now, up, memory, born>>

\* Mutant: the exception is raised and the new records stay in memory.
RaiseOnly(t) ==
    /\ Finish(t)
    /\ UNCHANGED <<now, up, memory, ghosts>>

\* The except clauses around _persist: put the old records back and raise.
Undo(t) ==
    LET p == Home[t] IN
    /\ memory' = [memory EXCEPT ![p] = Override(memory[p], touched[t], old[t])]
    /\ Finish(t)
    /\ UNCHANGED <<now, up, ghosts>>

\* MAX_BYTES, a missing directory, or an OSError before os.replace.
PersistFails(t) ==
    /\ pc[t] \in {"dump", "replace"}
    /\ Undo(t)
    /\ UNCHANGED disk

\* An OSError after os.replace (the last chmod, the unlock): the file is new
\* already although the caller is told that it cannot be saved.
PersistFailsLate(t) ==
    /\ pc[t] = "replace"
    /\ disk' = image[t]
    /\ Undo(t)

Crash(p) ==
    LET mine == {t \in Thread : Home[t] = p}
        Reset(f, v) == [t \in Thread |-> IF t \in mine THEN v ELSE f[t]] IN
    /\ up[p]
    /\ up' = [up EXCEPT ![p] = FALSE]
    /\ memory' = [memory EXCEPT ![p] = Nothing]
    /\ pc' = Reset(pc, "idle")
    /\ call' = Reset(call, NoCall)
    /\ touched' = Reset(touched, {})
    /\ next' = Reset(next, Nothing)
    /\ old' = Reset(old, Nothing)
    /\ image' = Reset(image, Nothing)
    /\ UNCHANGED <<now, disk, ghosts>>

\* JsonApprovalStore.__init__ loads the file; one bad record refuses it all, and
\* the process stays down until somebody repairs the file.
Restart(p) ==
    /\ ~up[p]
    /\ \A r \in Request : Decodable(disk[r])
    /\ up' = [up EXCEPT ![p] = TRUE]
    /\ memory' = [memory EXCEPT ![p] = disk]
    /\ UNCHANGED <<now, disk, locals, ghosts>>

Tick ==
    /\ now < MaxTime
    /\ now' = now + 1
    /\ UNCHANGED <<up, store, locals, ghosts>>

\* The reasons requests are created with are sentences of policy.py, of
\* operations.py and of the route; actions and command ids are the caller's.
Start(t) ==
    \E r \in Request :
        \/ \E u \in Requester, denied \in BOOLEAN, action \in ActionText :
               StartCreate(t, r, u, denied, action, "plain")
        \/ \E u \in Approver, op \in {"approve", "deny"} : StartLookup(t, r, u, op)
        \/ StartLookup(t, r, None, "get")

Next ==
    \/ \E t \in Thread :
        \/ Start(t) \/ Scan(t) \/ ScanAborts(t) \/ Get(t) \/ Refuse(t)
        \/ \E reason \in ReasonText : Decide(t, reason)
        \/ Write(t) \/ Dump(t) \/ Replace(t)
        \/ PersistFails(t) \/ PersistFailsLate(t)
    \/ \E p \in Process : Crash(p) \/ Restart(p)
    \/ Tick

Spec == Init /\ [][Next]_vars

\* systemd restarts a failed server (Restart=on-failure in deploy/systemd).
FairSpec == Spec /\ \A p \in Process : WF_vars(Restart(p))

-----------------------------------------------------------------------------
Deciders == Approver \cup {"policy", "system", None}
Seals    == [status : Decided, actor : Requester, expiresAt : Nat, action : Text,
             reason : Text, decidedBy : Approver]
Record   == [status : Status, actor : Requester, expiresAt : Nat, action : Text,
             reason : Text, decidedBy : Deciders, seal : Seals \cup {None}]
Slot     == Record \cup {Absent}
Table    == [Request -> Slot]
Call     == [op : {"none", "create", "approve", "deny", "get"},
             id : Request \cup {None}, by : Requester \cup Approver \cup {None},
             stage : {"refresh", "body"}, began : Nat]

\* Every variable holds what the Python annotations promise.
TypeOK ==
    /\ now \in Nat
    /\ up \in [Process -> BOOLEAN]
    /\ memory \in [Process -> Table]
    /\ disk \in Table
    /\ pc \in [Thread -> {"idle", "scan", "body", "write", "dump", "replace"}]
    /\ call \in [Thread -> Call]
    /\ touched \in [Thread -> SUBSET Request]
    /\ next \in [Thread -> Table]
    /\ old \in [Thread -> Table]
    /\ image \in [Thread -> Table]
    /\ born \in Table
    /\ acked \subseteq Request \X Status

\* Every copy of the record of r: in the file, in the memory of a process, in
\* a half-done write, in an undo buffer, in a serialised snapshot.
Copies(r) ==
    {disk[r]} \cup {memory[p][r] : p \in Process}
              \cup UNION {{next[t][r], old[t][r], image[t][r]} : t \in Thread}

\* Whatever threads, processes, failed writes and restarts do, no copy of an
\* approved request was approved by its own requester (_decide, _decode_request),
\* nor by anybody whom the routes do not let decide.
SeparationOfDuties ==
    \A r \in Request : \A c \in Copies(r) :
        c.status = "approved" => c.decidedBy \in Approver /\ c.decidedBy # c.actor

\* What create_denied recorded is never turned into anything else: no race, no
\* undo and no reload lets a request the policy denied be decided again.
PolicyDenialStands ==
    \A r \in Request : born[r].status = "denied" =>
        \A c \in Copies(r) : c \in {Absent, born[r]}

\* A record is only written as expired when its deadline has passed, also when
\* it was read before another thread or process replaced it.
ExpiryIsJustified ==
    \A r \in Request : \A c \in Copies(r) :
        c.status = "expired" => born[r].status = "pending" /\ now >= born[r].expiresAt

\* The file can be loaded whenever the server went down. TLC refutes it: nothing
\* keeps an odd action, command_id or reason out of the file.
Reloadable == \A r \in Request : Decodable(disk[r])

\* Odd text is all that can make _decode_request refuse the file: no order of
\* threads, failed write, undo, expiry or crash leaves a record whose status,
\* decision and hash do not fit together.
OnlyTextRefuses == \A r \in Request : Readable(disk[r]) => Decodable(disk[r])

\* A crashed server comes back, unless odd text got into its file.
AlwaysComesBack ==
    \A p \in Process : ~up[p] ~> (up[p] \/ \E r \in Request : ~Readable(disk[r]))

\* Statuses a request may have once s was acknowledged for it.
After(s) == IF s = "pending"  THEN Status
            ELSE IF s = "approved" THEN {"approved", "expired"}
            ELSE {s}

\* An outcome a caller was told about is in the file and is never reversed,
\* across failed writes, crashes and reloads.
AckedIsDurable ==
    \A a \in acked : disk[a[1]].status \in After(a[2])

\* No request gets two verdicts: the second caller is told "approval request is
\* already decided".
DecidedOnce ==
    \A r \in Request : ~ (<<r, "approved">> \in acked /\ <<r, "denied">> \in acked)

\* get never hands out as approved a request that had expired when the call
\* read the clock, even if that expiry could not be saved: at the step where
\* get returns, the record it returns is not such a one.
NoStaleApproval ==
    \A t \in Thread :
        LET rec == memory[Home[t]][call[t].id] IN
        pc[t] = "body" /\ call[t].op = "get" /\ rec.status = "approved"
            => rec.expiresAt > call[t].began
=============================================================================
