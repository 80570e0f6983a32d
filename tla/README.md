# Verification of the VPS Control Center

TLA+ models of the parts of this repository that keep state others rely on:
approvals, operations, executions, deployments and rollbacks, backups, the audit
log, the runs of tests, builds, Codex and the chat, monitoring and incidents.
TLC checks each model on a small instance; TLAPS proves every safety property,
action property and refinement that TLC checks, for every instance. What is only
model-checked are the two liveness properties. All line numbers refer to the
files under `src/`.

## The system

`api/readonly_server.py` is a `ThreadingHTTPServer`: every request is served by
a thread of its own, the threads share the managers, and no manager has a lock
of its own. The only locks are those of the file stores, held while a file is
read or replaced. systemd restarts the server when it fails (`Restart=on-failure`).

| Component | State it keeps | Operations | Talks to |
|---|---|---|---|
| Approval store (`core_operator/approvals.py`) | dictionary of requests; JSON file | create_pending, create_denied, approve, deny, get, list, refresh of overdue ones | clock, file (also other processes') |
| Operation plans (`control_center/operations.py`, `operation_manifest.py`) | dictionary of plans with manifests; JSON file | plan, approve, attach_verified_backup, execute | approval store, backups, state store, audit log |
| Execution pipeline (`control_center/pipeline.py`, `execution.py`, `core_operator/approved_execution.py`, `approved_plan_dry_runner.py`, `execution_gate.py`) | list of execution records; JSON file | run: plan, dry run, gate, provider, record | approval store, accounts, policy |
| Deployments and rollbacks (`deployments.py`, `rollbacks.py`, `filesystem_release.py`, `service_activation.py`) | two dictionaries of plans, two JSON files; release directories; `CURRENT` pointer | prepare, approve, execute | backups, state store, systemd runner |
| Backup manager (`backups.py`, `filesystem_backup.py`) | records; JSON file; archives on disk | prepare, verify, restore_test | filesystem |
| Test, build and Codex runs (`testing.py`, `builds.py`, `codex.py`) | dictionaries of runs, JSON files | run, analyze | providers, session, manifest |
| Conversations and chat (`conversation.py`, `chat_provider.py`) | one list of messages, JSON file | handle | chat provider, operations |
| Activation manifest, readiness (`activation.py`, `readiness.py`, `capabilities.py`) | a file with a validity window, read again at every request | is_active, covers; reports | the provider routes, the start of the server |
| Monitoring (`monitoring.py`, `read_safe_monitoring.py`) | bounded list of snapshots; JSON file | record, collect, anomalies | incidents, through the collect route |
| Incidents (`incidents.py`) | dictionary; JSON file | create, transition, analyze | audit log |
| Audit log (`audit.py`) | JSONL file with numbered predecessors; records in memory | append, rotation, read | every manager |
| State store (`state.py`) | one JSON file, one lock per path | load, save | everything above but approvals and audit |
| Sessions and accounts (`auth.py`) | sessions, failed attempts (memory); identity file | login, second factor, require, logout | every route |
| V3, projects, inventories | registries, mostly reports | read | audit, monitoring |
| Policy (`core_operator/policy.py`, `phase1_inventory/commands.py`) | none | evaluate | |

What is hard about it, and rarely reached by the tests (which are sequential):

* **Check, then act.** A manager reads a record, asks another component, and
  then copies its dictionary, saves the copy and swaps it in. Any other thread
  may do the same in between.
* **Two stores per operation.** Approving an operation changes the approval
  file and then the plan file; collecting metrics stores a snapshot and then an
  incident. Either save may fail, and a crash may come between.
* **Saves that fail late.** `os.chmod` after `os.replace` may raise: the caller
  is told nothing was stored, and a restart brings it back.
* **Deadlines.** Approvals expire at lookups, sessions and the activation
  manifest between the check and the work.
* **Files that are read back.** What is stored and what a decoder takes back
  are checked by different functions, and one record, or one torn line of the
  audit log, keeps the server from starting.
* **Things on disk that others may change.** Deployments and rollbacks switch
  `CURRENT` before anything is stored about them; archives may be altered
  between two checks.

The complete list, each at its line and with the properties that cover it, is
`hazards` in `PROJECT.json`.

## The modules

| Module | What it is |
|---|---|
| `ApprovalLedger` | what an approval store promises: one table, each operation one step |
| `ApprovalStore` | the store itself: processes, threads, refresh, decide, persist, undo, crash and reload |
| `ApprovalRefinement` | `ApprovalStore` implements `ApprovalLedger` (one thread) |
| `BackupLedger` | the catalogue of backups the other components rely on |
| `BackupArchives` | `BackupManager` over the archives of `FilesystemBackupProvider`; implements `BackupLedger` while its requests do not overlap |
| `OperationLifecycle` | the life of an operation, one step per transition |
| `OperationPlans` | `OperationService` over the approval store, its memory and its file step by step, and `BackupLedger`; implements `OperationLifecycle` (one thread) |
| `ExecutionPipeline` | `ExecutionPipelineService.run` over `ApprovalLedger` |
| `ReleaseControl` | both release managers, the release directory, the pointer and the activation, over `BackupLedger` |
| `AuditLedger` | the trail a reader of the audit log may rely on |
| `AuditLog` | append, rotation, crash and reload of the audit log; implements `AuditLedger` |
| `ProviderRuns` | test runs, builds, Codex analyses and the chat, with sessions and the activation manifest |
| `Observations` | monitoring and incidents, joined by the collect route |
| `...Proofs` | the theorems about the module of that name |
| `MC...` | instances for TLC |

### Approvals

The state of `ApprovalStore` is the dictionary of every process, the file, and
for every thread the step it is at and what it is about to write. A public
method is cut where another thread can see or change what it uses: the refresh
of overdue requests (one scan, one write), the check of `_decide`, the update
in memory, the snapshot of `_persist`, the rename. Failures are actions of
their own: `PersistFails` (size limit, missing directory, `OSError` before the
rename) undoes the change, `PersistFailsLate` (an `OSError` of the last chmod)
undoes it in memory although the file has it, and `ScanAborts` is the
`RuntimeError` of a dictionary that grows during the scan.

`_decode_request` (905-922) refuses a record with a text that is blank, longer
than 512 characters, like a secret or like a raw stream. Nobody looks at three
texts before they are stored: `_decide` takes the reason, and `_build_request`
the action and the command id, as the request body has them (`redact_text` takes
some secrets out and leaves the rest). `Text` tells "plain" from "odd" ones, the
constants `ActionText` and `ReasonText` say which of them callers send, and
`Decodable` is the whole check of the load: `Readable` for the texts,
`Consistent` for status, decision and hash. A server with an odd record in its
file goes on, and does not start again once it has stopped (`Restart`).

Abstractions: the hash of a request is the record of the hashed fields, so that
two hashes agree exactly when these fields do; `decided_at` is folded into
`decided_by`; the lock makes the replacement one step; the store's own audit
argument is always None in this application. The `get` a handler does before
`approve` is a call of its own. No route passes `expires_at`, so that every
deadline is the begin of the call plus the lifetime. The clock never goes back.

### Operations

A call that passes its checks goes to the approval store if it has to (`plan`
with a new request, `approve`), and then through `copy`, `save`, `swap`, the
three statements every method of the service ends with. The request of a plan
carries the plan's id.

A decision is not one step here, because it is none in the code (`_decide`,
`approvals.py` 489-513): `refresh`, `decide` (the check, on the record as it was
found), `overwrite`, `dump` and `replace`, over a dictionary (`approval`) and a
file (`approvalFile`). `StartRoute` is `/api/approvals/approve` and `/deny`, which
decide the same requests in the same steps and store no plan. Each step may fail
(`Raise`, `ReplaceFailsLate`, `RefreshFailsLate`), and `Undone` is what memory is
taken back to. So two calls may both find a request pending, and it ends denied
with its plan approved. `overlapped` tells whether two calls have been in the
store at once, and `DenialHolds` is claimed as long as they have not; the other
properties do without. The retiring of overdue requests is one step, and
`StoreElsewhere` any other use of the store (a lookup, a request of no plan), also
in one; their own steps are in `ApprovalStore`, as are the texts.

The audit record written after the swap is not modelled. `Restart` is a stop at
any step of any handler followed by a start: what comes back is what the two
files hold.

### The pipeline

One thread goes through `read` (the lookup of `run` and the permissions of the
requester), `plan` (the lookup of the planner), `gate` (dry run and gate),
`execute`, `record`, `dump`, `save`. A role stands for its permissions. The
identity file is read at start only: roles change, accounts are disabled or
removed at a `Restart`. Approvals are decided in one step: what the properties
rest on are approvals that were given, which no race takes back. A command class `other` is an action the policy does
not know with a READ_SAFE command: the policy lets it through and the execution
service rejects and records it, as run 0.

### Releases

`Deployment` and `Rollback` plans have dictionaries and files of their own and
share the steps. The server may be composed without a service activation (as
most tests do), with the disabled one (as it ships) or with a runner, and
differently after a restart. A deployment copies the artifact to a staging
directory (`Stage`, which fails when the release exists), renames it (`Publish`,
which fails when it exists by then) and removes the staging directory (`Tidy`)
before it points to the release. A rollback asks only for a directory at or below
that of the project (`Locate`, `filesystem_release.py` 107-115), which may be a
release, a directory inside one or the project itself (`Inner`), or the staging
directory of a deployment under way. The names of artifacts are taken to be flat,
so that no release lies inside another, directories of `Inner` are taken to be
there whenever a rollback looks, and a staging name is not used again for
something else; where that is not so a rollback has one more way to fail. `ProviderFails` stands for everything the
provider or the validator raises, at every step they have.

### Backups

A handler looks the record up, asks the provider, makes the record it will
store, and goes through `copy`, `save`, `swap`. `archive` is the destination
root: an archive stands for its checksum, so that altering a file (`Alter`, from
outside) gives it another, and the extraction of the trial restore is the
comparison of the two. The name of an archive is looked up once and taken at the
hard link, which fails when the file exists by then. The server may have been
composed without a provider, and differently after a restart; a record that was
prepared then has the digest of its own id, which no archive has. A call that is
refused changes nothing and is no step: this includes the checks of the route
before the manager.

### Provider runs

The four services have one shape, and differ in what they take, in what the
provider may do to a run, and in what their decoder takes back. A request goes
through `session` and `token` (the two lookups of `require` and `require_csrf`),
`gate` (the manifest, read from its file), `require` (the permission, the session
once more, the check of the text), `provide`, and `copy`, `save`, `swap`,
`audit`. Meanwhile sessions end or expire, the manifest is replaced, removed or
expires, and the server stops; it only starts again when every file can be
decoded and its live providers are covered. Text is told apart by its control
characters, because the functions that take it and those that read it back
disagree on nothing else. A session id is never given out twice
(`secrets.token_urlsafe`). An exchange of the chat is one record, although it is two messages:
they are appended and saved together.

### Monitoring and incidents

`POST /api/monitoring/collect` asks the provider, records the snapshot and, when
it is anomalous, opens an incident after checking the session again: `collect`,
`record`, `history`, `recorded`, `alarm`, `change`, `incidents`, `changed`,
`audit`. The other routes enter at `record` and `change`. A snapshot is
abstracted to what the anomalies make of it: none, HIGH or CRITICAL. Of the
statuses RESOLVED stands for itself and CLOSED, and OPEN for those that neither
close an incident nor are set by `analyze`.

### The audit log

The thread lock and the flock of the sink are one lock, held from `Acquire` to
`SetMode` or a failure. Rotation is one step per file it moves, the oldest is
unlinked first, and each may fail (`RotateFails`) or be the last before a
`Crash`. All lines have the same size. A write that fails leaves nothing, or a
fragment (`Torn`); the line written behind a fragment is lost in it (`Junk`).
Records are shown from memory, after the lock is released.

## The checks

| Run | Instance | Shows |
|---|---|---|
| `approval_threads` | 1 request, 2 threads, plain and odd reasons | separation of duties, policy denials, justified expiry; nothing but odd text makes the load refuse the file, and a stopped process comes back unless there is some |
| `approval_serial` | 2 requests, 1 thread, plain and odd actions and reasons | acknowledged decisions are durable, no stale approval, refinement of `ApprovalLedger` |
| `approval_race` (violation) | 1 request, 2 threads | two threads decide one request, in opposite ways |
| `operation_threads` | 1 plan, 2 threads, 2 approvers | approved only by another, denials hold unless calls overlap in the store, ready only on a proven backup, what is signed is what waits |
| `operation_serial` | 2 plans, 1 thread, the clock stands | acknowledged plans are durable, refinement of `OperationLifecycle` |
| `pipeline_threads` | 1 request, 2 threads, 2 users, 4 orders, 2 policy versions | what is run was approved, in time, as it was signed |
| `release_threads` | 1 deployment, 1 rollback, 2 threads, 1 commit, 1 other directory, 2 staging names | the pointer names a release, or what an approved rollback named, and was approved by another; verified plans did switch it; a disabled activation holds everything back |
| `backup_threads` | 2 backups of one destination, 2 contents, 2 threads | nothing counts as verified that did not match, no archive is overwritten or has two records, flags and state agree; refinement of `BackupLedger` while requests do not overlap |
| `provider_threads` | 2 runs of 4 kinds, 1 session, 2 threads, 3 manifests | providers only work for requests that were entitled to it; only two kinds of text keep a file from being read; what was answered is kept, what was audited is stored |
| `observation_threads` | 2 snapshots, 1 incident, 1 note, 2 threads | an incident follows its snapshot, what was answered is kept, a resolved incident says when it was closed |
| `audit_rotation` | 4 records, 2 threads, 2 numbered files of one line | the end of what was written is read back, only a torn line keeps the server from starting, every append ends; refinement of `AuditLedger` |
| `chat_reload` (violation) | 1 message, 1 thread | a message with a carriage return keeps the server from starting |

Every property of a passing run has a mutant: a plausible bug in one mapped
definition that makes TLC find the property violated. `TypeOK` is a property of
two runs only, for the models whose types say more than the shape of a record
(the length of a history and of a file, who holds the lock); of the others it is
proved.

**Bounds.** The races here are between two handlers on one record, or one
dictionary, so two threads and one or two records show them; a third adds no new
order of two writes. `Ttl` is 1 and `MaxTime` 1 or 2: a request can be undecided,
decided and overdue, and a deadline can pass between any two steps; in
`operation_serial`, where `MaxTime` is 0, expiry is left to the run with two
threads: two plans and a clock as well are beyond the time of a run. `MaxLifetime`
is 2, so that there are manifests with a window that is too long. `MaxRuns`
bounds the runs of the pipeline. `MaxHistory` is 1 and `MaxLines` is 1: the
second snapshot pushes the first one out, the second line rotates the file.
`Retention` is 2, which has all three kinds of numbered file (the oldest, one in
the middle of the shift, the sink's), and four records fill all of them and
lose one. `MaxInterrupts` is 1, one rotation that stops half-way: each costs one more file of
what is kept (`Kept`). Users are one requester who may also approve, and one
other approver, which is what separation of duties needs; `operation_serial`,
which is not about that, has the other one only. Two staging names are one for
each thread, and one commit beside a directory that is no release is enough for
two plans to switch the pointer under one another. Threads, requests,
plans, snapshots and the like are interchangeable, which the symmetry sets of
the runs without a liveness property use.

Why `approval_serial` and `operation_serial` have one thread only: durability and
the two refinements fail with two, because the managers copy, save and swap
without a lock (`operations.py` 228-233). `BackupArchives`, `ProviderRuns`,
`Observations` and `DenialHolds` of `OperationPlans` say the same with a variable
instead: `overlapped` tells whether two requests have been at work at once, and
what is answered is kept, or denied, as long as they have not. Each says exactly what the code gives.

**Fairness.** `AlwaysComesBack` (`approval_threads`) assumes weak fairness of
`Restart`, and of nothing else, on the word of `Restart=on-failure` in
`deploy/systemd`; it does not hold of a server whose file `_load` refuses, whose
`Restart` is never enabled, and the property excepts it. `AppendsEnd` (`audit_rotation`) assumes weak fairness of `Boot`,
for the same reason, and of `Step` for every thread: a handler that is in
`append` goes on with it, for there is nothing it could wait for but the lock. No
strong fairness is needed, because only finitely many records are appended.

**Deadlock.** `audit_rotation` and the three runs of `ApprovalStore` disable the
check, because these servers really may stop for good: when a torn line is in the
log (`OnlyTornRefuses`), or an odd text in the approval file (`OnlyTextRefuses`).
All the others are checked.

### What the violation runs disagree with

Both are listed under `findings`, with the test of the repository they
contradict.

* `approval_race`: `_decide` checks a request and overwrites it without a lock;
  two threads decide it in opposite ways and both are told that it is stored.
* `chat_reload`: `handle` stores a carriage return and `_decode_message` refuses
  it, so that the server does not start again. Builds have the same gap for a
  tab (`_safe_target`, `builds.py` 197-206, takes it and `_decode_run` does not);
  `OnlyControlsRefuse` says that these two are all there is.

Some statements are definitions of the modules that TLC refutes and no run
checks, because no document contradicts the code there. A maintainer may want to
know them:

* `Reloadable` (`ApprovalStore`): a decision with a blank, long or secret-like
  reason, or a request with such an action, is stored and acknowledged, and the
  file is refused at the next start (`approvals.py` 503, 662-665, 905).
* `DenialHolds` without its premise (`OperationPlans`): of an approval of the plan
  and a denial of its request that overlap, both succeed (`approvals.py` 490).
* `CurrentIsThere` (`ReleaseControl`): a rollback may point to a staging directory
  that is removed a moment later (`filesystem_release.py` 114).
* `AttachedInTime` (`OperationPlans`): a backup may be attached after the
  approval of the operation has expired (`operations.py` 238).
* `AckedRunIsRecorded` (`ExecutionPipeline`): two saves in the opposite order
  lose a record (`execution.py` 201).
* `RevokedActorBlocks` (`ExecutionPipeline`): an approval outlives the account of
  its requester (`pipeline.py` 113).
* `VerifiedIsFinal` (`ReleaseControl`): a slower handler overwrites the outcome of
  a verified plan (`deployments.py` 229).
* `AckedIsDurable` (`ApprovalStore`) with two processes or two threads.

And beyond these: the operation hash covers the status (`operation_manifest.py`
205), so the hash an approver signed is the plan's only until it is approved
(`SignedAsPlanned` says exactly this); an approval is not consumed by a run and
can be evaluated until it expires (`execution.py` 139); a deployment whose
handler stopped after publishing can only fail from then on
(`filesystem_release.py` 65); a plan whose save failed after its approval was
decided can never be approved again (`operations.py` 217).

## What is proved

For all values of the constants, under the assumptions the modules state next
to them (`ApprovalAssumption`, `OperationAssumption`, `PipelineAssumption`,
`ReleaseAssumption`, `BackupAssumption`, `RunAssumption`,
`ObservationAssumption`, `AuditAssumption`: lifetimes and bounds are natural
numbers, callers' texts are plain or odd, artifacts are not named like staging
directories or what lies inside a release, the bound of a history, the lines of a file and the retention are not 0,
every order has a class, manifests and compositions are what the decoders make of
them, `None` is nothing else, neither is a torn line, deployments and rollbacks
have different ids):

| Module | Theorems |
|---|---|
| `ApprovalStoreProofs` | `TypeCorrect`, `DutiesAreSeparate`, `DenialIsFinal`, `ExpiryIsTimely`, `OnlyTextKeepsItDown`; with one thread also `OutcomesLast`, `NoneIsStale`, `Implements` |
| `OperationPlansProofs` | `TypeCorrect`, `ApprovalComesFirst`, `DenialIsKept`, `BackupComesFirst`, `SignatureMatches`; with one thread also `PlansLast`, `Implements` |
| `ExecutionPipelineProofs` | `TypeCorrect`, `OnlyApprovedRuns`, `RunsMatchSnapshot` |
| `ReleaseControlProofs` | `TypeCorrect`, `PointerIsPublished`, `PointerIsApproved`, `VerifiedIsEarned`, `DisabledActivationHolds` |
| `BackupArchivesProofs` | `TypeCorrect`, `VerifiedIsMatched`, `FlagsAreTrue`, `ArchivesAreKept`, `ArchivesAreOwned`, `LedgerIsKept` |
| `ProviderRunsProofs` | `TypeCorrect`, `OnlyEntitledRuns`, `FilesAreSound`, `AnswersLast`, `AuditComesLast` |
| `ObservationsProofs` | `TypeCorrect`, `AlarmComesSecond`, `ClosingIsKept`, `AnswersAreKept` |
| `AuditLogProofs` | `TypeCorrect`, `ReadsTheTailAlways`, `AnsweredIsReadAlways`, `ShownIsWrittenAlways`, `OnlyTornRefusesAlways`, `Implements` |

Those about stores of records follow one argument. A record lies in several
places at once: in the dictionary, in the file, in a half-stored copy and in the
call that works on it, and a race or a late failure moves any of them over any
other. None of the safety properties is inductive, because they do not mention
all these places. The invariant says of every copy, wherever it lies, what a
single copy must satisfy (`Good`), relative to facts that only ever grow: the
approvals given, the backups verified, the plans that switched the pointer, the
clock. Moving a copy then cannot break anything, and each proof comes down to the
few steps that make a new one.

* Approvals: a new copy is made by create, decide and expire; the invariant
  adds what the call remembers between its check and its write (`CallOK`).
* Operations: `CallGood` says that a call which stores an approved plan was
  granted the approval first, and nothing takes a grant back. Denials need a
  second invariant, `Lone`, which holds as long as no two calls overlap in the
  store (`DenialIsKept`): the request of every granted plan reads approved or
  expired in memory, in the file and in what the one call inside has in hand
  (`Busy`), so that a plan which is approved anywhere has no request that reads
  denied.
* Pipeline: here nothing is copied but facts. A handler carries what it found
  out about a request (`JobGood`): it was signed by somebody else, its snapshot
  matches, its deadline lies ahead. The request may be retired while the handler
  works; the facts stay true because the snapshot and the deadline of a request
  never change and grants are never taken back (`Lasting`). `RunGood` hands them
  on to every run.
* Releases: the copies of a plan must agree on who asked for it, or an approval
  by another user of one copy would say nothing of the other. The program has no
  variable for this, so that `IInv` quantifies over the map from plans to owners.
  `Working` says what a handler has behind it at every step: a release that
  exists before a deployment switches the pointer, a proven backup, an enabled
  activation. Of a rollback nothing is known about its target but its
  name, and `CurrentIsPublished` claims no more.
* Backups: a record copies what the provider said of its archive, which may be
  altered the moment after; the invariant relates every copy to the ghosts
  `matched` and `altered`, and says that a label belongs to one backup from the
  moment its archive is linked.
* Provider runs: the checks of a request are made one after the other while
  sessions end and the manifest changes. Whoever has an open session now, or is
  covered now, was so when it counted (`Gates`): a session id is never given out
  again. `Shapes` says what a stored record looks like, `Kept` that a request on
  its own leaves what was answered in the file, in memory and in its draft.
* Observations: `Copies` says of every copy of an incident what the property says
  of the dictionary, and that there is none of an incident nobody has created;
  `Ordered` what a handler has behind it. That nothing answered is lost rests on
  two orders: a handler on its own makes every copy of an incident grow
  (`IncidentsGrow`), and a snapshot in the history is at least as old in the log
  of all that were stored as its place in the history says (`HistoryMoves`), so
  that what is cut off has as many newer ones as the history holds
  (`HistoryStep`).

The promises that only hold while requests do not overlap have an argument of
their own. A save that fails late leaves a file that is newer than the
dictionary, and a restart makes it true; so dictionary and file may differ, and
the invariant says by how much: by one step of the abstract specification.

* Approvals (`Serial`: one thread of one process, as in `approval_serial`). `Base`
  is what the store holds for certain: the dictionary, or what `_persist` would
  undo it to. The dictionary, the file and the write in hand are each at most one
  operation `Ahead` of it, and what was acknowledged is in it (`SInv`). A crash
  moves `Base` to the file, which is one step of `ApprovalLedger` or none.
  `NoneIsStale` rests on `Fresh`: a lookup that gets past its refresh has retired
  whatever had expired when it began, for a refresh that cannot be saved raises.
* Operations (`Serial`: one thread, as in `operation_serial`). The file and the
  dictionary differ by one plan that has gone one transition (`Near`), the
  handler is about to store one (`Doing`), and nobody was told of more than
  the dictionary has (`Told`).
* Backups. `OneStep`, `Works` and `Alone` say the same of `BackupManager`, for any
  number of threads, as long as `overlapped` is false. Hence every such step is
  one of the catalogue `BackupLedger`, over which operations and releases are
  modelled.

`Serial` is no convenience of the proof: with two threads `DecidedOnce` and
`AckedIsDurable` are false (`approval_race`), for a reason that is in the code.

The audit log is read by a function that is recursive over the numbered files.
What it returns when one of them is dropped, moved, emptied or extended is
proved from the equation it satisfies, without an induction rule: a claim that
held of some file and not of the one after it would have a least counterexample
(`Least`, from the well-foundedness of `<` on the naturals). `IInv` then counts:
below the oldest file that matters there are at most as many empty ones as
rotations that have stopped, and one more while a rotation is under way
(`FewHoles`), whence what is kept (`Kept`). `Trail`, `Shown` and `Calls` say where
a record may be: nowhere before it is written, once on disk, once in memory. A
crash in the middle of a rotation therefore never shows more to a reader than the
oldest lines forgotten, which is a step of `AuditLedger` (`Implements`).

Only model-checked: `AlwaysComesBack` and `AppendsEnd`. They are liveness
properties under fairness, which with ENABLED is beyond the prover.

## What is not modelled

* **Logins.** The counter of failed attempts, TOTP and the identity file
  (`auth.py`): the models start from a session that was
  given out, or an account with a role. What two concurrent logins may do to
  the counter is named under `hazards`; no document states a bound it would break.
* **Reports.** Readiness, capabilities, V3 insights, projects and inventories
  compute answers from other components' state. Where they store something, it is
  one more instance of copy, save and swap.
* **Text.** Formatting, redaction, what makes a text odd, the intents of the local planner,
  `agents.py`, `analysis.py`, and `validation.py`, which evaluates without state;
  HTTP parsing, cookies and headers.
* **Other programs.** `core_operator/controlled_executor.py`, which the
  application does not reach, the Phase 1 collectors, which run once and keep
  nothing, and the browser shell.
* **Several processes** on one state directory are modelled for approvals, whose
  store locks against them; the state store's own documentation excludes them.

The component list in `PROJECT.json` gives the reason for each.
