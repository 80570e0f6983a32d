--------------------------- MODULE ReleaseControl ---------------------------
(***************************************************************************)
(* DeploymentManager (control_center/deployments.py) and RollbackManager   *)
(* (rollbacks.py) over one project of FilesystemReleaseProvider            *)
(* (filesystem_release.py), the backups and the service activation. An     *)
(* executing handler stages a release directory, renames it into place,    *)
(* switches the CURRENT pointer, reads it back and only then stores what   *)
(* became of the plan; nothing locks the pointer or a plan meanwhile. A    *)
(* rollback switches it to any directory it finds.                         *)
(*                                                                         *)
(* Both managers keep their plans the same way, each in a dictionary and a *)
(* file of its own. The release provider and the validator are enabled:    *)
(* without them every execution is blocked after the preflight. A call     *)
(* that is refused changes nothing and is no step.                         *)
(***************************************************************************)
EXTENDS Naturals

CONSTANTS
    Deployment,   \* deployment ids
    Rollback,     \* rollback ids
    Thread,       \* handler threads
    Commit,       \* names of artifacts and of releases
    Inner,        \* "." and paths below a release: directories, not releases
    Staging,      \* the names TemporaryDirectory may pick for a staged copy
    Requester,    \* users whose role has DEPLOY and ROLLBACK
    Approver,     \* users whose role has APPROVE_OPERATION
    Backup,       \* backup ids
    Activations,  \* how the server may be composed: "none", "disabled", "runner"
    None

Plan == Deployment \cup Rollback
Name == Commit \cup Inner \cup Staging

ASSUME ReleaseAssumption ==
    /\ Deployment \cap Rollback = {}
    /\ Activations \subseteq {"none", "disabled", "runner"}
    /\ Commit \cap (Inner \cup Staging) = {}
    /\ None \notin Name \cup Requester \cup Approver \cup Backup

VARIABLES
    plans,        \* _plans of both managers
    planFile,     \* their JSON files
    releases,     \* release directories
    staging,      \* staging directories
    current,      \* the CURRENT file
    backup,       \* BackupRecord.state
    activation,   \* the service activation the server was composed with
    pc,           \* next step of every thread
    call,         \* the plan it serves and the record it will store
    stage,        \* the staging directory it has made
    draft,        \* updated_plans
    issued,       \* ghost: ids given out (uuid4)
    granted,      \* ghost: <<plan, user>> for every approval begun
    proved,       \* ghost: backups that have been verified
    switched      \* ghost: <<plan, name>> for every time the pointer was set

handler == <<pc, call, stage, draft>>
disk    == <<releases, staging, current>>
ghosts  == <<issued, granted, proved, switched>>
vars    == <<plans, planFile, disk, backup, activation, handler, ghosts>>

Backups == INSTANCE BackupLedger

-----------------------------------------------------------------------------
NoPlan == [state |-> "absent", by |-> None, commit |-> None, backup |-> None]
NoCall == [plan |-> None, record |-> NoPlan]

\* The plans in the same dictionary.
Siblings(p) == IF p \in Deployment THEN Deployment ELSE Rollback

\* One manager stores the dictionary new, the plans of the other stay.
Stored(new, old) == [p \in Plan |-> IF p \in DOMAIN new THEN new[p] ELSE old[p]]

\* What a plan becomes whose execution failed.
Failure(p) == IF p \in Deployment THEN "failed" ELSE "blocked"

Init ==
    /\ plans = [p \in Plan |-> NoPlan]
    /\ planFile = [p \in Plan |-> NoPlan]
    /\ releases = {}
    /\ staging = {}
    /\ current = None
    /\ Backups!Init
    /\ activation \in Activations
    /\ pc = [t \in Thread |-> "idle"]
    /\ call = [t \in Thread |-> NoCall]
    /\ stage = [t \in Thread |-> None]
    /\ draft = [t \in Thread |-> <<>>]
    /\ issued = {}
    /\ granted = {}
    /\ proved = {}
    /\ switched = {}

Begin(t, step, p, record) ==
    /\ pc[t] = "idle"
    /\ pc' = [pc EXCEPT ![t] = step]
    /\ call' = [call EXCEPT ![t] = [plan |-> p, record |-> record]]
    /\ UNCHANGED <<stage, draft>>

Finish(t) ==
    /\ pc' = [pc EXCEPT ![t] = "idle"]
    /\ call' = [call EXCEPT ![t] = NoCall]
    /\ draft' = [draft EXCEPT ![t] = <<>>]
    /\ UNCHANGED stage

Go(t, from, to) ==
    /\ pc[t] = from
    /\ pc' = [pc EXCEPT ![t] = to]
    /\ UNCHANGED <<call, draft>>

\* The outcome of an execution is known and will be stored.
Conclude(t, state) ==
    /\ pc' = [pc EXCEPT ![t] = "copy"]
    /\ call' = [call EXCEPT ![t].record.state = state]
    /\ UNCHANGED draft

-----------------------------------------------------------------------------
\* DeploymentManager.prepare; a backup id nobody knows is refused.
PrepareDeployment(t, p, u, c, b, checks) ==
    LET passed == checks /\ b # None /\ Backups!Verified(b) IN
    /\ p \notin issued
    /\ b # None => backup[b] # "absent"
    /\ issued' = issued \cup {p}
    /\ Begin(t, "copy", p,
             [state |-> IF passed THEN "awaiting_approval" ELSE "blocked",
              by |-> u, commit |-> c, backup |-> b])
    /\ UNCHANGED <<plans, planFile, disk, backup, activation, granted, proved, switched>>

\* RollbackManager.prepare; nobody looks at the target.
PrepareRollback(t, p, u, target) ==
    /\ p \notin issued
    /\ issued' = issued \cup {p}
    /\ Begin(t, "copy", p,
             [state |-> "awaiting_approval", by |-> u, commit |-> target, backup |-> None])
    /\ UNCHANGED <<plans, planFile, disk, backup, activation, granted, proved, switched>>

\* Mutant: the requester may approve.
MayApproveOwn(p, u) == plans[p].state = "awaiting_approval"

\* The checks of approve, the same in both managers.
MayApprove(p, u) == plans[p].state = "awaiting_approval" /\ plans[p].by # u

Approve(t, p, u) ==
    /\ MayApprove(p, u)
    /\ Begin(t, "copy", p, [plans[p] EXCEPT !.state = "approved"])
    /\ granted' = granted \cup {<<p, u>>}
    /\ UNCHANGED <<plans, planFile, disk, backup, activation, issued, proved, switched>>

\* execute reads the plan once; an approved one goes to the preflight.
Execute(t, p) ==
    /\ plans[p].state = "approved"
    /\ Begin(t, "preflight", p, plans[p])
    /\ UNCHANGED <<plans, planFile, disk, backup, activation, ghosts>>

\* execute of a plan that awaits approval blocks it.
ExecuteUnapproved(t, p) ==
    /\ plans[p].state = "awaiting_approval"
    /\ Begin(t, "copy", p, [plans[p] EXCEPT !.state = "blocked"])
    /\ UNCHANGED <<plans, planFile, disk, backup, activation, ghosts>>

\* Mutant: the answer of the preflight is not looked at.
PreflightIgnored(t) ==
    /\ Go(t, "preflight", "backup")
    /\ UNCHANGED <<plans, planFile, disk, backup, activation, stage, ghosts>>

\* _preflight_service: skipped without an activation, blocked by a disabled
\* one, and failed when the project is not the one it knows.
Preflight(t) ==
    /\ \/ activation \in {"none", "runner"} /\ Go(t, "preflight", "backup")
       \/ pc[t] = "preflight" /\ activation = "disabled" /\ Conclude(t, "blocked")
       \/ pc[t] = "preflight" /\ activation # "none" /\ Conclude(t, Failure(call[t].plan))
    /\ UNCHANGED <<plans, planFile, disk, backup, activation, stage, ghosts>>

\* A deployment looks at its backup again; a rollback has none.
CheckBackup(t) ==
    LET p == call[t].plan IN
    /\ \/ p \in Rollback /\ Go(t, "backup", "locate")
       \/ /\ p \in Deployment
          /\ call[t].record.backup # None
          /\ Backups!Verified(call[t].record.backup)
          /\ Go(t, "backup", "publish")
       \/ /\ pc[t] = "backup"
          /\ p \in Deployment
          /\ call[t].record.backup = None \/ ~Backups!Verified(call[t].record.backup)
          /\ Conclude(t, "blocked")
    /\ UNCHANGED <<plans, planFile, disk, backup, activation, stage, ghosts>>

\* Mutant: a release that exists already is taken for the finished deployment.
StageOrSkip(t) ==
    /\ \/ /\ call[t].record.commit \in releases
          /\ Go(t, "publish", "activate")
          /\ UNCHANGED <<stage, staging>>
       \/ \E s \in Staging \ staging :
             /\ Go(t, "publish", "rename")
             /\ staging' = staging \cup {s}
             /\ stage' = [stage EXCEPT ![t] = s]
    /\ UNCHANGED <<plans, planFile, releases, current, backup, activation, ghosts>>

\* FilesystemReleaseProvider.deploy: the artifact is copied into a new staging
\* directory, unless there is such a release.
Stage(t) ==
    /\ call[t].record.commit \notin releases
    /\ Go(t, "publish", "rename")
    /\ \E s \in Staging \ staging :
          /\ staging' = staging \cup {s}
          /\ stage' = [stage EXCEPT ![t] = s]
    /\ UNCHANGED <<plans, planFile, releases, current, backup, activation, ghosts>>

\* The staged copy is renamed into place, which fails when another handler has
\* published the release since.
Publish(t) ==
    LET c == call[t].record.commit IN
    /\ c \notin releases
    /\ Go(t, "rename", "tidy")
    /\ releases' = releases \cup {c}
    /\ UNCHANGED <<plans, planFile, staging, current, backup, activation, stage, ghosts>>

\* TemporaryDirectory removes the staging directory.
Tidy(t) ==
    /\ Go(t, "tidy", "point")
    /\ staging' = staging \ {stage[t]}
    /\ stage' = [stage EXCEPT ![t] = None]
    /\ UNCHANGED <<plans, planFile, releases, current, backup, activation, ghosts>>

\* Mutant: the target need not exist.
LocateNothing(t) ==
    /\ Go(t, "locate", "point")
    /\ UNCHANGED <<plans, planFile, disk, backup, activation, stage, ghosts>>

\* FilesystemReleaseProvider.rollback: the target must be a directory, at or
\* below that of the project. It need not be a release.
Locate(t) ==
    /\ call[t].record.commit \in releases \cup staging \cup Inner
    /\ Go(t, "locate", "point")
    /\ UNCHANGED <<plans, planFile, disk, backup, activation, stage, ghosts>>

\* _write_current renames a complete new file into place.
Point(t) ==
    /\ Go(t, "point", "reread")
    /\ current' = call[t].record.commit
    /\ switched' = switched \cup {<<call[t].plan, call[t].record.commit>>}
    /\ UNCHANGED <<plans, planFile, releases, staging, backup, activation, stage, issued,
                   granted, proved>>

\* _read_current; another handler may have set the pointer since. A deployment
\* is validated after that, which reads the pointer once more.
Reread(t) ==
    /\ current = call[t].record.commit
    /\ Go(t, "reread", IF call[t].plan \in Deployment THEN "validate" ELSE "activate")
    /\ UNCHANGED <<plans, planFile, disk, backup, activation, stage, ghosts>>

Validate(t) ==
    /\ current = call[t].record.commit
    /\ Go(t, "validate", "activate")
    /\ UNCHANGED <<plans, planFile, disk, backup, activation, stage, ghosts>>

\* The provider or the validator raises: no artifact, a release that exists, no
\* such target, an OSError, a pointer that has moved. What is on disk stays, the
\* staging directory only if it cannot be removed.
ProviderFails(t) ==
    /\ pc[t] \in {"publish", "rename", "tidy", "locate", "point", "reread", "validate"}
    /\ Conclude(t, Failure(call[t].plan))
    /\ staging' \in {staging, staging \ {stage[t]}}
    /\ stage' = [stage EXCEPT ![t] = None]
    /\ UNCHANGED <<plans, planFile, releases, current, backup, activation, ghosts>>

\* _activate_service: the runner's evidence is accepted or not.
Activate(t) ==
    /\ pc[t] = "activate"
    /\ \/ Conclude(t, "verified")
       \/ activation = "runner" /\ Conclude(t, Failure(call[t].plan))
    /\ UNCHANGED <<plans, planFile, disk, backup, activation, stage, ghosts>>

-----------------------------------------------------------------------------
\* updated_plans = dict(self._plans), with the new record.
Copy(t) ==
    LET p == call[t].plan IN
    /\ pc[t] = "copy"
    /\ pc' = [pc EXCEPT ![t] = "save"]
    /\ draft' = [draft EXCEPT ![t] =
                   [q \in Siblings(p) |-> IF q = p THEN call[t].record ELSE plans[q]]]
    /\ UNCHANGED <<plans, planFile, disk, backup, activation, call, stage, ghosts>>

\* _persist: JsonMetadataStore.save renames a complete new file into place.
Save(t) ==
    /\ Go(t, "save", "swap")
    /\ planFile' = Stored(draft[t], planFile)
    /\ UNCHANGED <<plans, disk, backup, activation, stage, ghosts>>

\* self._plans = updated_plans.
Swap(t) ==
    /\ pc[t] = "swap"
    /\ plans' = Stored(draft[t], plans)
    /\ Finish(t)
    /\ UNCHANGED <<planFile, disk, backup, activation, ghosts>>

\* The plan cannot be saved and the call raises; what the provider did stays.
Raise(t) ==
    /\ pc[t] = "save"
    /\ Finish(t)
    /\ UNCHANGED <<plans, planFile, disk, backup, activation, ghosts>>

\* An OSError after os.replace.
SaveFailsLate(t) ==
    /\ pc[t] = "save"
    /\ planFile' = Stored(draft[t], planFile)
    /\ Finish(t)
    /\ UNCHANGED <<plans, disk, backup, activation, ghosts>>

\* The server stops at any point of any handler and starts again, perhaps
\* composed otherwise. Staging directories are left where they are.
Restart ==
    /\ plans' = planFile
    /\ activation' \in Activations
    /\ pc' = [t \in Thread |-> "idle"]
    /\ call' = [t \in Thread |-> NoCall]
    /\ stage' = [t \in Thread |-> None]
    /\ draft' = [t \in Thread |-> <<>>]
    /\ UNCHANGED <<planFile, disk, backup, ghosts>>

BackupStep(b) ==
    /\ Backups!Step(b)
    /\ proved' = IF backup'[b] = "verified" THEN proved \cup {b} ELSE proved
    /\ UNCHANGED <<plans, planFile, disk, activation, handler, issued, granted, switched>>

Prepare(t) ==
    \E u \in Requester :
        \/ \E p \in Deployment, c \in Commit, b \in Backup \cup {None}, checks \in BOOLEAN :
               PrepareDeployment(t, p, u, c, b, checks)
        \/ \E p \in Rollback, target \in Name : PrepareRollback(t, p, u, target)

Next ==
    \/ \E t \in Thread :
        \/ Prepare(t)
        \/ \E p \in Plan, u \in Approver : Approve(t, p, u)
        \/ \E p \in Plan : Execute(t, p) \/ ExecuteUnapproved(t, p)
        \/ Preflight(t) \/ CheckBackup(t) \/ Stage(t) \/ Publish(t) \/ Tidy(t)
        \/ Locate(t) \/ Point(t)
        \/ Reread(t) \/ Validate(t) \/ ProviderFails(t) \/ Activate(t)
        \/ Copy(t) \/ Save(t) \/ Swap(t) \/ Raise(t) \/ SaveFailsLate(t)
    \/ \E b \in Backup : BackupStep(b)
    \/ Restart

Spec == Init /\ [][Next]_vars

-----------------------------------------------------------------------------
Record == [state : {"awaiting_approval", "approved", "blocked", "verified", "failed"},
           by : Requester, commit : Name, backup : Backup \cup {None}]

\* Every variable holds what the Python annotations promise, and a rollback
\* plan never has the state "failed", which RollbackState does not know.
TypeOK ==
    /\ plans \in [Plan -> Record \cup {NoPlan}]
    /\ planFile \in [Plan -> Record \cup {NoPlan}]
    /\ \A p \in Rollback : plans[p].state # "failed" /\ planFile[p].state # "failed"
    /\ releases \subseteq Commit
    /\ staging \subseteq Staging
    /\ current \in Name \cup {None}
    /\ Backups!TypeOK
    /\ activation \in Activations
    /\ pc \in [Thread -> {"idle", "preflight", "backup", "publish", "rename", "tidy",
                          "locate", "point", "reread", "validate", "activate", "copy",
                          "save", "swap"}]
    /\ call \in [Thread -> [plan : Plan \cup {None}, record : Record \cup {NoPlan}]]
    /\ stage \in [Thread -> Staging \cup {None}]
    /\ \A t \in Thread :
           IF pc[t] \in {"save", "swap"}
           THEN draft[t] \in [Siblings(call[t].plan) -> Record \cup {NoPlan}]
           ELSE draft[t] = <<>>
    /\ issued \subseteq Plan
    /\ granted \subseteq Plan \X Approver
    /\ proved \subseteq Backup
    /\ switched \subseteq Plan \X Name

\* The record of p in the dictionary, in the file and in half-stored copies.
Copies(p) == {plans[p], planFile[p]} \cup {call[t].record : t \in {t \in Thread : call[t].plan = p}}

\* CURRENT names something that is there. TLC refutes it: a rollback may point
\* to the staging directory of a deployment, which is removed a moment later.
CurrentIsThere == current # None => current \in releases \cup staging \cup Inner

\* CURRENT names a published release, whichever handler stops or fails between
\* publishing and switching the pointer; if it names anything else, a rollback
\* was asked for that very name, and no artifact has it.
CurrentIsPublished ==
    current # None =>
        \/ current \in releases
        \/ current \notin Commit /\ \E k \in Rollback : <<k, current>> \in switched

\* The pointer is not switched to anything unless somebody other than its
\* requester approved a plan with that target.
SwitchedByAnother ==
    \A s \in switched : \A c \in Copies(s[1]) \ {NoPlan} :
        c.commit = s[2] /\ \E u \in Approver \ {c.by} : <<s[1], u>> \in granted

\* A verified plan did switch the pointer to its target, and a verified
\* deployment has a backup that passed its verification at some time: however
\* many handlers execute the plan.
VerifiedWasServed ==
    \A p \in Plan : \A c \in Copies(p) : c.state = "verified" =>
        /\ <<p, c.commit>> \in switched
        /\ p \in Deployment => c.backup \in proved

\* A disabled service activation keeps the release provider from being called,
\* also when the server was composed otherwise before it was restarted.
DisabledHoldsBack == [][activation = "disabled" => UNCHANGED disk]_vars

\* A plan that was found verified stays so: it is not executed again and no
\* other outcome overwrites it.
VerifiedIsFinal ==
    [][\A p \in Plan : plans[p].state = "verified" => plans'[p].state = "verified"]_vars
=============================================================================
