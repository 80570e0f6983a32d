--------------------------- MODULE BackupArchives ---------------------------
(***************************************************************************)
(* BackupManager (control_center/backups.py) with the archives that        *)
(* FilesystemBackupProvider (filesystem_backup.py) writes for it. A        *)
(* handler asks the provider, makes a new record of what it answered,      *)
(* copies the dictionary, saves the copy and swaps it in. No lock is held  *)
(* meanwhile: neither on the dictionary nor on the archive, which anybody  *)
(* with access to the destination root may alter between two steps.        *)
(*                                                                         *)
(* BackupLedger is what the manager promises to operations and deployments *)
(* and what it keeps as long as its requests do not overlap. A call that   *)
(* is refused changes nothing and is no step.                              *)
(***************************************************************************)

CONSTANTS
    Backup,     \* backup ids
    Label,      \* destination labels of archives
    Content,    \* archives, named by their SHA-256
    Thread,     \* handler threads
    Providers,  \* how the server may be composed: "none", "filesystem"
    None

ASSUME BackupAssumption ==
    /\ Providers \subseteq {"none", "filesystem"}
    /\ None \notin Content \cup Label \cup Backup

VARIABLES
    records,     \* _records
    recordFile,  \* the JSON file behind them
    archive,     \* the files under the destination root
    provider,    \* the provider the server was composed with
    pc,          \* next step of every thread
    call,        \* the record it serves, as it will store it
    draft,       \* updated_records
    issued,      \* ghost: ids given out (uuid4)
    matched,     \* ghost: backups whose archive had the recorded checksum when
                 \* the provider compared the two
    altered,     \* ghost: labels whose file was changed from outside
    bare,        \* ghost: the server has run without a provider
    overlapped   \* ghost: two requests were at work at the same time

store   == <<records, recordFile>>
handler == <<pc, call, draft>>
history == <<issued, matched, altered, bare>>
vars    == <<store, archive, provider, handler, history, overlapped>>

-----------------------------------------------------------------------------
\* The checksum None is the digest of the id alone, which no archive has.
NoRecord == [state |-> "absent", label |-> None, checksum |-> None,
             verified |-> FALSE, restored |-> FALSE]
NoCall   == [backup |-> None, record |-> NoRecord]
NoDraft  == [b \in Backup |-> NoRecord]

Init ==
    /\ records = NoDraft
    /\ recordFile = NoDraft
    /\ archive = [l \in Label |-> None]
    /\ provider \in Providers
    /\ pc = [t \in Thread |-> "idle"]
    /\ call = [t \in Thread |-> NoCall]
    /\ draft = [t \in Thread |-> NoDraft]
    /\ issued = {}
    /\ matched = {}
    /\ altered = {}
    /\ bare = (provider = "none")
    /\ overlapped = FALSE

Begin(t, step, b, record) ==
    /\ pc[t] = "idle"
    /\ pc' = [pc EXCEPT ![t] = step]
    /\ call' = [call EXCEPT ![t] = [backup |-> b, record |-> record]]
    /\ UNCHANGED draft
    /\ overlapped' = (overlapped \/ \E s \in Thread : pc[s] # "idle")

Go(t, from, to) ==
    /\ pc[t] = from
    /\ pc' = [pc EXCEPT ![t] = to]
    /\ UNCHANGED draft

Finish(t) ==
    /\ pc' = [pc EXCEPT ![t] = "idle"]
    /\ call' = [call EXCEPT ![t] = NoCall]
    /\ draft' = [draft EXCEPT ![t] = NoDraft]

\* With an enabled provider the handler asks it first.
Ask(step) == IF provider = "filesystem" THEN step ELSE "copy"

\* Mutant: the flag only says that a trial took place.
AsRestoredOnly(r, ok) == [r EXCEPT !.state = IF ok THEN "restore_tested" ELSE "blocked",
                                   !.restored = TRUE]

\* What becomes of a record whose archive was, or was not, verified; and was,
\* or was not, restored on trial.
AsVerified(r, ok) == [r EXCEPT !.state = IF ok THEN "verified" ELSE "blocked",
                               !.verified = ok]
AsRestored(r, ok) == [r EXCEPT !.state = IF ok THEN "restore_tested" ELSE "blocked",
                               !.restored = ok]

-----------------------------------------------------------------------------
\* BackupManager.prepare, up to the provider, which refuses a destination that
\* exists before it looks at the source.
StartPrepare(t, b, l) ==
    /\ b \notin issued
    /\ issued' = issued \cup {b}
    /\ Begin(t, Ask(IF archive[l] = None THEN "link" ELSE "fail"), b,
             [NoRecord EXCEPT !.state = "prepared", !.label = l])
    /\ UNCHANGED <<store, archive, provider, matched, altered, bare>>

\* Mutant: a backup that failed may be verified too.
MayVerifyAgain(b) == records[b].state \in {"prepared", "blocked"}

\* The checks of verify and of restore_test, on the record as it is now.
MayVerify(b) == records[b].state = "prepared"
MayRestore(b) == records[b].state = "verified"

StartVerify(t, b) ==
    /\ MayVerify(b)
    /\ Begin(t, Ask("check"), b,
             IF provider = "none" THEN AsVerified(records[b], TRUE) ELSE records[b])
    /\ UNCHANGED <<store, archive, provider, history>>

StartRestore(t, b) ==
    /\ MayRestore(b)
    /\ Begin(t, Ask("check"), b,
             IF provider = "none" THEN AsRestored(records[b], TRUE) ELSE records[b])
    /\ UNCHANGED <<store, archive, provider, history>>

\* Mutant: the temporary file is renamed over the destination.
LinkOver(t, c) ==
    /\ Go(t, "link", "digest")
    /\ archive' = [archive EXCEPT ![call[t].record.label] = c]
    /\ UNCHANGED <<store, provider, call, history, overlapped>>

\* _write_archive fills a temporary file and os.link gives it its name: unlike
\* a rename it does not replace what another handler, or somebody else, has put
\* there since the name was looked up.
Link(t, c) ==
    /\ Go(t, "link", "digest")
    /\ archive[call[t].record.label] = None
    /\ archive' = [archive EXCEPT ![call[t].record.label] = c]
    /\ UNCHANGED <<store, provider, call, history, overlapped>>

\* The evidence carries the digest of the destination, read once more.
Digest(t) ==
    LET l == call[t].record.label IN
    /\ Go(t, "digest", "copy")
    /\ archive[l] # None
    /\ call' = [call EXCEPT ![t].record.checksum = archive[l]]
    /\ UNCHANGED <<store, archive, provider, history, overlapped>>

\* Mutant: any archive will do, as long as there is one.
IntactIfPresent(r) == archive[r.label] # None

\* The comparison of FilesystemBackupProvider.verify and restore_test.
Intact(r) == r.checksum # None /\ archive[r.label] = r.checksum

Check(t) ==
    LET b == call[t].backup
        r == call[t].record
        ok == Intact(r) IN
    /\ IF r.state = "prepared"
       THEN /\ Go(t, "check", "copy")
            /\ call' = [call EXCEPT ![t].record = AsVerified(r, ok)]
       ELSE /\ Go(t, "check", IF ok THEN "extract" ELSE "copy")
            /\ call' = [call EXCEPT ![t].record = IF ok THEN r ELSE AsRestored(r, FALSE)]
    /\ matched' = IF archive[r.label] = r.checksum /\ r.checksum # None
                  THEN matched \cup {b} ELSE matched
    /\ UNCHANGED <<store, archive, provider, issued, altered, bare, overlapped>>

\* _extract_archive opens the file a second time; any archive can be extracted.
Extract(t) ==
    /\ Go(t, "extract", "copy")
    /\ archive[call[t].record.label] # None
    /\ call' = [call EXCEPT ![t].record = AsRestored(@, TRUE)]
    /\ UNCHANGED <<store, archive, provider, history, overlapped>>

\* The provider raises, at any of its steps, and the caller takes it for
\* evidence that is missing. An archive that is linked already stays, though its
\* record keeps the digest of its id.
ProviderFails(t) ==
    LET r == call[t].record IN
    /\ pc[t] \in {"fail", "link", "digest", "check", "extract"}
    /\ pc' = [pc EXCEPT ![t] = "copy"]
    /\ call' = [call EXCEPT ![t].record =
                  IF pc[t] = "extract" \/ r.state = "verified" THEN AsRestored(r, FALSE)
                                                               ELSE AsVerified(r, FALSE)]
    /\ UNCHANGED <<draft, store, archive, provider, history, overlapped>>

-----------------------------------------------------------------------------
\* updated_records = dict(self._records), with the new record.
Copy(t) ==
    /\ pc[t] = "copy"
    /\ pc' = [pc EXCEPT ![t] = "save"]
    /\ draft' = [draft EXCEPT ![t] = [records EXCEPT ![call[t].backup] = call[t].record]]
    /\ UNCHANGED <<call, store, archive, provider, history, overlapped>>

\* _persist: JsonMetadataStore.save renames a complete new file into place.
Save(t) ==
    /\ Go(t, "save", "swap")
    /\ recordFile' = draft[t]
    /\ UNCHANGED <<records, call, archive, provider, history, overlapped>>

\* The record cannot be saved and the call raises.
Raise(t) ==
    /\ pc[t] = "save"
    /\ Finish(t)
    /\ UNCHANGED <<store, archive, provider, history, overlapped>>

\* An OSError after os.replace.
SaveFailsLate(t) ==
    /\ pc[t] = "save"
    /\ recordFile' = draft[t]
    /\ Finish(t)
    /\ UNCHANGED <<records, archive, provider, history, overlapped>>

\* self._records = updated_records.
Swap(t) ==
    /\ pc[t] = "swap"
    /\ records' = draft[t]
    /\ Finish(t)
    /\ UNCHANGED <<recordFile, archive, provider, history, overlapped>>

\* The server stops at any point of any handler and starts again, perhaps
\* composed otherwise.
Restart ==
    /\ records' = recordFile
    /\ provider' \in Providers
    /\ bare' = (bare \/ provider' = "none")
    /\ pc' = [t \in Thread |-> "idle"]
    /\ call' = [t \in Thread |-> NoCall]
    /\ draft' = [t \in Thread |-> NoDraft]
    /\ UNCHANGED <<recordFile, archive, issued, matched, altered, overlapped>>

\* Somebody puts another file under the destination root, or removes one.
Alter(l) ==
    /\ \E c \in (Content \cup {None}) \ {archive[l]} : archive' = [archive EXCEPT ![l] = c]
    /\ altered' = altered \cup {l}
    /\ UNCHANGED <<store, provider, handler, issued, matched, bare, overlapped>>

Next ==
    \/ \E t \in Thread :
        \/ \E b \in Backup :
            \/ \E l \in Label : StartPrepare(t, b, l)
            \/ StartVerify(t, b)
            \/ StartRestore(t, b)
        \/ Digest(t) \/ Check(t) \/ Extract(t) \/ ProviderFails(t)
        \/ \E c \in Content : Link(t, c)
        \/ Copy(t) \/ Save(t) \/ Raise(t) \/ SaveFailsLate(t) \/ Swap(t)
    \/ Restart
    \/ \E l \in Label : Alter(l)

Spec == Init /\ [][Next]_vars

-----------------------------------------------------------------------------
Record == [state : {"prepared", "verified", "restore_tested", "blocked"},
           label : Label, checksum : Content \cup {None},
           verified : BOOLEAN, restored : BOOLEAN]

\* Every variable holds what the Python annotations promise.
TypeOK ==
    /\ records \in [Backup -> Record \cup {NoRecord}]
    /\ recordFile \in [Backup -> Record \cup {NoRecord}]
    /\ archive \in [Label -> Content \cup {None}]
    /\ provider \in Providers
    /\ pc \in [Thread -> {"idle", "fail", "link", "digest", "check", "extract",
                          "copy", "save", "swap"}]
    /\ call \in [Thread -> [backup : Backup \cup {None}, record : Record \cup {NoRecord}]]
    /\ draft \in [Thread -> [Backup -> Record \cup {NoRecord}]]
    /\ issued \subseteq Backup
    /\ matched \subseteq Backup
    /\ altered \subseteq Label
    /\ bare \in BOOLEAN
    /\ overlapped \in BOOLEAN

\* The records of b in memory, in the file, in handlers and in unsaved copies.
Copies(b) ==
    {records[b], recordFile[b]}
        \cup {call[t].record : t \in {t \in Thread : call[t].backup = b}}
        \cup {draft[t][b] : t \in {t \in Thread : pc[t] \in {"save", "swap"}}}

\* is_verified is what operations and deployments go by: as long as the server
\* always had its provider, nothing counts as verified unless the archive had
\* the recorded checksum when it was looked at, however many handlers work on
\* the same backup and whatever fails.
VerifiedMatched ==
    ~bare => \A b \in Backup : \A c \in Copies(b) :
                 c.state \in {"verified", "restore_tested"} => b \in matched

\* The flags tell the same story as the state: a failed trial blocks the backup
\* and leaves it verified, and nothing was restored that was not verified.
FlagsAgree ==
    \A b \in Backup : \A c \in Copies(b) :
        /\ c.state \in {"verified", "restore_tested"} => c.verified
        /\ c.verified => c.state \in {"verified", "restore_tested", "blocked"}
        /\ c.restored <=> c.state = "restore_tested"

\* The manager never overwrites an archive: while nobody else touched the file,
\* every record made from it has its checksum.
ArchiveIsKept ==
    \A b \in Backup : \A c \in Copies(b) :
        c.checksum # None /\ c.label \notin altered => archive[c.label] = c.checksum

\* Two requests for one destination do not both get it.
OneRecordPerArchive ==
    \A a, b \in Backup : \A c \in Copies(a), d \in Copies(b) :
        /\ c.checksum # None /\ d.checksum # None
        /\ c.label = d.label /\ c.label \notin altered
        => a = b

\* While requests do not overlap, the manager is the catalogue that operations
\* and deployments are modelled with.
Ledger == INSTANCE BackupLedger WITH backup <- [b \in Backup |-> records[b].state]

KeepsLedger == [][~overlapped' => UNCHANGED records \/ Ledger!Next]_vars
=============================================================================
