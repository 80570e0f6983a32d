---------------------------- MODULE BackupLedger ----------------------------
(***************************************************************************)
(* What BackupManager (control_center/backups.py) promises its callers: a  *)
(* catalogue in which a backup is prepared, then verified, then restored   *)
(* on trial, each with the answer of the backup provider.                  *)
(***************************************************************************)
CONSTANT Backup      \* backup ids

VARIABLE backup      \* BackupRecord.state

BackupState == {"absent", "prepared", "verified", "restore_tested", "blocked"}

TypeOK == backup \in [Backup -> BackupState]

\* is_verified
Verified(b) == backup[b] \in {"verified", "restore_tested"}

Init == backup = [b \in Backup |-> "absent"]

\* The provider's evidence is accepted, or it failed or is unsafe.
Advance(b, from, to) ==
    /\ backup[b] = from
    /\ \E state \in {to, "blocked"} : backup' = [backup EXCEPT ![b] = state]

Prepare(b)     == Advance(b, "absent", "prepared")
Verify(b)      == Advance(b, "prepared", "verified")
RestoreTest(b) == Advance(b, "verified", "restore_tested")

Step(b) == Prepare(b) \/ Verify(b) \/ RestoreTest(b)

Next == \E b \in Backup : Step(b)

Spec == Init /\ [][Next]_backup
=============================================================================
