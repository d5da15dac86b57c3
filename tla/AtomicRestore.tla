---------------------------- MODULE AtomicRestore ----------------------------
(***************************************************************************)
(* What restoring a backup promises (email/backup/README.md, recovery.h):  *)
(* the user's data and configuration are replaced together or not at all,  *)
(* and only by a backup that was prepared completely.  BackupRestore       *)
(* implements this.                                                        *)
(***************************************************************************)
EXTENDS Naturals

CONSTANT Version     \* the versions of backups

VARIABLES
    shown,      \* what the application works on: one version for both parts
    prepared    \* the version of the prepared backup, 0 if there is none

Init == shown = 0 /\ prepared = 0

\* A backup newer than anything seen before is prepared.
Prepare ==
    /\ prepared = 0
    /\ \E v \in Version \ {0, shown} : prepared' = v
    /\ UNCHANGED shown

\* The prepared backup takes over.
Switch ==
    /\ prepared # 0
    /\ shown' = prepared
    /\ prepared' = 0

\* The prepared backup is given up.
Drop ==
    /\ prepared # 0
    /\ prepared' = 0
    /\ UNCHANGED shown

Next == Prepare \/ Switch \/ Drop

Spec == Init /\ [][Next]_<<shown, prepared>>
=============================================================================
