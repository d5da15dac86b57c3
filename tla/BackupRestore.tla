---------------------------- MODULE BackupRestore ----------------------------
(***************************************************************************)
(* Restoring a backup over the live profile: email/backup/recovery.cpp and *)
(* its driver EmailCore.initializeLibemail (packages/oim_core/lib/native/  *)
(* email_core.dart).                                                       *)
(*                                                                         *)
(* The profile has two directories, data and config.  A restore is staged  *)
(* in .oim-restore-stage while the application runs, published by a        *)
(* journal, and applied at the next start: each directory is moved to      *)
(* .oim-restore-old and the staged one moved in.  Every step on the file   *)
(* system is an action, a recursive removal several, and the process may   *)
(* die between any two of them (CrashIn names where it does).  What a step *)
(* did survives: the code syncs after each, and power loss is not modelled.*)
(*                                                                         *)
(* A directory holds the whole profile of one version (0 the user's own,   *)
(* n the n-th backup), or is None, Torn by a removal, or Blank: there, but *)
(* with nothing of the user's in it.                                       *)
(***************************************************************************)
EXTENDS Naturals

CONSTANTS
    CreatesDirs,    \* the mobile main creates missing directories at launch
    CrashIn,        \* the activities a crash may interrupt
    MaxRestores     \* bound: backups prepared

Activities ==
    {"startup", "stage", "swap", "rollback", "abort", "finish", "app"}

ASSUME CreatesDirsAssumption == CreatesDirs \in BOOLEAN
ASSUME CrashAssumption == CrashIn \subseteq Activities
ASSUME MaxRestoresAssumption == MaxRestores \in Nat

Part == {"data", "config"}
None == [is |-> "none", version |-> 0]
Torn == [is |-> "torn", version |-> 0]
Blank == [is |-> "blank", version |-> 0]
Whole(v) == [is |-> "whole", version |-> v]

VARIABLES
    active,     \* active[part]: <root>/<part>
    old,        \* old[part]: <root>/.oim-restore-old/<part>
    stage,      \* stage[part]: <root>/.oim-restore-stage/<part>
    dirs,       \* which of the two .oim-restore directories exist
    journal,    \* .oim-restore.json: its phase and the had_ flags
    pc, part,   \* the next step, and the directory it is about
    return,     \* what follows a rollback or a finish
    restores,   \* backups staged so far
    base        \* the profile when the journal was published (history)

vars == <<active, old, stage, dirs, journal, pc, part, return, restores, base>>
disk == <<active, old, stage, dirs, journal>>

NoJournal == [phase |-> "none", had |-> {}]

\* journal: written beside and renamed into place, so never seen torn.
WriteJournal(phase, had) == journal' = [phase |-> phase, had |-> had]
Reads(phase) == journal.phase = phase

Init ==
    /\ active \in {a \in [Part -> {Whole(0), None}] :
                      a["data"] = Whole(0)
                      /\ (CreatesDirs => a["config"] = Whole(0))}
    /\ old = [p \in Part |-> None]
    /\ stage = [p \in Part |-> None]
    /\ dirs = {}
    /\ journal = NoJournal
    /\ pc = "running"
    /\ part = "data"
    /\ return = "down"
    /\ restores = 0
    /\ base = active
-----------------------------------------------------------------------------
(* stageRestore, while the application runs *)

\* A leftover stage is removed first; its directories are made anew.
StageBegin ==
    /\ pc = "running"
    /\ restores < MaxRestores
    /\ "old" \notin dirs /\ journal = NoJournal
    /\ stage' = [p \in Part |-> Torn]
    /\ dirs' = dirs \cup {"stage"}
    /\ restores' = restores + 1
    /\ pc' = "stage"
    /\ part' = "data"
    /\ UNCHANGED <<active, old, journal, return, base>>

StagePart ==
    /\ pc = "stage"
    /\ stage' = [stage EXCEPT ![part] = Whole(restores)]
    /\ IF part = "data" THEN part' = "config" /\ pc' = "stage"
                        ELSE part' = "data" /\ pc' = "publish"
    /\ UNCHANGED <<active, old, dirs, journal, return, restores, base>>

Publish ==
    /\ pc = "publish"
    /\ WriteJournal("prepared", {p \in Part : active[p] # None})
    /\ base' = active
    /\ pc' = "running"
    /\ UNCHANGED <<active, old, stage, dirs, part, return, restores>>

\* The catch: an error cancels the restore.  (An error after the journal was
\* renamed into place removes the journal first: no more than this.)
StageFails ==
    /\ pc \in {"stage", "publish"}
    /\ pc' = "unstage"
    /\ return' = "running"
    /\ UNCHANGED <<disk, part, restores, base>>
-----------------------------------------------------------------------------
(* oim_backup_action "startup": applyPendingRestore *)

\* The process starts.
Launch ==
    /\ pc = "down"
    /\ active' = [p \in Part |-> IF CreatesDirs /\ active[p] = None
                                 THEN Blank ELSE active[p]]
    /\ pc' = "startup"
    /\ UNCHANGED <<old, stage, dirs, journal, part, return, restores, base>>

NothingPending ==
    /\ pc = "startup" /\ journal = NoJournal
    /\ pc' = "unstage"
    /\ return' = "init"
    /\ UNCHANGED <<disk, part, restores, base>>

AlreadyCommitted ==
    /\ pc = "startup" /\ Reads("committed")
    /\ pc' = "init_restored"
    /\ UNCHANGED <<disk, part, return, restores, base>>

StageComplete == \A p \in Part : stage[p].is = "whole"

\* Prepared: the swap begins with the journal in phase replacing, unless the
\* stage is incomplete; an unexpected .oim-restore-old is an error.
BeginSwap ==
    /\ pc = "startup" /\ Reads("prepared")
    /\ part' = "data"
    /\ IF ~StageComplete
       THEN pc' = "undo" /\ return' = "init" /\ UNCHANGED journal
       ELSE IF "old" \in dirs
            THEN pc' = "down" /\ UNCHANGED <<return, journal>>
            ELSE /\ pc' = "mkold" /\ UNCHANGED return
                 /\ WriteJournal("replacing", journal.had)
    /\ UNCHANGED <<active, old, stage, dirs, restores, base>>

\* Replacing: the last start did not get to the end of the swap.
UndoInterrupted ==
    /\ pc = "startup" /\ Reads("replacing")
    /\ pc' = "undo"
    /\ part' = "data"
    /\ return' = "init"
    /\ UNCHANGED <<disk, restores, base>>

MakeOld ==
    /\ pc = "mkold"
    /\ dirs' = dirs \cup {"old"}
    /\ pc' = "out"
    /\ UNCHANGED <<active, old, stage, journal, part, return, restores, base>>

MoveOut ==
    /\ pc = "out"
    /\ old' = [old EXCEPT ![part] = active[part]]
    /\ active' = [active EXCEPT ![part] = None]
    /\ pc' = "in"
    /\ UNCHANGED <<stage, dirs, journal, part, return, restores, base>>

MoveIn ==
    /\ pc = "in"
    /\ active' = [active EXCEPT ![part] = stage[part]]
    /\ stage' = [stage EXCEPT ![part] = None]
    /\ IF part = "data" THEN part' = "config" /\ pc' = "out"
                        ELSE part' = "data" /\ pc' = "commit"
    /\ UNCHANGED <<old, dirs, journal, return, restores, base>>

Commit ==
    /\ pc = "commit"
    /\ WriteJournal("committed", journal.had)
    /\ pc' = "init_restored"
    /\ UNCHANGED <<active, old, stage, dirs, part, return, restores, base>>

\* The catch: a failed step is rolled back at once and the start fails.  The
\* journal of a failed commit may be in place already (its sync failed).
SwapFails ==
    /\ pc \in {"mkold", "out", "in", "commit"}
    /\ \/ UNCHANGED journal
       \/ pc = "commit" /\ WriteJournal("committed", journal.had)
    /\ pc' = "undo"
    /\ part' = "data"
    /\ return' = "down"
    /\ UNCHANGED <<active, old, stage, dirs, restores, base>>
-----------------------------------------------------------------------------
(* rollback *)

\* remove_all of a directory leaves it torn, if the process dies in between.
Removals(d) == {[d EXCEPT ![p] = c] : p \in {q \in Part : d[q] # None},
                                      c \in {Torn, None}}

\* Plausible bug: a directory the user never had is left in place.
IsSurplusNever(p) == FALSE

\* There was no such directory, and the staged one was moved in.
IsSurplus(p) == p \notin journal.had /\ stage[p] = None

\* Plausible bug: the rollback clears a directory before it knows that the
\* original was moved away.
UndoRemoveAlways ==
    /\ pc = "undo"
    /\ active[part] # None
    /\ \E c \in {Torn, None} : active' = [active EXCEPT ![part] = c]
    /\ UNCHANGED <<old, stage, dirs, journal, pc, part, return, restores, base>>

UndoRemove ==
    /\ pc = "undo"
    /\ old[part] # None \/ IsSurplus(part)
    /\ active[part] # None
    /\ \E c \in {Torn, None} : active' = [active EXCEPT ![part] = c]
    /\ UNCHANGED <<old, stage, dirs, journal, pc, part, return, restores, base>>

UndoMove ==
    /\ pc = "undo"
    /\ (old[part] # None \/ IsSurplus(part)) => active[part] = None
    /\ IF old[part] # None
       THEN /\ active' = [active EXCEPT ![part] = old[part]]
            /\ old' = [old EXCEPT ![part] = None]
       ELSE UNCHANGED <<active, old>>
    /\ IF part = "data" THEN part' = "config" /\ pc' = "undo"
                        ELSE part' = "data" /\ pc' = "unstage"
    /\ UNCHANGED <<stage, dirs, journal, return, restores, base>>

\* remove_all(stage): the tail of rollback, finishRestore, stageRestore's
\* catch and a start with nothing pending.
Unstage ==
    /\ pc = "unstage"
    /\ \/ /\ stage' \in Removals(stage)
          /\ UNCHANGED <<dirs, pc>>
       \/ /\ \A p \in Part : stage[p] = None
          /\ dirs' = dirs \ {"stage"}
          /\ pc' = IF journal = NoJournal THEN return
                   ELSE IF return = "finished" THEN "drop" ELSE "unold"
          /\ UNCHANGED stage
    /\ UNCHANGED <<active, old, journal, part, return, restores, base>>

\* remove_all(old).
Unold ==
    /\ pc = "unold"
    /\ \/ /\ old' \in Removals(old)
          /\ UNCHANGED <<dirs, pc>>
       \/ /\ \A p \in Part : old[p] = None
          /\ dirs' = dirs \ {"old"}
          /\ pc' = IF return = "finished" THEN "unstage" ELSE "drop"
          /\ UNCHANGED old
    /\ UNCHANGED <<active, stage, journal, part, return, restores, base>>

DropJournal ==
    /\ pc = "drop"
    /\ journal' = NoJournal
    /\ pc' = IF return = "finished" THEN "running" ELSE return
    /\ UNCHANGED <<active, old, stage, dirs, part, return, restores, base>>
-----------------------------------------------------------------------------
(* initializeLibemail, after "startup" *)

\* Plausible bug: a restored profile is taken into use without finishing.
InitOkUnfinished ==
    /\ pc \in {"init", "init_restored"}
    /\ active["data"] # None
    /\ active' = [active EXCEPT !["data"] = IF @ = Torn THEN Blank ELSE @]
    /\ pc' = "running"
    /\ UNCHANGED <<old, stage, dirs, journal, part, return, restores, base>>

\* finishRestore removes the old profile, the stage and, last, the journal.
FinishBegins == pc' = "unold" /\ return' = "finished"

\* The database opens, or a new one is created in its directory; a profile
\* just restored is final now.
InitOk ==
    /\ pc \in {"init", "init_restored"}
    /\ active["data"] # None
    /\ active' = [active EXCEPT !["data"] = IF @ = Torn THEN Blank ELSE @]
    /\ IF pc = "init" THEN pc' = "running" /\ UNCHANGED return
                      ELSE FinishBegins
    /\ UNCHANGED <<old, stage, dirs, journal, part, restores, base>>

\* It fails: abort rolls a restored profile back.
InitFails ==
    /\ pc \in {"init", "init_restored"}
    /\ part' = "data"
    /\ return' = "down"
    /\ pc' = IF pc = "init" THEN "down" ELSE "undo"
    /\ UNCHANGED <<disk, restores, base>>

Activity ==
    CASE pc \in {"stage", "publish"} -> "stage"
      [] pc \in {"mkold", "out", "in", "commit"} -> "swap"
      [] pc \in {"startup", "init", "init_restored"} -> "startup"
      [] pc = "running" -> "app"
      [] OTHER -> IF return = "finished" THEN "finish"
                  ELSE IF return = "running" THEN "stage"
                  ELSE IF journal.phase = "committed" THEN "abort"
                  ELSE "rollback"

Crash ==
    /\ pc # "down"
    /\ Activity \in CrashIn
    /\ pc' = "down"
    /\ UNCHANGED <<disk, part, return, restores, base>>

Next ==
    \/ StageBegin \/ StagePart \/ Publish \/ StageFails
    \/ Launch \/ NothingPending \/ AlreadyCommitted \/ BeginSwap
    \/ UndoInterrupted \/ MakeOld \/ MoveOut \/ MoveIn \/ Commit \/ SwapFails
    \/ UndoRemove \/ UndoMove \/ Unstage \/ Unold \/ DropJournal
    \/ InitOk \/ InitFails \/ Crash

Spec == Init /\ [][Next]_vars
-----------------------------------------------------------------------------
(* Properties *)

Content == {None, Torn, Blank} \cup {Whole(v) : v \in 0 .. MaxRestores}
Directory == [Part -> Content]
Step ==
    {"running", "stage", "publish", "unstage", "down", "startup", "mkold",
     "out", "in", "commit", "undo", "unold", "drop", "init", "init_restored"}

\* The shape of the two directories and of the journal.
TypeOK ==
    /\ active \in Directory /\ old \in Directory /\ stage \in Directory
    /\ base \in Directory
    /\ dirs \subseteq {"old", "stage"}
    /\ journal \in [phase : {"none", "prepared", "replacing", "committed"},
                    had : SUBSET Part]
    /\ pc \in Step /\ part \in Part
    /\ return \in {"init", "down", "running", "finished"}
    /\ restores \in 0 .. MaxRestores

AllOf(v) == [p \in Part |-> Whole(v)]

\* The application runs on the profile as it was when the last restore was
\* prepared, or on a restored one: never on one directory of each, a torn or
\* an empty one (RELEASE_NOTES.md: directories are swapped atomically).
RunsWhole ==
    pc = "running" => active = base \/ \E v \in 1 .. restores : active = AllOf(v)

\* While the journal says prepared or replacing, each directory the user had
\* is in one of its two places: startup can always roll back.
OriginalKept ==
    journal.phase \in {"prepared", "replacing"} =>
        \A p \in Part : base[p] \in {active[p], old[p]}

\* A published restore is staged completely, however often it was interrupted
\* before: the journal comes last.
PublishedComplete == journal.phase = "prepared" => stage = AllOf(restores)

\* Nothing is left that would refuse the next restore (recovery_already_
\* pending): an application that runs without a journal has no other trace.
NoLeftovers == pc = "running" /\ journal = NoJournal => dirs = {}

Finishing == pc \in {"unold", "unstage", "drop"} /\ return = "finished"
Undecided == journal # NoJournal /\ ~Finishing
Profile == IF Undecided THEN base ELSE active

\* The version of a profile whose directories belong together.
Mixed == MaxRestores + 1
VersionOf(a) ==
    IF a["data"].is = "whole" /\ a["config"] \in {a["data"], None}
    THEN a["data"].version ELSE Mixed

Atomic == INSTANCE AtomicRestore
              WITH Version <- 1 .. MaxRestores,
                   shown <- VersionOf(Profile),
                   prepared <- IF Undecided THEN restores ELSE 0

\* The swap of the two directories implements the atomic switch.
ImplementsAtomic == Atomic!Spec

\* What happens without the user or a fault.
Progress ==
    \/ StagePart \/ Publish
    \/ Launch \/ NothingPending \/ AlreadyCommitted \/ BeginSwap
    \/ UndoInterrupted \/ MakeOld \/ MoveOut \/ MoveIn \/ Commit
    \/ UndoRemove \/ UndoMove \/ Unstage \/ Unold \/ DropJournal
    \/ InitOk

\* The process runs on; a user who prepared a restore restarts the
\* application, as backup_page.dart tells them to; and a step that is tried at
\* start after start is not killed or refused every time.
FairSpec ==
    /\ Spec
    /\ WF_vars(Progress)
    /\ WF_vars(pc = "running" /\ journal # NoJournal /\ Crash)
    /\ SF_vars(BeginSwap) /\ SF_vars(UndoInterrupted)
    /\ SF_vars(AlreadyCommitted) /\ SF_vars(InitOk)
    /\ \A p \in Part :
          SF_vars(part = p /\ UndoRemove) /\ SF_vars(part = p /\ UndoMove)
    /\ SF_vars(Unstage) /\ SF_vars(Unold) /\ SF_vars(DropJournal)

\* Every prepared restore is decided: the journal goes away, with the backup in
\* place or given up.
RestoreDecided == journal # NoJournal ~> journal = NoJournal
=============================================================================
