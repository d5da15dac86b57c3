------------------------ MODULE BackupRestore_proofs ------------------------
(***************************************************************************)
(* Theorems about BackupRestore for every CreatesDirs, CrashIn and         *)
(* MaxRestores: its type invariant, and that the original directories      *)
(* survive until a restore is decided; and that the restore is atomic when *)
(* no crash hits the rollback of a committed restore or its end.           *)
(***************************************************************************)
EXTENDS BackupRestore, TLAPS
-----------------------------------------------------------------------------
(* The inductive invariant *)

\* A directory as it was when the journal was published.
Undone(p) == old[p] = None /\ active[p] = base[p]

\* On the way: it waits with its backup staged, is moved out, is replaced.
Waiting(p) == Undone(p) /\ stage[p] = Whole(restores)
Between(p) == /\ active[p] = None /\ old[p] = base[p]
              /\ stage[p] = Whole(restores)
Replaced(p) == /\ active[p] = Whole(restores) /\ old[p] = base[p]
               /\ stage[p] = None

\* Whatever became of it, it can be brought back.
Kept(p) ==
    IF base[p] = None THEN old[p] = None /\ (active[p] = None \/ stage[p] = None)
    ELSE old[p] = base[p] \/ Undone(p)

\* Which step knows which journal.
PhaseInv ==
    /\ journal.phase = "none" => journal.had = {}
    /\ pc \in {"stage", "publish", "init"} => journal.phase = "none"
    /\ pc \in {"mkold", "out", "in", "commit"} => journal.phase = "replacing"
    /\ pc = "undo" => journal.phase \in {"replacing", "committed"}
                      /\ \/ return = "down"
                         \/ return = "init" /\ journal.phase = "replacing"
    /\ pc \in {"unold", "drop"} => journal.phase \in {"replacing", "committed"}
                                   /\ return # "running"
    /\ pc = "init_restored" => journal.phase = "committed"
    /\ pc \in {"unold", "unstage", "drop"} /\ return = "finished" =>
          journal.phase = "committed"
    /\ pc = "unstage" /\ return = "running" => journal.phase = "none"
    /\ journal.phase = "prepared" => pc \in {"running", "down", "startup"}
    /\ pc = "running" => journal.phase \in {"none", "prepared"}
    /\ journal.phase # "none" => journal.had = {p \in Part : base[p] # None}

\* The stage is complete before it is published; .oim-restore-old is empty then.
StagedInv ==
    /\ \A p \in Part : "old" \in dirs \/ old[p] = None
    /\ pc \in {"out", "in", "commit"} => "old" \in dirs
    /\ pc \in {"stage", "publish"} => "old" \notin dirs
    /\ pc = "stage" /\ part = "config" => stage["data"] = Whole(restores)
    /\ pc = "publish" => \A p \in Part : stage[p] = Whole(restores)
    /\ journal.phase = "prepared" => \A p \in Part : Waiting(p)

\* The swap moves one directory after the other; the rollback likewise.
SwapInv ==
    /\ pc = "mkold" => part = "data" /\ \A p \in Part : Waiting(p)
    /\ pc \in {"out", "in"} =>
          /\ part = "data" => Waiting("config")
          /\ part = "config" => Replaced("data")
    /\ pc = "out" => Waiting(part)
    /\ pc = "in" => Between(part)
    /\ pc = "commit" => \A p \in Part : Replaced(p)
    /\ journal.phase = "replacing" =>
          /\ \A p \in Part : Kept(p)
          /\ pc \in {"unstage", "unold", "drop"} => \A p \in Part : Undone(p)
          /\ pc = "undo" /\ part = "config" => Undone("data")

\* Directories the mobile main created are there, but for a restore under way.
CreatedInv ==
    CreatesDirs =>
        /\ pc \in {"running", "stage", "publish", "startup", "init", "init_restored"}
              \/ (pc \in {"unstage", "unold", "drop"} /\ return # "down")
           => \A p \in Part : active[p] # None
        /\ journal.phase # "none" => \A p \in Part : base[p] # None

RestoreInv == PhaseInv /\ StagedInv /\ SwapInv /\ CreatedInv

\* No crash in the rollback of a committed restore, nor while it is finished.
EndsUndisturbed == CrashIn \cap {"abort", "finish"} = {}

\* A backup is newer than anything in use; a committed restore is in place, or
\* taken back, or final.
DecidedInv ==
    /\ \A p \in Part :
          /\ active[p].version <= restores /\ base[p].version <= restores
          /\ pc \in {"stage", "publish"} => active[p].version < restores
    /\ journal.phase # "none" => restores > 0
    /\ journal.phase = "committed" =>
          /\ pc \in {"down", "startup", "init_restored"} => \A p \in Part : Replaced(p)
          /\ return # "finished" \/ pc \in {"down", "startup", "init_restored"} =>
                \A p \in Part : Kept(p)
          /\ pc \in {"unstage", "unold", "drop"} /\ return # "finished" =>
                \A p \in Part : Undone(p)
          /\ pc = "undo" /\ part = "config" => Undone("data")
    /\ CreatesDirs /\ journal.phase = "none" => \A p \in Part : active[p] # None
-----------------------------------------------------------------------------
(* Types *)

LEMMA ContentIs ==
    /\ None \in Content /\ Torn \in Content /\ Blank \in Content
    /\ \A v \in 0 .. MaxRestores : Whole(v) \in Content
    /\ \A v : Whole(v) # None /\ Whole(v) # Torn /\ Whole(v) # Blank
    /\ \A v : Whole(v).version = v /\ Whole(v).is = "whole"
    /\ None # Torn /\ None # Blank /\ Torn # Blank
    /\ None.version = 0 /\ Torn.version = 0 /\ Blank.version = 0
  BY DEF Content, None, Torn, Blank, Whole

LEMMA ContentVersion == \A c \in Content : c.version \in Nat
  BY MaxRestoresAssumption DEF Content, None, Torn, Blank, Whole

LEMMA ContentWhole == \A c \in Content : c.is = "whole" => c = Whole(c.version)
  BY DEF Content, None, Torn, Blank, Whole

LEMMA RemovalsType == \A d \in Directory : Removals(d) \subseteq Directory
  BY ContentIs DEF Removals, Directory

LEMMA RemovalsOnly ==
    ASSUME NEW d \in Directory, NEW e \in Removals(d), NEW p \in Part, d[p] = None
    PROVE  e[p] = None
  <1>1. PICK q \in {x \in Part : d[x] # None}, c \in {Torn, None} : e = [d EXCEPT ![q] = c]
    BY DEF Removals
  <1>2. q # p
    BY <1>1
  <1>. QED  BY <1>1, <1>2 DEF Directory

LEMMA TypeInit == Init => TypeOK
  <1>1. 0 \in 0 .. MaxRestores
    BY MaxRestoresAssumption
  <1>. QED  BY <1>1, ContentIs DEF Init, TypeOK, Directory, Step, NoJournal, Part

LEMMA TypeNext == TypeOK /\ PhaseInv /\ [Next]_vars => TypeOK'
  <1>. SUFFICES ASSUME TypeOK, PhaseInv, [Next]_vars PROVE TypeOK'
    OBVIOUS
  <1>. USE DEF TypeOK, Step, Part, WriteJournal
  <1>1. CASE StageBegin
    BY <1>1, ContentIs, MaxRestoresAssumption DEF StageBegin, Directory
  <1>2. CASE StagePart
    BY <1>2, ContentIs DEF StagePart, Directory
  <1>3. CASE Publish
    BY <1>3 DEF Publish
  <1>4. CASE StageFails
    BY <1>4 DEF StageFails, disk
  <1>5. CASE Launch
    BY <1>5, ContentIs DEF Launch, Directory
  <1>6. CASE NothingPending
    BY <1>6 DEF NothingPending, disk
  <1>7. CASE AlreadyCommitted
    BY <1>7 DEF AlreadyCommitted, disk
  <1>8. CASE BeginSwap
    BY <1>8 DEF BeginSwap
  <1>9. CASE UndoInterrupted
    BY <1>9 DEF UndoInterrupted, disk
  <1>10. CASE MakeOld
    BY <1>10 DEF MakeOld
  <1>11. CASE MoveOut
    BY <1>11, ContentIs DEF MoveOut, Directory
  <1>12. CASE MoveIn
    BY <1>12, ContentIs DEF MoveIn, Directory
  <1>13. CASE Commit
    BY <1>13 DEF Commit
  <1>14. CASE SwapFails
    BY <1>14 DEF SwapFails
  <1>15. CASE UndoRemove
    BY <1>15, ContentIs DEF UndoRemove, Directory
  <1>16. CASE UndoMove
    BY <1>16, ContentIs DEF UndoMove, Directory
  <1>17. CASE Unstage
    <2>1. stage' \in Directory /\ dirs' \subseteq {"old", "stage"}
      BY <1>17, RemovalsType DEF Unstage
    <2>2. pc' \in Step
      BY <1>17 DEF Unstage, PhaseInv, NoJournal
    <2>. QED  BY <1>17, <2>1, <2>2 DEF Unstage
  <1>18. CASE Unold
    BY <1>18, RemovalsType DEF Unold
  <1>19. CASE DropJournal
    BY <1>19 DEF DropJournal, NoJournal
  <1>20. CASE InitOk
    BY <1>20, ContentIs DEF InitOk, FinishBegins, Directory
  <1>21. CASE InitFails
    BY <1>21 DEF InitFails, disk
  <1>22. CASE Crash
    BY <1>22 DEF Crash, disk
  <1>23. CASE UNCHANGED vars
    BY <1>23 DEF vars
  <1>. QED
    BY <1>1, <1>2, <1>3, <1>4, <1>5, <1>6, <1>7, <1>8, <1>9, <1>10, <1>11, <1>12,
       <1>13, <1>14, <1>15, <1>16, <1>17, <1>18, <1>19, <1>20, <1>21, <1>22, <1>23
       DEF Next

-----------------------------------------------------------------------------
(* The invariant is kept *)

LEMMA InvInit == Init => RestoreInv
  <1>. SUFFICES ASSUME Init PROVE RestoreInv
    OBVIOUS
  <1>. USE ContentIs DEF Init, NoJournal, Part
  <1>1. PhaseInv
    BY DEF PhaseInv
  <1>2. StagedInv
    BY DEF StagedInv
  <1>3. SwapInv
    BY DEF SwapInv
  <1>4. CreatedInv
    BY DEF CreatedInv
  <1>. QED  BY <1>1, <1>2, <1>3, <1>4 DEF RestoreInv

LEMMA PhaseNext == TypeOK /\ RestoreInv /\ [Next]_vars => PhaseInv'
  <1>. SUFFICES ASSUME TypeOK, PhaseInv, StagedInv, [Next]_vars PROVE PhaseInv'
    BY DEF RestoreInv
  <1>. USE DEF TypeOK, PhaseInv, Reads, WriteJournal, NoJournal
  <1>1. CASE StageBegin
    BY <1>1 DEF StageBegin
  <1>2. CASE StagePart
    BY <1>2 DEF StagePart
  <1>3. CASE Publish
    BY <1>3 DEF Publish
  <1>4. CASE StageFails
    BY <1>4 DEF StageFails, disk
  <1>5. CASE Launch
    BY <1>5 DEF Launch
  <1>6. CASE NothingPending
    BY <1>6 DEF NothingPending, disk
  <1>7. CASE AlreadyCommitted
    BY <1>7 DEF AlreadyCommitted, disk
  <1>8. CASE BeginSwap
    BY <1>8, ContentIs DEF BeginSwap, StageComplete, StagedInv, Waiting
  <1>9. CASE UndoInterrupted
    BY <1>9 DEF UndoInterrupted, disk
  <1>10. CASE MakeOld
    BY <1>10 DEF MakeOld
  <1>11. CASE MoveOut
    BY <1>11 DEF MoveOut
  <1>12. CASE MoveIn
    BY <1>12 DEF MoveIn
  <1>13. CASE Commit
    BY <1>13 DEF Commit
  <1>14. CASE SwapFails
    BY <1>14 DEF SwapFails
  <1>15. CASE UndoRemove
    BY <1>15 DEF UndoRemove
  <1>16. CASE UndoMove
    BY <1>16 DEF UndoMove
  <1>17. CASE Unstage
    BY <1>17 DEF Unstage
  <1>18. CASE Unold
    BY <1>18 DEF Unold
  <1>19. CASE DropJournal
    BY <1>19 DEF DropJournal
  <1>20. CASE InitOk
    BY <1>20 DEF InitOk, FinishBegins
  <1>21. CASE InitFails
    BY <1>21 DEF InitFails, disk
  <1>22. CASE Crash
    BY <1>22 DEF Crash, disk
  <1>23. CASE UNCHANGED vars
    BY <1>23 DEF vars
  <1>. QED
    BY <1>1, <1>2, <1>3, <1>4, <1>5, <1>6, <1>7, <1>8, <1>9, <1>10, <1>11, <1>12,
       <1>13, <1>14, <1>15, <1>16, <1>17, <1>18, <1>19, <1>20, <1>21, <1>22, <1>23
       DEF Next

\* The rollback of one directory: clear what took its place, move it back.
LEMMA UndoRemoveIs ==
    ASSUME TypeOK, PhaseInv, UndoRemove
    PROVE  /\ \A p \in Part \ {part} : active'[p] = active[p]
           /\ old' = old /\ stage' = stage /\ base' = base /\ restores' = restores
           /\ journal' = journal /\ pc' = "undo" /\ pc = "undo" /\ part' = part
           /\ return' = return /\ dirs' = dirs /\ active'[part] \in {Torn, None}
           /\ Kept(part) => Kept(part)'
  <1>1. /\ old[part] # None \/ (base[part] = None /\ stage[part] = None)
        /\ \A p \in Part \ {part} : active'[p] = active[p]
        /\ old' = old /\ stage' = stage /\ base' = base /\ restores' = restores
        /\ journal' = journal /\ pc' = "undo" /\ pc = "undo" /\ part' = part
        /\ return' = return /\ dirs' = dirs /\ active'[part] \in {Torn, None}
    BY DEF UndoRemove, IsSurplus, TypeOK, Directory, PhaseInv
  <1>2. Kept(part) => Kept(part)'
    BY <1>1 DEF Kept, Undone
  <1>. QED  BY <1>1, <1>2

LEMMA UndoMoveIs ==
    ASSUME TypeOK, PhaseInv, UndoMove
    PROVE  /\ \A p \in Part \ {part} : active'[p] = active[p] /\ old'[p] = old[p]
           /\ old'[part] = None
           /\ stage' = stage /\ base' = base /\ restores' = restores
           /\ journal' = journal /\ pc = "undo" /\ return' = return /\ dirs' = dirs
           /\ IF part = "data" THEN part' = "config" /\ pc' = "undo"
              ELSE part' = "data" /\ pc' = "unstage"
           /\ Kept(part) => active'[part] = base[part]
  <1>1. /\ \/ active[part] = None
           \/ old[part] = None /\ (base[part] = None => stage[part] # None)
        /\ \A p \in Part \ {part} : active'[p] = active[p] /\ old'[p] = old[p]
        /\ old'[part] = None
        /\ active'[part] = IF old[part] # None THEN old[part] ELSE active[part]
        /\ stage' = stage /\ base' = base /\ restores' = restores
        /\ journal' = journal /\ pc = "undo" /\ return' = return /\ dirs' = dirs
        /\ IF part = "data" THEN part' = "config" /\ pc' = "undo"
           ELSE part' = "data" /\ pc' = "unstage"
    BY DEF UndoMove, IsSurplus, TypeOK, Directory, PhaseInv
  <1>2. ASSUME Kept(part) PROVE active'[part] = base[part]
    BY <1>1, <1>2 DEF Kept, Undone
  <1>. QED  BY <1>1, <1>2

LEMMA StagedNext == TypeOK /\ RestoreInv /\ [Next]_vars => StagedInv'
  <1>. SUFFICES ASSUME TypeOK, PhaseInv, StagedInv, SwapInv, CreatedInv, [Next]_vars PROVE StagedInv'
    BY DEF RestoreInv
  <1>. USE DEF TypeOK, PhaseInv, StagedInv, Waiting, Undone, Reads, WriteJournal, NoJournal, Part, Directory
  <1>1. CASE StageBegin
    BY <1>1, ContentIs DEF StageBegin
  <1>2. CASE StagePart
    BY <1>2, ContentIs DEF StagePart
  <1>3. CASE Publish
    BY <1>3, ContentIs DEF Publish
  <1>4. CASE StageFails
    BY <1>4, ContentIs DEF StageFails, disk
  <1>5. CASE Launch
    BY <1>5, ContentIs DEF Launch, CreatedInv
  <1>6. CASE NothingPending
    BY <1>6, ContentIs DEF NothingPending, disk
  <1>7. CASE AlreadyCommitted
    BY <1>7, ContentIs DEF AlreadyCommitted, disk
  <1>8. CASE BeginSwap
    BY <1>8, ContentIs DEF BeginSwap, StageComplete
  <1>9. CASE UndoInterrupted
    BY <1>9, ContentIs DEF UndoInterrupted, disk
  <1>10. CASE MakeOld
    BY <1>10, ContentIs DEF MakeOld
  <1>11. CASE MoveOut
    BY <1>11, ContentIs DEF MoveOut
  <1>12. CASE MoveIn
    BY <1>12, ContentIs DEF MoveIn
  <1>13. CASE Commit
    BY <1>13, ContentIs DEF Commit
  <1>14. CASE SwapFails
    BY <1>14, ContentIs DEF SwapFails
  <1>15. CASE UndoRemove
    BY <1>15, ContentIs DEF UndoRemove
  <1>16. CASE UndoMove
    BY <1>16, ContentIs DEF UndoMove
  <1>17. CASE Unstage
    BY <1>17, ContentIs DEF Unstage
  <1>18. CASE Unold
    <2>1. \A p \in Part : old[p] = None => old'[p] = None
      BY <1>18, RemovalsOnly DEF Unold
    <2>. QED  BY <1>18, <2>1, ContentIs DEF Unold
  <1>19. CASE DropJournal
    BY <1>19, ContentIs DEF DropJournal
  <1>20. CASE InitOk
    BY <1>20, ContentIs DEF InitOk, FinishBegins
  <1>21. CASE InitFails
    BY <1>21, ContentIs DEF InitFails, disk
  <1>22. CASE Crash
    BY <1>22, ContentIs DEF Crash, disk
  <1>23. CASE UNCHANGED vars
    BY <1>23 DEF vars
  <1>. QED
    BY <1>1, <1>2, <1>3, <1>4, <1>5, <1>6, <1>7, <1>8, <1>9, <1>10, <1>11, <1>12,
       <1>13, <1>14, <1>15, <1>16, <1>17, <1>18, <1>19, <1>20, <1>21, <1>22, <1>23
       DEF Next

LEMMA SwapNext == TypeOK /\ RestoreInv /\ [Next]_vars => SwapInv'
  <1>. SUFFICES ASSUME TypeOK, PhaseInv, StagedInv, SwapInv, CreatedInv, [Next]_vars PROVE SwapInv'
    BY DEF RestoreInv
  <1>. USE DEF TypeOK, PhaseInv, StagedInv, SwapInv, CreatedInv, Waiting, Between, Replaced, Undone, Kept, Reads, WriteJournal, NoJournal, Part, Directory
  <1>1. CASE StageBegin
    BY <1>1, ContentIs DEF StageBegin
  <1>2. CASE StagePart
    BY <1>2, ContentIs DEF StagePart
  <1>3. CASE Publish
    BY <1>3, ContentIs DEF Publish
  <1>4. CASE StageFails
    BY <1>4, ContentIs DEF StageFails, disk
  <1>5. CASE Launch
    BY <1>5, ContentIs DEF Launch
  <1>6. CASE NothingPending
    BY <1>6, ContentIs DEF NothingPending, disk
  <1>7. CASE AlreadyCommitted
    BY <1>7, ContentIs DEF AlreadyCommitted, disk
  <1>8. CASE BeginSwap
    BY <1>8, ContentIs DEF BeginSwap, StageComplete
  <1>9. CASE UndoInterrupted
    BY <1>9, ContentIs DEF UndoInterrupted, disk
  <1>10. CASE MakeOld
    BY <1>10, ContentIs DEF MakeOld
  <1>11. CASE MoveOut
    BY <1>11, ContentIs DEF MoveOut
  <1>12. CASE MoveIn
    BY <1>12, ContentIs DEF MoveIn
  <1>13. CASE Commit
    BY <1>13, ContentIs DEF Commit
  <1>14. CASE SwapFails
    BY <1>14, ContentIs DEF SwapFails
  <1>15. CASE UndoRemove
    <2>1. /\ \A p \in Part \ {part} : active'[p] = active[p]
          /\ old' = old /\ stage' = stage /\ base' = base /\ restores' = restores
          /\ journal' = journal /\ pc' = "undo" /\ pc = "undo" /\ part' = part
      BY <1>15, UndoRemoveIs
    <2>2. journal.phase = "replacing" => \A p \in Part : Kept(p)'
      <3>1. journal.phase = "replacing" => Kept(part)'
        BY <1>15, UndoRemoveIs
      <3>. QED  BY <2>1, <3>1
    <2>. QED  BY <2>1, <2>2, ContentIs
  <1>16. CASE UndoMove
    <2>1. /\ \A p \in Part \ {part} : active'[p] = active[p] /\ old'[p] = old[p]
          /\ old'[part] = None
          /\ stage' = stage /\ base' = base /\ restores' = restores
          /\ journal' = journal /\ pc = "undo" /\ return' = return
          /\ IF part = "data" THEN part' = "config" /\ pc' = "undo"
             ELSE part' = "data" /\ pc' = "unstage"
      BY <1>16, UndoMoveIs
    <2>2. journal.phase = "replacing" => active'[part] = base[part]
      BY <1>16, UndoMoveIs
    <2>. QED  BY <2>1, <2>2, ContentIs
  <1>17. CASE Unstage
    BY <1>17, ContentIs DEF Unstage
  <1>18. CASE Unold
    <2>1. \A p \in Part : old[p] = None => old'[p] = None
      BY <1>18, RemovalsOnly DEF Unold
    <2>. QED  BY <1>18, <2>1, ContentIs DEF Unold
  <1>19. CASE DropJournal
    BY <1>19, ContentIs DEF DropJournal
  <1>20. CASE InitOk
    BY <1>20, ContentIs DEF InitOk, FinishBegins
  <1>21. CASE InitFails
    BY <1>21, ContentIs DEF InitFails, disk
  <1>22. CASE Crash
    BY <1>22, ContentIs DEF Crash, disk
  <1>23. CASE UNCHANGED vars
    BY <1>23 DEF vars
  <1>. QED
    BY <1>1, <1>2, <1>3, <1>4, <1>5, <1>6, <1>7, <1>8, <1>9, <1>10, <1>11, <1>12,
       <1>13, <1>14, <1>15, <1>16, <1>17, <1>18, <1>19, <1>20, <1>21, <1>22, <1>23
       DEF Next

LEMMA CreatedNext == TypeOK /\ RestoreInv /\ [Next]_vars => CreatedInv'
  <1>. SUFFICES ASSUME TypeOK, PhaseInv, StagedInv, SwapInv, CreatedInv, [Next]_vars PROVE CreatedInv'
    BY DEF RestoreInv
  <1>. USE DEF TypeOK, PhaseInv, StagedInv, SwapInv, CreatedInv, Waiting, Between, Replaced, Undone, Kept, Reads, WriteJournal, NoJournal, Part, Directory
  <1>1. CASE StageBegin
    BY <1>1, ContentIs DEF StageBegin
  <1>2. CASE StagePart
    BY <1>2, ContentIs DEF StagePart
  <1>3. CASE Publish
    BY <1>3, ContentIs DEF Publish
  <1>4. CASE StageFails
    BY <1>4, ContentIs DEF StageFails, disk
  <1>5. CASE Launch
    BY <1>5, ContentIs DEF Launch
  <1>6. CASE NothingPending
    BY <1>6, ContentIs DEF NothingPending, disk
  <1>7. CASE AlreadyCommitted
    BY <1>7, ContentIs DEF AlreadyCommitted, disk
  <1>8. CASE BeginSwap
    BY <1>8, ContentIs DEF BeginSwap, StageComplete
  <1>9. CASE UndoInterrupted
    BY <1>9, ContentIs DEF UndoInterrupted, disk
  <1>10. CASE MakeOld
    BY <1>10, ContentIs DEF MakeOld
  <1>11. CASE MoveOut
    BY <1>11, ContentIs DEF MoveOut
  <1>12. CASE MoveIn
    BY <1>12, ContentIs DEF MoveIn
  <1>13. CASE Commit
    BY <1>13, ContentIs DEF Commit
  <1>14. CASE SwapFails
    BY <1>14, ContentIs DEF SwapFails
  <1>15. CASE UndoRemove
    BY <1>15, ContentIs DEF UndoRemove
  <1>16. CASE UndoMove
    <2>1. /\ \A p \in Part \ {part} : active'[p] = active[p] /\ old'[p] = old[p]
          /\ old'[part] = None
          /\ stage' = stage /\ base' = base /\ restores' = restores
          /\ journal' = journal /\ pc = "undo" /\ return' = return
          /\ IF part = "data" THEN part' = "config" /\ pc' = "undo"
             ELSE part' = "data" /\ pc' = "unstage"
      BY <1>16, UndoMoveIs
    <2>2. journal.phase = "replacing" => active'[part] = base[part]
      BY <1>16, UndoMoveIs
    <2>. QED  BY <2>1, <2>2, ContentIs
  <1>17. CASE Unstage
    BY <1>17, ContentIs DEF Unstage
  <1>18. CASE Unold
    BY <1>18, ContentIs DEF Unold
  <1>19. CASE DropJournal
    BY <1>19, ContentIs DEF DropJournal
  <1>20. CASE InitOk
    BY <1>20, ContentIs DEF InitOk, FinishBegins
  <1>21. CASE InitFails
    BY <1>21, ContentIs DEF InitFails, disk
  <1>22. CASE Crash
    BY <1>22, ContentIs DEF Crash, disk
  <1>23. CASE UNCHANGED vars
    BY <1>23 DEF vars
  <1>. QED
    BY <1>1, <1>2, <1>3, <1>4, <1>5, <1>6, <1>7, <1>8, <1>9, <1>10, <1>11, <1>12,
       <1>13, <1>14, <1>15, <1>16, <1>17, <1>18, <1>19, <1>20, <1>21, <1>22, <1>23
       DEF Next

\* Each directory the user had can be found, or brought back, whatever step the
\* process died in; a published stage is complete.
THEOREM RestoreInvariant == Spec => [](TypeOK /\ RestoreInv)
  <1>1. Init => TypeOK /\ RestoreInv
    BY TypeInit, InvInit
  <1>2. TypeOK /\ RestoreInv /\ [Next]_vars => (TypeOK /\ RestoreInv)'
    BY TypeNext, PhaseNext, StagedNext, SwapNext, CreatedNext DEF RestoreInv
  <1>. QED  BY <1>1, <1>2, PTL DEF Spec

\* The two directories, the places they are moved to, the journal and the next
\* step keep their shapes through every crash.
THEOREM TypeCorrect == Spec => []TypeOK
  BY RestoreInvariant, PTL

\* applyPendingRestore can always roll back: until the restore is committed each
\* of the user's directories is in one of its two places.
THEOREM OriginalNotLost == Spec => []OriginalKept
  <1>1. TypeOK /\ RestoreInv => OriginalKept
    BY DEF OriginalKept, RestoreInv, StagedInv, SwapInv, Kept, Waiting, Undone
  <1>. QED  BY <1>1, RestoreInvariant, PTL

\* stageRestore publishes the journal last: a restore that startup takes up is
\* staged completely.
THEOREM StagedBeforePublished == Spec => []PublishedComplete
  <1>1. TypeOK /\ RestoreInv => PublishedComplete
    BY DEF PublishedComplete, RestoreInv, StagedInv, Waiting, AllOf, TypeOK, Directory
  <1>. QED  BY <1>1, RestoreInvariant, PTL
-----------------------------------------------------------------------------
(* All or nothing *)

LEMMA DecidedInit == Init => DecidedInv
  <1>. SUFFICES ASSUME Init PROVE DecidedInv
    OBVIOUS
  <1>1. \A p \in Part : active[p] \in {Whole(0), None}
    BY DEF Init
  <1>2. \A p \in Part : active[p].version = 0 /\ base[p].version = 0
    BY <1>1, ContentIs DEF Init
  <1>3. CreatesDirs => \A p \in Part : active[p] # None
    BY ContentIs DEF Init, Part
  <1>. QED  BY <1>2, <1>3 DEF DecidedInv, Init, NoJournal

LEMMA DecidedNext ==
    ASSUME EndsUndisturbed, TypeOK, RestoreInv, DecidedInv, [Next]_vars
    PROVE  DecidedInv'
  <1>0. PhaseInv /\ StagedInv /\ SwapInv /\ CreatedInv
    BY DEF RestoreInv
  <1>. USE <1>0 DEF TypeOK, PhaseInv, DecidedInv, Waiting, Between, Replaced, Undone, Kept, Reads, WriteJournal, NoJournal, Part, Directory
  <1>1. CASE StageBegin
    BY <1>1, ContentIs, ContentVersion DEF StageBegin
  <1>2. CASE StagePart
    BY <1>2, ContentIs, ContentVersion DEF StagePart
  <1>3. CASE Publish
    BY <1>3, ContentIs, ContentVersion DEF Publish
  <1>4. CASE StageFails
    BY <1>4, ContentIs, ContentVersion DEF StageFails, disk
  <1>5. CASE Launch
    BY <1>5, ContentIs DEF Launch, CreatedInv
  <1>6. CASE NothingPending
    BY <1>6, ContentIs, ContentVersion DEF NothingPending, disk
  <1>7. CASE AlreadyCommitted
    BY <1>7, ContentIs, ContentVersion DEF AlreadyCommitted, disk
  <1>8. CASE BeginSwap
    BY <1>8, ContentIs, ContentVersion DEF BeginSwap, StageComplete
  <1>9. CASE UndoInterrupted
    BY <1>9, ContentIs, ContentVersion DEF UndoInterrupted, disk
  <1>10. CASE MakeOld
    BY <1>10, ContentIs, ContentVersion DEF MakeOld
  <1>11. CASE MoveOut
    BY <1>11, ContentIs, ContentVersion DEF MoveOut
  <1>12. CASE MoveIn
    BY <1>12, ContentIs DEF MoveIn, SwapInv
  <1>13. CASE Commit
    BY <1>13 DEF Commit, SwapInv
  <1>14. CASE SwapFails
    BY <1>14 DEF SwapFails, SwapInv
  <1>15. CASE UndoRemove
    <2>1. /\ \A p \in Part \ {part} : active'[p] = active[p]
          /\ old' = old /\ stage' = stage /\ base' = base /\ restores' = restores
          /\ journal' = journal /\ pc' = "undo" /\ pc = "undo" /\ part' = part
          /\ return' = return /\ active'[part] \in {Torn, None}
      BY <1>15, UndoRemoveIs
    <2>2. journal.phase = "committed" => \A p \in Part : Kept(p)'
      <3>1. journal.phase = "committed" => Kept(part)'
        BY <1>15, UndoRemoveIs
      <3>. QED  BY <2>1, <3>1
    <2>3. \A p \in Part : active'[p].version <= restores
      BY <2>1, ContentIs
    <2>. QED  BY <2>1, <2>2, <2>3
  <1>16. CASE UndoMove
    <2>1. /\ \A p \in Part \ {part} : active'[p] = active[p] /\ old'[p] = old[p]
          /\ old'[part] = None
          /\ stage' = stage /\ base' = base /\ restores' = restores
          /\ journal' = journal /\ pc = "undo" /\ return' = return
          /\ IF part = "data" THEN part' = "config" /\ pc' = "undo"
             ELSE part' = "data" /\ pc' = "unstage"
      BY <1>16, UndoMoveIs
    <2>2. active'[part] = base[part]
      <3>1. Kept(part)
        BY <1>0, <2>1 DEF SwapInv
      <3>. QED  BY <1>16, <3>1, UndoMoveIs
    <2>3. \A p \in Part : active'[p].version <= restores
      BY <2>1, <2>2
    <2>. QED  BY <2>1, <2>2, <2>3
  <1>17. CASE Unstage
    BY <1>17, ContentIs, ContentVersion DEF Unstage
  <1>18. CASE Unold
    <2>1. \A p \in Part : old[p] = None => old'[p] = None
      BY <1>18, RemovalsOnly DEF Unold
    <2>. QED  BY <1>18, <2>1, ContentIs DEF Unold
  <1>19. CASE DropJournal
    <2>1. /\ active' = active /\ base' = base /\ restores' = restores
          /\ journal'.phase = "none" /\ pc = "drop" /\ pc' \notin {"stage", "publish"}
      BY <1>19 DEF DropJournal
    <2>2. CreatesDirs => \A p \in Part : active[p] # None
      <3>1. CASE return = "finished"
        BY <2>1, <3>1 DEF CreatedInv
      <3>2. CASE return # "finished"
        <4>1. \A p \in Part : Undone(p)
          BY <2>1, <3>2 DEF SwapInv
        <4>2. journal.phase # "none"
          BY <2>1
        <4>. QED  BY <4>1, <4>2 DEF CreatedInv
      <3>. QED  BY <3>1, <3>2
    <2>3. \A p \in Part : active'[p].version <= restores' /\ base'[p].version <= restores'
      BY <2>1
    <2>4. CreatesDirs => \A p \in Part : active'[p] # None
      BY <2>1, <2>2
    <2>5. journal'.phase # "none" => restores' > 0
      BY <2>1
    <2>6. journal'.phase = "committed" => FALSE
      BY <2>1
    <2>7. \A p \in Part : pc' \in {"stage", "publish"} => active'[p].version < restores'
      BY <2>1
    <2>. QED  BY ONLY <2>3, <2>4, <2>5, <2>6, <2>7 DEF DecidedInv
  <1>20. CASE InitOk
    BY <1>20, ContentIs, ContentVersion DEF InitOk, FinishBegins
  <1>21. CASE InitFails
    BY <1>21, ContentIs, ContentVersion DEF InitFails, disk
  <1>22. CASE Crash
    <2>1. pc' = "down" /\ UNCHANGED <<disk, part, return, restores, base>>
      BY <1>22 DEF Crash
    <2>2. journal.phase = "committed" => pc \in {"startup", "init_restored"}
      <3>. SUFFICES ASSUME journal.phase = "committed",
                           pc \notin {"startup", "init_restored"}
                    PROVE  FALSE
        OBVIOUS
      <3>1. pc \in {"undo", "unstage", "unold", "drop"} /\ return # "running"
        BY <1>22 DEF Crash, Step
      <3>2. Activity \in {"abort", "finish"}
        BY <3>1 DEF Activity
      <3>. QED  BY <1>22, <3>2 DEF Crash, EndsUndisturbed
    <2>. QED  BY <2>1, <2>2 DEF disk
  <1>23. CASE UNCHANGED vars
    BY <1>23 DEF vars
  <1>. QED
    BY <1>1, <1>2, <1>3, <1>4, <1>5, <1>6, <1>7, <1>8, <1>9, <1>10, <1>11, <1>12,
       <1>13, <1>14, <1>15, <1>16, <1>17, <1>18, <1>19, <1>20, <1>21, <1>22, <1>23
       DEF Next

\* The atomic view of a state: what is in use, and what is prepared.
Shown == VersionOf(Profile)
Prepared == IF Undecided THEN restores ELSE 0

LEMMA JournalIs ==
    ASSUME TypeOK, PhaseInv
    PROVE  journal = NoJournal <=> journal.phase = "none"
  BY DEF TypeOK, PhaseInv, NoJournal

\* A restore that stays undecided stays the same, on the same profile.
LEMMA UndecidedKeeps ==
    ASSUME TypeOK, RestoreInv, [Next]_vars, Undecided, Undecided'
    PROVE  base' = base /\ restores' = restores
  <1>0. PhaseInv /\ journal.phase # "none"
    BY JournalIs DEF RestoreInv, Undecided
  <1>1. ~StageBegin /\ ~Publish
    BY <1>0 DEF PhaseInv, StageBegin, Publish, NoJournal
  <1>. QED
    BY <1>1 DEF Next, StagePart, StageFails, Launch, NothingPending,
       AlreadyCommitted, BeginSwap, UndoInterrupted, MakeOld, MoveOut, MoveIn,
       Commit, SwapFails, UndoRemove, UndoMove, Unstage, Unold, DropJournal,
       InitOk, InitFails, Crash, vars

\* Without one under way the profile in use changes in no way that shows.
LEMMA DecidedKeeps ==
    ASSUME TypeOK, RestoreInv, DecidedInv, [Next]_vars, ~Undecided
    PROVE  VersionOf(active') = VersionOf(active)
  <1>0. PhaseInv
    BY DEF RestoreInv
  <1>1. journal.phase = "none" \/ Finishing
    BY <1>0, JournalIs DEF Undecided
  <1>2. ~MoveOut /\ ~MoveIn /\ ~UndoRemove /\ ~UndoMove
    BY <1>0, <1>1 DEF PhaseInv, Finishing, MoveOut, MoveIn, UndoRemove, UndoMove
  <1>3. CASE Launch
    <2>1. CreatesDirs => \A p \in Part : active[p] # None
      BY <1>1, <1>3 DEF Launch, Finishing, DecidedInv
    <2>2. active' = active
      BY <1>3, <2>1 DEF Launch, TypeOK, Directory
    <2>. QED  BY <2>2
  <1>4. CASE InitOk
    <2>1. active'["config"] = active["config"]
      BY <1>4 DEF InitOk, TypeOK, Directory, Part
    <2>2. active'["data"] = (IF active["data"] = Torn THEN Blank ELSE active["data"])
      BY <1>4 DEF InitOk, TypeOK, Directory, Part
    <2>3. Torn.is # "whole" /\ Blank.is # "whole"
      BY DEF Torn, Blank
    <2>. QED  BY <2>1, <2>2, <2>3 DEF VersionOf
  <1>5. CASE ~Launch /\ ~InitOk
    <2>1. active' = active
      BY <1>2, <1>5 DEF Next, StageBegin, StagePart, Publish, StageFails,
         NothingPending, AlreadyCommitted, BeginSwap, UndoInterrupted, MakeOld,
         Commit, SwapFails, Unstage, Unold, DropJournal, InitFails, Crash,
         vars, disk
    <2>. QED  BY <2>1
  <1>. QED  BY <1>3, <1>4, <1>5

\* One comes to be only when stageRestore publishes it.
LEMMA OnlyPublishPrepares ==
    ASSUME EndsUndisturbed, TypeOK, RestoreInv, [Next]_vars, ~Undecided, Undecided'
    PROVE  Publish
  <1>0. PhaseInv
    BY DEF RestoreInv
  <1>1. journal.phase = "none" \/ Finishing
    BY <1>0, JournalIs DEF Undecided
  <1>2. CASE journal = NoJournal
    <2>1. ~BeginSwap /\ ~Commit /\ ~SwapFails
      BY <1>0, <1>2 DEF PhaseInv, BeginSwap, Commit, SwapFails, Reads, NoJournal
    <2>2. journal' # journal
      BY <1>2 DEF Undecided
    <2>. QED
      BY <1>2, <2>1, <2>2 DEF Next, StageBegin, StagePart, StageFails, Launch,
         NothingPending, AlreadyCommitted, UndoInterrupted, MakeOld, MoveOut,
         MoveIn, UndoRemove, UndoMove, Unstage, Unold, DropJournal, InitOk,
         InitFails, Crash, vars, disk
  <1>3. CASE journal # NoJournal
    <2>1. Finishing
      BY <1>3 DEF Undecided
    <2>2. ~Finishing' /\ journal' # NoJournal
      BY DEF Undecided
    <2>3. ~Crash
      BY <2>1 DEF Crash, Activity, Finishing, EndsUndisturbed
    <2>4. Unold \/ Unstage \/ DropJournal \/ UNCHANGED vars
      BY <2>1, <2>3 DEF Finishing, Next, StageBegin, StagePart, Publish,
         StageFails, Launch, NothingPending, AlreadyCommitted, BeginSwap,
         UndoInterrupted, MakeOld, MoveOut, MoveIn, Commit, SwapFails,
         UndoRemove, UndoMove, InitOk, InitFails
    <2>. QED
      BY <1>3, <2>1, <2>2, <2>4 DEF Finishing, Unold, Unstage, DropJournal, vars
  <1>. QED  BY <1>2, <1>3

\* It ends only where the restored profile opened, or its journal is dropped.
LEMMA OnlyTwoDecide ==
    ASSUME TypeOK, RestoreInv, [Next]_vars, Undecided, ~Undecided'
    PROVE  \/ pc = "init_restored" /\ InitOk
           \/ return # "finished" /\ DropJournal
  <1>0. PhaseInv /\ journal.phase # "none" /\ ~Finishing
    BY JournalIs DEF RestoreInv, Undecided
  <1>1. CASE DropJournal
    BY <1>0, <1>1 DEF DropJournal, Finishing
  <1>2. CASE InitOk
    BY <1>0, <1>2 DEF InitOk, PhaseInv
  <1>3. CASE ~DropJournal /\ ~InitOk
    <2>1. ~StageBegin /\ ~StagePart /\ ~Publish /\ ~StageFails /\ ~NothingPending
      BY <1>0 DEF PhaseInv, StageBegin, StagePart, Publish, StageFails,
         NothingPending, NoJournal
    <2>2. journal'.phase # "none"
      BY <1>0, <1>3, <2>1 DEF Next, WriteJournal, Launch, AlreadyCommitted,
         BeginSwap, UndoInterrupted, MakeOld, MoveOut, MoveIn, Commit, SwapFails,
         UndoRemove, UndoMove, Unstage, Unold, InitFails, Crash, vars, disk
    <2>3. Finishing'
      BY <2>2 DEF Undecided, NoJournal
    <2>4. CASE UndoMove
      BY <1>0, <2>3, <2>4 DEF UndoMove, PhaseInv, Finishing
    <2>5. CASE Unstage \/ Unold \/ UNCHANGED vars
      BY <1>0, <2>3, <2>5 DEF Unstage, Unold, Finishing, vars
    <2>6. CASE ~UndoMove /\ ~Unstage /\ ~Unold /\ ~UNCHANGED vars
      BY <1>3, <2>1, <2>3, <2>6 DEF Next, Finishing, Launch, AlreadyCommitted,
         BeginSwap, UndoInterrupted, MakeOld, MoveOut, MoveIn, Commit, SwapFails,
         UndoRemove, InitFails, Crash
    <2>. QED  BY <2>4, <2>5, <2>6
  <1>. QED  BY <1>1, <1>2, <1>3

LEMMA ViewNext ==
    ASSUME EndsUndisturbed, TypeOK, RestoreInv, DecidedInv, [Next]_vars
    PROVE  [Atomic!Next]_<<Shown, Prepared>>
  <1>0. PhaseInv /\ SwapInv
    BY DEF RestoreInv
  <1>1. CASE Undecided /\ Undecided'
    <2>1. base' = base /\ restores' = restores
      BY <1>1, UndecidedKeeps
    <2>. QED  BY <1>1, <2>1 DEF Shown, Prepared, Profile
  <1>2. CASE ~Undecided /\ ~Undecided'
    <2>1. VersionOf(active') = VersionOf(active)
      BY <1>2, DecidedKeeps
    <2>2. Shown' = Shown
      BY <1>2, <2>1 DEF Shown, Profile, VersionOf
    <2>. QED  BY <1>2, <2>2 DEF Prepared
  <1>3. CASE ~Undecided /\ Undecided'
    <2>1. Publish
      BY <1>3, OnlyPublishPrepares
    <2>2. base' = active /\ restores' = restores /\ pc = "publish"
      BY <2>1 DEF Publish
    <2>3. /\ Shown = VersionOf(active) /\ Shown' = VersionOf(active)
          /\ Prepared = 0 /\ Prepared' = restores
      BY <1>3, <2>2 DEF Shown, Prepared, Profile, VersionOf
    <2>4. active["data"].version < restores /\ active["data"].version \in Nat
      BY <2>2, ContentVersion DEF DecidedInv, TypeOK, Directory, Part
    <2>5. restores \in 1 .. MaxRestores
      BY <2>4, MaxRestoresAssumption DEF TypeOK
    <2>6. restores # VersionOf(active)
      BY <2>4, <2>5, MaxRestoresAssumption DEF VersionOf, Mixed
    <2>7. Atomic!Prepare
      BY <2>3, <2>5, <2>6 DEF Atomic!Prepare, Shown, Prepared
    <2>. QED  BY <2>7 DEF Atomic!Next
  <1>4. CASE Undecided /\ ~Undecided'
    <2>1. journal.phase # "none" /\ restores > 0
      BY <1>0, <1>4, JournalIs DEF Undecided, DecidedInv
    <2>2. /\ Shown = VersionOf(base) /\ Prepared = restores
          /\ Shown' = VersionOf(active') /\ Prepared' = 0
      BY <1>4 DEF Shown, Prepared, Profile, VersionOf
    <2>3. CASE pc = "init_restored" /\ InitOk
      <3>1. \A p \in Part : active[p] = Whole(restores)
        BY <1>0, <2>3 DEF PhaseInv, DecidedInv, Replaced
      <3>2. active["data"] # Torn /\ active["data"].is = "whole"
            /\ active["data"].version = restores
            /\ active["config"] = active["data"]
        BY <3>1, ContentIs DEF Part
      <3>3. active' = active
        BY <2>3, <3>2 DEF InitOk, TypeOK, Directory, Part
      <3>4. Shown' = restores
        BY <2>2, <3>2, <3>3 DEF VersionOf
      <3>5. Atomic!Switch
        BY <2>1, <2>2, <3>4 DEF Atomic!Switch, Shown, Prepared
      <3>. QED  BY <3>5 DEF Atomic!Next
    <2>4. CASE return # "finished" /\ DropJournal
      <3>1. pc = "drop" /\ journal.phase \in {"replacing", "committed"}
        BY <1>0, <2>4 DEF PhaseInv, DropJournal
      <3>2. \A p \in Part : Undone(p)
        BY <1>0, <2>4, <3>1 DEF SwapInv, DecidedInv
      <3>3. VersionOf(active) = VersionOf(base)
        BY <3>2 DEF Undone, VersionOf, Part
      <3>4. active' = active
        BY <2>4 DEF DropJournal
      <3>5. Atomic!Drop
        BY <2>1, <2>2, <3>3, <3>4 DEF Atomic!Drop, Shown, Prepared
      <3>. QED  BY <3>5 DEF Atomic!Next
    <2>. QED  BY <1>4, <2>3, <2>4, OnlyTwoDecide
  <1>. QED  BY <1>1, <1>2, <1>3, <1>4

\* The swap at startup implements the switch in one step: what the application
\* works on goes from one whole profile to the other or stays, wherever the
\* staging, the swap, a rollback or a start is cut short.  (A crash in the abort
\* of a committed restore, or while a finished one is cleared up, is excluded:
\* the journal still says committed then, and the next start believes it.)
THEOREM ImplementsAtomicRestore ==
    ASSUME EndsUndisturbed
    PROVE  Spec => ImplementsAtomic
  <1>1. Init => Atomic!Init
    <2>. SUFFICES ASSUME Init PROVE Atomic!Init
      OBVIOUS
    <2>1. active["data"] = Whole(0) /\ active["config"] \in {Whole(0), None}
      BY DEF Init, Part
    <2>2. ~Undecided
      BY DEF Init, Undecided
    <2>3. VersionOf(active) = 0
      BY <2>1, ContentIs DEF VersionOf
    <2>. QED  BY <2>2, <2>3 DEF Atomic!Init, Profile
  <1>2. Init => DecidedInv
    BY DecidedInit
  <1>3. TypeOK /\ RestoreInv /\ DecidedInv /\ [Next]_vars => DecidedInv'
    BY DecidedNext
  <1>4. TypeOK /\ RestoreInv /\ DecidedInv /\ [Next]_vars
            => [Atomic!Next]_<<VersionOf(Profile), IF Undecided THEN restores ELSE 0>>
    BY ViewNext DEF Shown, Prepared
  <1>. QED  BY <1>1, <1>2, <1>3, <1>4, RestoreInvariant, PTL
            DEF Spec, ImplementsAtomic, Atomic!Spec
=============================================================================
