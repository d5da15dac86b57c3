------------------------------- MODULE Profile -------------------------------
(***************************************************************************)
(* The database of a profile: opened and brought up to date statement by   *)
(* statement (email/email_db.cpp), archived and restored on this or another*)
(* installation (email/backup/snapshot.cpp, recovery.cpp).                 *)
(*                                                                         *)
(* Opening runs one list of SQL statements at every start.  Each commits by*)
(* itself, most errors are ignored, and the process may die between any    *)
(* two.  A table is the order of its columns and the ids of its rows; of   *)
(* the columns only those some release added are told apart ("id" stands   *)
(* for the others), indexes and the values of cells are left out.  The     *)
(* swap of a restored directory is one step here: BackupRestore.           *)
(***************************************************************************)
EXTENDS Naturals, SequencesExt

CONSTANTS
    Starts,     \* what installations hold at first (names, see Found)
    Scenarios,  \* sets of what may happen, one set per behaviour
    FailIn,     \* the kinds of statements that may fail
    MaxFaults,  \* bound: crashes and failed statements
    MaxRow,     \* bound: ids of rows
    MaxEvents   \* bound: what the user does, moves to a new installation, and faults

\* What an instance has to give.
ConstantsFit ==
    /\ Scenarios \subseteq SUBSET {"fault", "again", "mail", "file", "move"}
    /\ FailIn \subseteq {"create", "add", "dedupe", "move", "drop", "pin", "look"}
    /\ MaxFaults \in Nat /\ MaxRow \in Nat \ {0, 1, 2} /\ MaxEvents \in Nat
-----------------------------------------------------------------------------
(* The statements *)

Signal == <<"signal_identity", "signal_prekey", "signal_session",
            "signal_skipped_key", "signal_peer_prekey", "signal_peer_identity">>

Archived ==
    ToSet(Signal) \cup
    {"schema_meta", "contact", "addressbook", "keyinfo", "code", "localemail",
     "email_body", "session", "group_session_email", "file_transfer",
     "file_chunk", "group_session", "mls_state", "mls_member_binding",
     "mls_group_meta", "unified_session"}
Table == Archived \cup {"task", "sender_key", "skipped_sender_keys"}

\* A failed statement makes the code skip that many of those that follow it.
Do(what, t, cols) == [do |-> what, table |-> t, cols |-> cols, skip |-> 0]
Create(t, cols) == Do("create", t, cols)
\* Always, or if a table was found to be old.
Drop(t) == Do("drop", t, <<>>)
DropIf(old, t) == Do("drop", t, <<old>>)
Adds(t, cols) == [i \in 1 .. Len(cols) |-> Do("add", t, <<cols[i]>>)]
Block(create, then) == <<[create EXCEPT !.skip = Len(then)]>> \o then
Each(ts, S(_)) == [i \in 1 .. Len(ts) |-> S(ts[i])]

MailStatements ==
    <<Create("localemail",
             <<"id", "to_addr", "reply_to", "in_reply_to", "message_id",
               "flags", "folder", "islocal", "servicerecvtime">>)>>
    \o Adds("localemail",
            <<"reply_to", "to_addr", "in_reply_to", "message_id", "folder",
              "flags", "file", "visible">>)
    \o <<Create("session", <<"id", "email_id", "isread", "encrypt_method">>)>>
    \o Adds("session", <<"email_id", "isread">>)
    \o <<Do("dedupe", "session", <<>>)>>


GroupMailStatements ==
    Block(Create("group_session_email", <<"id">>),
          <<Do("move", "group_session_email", <<>>),
            Do("purge", "session", <<>>)>>)
    \o <<Create("email_body", <<"id">>)>>
    \o Adds("localemail", <<"islocal", "retry_count", "servicerecvtime",
                            "x_mailer", "is_sent">>)

FileColumns == <<"original_path", "compression", "compressed_md5", "sent_chunks">>

ContactStatements ==
    <<Create("contact", <<"id">>), Create("addressbook", <<"id">>)>>
    \o Adds("session", <<"encrypt_method">>)
    \o Adds("keyinfo", <<"account">>)
    \o <<Create("keyinfo", <<"id", "account">>)>>
    \o Block(Create("code", <<"id">>),
             Adds("keyinfo", <<"session_uuid">>)
             \o Adds("code", <<"session_uuid">>)
             \o Adds("file_transfer", <<"message_id">> \o FileColumns))

TaskColumns == <<"pre_encrypted", "local_body", "retry_count", "next_retry_at",
                 "last_error">>

TaskStatements ==
    Block(Create("task", <<"id">> \o TaskColumns \o <<"created_at">>),
          Adds("task", TaskColumns))

FileStatements ==
    Block(Create("file_transfer", <<"id", "message_id">> \o FileColumns
                                  \o <<"created_at">>),
          Adds("file_transfer", FileColumns))
    \o <<Create("file_chunk", <<"id">>)>>

\* Plausible bug: the version is written before the old tables are dropped.
PinFirst ==
    <<Create("schema_meta", <<"id">>), Do("look", "schema_meta", <<>>),
      Do("pin", "schema_meta", <<>>)>>
    \o Each(Signal, LAMBDA t : DropIf("schema_meta", t))
    \o Each(Signal, LAMBDA t : Create(t, <<"v3">>))

\* email_db_create_signal_tables: the old layout is dropped, not migrated.
SignalStatements ==
    <<Create("schema_meta", <<"id">>), Do("look", "schema_meta", <<>>)>>
    \o Each(Signal, LAMBDA t : DropIf("schema_meta", t))
    \o <<Do("pin", "schema_meta", <<>>)>>
    \o Each(Signal, LAMBDA t : Create(t, <<"v3">>))

SenderKeys == <<"sender_key", "skipped_sender_keys">>

\* (The column x_session_id is filled from x_reply_id, a cell's value.)
GroupStatements ==
    <<Do("look", "group_session", <<>>), DropIf("group_session", "group_session")>>
    \o Each(SenderKeys, LAMBDA t : DropIf("group_session", t))
    \o <<Create("group_session", <<"id", "x_reply_id", "account", "created_at">>)>>
    \o Adds("group_session", <<"mls_group_id", "x_session_id">>)
    \o Each(<<"mls_state", "mls_member_binding", "mls_group_meta">>,
            LAMBDA t : Create(t, <<"id">>))
    \o Each(SenderKeys, Drop)

UnifiedColumns == <<"mailmen", "mailman_cursor", "pinned", "hidden">>

UnifiedStatements ==
    <<Create("unified_session", <<"id">> \o UnifiedColumns \o <<"created_at">>)>>
    \o Adds("unified_session", UnifiedColumns)

\* email_db_init
OpenScript ==
    MailStatements \o GroupMailStatements \o ContactStatements
    \o TaskStatements \o FileStatements \o SignalStatements
    \o GroupStatements \o UnifiedStatements

\* email_db_init in a process whose database is open.
AgainScript ==
    <<Create("contact", <<"id">>), Create("addressbook", <<"id">>)>>
    \o Adds("session", <<"encrypt_method">>)
    \o <<Create("keyinfo", <<"id">>), Create("code", <<"id">>)>>
    \o Adds("keyinfo", <<"session_uuid">>) \o Adds("code", <<"session_uuid">>)
    \o Adds("file_transfer", <<"message_id">> \o FileColumns)
    \o Adds("file_transfer", FileColumns)
    \o <<Create("file_transfer", <<"id", "message_id", "sent_chunks",
                                   "created_at">>),
         Create("file_chunk", <<"id">>)>>
    \o SignalStatements
-----------------------------------------------------------------------------
(* A database *)

\* Links of old mail: 1 and 2 are of one mail, 3 is of a mail of a group.
MailOf(l) == IF l = 2 THEN 1 ELSE l
IsGroup(l) == l = 3

NoDatabase ==
    [layout |-> [t \in Table |-> <<>>], rows |-> [t \in Table |-> {}],
     top |-> [t \in Table |-> 0], version |-> 0, paths |-> {}]

Has(d, t, c) == c \in ToSet(d.layout[t])
Gone(d, t) == [d EXCEPT !.layout[t] = <<>>, !.rows[t] = {}, !.top[t] = 0]

\* What opening finds out about a table it may have to drop.
Stale(d, t) ==
    CASE t = "schema_meta" -> d.version # 3
      [] t = "group_session" -> \/ ~(Has(d, t, "x_reply_id") /\ Has(d, t, "account"))
                                \/ Has(d, t, "group_id TEXT")

\* The database after one statement; stale: the tables found to be old.
After(s, d, stale) ==
    LET t == s.table IN
    CASE s.do = "create" ->
           IF d.layout[t] = <<>> THEN [d EXCEPT !.layout[t] = s.cols] ELSE d
      [] s.do = "add" ->
           IF d.layout[t] # <<>> /\ ~Has(d, t, s.cols[1])
           THEN [d EXCEPT !.layout[t] = @ \o s.cols] ELSE d
      [] s.do = "dedupe" ->
           [d EXCEPT !.rows[t] =
               {l \in @ : \A k \in @ : MailOf(k) = MailOf(l) => l <= k}]
      [] s.do = "move" ->
           IF ~Has(d, "group_session", "account") THEN d
           ELSE LET new == {MailOf(l) : l \in {k \in d.rows["session"] : IsGroup(k)}}
                IN [d EXCEPT !.rows[t] = @ \cup (new \cap d.rows["localemail"])]
      [] s.do = "purge" -> [d EXCEPT !.rows[t] = {l \in @ : ~IsGroup(l)}]
      [] s.do = "drop" ->
           IF ToSet(s.cols) \subseteq stale THEN Gone(d, t) ELSE d
      [] s.do = "pin" -> IF t \in stale THEN [d EXCEPT !.version = 3] ELSE d
      [] s.do = "look" -> d

\* What opening makes of no database: the columns a table is created with,
\* then those added to it.
Fresh ==
    LET Of(t, what) == SelectSeq(OpenScript, LAMBDA s : s.do = what /\ s.table = t)
        Columns(t) ==
            LET made == Of(t, "create")
                added == SelectSeq(Of(t, "add"),
                                   LAMBDA s : s.cols[1] \notin ToSet(made[1].cols))
            IN IF made = <<>> THEN <<>>
               ELSE made[1].cols \o [i \in 1 .. Len(added) |-> added[i].cols[1]]
    IN [NoDatabase EXCEPT !.layout = [t \in Table |-> Columns(t)], !.version = 3]

\* One row everywhere; without the columns an older release did not have.
Full == [Fresh EXCEPT !.rows = [t \in Table |-> IF Fresh.layout[t] = <<>>
                                                THEN {} ELSE {1}],
                      !.top = [t \in Table |-> IF Fresh.layout[t] = <<>>
                                               THEN 0 ELSE 1],
                      !.paths = {1}]
Without(d, t, cols) ==
    [d EXCEPT !.layout[t] = SelectSeq(@, LAMBDA c : c \notin cols)]
OldLinks(d) ==
    [Gone(d, "group_session_email") EXCEPT
        !.rows["localemail"] = {1, 3}, !.top["localemail"] = 3,
        !.rows["session"] = {1, 2, 3}, !.top["session"] = 3]

\* What an installation may hold when this release first opens it.
Found(name) ==
    CASE name = "none" -> NoDatabase
      [] name = "signal" ->
           LET old == Without(Without(Full, "file_transfer", ToSet(FileColumns)),
                              "unified_session", ToSet(UnifiedColumns))
           IN [old EXCEPT !.version = 2,
                          !.layout = [t \in Table |-> IF t \in ToSet(Signal)
                                                      THEN <<"v2">> ELSE @[t]]]
      [] name = "sender" ->
           [OldLinks(Without(Full, "group_session", {"account"})) EXCEPT
               !.layout["sender_key"] = <<"id">>, !.rows["sender_key"] = {1}]
      [] name = "typed" ->
           [OldLinks(Full) EXCEPT !.layout["group_session"] = <<"group_id TEXT">> \o @]
-----------------------------------------------------------------------------
VARIABLES
    db,         \* the database of this installation
    pc, at,     \* what the process does, and the next statement
    stale,      \* the tables this start found to be old
    missed,     \* the statements of this start that failed: [do, table]
    undropped,  \* the tables whose DROP failed, at any start (history)
    disk,       \* the files that were sent: disk[f]
    archive,    \* the backup the user keeps
    staged,     \* the database a prepared restore brings
    kept,       \* what a restore replaced, until the start has succeeded
    used,       \* ids ever given to rows of this database (history)
    may,        \* what may happen in this behaviour
    faults, events

vars == <<db, pc, at, stale, missed, undropped, disk, archive, staged, kept, used, may,
          faults, events>>
rest == <<archive, staged, kept, may>>
live == <<db, disk, used>>
start == <<pc, at, stale, missed, undropped>>

None == [none |-> TRUE]
Room == events + faults < MaxEvents
File == 1 .. MaxRow
Counted == {"localemail", "file_transfer"}
UsedIn(d) == [t \in Counted |-> 1 .. d.top[t]]

Init ==
    /\ db \in {Found(name) : name \in Starts}
    /\ pc = "down" /\ at = 1
    /\ stale = {} /\ missed = {} /\ undropped = {}
    /\ disk = [f \in File |-> IF f \in db.paths THEN "there" ELSE "gone"]
    /\ archive = None /\ staged = None /\ kept = None
    /\ used = UsedIn(db)
    /\ may \in Scenarios
    /\ faults = 0 /\ events = 0
-----------------------------------------------------------------------------
(* Starting *)

Begin(what) == pc' = what /\ at' = 1 /\ stale' = {}

\* initializeLibemail: a prepared restore takes over, then the database opens.
Launch ==
    /\ pc = "down"
    /\ Begin("opening") /\ missed' = {}
    /\ IF staged = None THEN UNCHANGED <<live, staged, kept>>
       ELSE /\ kept' = [db |-> db, disk |-> disk, used |-> used]
            /\ db' = staged.db
            /\ disk' = [f \in File |-> IF f \in staged.remapped THEN "there"
                                                             ELSE disk[f]]
            /\ used' = staged.used
            /\ staged' = None
    /\ UNCHANGED <<undropped, archive, may, faults, events>>

Script == IF pc = "opening" THEN OpenScript ELSE AgainScript
Working == pc \in {"opening", "again"} /\ at <= Len(Script)

Statement ==
    /\ Working
    /\ LET s == Script[at] IN
       /\ db' = After(s, db, stale)
       /\ stale' = IF s.do = "look" /\ Stale(db, s.table)
                   THEN stale \cup {s.table} ELSE stale
    /\ at' = at + 1
    /\ UNCHANGED <<pc, missed, undropped, disk, used, rest, faults, events>>

Vital == {"localemail", "session", "contact"}

\* An error of SQLite (a full disk, a lock held for too long).  Without a
\* vital table the database is closed, and a restore that was just swapped in
\* is rolled back; any other error is ignored.  A table that could not be
\* looked at counts as old.
StatementFails ==
    /\ Working /\ "fault" \in may /\ faults < MaxFaults /\ Room
    /\ LET s == Script[at]
           ends == pc = "opening" /\ s.do = "create" /\ s.table \in Vital
           seen == IF s.do = "look" THEN stale \cup {s.table} ELSE stale
       IN
       /\ s.do \in FailIn
       /\ ends \/ s.skip > 0 \/ seen # stale \/ After(s, db, stale) # db
       /\ at' = at + 1 + s.skip
       /\ stale' = seen
       /\ missed' = missed \cup {[do |-> s.do, table |-> s.table]}
       /\ undropped' = IF s.do = "drop" THEN undropped \cup {s.table} ELSE undropped
       /\ pc' = IF ends THEN "down" ELSE pc
       /\ IF ends /\ kept # None
          THEN db' = kept.db /\ disk' = kept.disk /\ used' = kept.used /\ kept' = None
          ELSE UNCHANGED <<live, kept>>
    /\ faults' = faults + 1
    /\ UNCHANGED <<archive, may, staged, events>>

Opened ==
    /\ pc \in {"opening", "again"} /\ at > Len(Script)
    /\ pc' = "running"
    /\ kept' = None
    /\ UNCHANGED <<live, at, stale, missed, undropped, archive, may, staged, faults, events>>

\* Another isolate initialises the core of a process that has it open.
OpenAgain ==
    /\ pc = "running" /\ "again" \in may /\ Room
    /\ Begin("again")
    /\ events' = events + 1
    /\ UNCHANGED <<live, missed, undropped, rest, faults>>

Crash ==
    /\ pc \in {"opening", "again"} /\ "fault" \in may /\ faults < MaxFaults /\ Room
    /\ pc' = "down"
    /\ faults' = faults + 1
    /\ UNCHANGED <<live, at, stale, missed, undropped, rest, events>>
-----------------------------------------------------------------------------
(* Running *)

\* The user's part of a step.
Event ==
    /\ pc = "running" /\ Room
    /\ events' = events + 1

\* A row gets an id above all that its table ever had (AUTOINCREMENT).
Add(t) ==
    LET id == db.top[t] + 1 IN
    /\ Event /\ (IF t = "localemail" THEN "mail" ELSE "file") \in may
    /\ id <= MaxRow
    /\ db' = [db EXCEPT !.rows[t] = @ \cup {id}, !.top[t] = id,
                        !.paths = IF t = "file_transfer" THEN @ \cup {id} ELSE @]
    /\ disk' = IF t = "file_transfer" THEN [disk EXCEPT ![id] = "there"] ELSE disk
    /\ used' = [used EXCEPT ![t] = @ \cup {id}]
    /\ UNCHANGED <<start, rest, faults>>

Delete(t) ==
    /\ Event /\ "mail" \in may
    /\ db' = [db EXCEPT !.rows[t] = {}]
    /\ db' # db
    /\ UNCHANGED <<start, disk, used, rest, faults>>

\* A file that was sent is moved away, or cannot be read.
LoseOriginal ==
    /\ Event /\ "file" \in may
    /\ \E f \in db.paths, s \in {"gone", "locked"} :
          disk[f] = "there" /\ disk' = [disk EXCEPT ![f] = s]
    /\ UNCHANGED <<start, db, used, rest, faults>>

Close ==
    /\ pc = "running"
    /\ pc' = "down"
    /\ UNCHANGED <<live, at, stale, missed, undropped, rest, faults, events>>

\* The user takes the backup to a new installation.
Move ==
    /\ pc = "down" /\ archive # None /\ "move" \in may
    /\ Room /\ events' = events + 1
    /\ db' = NoDatabase
    /\ disk' = [f \in File |-> "gone"]
    /\ used' = UsedIn(NoDatabase)
    /\ staged' = None /\ kept' = None
    /\ UNCHANGED <<start, archive, may, faults>>
-----------------------------------------------------------------------------
(* Backup *)

\* What the user would miss.  Old layouts of the signal and group tables and
\* queued tasks are given up by design.
Content(d) ==
    [rows |-> [t \in Archived \ {"schema_meta", "session", "group_session_email",
                                 "group_session"} |->
                 IF t \in ToSet(Signal) /\ d.layout[t] # <<"v3">> THEN {} ELSE d.rows[t]],
     groups |-> IF Stale(d, "group_session") THEN {} ELSE d.rows["group_session"],
     linked |-> d.rows["localemail"] \cap
                {MailOf(l) : l \in {k \in d.rows["session"] : ~IsGroup(k)}},
     grouped |-> d.rows["localemail"] \cap
                 (d.rows["group_session_email"] \cup
                  {MailOf(l) : l \in {k \in d.rows["session"] : IsGroup(k)}})]

\* captureOriginals: an original that is missing loses its path; one that
\* cannot be read, or changes meanwhile, aborts the export.
Captured == {f \in db.paths : disk[f] = "there"}
Readable == \A f \in db.paths : disk[f] # "locked"

OnlyKnownTables == \A t \in Table \ (Archived \cup {"task"}) : db.layout[t] = <<>>

\* validate, on both sides: as many originals as paths, counters of tables that
\* are archived.
Valid(a) ==
    /\ a.originals = a.db.paths
    /\ a.db.paths \subseteq a.db.rows["file_transfer"]
    /\ \A t \in Table \ Archived : a.db.top[t] = 0

\* Names, types, defaults and keys of the columns, in their order.
Schema(d, t) == d.layout[t]

\* exportSnapshot, in one transaction
Snapshot ==
    [db |-> [Gone(db, "task") EXCEPT !.paths = Captured], originals |-> Captured,
     used |-> used, was |-> Content(db), had |-> Captured]

\* Export closes the database and reads it; it reopens it either way.
Export ==
    /\ Event
    /\ archive' = IF OnlyKnownTables /\ Readable /\ Valid(Snapshot)
                  THEN Snapshot ELSE archive
    /\ Begin("opening") /\ missed' = {}
    /\ UNCHANGED <<live, undropped, staged, kept, may, faults>>

\* Plausible bug: the counters of the archive are not restored.
RestoredCounting ==
    [archive.db EXCEPT
        !.layout["task"] = db.layout["task"],
        !.top = [t \in Table |-> IF archive.db.rows[t] = {} THEN 0
                                 ELSE CHOOSE n \in archive.db.rows[t] :
                                         \A k \in archive.db.rows[t] : k <= n]]

\* restoreTables, in tables made from the running application's own schema;
\* the counters come last, for inserting moves them.
Restored == [archive.db EXCEPT !.layout["task"] = db.layout["task"]]

Fits == \A t \in Archived : Schema(archive.db, t) = Schema(db, t)

\* The originals are written into the profile, and the paths name them.
Remapped == archive.originals

\* readSnapshot: a container that opens and holds a valid snapshot.
Opens(a) == a # None /\ Valid(a)

\* stageRestore: refused if any table has other columns, or another order.
Prepare ==
    /\ Event
    /\ Opens(archive) /\ staged = None
    /\ Fits
    /\ staged' = [db |-> Restored, remapped |-> Remapped, used |-> archive.used,
                  was |-> archive.was, had |-> archive.had]
    /\ UNCHANGED <<live, start, archive, may, kept, faults>>

Next ==
    \/ Launch \/ Statement \/ StatementFails \/ Opened \/ OpenAgain \/ Crash
    \/ (\E t \in Counted : Add(t)) \/ Delete("localemail")
    \/ LoseOriginal \/ Close \/ Move \/ Export \/ Prepare

Spec == Init /\ [][Next]_vars
-----------------------------------------------------------------------------
(* Properties *)

Failed(what, t) == [do |-> what, table |-> t] \in missed

\* Once a start got to the end without an error, every table has the columns
\* this release uses, whatever older release it is from and however often
\* opening was interrupted before (email_db.cpp: "Idempotent migration").  Not
\* so a table whose DROP failed at any start: the version is written all the
\* same, and no later start drops it.
LayoutComplete ==
    pc = "running" /\ missed = {} =>
        /\ \A t \in (Archived \cup {"task"}) \ undropped :
              ToSet(Fresh.layout[t]) \subseteq ToSet(db.layout[t])
        /\ db.version = 3


\* An id is never given to two rows of a table, the deleted ones and a restore
\* in between included: bodies and links are found by it.  Tasks, whose counter
\* is not archived, are gone after a restore.
NoIdTwice ==
    [][\A t \in Counted : pc = "running" /\ db' # db =>
           (db'.rows[t] \ db.rows[t]) \cap used[t] = {}]_vars
=============================================================================
