---------------------------- MODULE FileTransfer ----------------------------
(***************************************************************************)
(* A file goes out as one mail that describes it (META) and one mail for   *)
(* every chunk, and is put together again from the chunks received         *)
(* (email_file_transfer.cpp, file_chunk_util.cpp, file_transfer_repo.cpp). *)
(*                                                                         *)
(* The mails are tasks of the sender's outbox: a task that fails is tried  *)
(* again later, one whose answer is lost is sent twice.  They may be       *)
(* received in another order.  Opening a mail uses up its message key, so  *)
(* a mail that was opened when the process died is lost.                   *)
(*                                                                         *)
(* A conversation of two sends over the ratchet, a group over MLS          *)
(* (signal/group_c_api.cpp), where one of the other members is shown here. *)
(*                                                                         *)
(* The contents of a source file are a version number, 1 at first; 0 is    *)
(* what could not be read, or what is not there.                           *)
(***************************************************************************)
EXTENDS Naturals, Sequences, FiniteSets, SequencesExt

CONSTANTS
    MaxFiles,       \* bound: files sent
    Total,          \* chunks of a file
    Scenarios,      \* sets of faults, see AllFaults, and "group"
    MaxFaults       \* bound: faults

AllFaults == {
    "crash",        \* a process dies
    "retry",        \* a task fails and is tried again later
    "answer",       \* a mail is sent, and the answer is lost
    "late",         \* a mail is read after the next one
    "edited",       \* the source file changes while it is split
    "unreadable",   \* a chunk cannot be read
    "unqueued",     \* a task is not written
    "one" }         \* both accounts use one database

ASSUME TotalAssumption == Total \in Nat \ {0}
ASSUME ScenariosAssumption == Scenarios \subseteq SUBSET (AllFaults \cup {"group"})
ASSUME BoundsAssumption == MaxFiles \in Nat /\ MaxFaults \in Nat

VARIABLES
    scenario,       \* of this behaviour
    source,         \* the version of every source file
    split,          \* what the sender is splitting
    queue,          \* its tasks
    marking,        \* the file of the chunk sent last, or 0
    out,            \* the chunks the server has accepted
    inbox,          \* mails not yet read
    reading,        \* the mail being read, <<>> for none
    row,            \* the tables file_transfer of both sides
    chunk,          \* the table file_chunk of the receiver
    late,           \* files described after all their chunks had been stored
    faults          \* so far

vars == <<scenario, source, split, queue, marking, out, inbox, reading, row, chunk, late, faults>>

Files == 1 .. MaxFiles      \* their file_id
Chunks == 1 .. Total
Sides == {"sender", "receiver"}
NoSplit == [at |-> "idle", files |-> <<>>, done |-> 0, of |-> [f \in Files |-> 0],
            zipped |-> FALSE]

Meta(files, of) == [kind |-> "meta", files |-> files, of |-> of]
Truck(f, i, v) == [kind |-> "truck", f |-> f, i |-> i, v |-> v]

\* A group's task holds them as the plaintext that is sealed when it is sent.
Grouped == "group" \in scenario
Envelope(message) == [kind |-> "envelope", plaintext |-> message]
AsTask(message) == IF Grouped THEN Envelope(message) ELSE message
Plain(task) == IF task.kind = "envelope" THEN task.plaintext ELSE task

Init ==
    /\ scenario \in Scenarios
    /\ source = [f \in Files |-> 1]
    /\ split = NoSplit /\ queue = <<>> /\ marking = 0 /\ out = {}
    /\ inbox = <<>> /\ reading = <<>>
    /\ row = [s \in Sides |-> [f \in Files |-> [in |-> FALSE, md5 |-> 0, sent |-> 0, status |-> 0]]]
    /\ chunk = [f \in Files |-> [i \in Chunks |-> [in |-> FALSE, v |-> 0]]]
    /\ late = {} /\ faults = 0

Fault(f) == f \in scenario /\ faults < MaxFaults /\ faults' = faults + 1

\* The table has one row for a file_id, whoever's account it belongs to.
Table(side) == IF "one" \in scenario THEN "sender" ELSE side
Row(side, f) == row[Table(side)][f]
SetRow(side, f, r) == row' = [row EXCEPT ![Table(side)][f] = r]
NewRow(md5) == [in |-> TRUE, md5 |-> md5, sent |-> 0, status |-> 0]
-----------------------------------------------------------------------------
(* Splitting: email_file_split_and_send and group_send_file, and their _multi *)

BeginSplit ==
    /\ split.at = "idle"
    /\ \E first, last \in Files, zipped \in BOOLEAN :
          /\ \A f \in Files : row["sender"][f].in <=> f < first
          /\ first <= last
          /\ split' = [NoSplit EXCEPT !.at = "prepare", !.zipped = zipped,
                                      !.files = [k \in 1 .. last - first + 1 |-> first + k - 1]]
    /\ UNCHANGED <<scenario, source, queue, marking, out, inbox, reading, row, chunk, late, faults>>

Begin == ~Grouped /\ BeginSplit

\* Once the group is ready and another member has joined.
GroupBegin == Grouped /\ BeginSplit

\* prepareFileForSend: the checksum is that of the file as it is now, and so
\* is the stream if it is worth compressing.
Prepare ==
    /\ split.at = "prepare" /\ split.done < Len(split.files)
    /\ LET f == split.files[split.done + 1]
       IN /\ split' = [split EXCEPT !.done = @ + 1, !.of[f] = source[f]]
          /\ SetRow("sender", f, NewRow(source[f]))
    /\ UNCHANGED <<scenario, source, queue, marking, out, inbox, reading, chunk, late, faults>>

QueueTask(task) ==
    \/ queue' = Append(queue, task) /\ UNCHANGED faults
    \/ Fault("unqueued") /\ UNCHANGED queue

Prepared == split.at = "prepare" /\ split.done = Len(split.files)
Splitting == [split EXCEPT !.at = "chunks", !.done = 0]

\* Whether the description is queued is not looked at,
QueueMeta ==
    /\ ~Grouped /\ Prepared
    /\ QueueTask(AsTask(Meta(split.files, split.of)))
    /\ split' = Splitting
    /\ UNCHANGED <<scenario, source, marking, out, inbox, reading, row, chunk, late>>

\* but for a group: nothing more is sent, and the rows stay.
GroupQueueMeta ==
    /\ Grouped /\ Prepared
    /\ QueueTask(AsTask(Meta(split.files, split.of)))
    /\ split' = IF queue' = queue THEN NoSplit ELSE Splitting
    /\ UNCHANGED <<scenario, source, marking, out, inbox, reading, row, chunk, late>>

\* readChunk opens the stream for every chunk.
ReadChunk(f) == IF split.zipped THEN split.of[f] ELSE source[f]

\* A chunk that cannot be read is left out, but the last one is sent empty.
ChunkOf(f, i) ==
    \/ QueueTask(AsTask(Truck(f, i, ReadChunk(f))))
    \/ /\ Fault("unreadable")
       /\ queue' = IF i = Total THEN Append(queue, AsTask(Truck(f, i, 0))) ELSE queue

NextChunk ==
    /\ split.at = "chunks" /\ split.done < Total * Len(split.files)
    /\ ChunkOf(split.files[(split.done \div Total) + 1], (split.done % Total) + 1)
    /\ split' = [split EXCEPT !.done = @ + 1]
    /\ UNCHANGED <<scenario, source, marking, out, inbox, reading, row, chunk, late>>

QueueChunk == ~Grouped /\ NextChunk
GroupQueueChunk == Grouped /\ NextChunk

SplitEnds ==
    /\ split.at = "chunks" /\ split.done = Total * Len(split.files)
    /\ split' = NoSplit
    /\ UNCHANGED <<scenario, source, queue, marking, out, inbox, reading, row, chunk, late, faults>>

UserEdits ==
    /\ split.at # "idle" /\ Fault("edited")
    /\ \E f \in Files : source' = [source EXCEPT ![f] = @ + 1]
    /\ UNCHANGED <<scenario, split, queue, marking, out, inbox, reading, row, chunk, late>>
-----------------------------------------------------------------------------
(* Sending: email_task_process_pending *)

Accepted(mail) == IF mail.kind = "truck" THEN out \cup {<<mail.f, mail.i>>} ELSE out
Deliver(mail) == out' = Accepted(mail) /\ inbox' = Append(inbox, mail)

\* The file of a task that sends a chunk.
FileOf(task) == IF Plain(task).kind = "truck" THEN Plain(task).f ELSE 0

\* markRetryable: it comes back after its back-off, behind some of the others.
Postponed(behind) == InsertAt(Tail(queue), behind + 1, Head(queue))

\* The task is deleted, and only then is the chunk counted.
SendTask ==
    /\ queue # <<>> /\ marking = 0
    /\ queue' = Tail(queue)
    /\ Deliver(Plain(Head(queue)))
    /\ marking' = FileOf(Head(queue))
    /\ UNCHANGED <<scenario, source, split, reading, row, chunk, late, faults>>

SendTaskFails ==
    /\ queue # <<>> /\ marking = 0
    /\ \E behind \in 0 .. Len(queue) - 1 : queue' = Postponed(behind)
    /\ \/ Fault("retry") /\ UNCHANGED <<out, inbox>>
       \/ /\ Fault("answer")
          /\ Deliver(Plain(Head(queue)))
    /\ UNCHANGED <<scenario, source, split, marking, reading, row, chunk, late>>

\* email_file_transfer_mark_chunk_sent.
Marked(r) ==
    [r EXCEPT !.sent = @ + 1, !.status = IF r.sent + 1 >= Total THEN 1 ELSE @]

MarkChunkSent ==
    /\ marking # 0
    /\ marking' = 0
    /\ SetRow("sender", marking, Marked(Row("sender", marking)))
    /\ UNCHANGED <<scenario, source, split, queue, out, inbox, reading, chunk, late, faults>>
-----------------------------------------------------------------------------
(* Receiving: email_download_pending_bodies *)

\* Opening a mail advances the ratchet, for good.
OpenNext ==
    /\ reading = <<>> /\ inbox # <<>>
    /\ \E i \in DOMAIN inbox :
          /\ \/ i = 1 /\ UNCHANGED faults
             \/ i = 2 /\ Fault("late")
          /\ reading' = <<inbox[i]>>
          /\ inbox' = RemoveAt(inbox, i)
    /\ UNCHANGED <<scenario, source, split, queue, marking, out, row, chunk, late>>

Open == ~Grouped /\ OpenNext
GroupOpen == Grouped /\ OpenNext

Mail == reading[1]
Stored(f) == {i \in Chunks : chunk[f][i].in}
Upsert(f, i, v) == chunk' = [chunk EXCEPT ![f][i] = [in |-> TRUE, v |-> v]]

\* The files a description lists, one after the other.
NextFile == IF Len(Mail.files) = 1 THEN <<>> ELSE <<[Mail EXCEPT !.files = Tail(@)]>>

\* email_file_transfer_receive_file, for one file after the other.  A row that
\* is there already stays.  Chunks that are there already are not looked at.
ReceiveFile ==
    /\ reading # <<>> /\ Mail.kind = "meta"
    /\ LET f == Head(Mail.files)
           new == ~Row("receiver", f).in
       IN /\ IF new THEN SetRow("receiver", f, NewRow(Mail.of[f])) ELSE UNCHANGED row
          /\ late' = IF new /\ Stored(f) = Chunks THEN late \cup {f} ELSE late
    /\ reading' = NextFile
    /\ UNCHANGED <<scenario, source, split, queue, marking, out, inbox, chunk, faults>>

\* email_file_transfer_receive_truck: the chunk is stored, and looked at once
\* more if its file is known.
ReceiveTruck ==
    /\ reading # <<>> /\ Mail.kind = "truck"
    /\ Upsert(Mail.f, Mail.i, Mail.v)
    /\ reading' = IF Row("receiver", Mail.f).in THEN <<[kind |-> "check", f |-> Mail.f]>>
                  ELSE <<>>
    /\ UNCHANGED <<scenario, source, split, queue, marking, out, inbox, row, late, faults>>

\* Plausible bug: checksums are not compared.
ReassembledAnyhow(f, md5) == Stored(f) = Chunks

\* reassembleFile: the chunks in their order, if the checksums agree.
ChunksOf(f) == [i \in Chunks |-> chunk[f][i].v]
Reassembled(f, md5) == \A i \in Chunks : ChunksOf(f)[i] = md5

\* Plausible bug: one chunk more is waited for.
CompleteOneMore(f) == Cardinality(Stored(f)) > Total

Complete(f) == Cardinality(Stored(f)) >= Total

Checked(r, f) ==
    IF Complete(f) THEN [r EXCEPT !.status = IF Reassembled(f, r.md5) THEN 1 ELSE 2] ELSE r

Check ==
    /\ reading # <<>> /\ Mail.kind = "check"
    /\ SetRow("receiver", Mail.f, Checked(Row("receiver", Mail.f), Mail.f))
    /\ reading' = <<>>
    /\ UNCHANGED <<scenario, source, split, queue, marking, out, inbox, chunk, late, faults>>

\* email_file_transfer_query: the chunks sent, of the account's own file, or
\* received.
Progress(side, f) ==
    IF Table(side) = "sender" THEN Row(side, f).sent ELSE Cardinality(Stored(f))

\* The user saves a file that is shown as received:
\* email_file_transfer_reassemble.
Save ==
    /\ \E f \in Files :
          /\ Row("receiver", f).status = 1
          /\ SetRow("receiver", f, Checked(Row("receiver", f), f))
    /\ UNCHANGED <<scenario, source, split, queue, marking, out, inbox, reading, chunk, late, faults>>
-----------------------------------------------------------------------------
CrashSender ==
    /\ Fault("crash")
    /\ split' = NoSplit /\ marking' = 0
    /\ UNCHANGED <<scenario, source, queue, out, inbox, reading, row, chunk, late>>

CrashReceiver ==
    /\ reading # <<>> /\ Fault("crash")
    /\ reading' = <<>>
    /\ UNCHANGED <<scenario, source, split, queue, marking, out, inbox, row, chunk, late>>

Sending ==
    \/ Prepare \/ QueueMeta \/ QueueChunk \/ GroupQueueMeta \/ GroupQueueChunk
    \/ SplitEnds \/ SendTask \/ MarkChunkSent
Receiving == Open \/ GroupOpen \/ ReceiveFile \/ ReceiveTruck \/ Check

Next ==
    \/ Begin \/ GroupBegin \/ Sending \/ UserEdits \/ SendTaskFails
    \/ Receiving \/ Save
    \/ CrashSender \/ CrashReceiver

Spec == Init /\ [][Next]_vars /\ WF_vars(Sending) /\ WF_vars(Receiving)
-----------------------------------------------------------------------------
(* Properties *)

Without(set) == scenario \cap set = {}

\* A file that is shown as received can be saved, and is what the sender had
\* when it was described, whatever became of the source, of chunks and of the
\* two processes.
ShownIsWhole ==
    \A f \in Files : Row("receiver", f).status = 1 =>
        \A i \in Chunks : chunk[f][i].in /\ chunk[f][i].v = row["sender"][f].md5

\* A file that is shown as sent has left, every chunk of it, though chunks
\* were sent twice, not counted, or never queued.
SentIsOut ==
    \A f \in Files : Row("sender", f).status = 1 \/ Progress("sender", f) >= Total =>
        \A i \in Chunks : <<f, i>> \in out

\* What either side shows as done is whole.
DoneIsWhole == Without({"one"}) => ShownIsWhole /\ SentIsOut

\* A file all of whose chunks have left is received, though answers are lost,
\* tasks retried and mails read late, unless its description came last or, in
\* a conversation of two, was never queued.
Arrives(f) ==
    (\A i \in Chunks : <<f, i>> \in out) ~> Row("receiver", f).status = 1

FileArrives ==
    Without({"crash", "edited", "unreadable"})
    /\ ("unqueued" \in scenario => Grouped) =>
        \A f \in Files : (\A i \in Chunks : <<f, i>> \in out)
                            ~> Row("receiver", f).status = 1 \/ f \in late

AlwaysArrives == \A f \in Files : Arrives(f)
=============================================================================
