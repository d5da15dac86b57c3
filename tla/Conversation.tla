---------------------------- MODULE Conversation ----------------------------
(***************************************************************************)
(* The messages of a session of two parties, and how each party lists them *)
(* (session_messages.cpp, with the handlers of a send, of the outbox, of a *)
(* fetch and of a read).                                                   *)
(*                                                                         *)
(* A message names its parent in its body; the list of a session is what   *)
(* can be reached from its root.  The Message-ID header of a mail is kept, *)
(* rewritten or never set on the way, as the sender's mail server does it. *)
(*                                                                         *)
(* A message is its number, the root is 0.  A Message-ID made by a server  *)
(* is below -1.                                                            *)
(***************************************************************************)
EXTENDS Integers, Sequences, FiniteSets, SequencesExt, FiniteSetsExt

CONSTANTS
    Party,          \* the two accounts
    Kinds,          \* sets of what the mail servers do, see AllKinds
    Faults,         \* what can fail, see AllFaults
    MaxSaid,        \* bound: messages
    MaxFaults       \* bound: faults

AllKinds == {
    "keeps",        \* the mail has the Message-ID and In-Reply-To of the task
    "rewrites",     \* SMTP, and the server puts a Message-ID of its own
    "graph" }       \* Graph: a Message-ID of its own and no In-Reply-To

AllFaults == {
    "crash",        \* the process dies after the server took the mail
    "answer",       \* the server took the mail, and the answer is lost
    "refused",      \* the server, or the content, makes a send fail
    "ignored",      \* the server refuses, and its refusal is not noticed
    "busy",         \* the database refuses the sent copy
    "missed" }      \* the body of a mail cannot be fetched, three times

ASSUME PartyAssumption == Cardinality(Party) = 2
ASSUME KindsAssumption == Kinds \subseteq SUBSET AllKinds
ASSUME FaultsAssumption == Faults \subseteq AllFaults
ASSUME BoundsAssumption == MaxSaid \in Nat /\ MaxFaults \in Nat

VARIABLES
    kind,           \* the mail server of every party
    said,           \* history: the sender and the parent of every message
    rows,           \* the table localemail of every party, in rowid order
    outbox,         \* its tasks that have not failed, in id order
    at,             \* how far its Send process is with a task
    ui,             \* the end of the list read by a send, or NoId
    net,            \* mails not yet fetched
    mails,          \* how many were sent
    opened,         \* messages whose key a party has used
    spoiled,        \* history: messages a party will never store by their id
    faults          \* so far

vars == <<kind, said, rows, outbox, at, ui, net, mails, opened, spoiled, faults>>

Root == 0
NoId == -1
ForeignId(n) == -1 - n
Idle == [step |-> "idle", m |-> NoId]

Messages == 1 .. Len(said)
Other(p) == CHOOSE q \in Party : q # p

Fault(f) == f \in Faults /\ faults < MaxFaults /\ faults' = faults + 1
-----------------------------------------------------------------------------
(* The list of a session: chainRows *)

Row(id, parent, m, state) ==
    [id |-> id, parent |-> parent, m |-> m, state |-> state, text |-> state = "sent"]

\* One row for an id, the earliest.
Kept(table) == {i \in DOMAIN table : \A j \in 1 .. i - 1 : table[j].id # table[i].id}

\* Of the rows that can follow, the first to be stored.
NextRow(eligible) == Min(eligible)

\* What can follow: the root, or a child of what is listed, or of a root that
\* is not stored.
Eligible(table, listed) ==
    LET kept == Kept(table)
        above == {table[i].id : i \in Range(listed)}
                    \cup (IF \E i \in kept : table[i].id = Root THEN {} ELSE {Root})
    IN {i \in kept \ Range(listed) : table[i].id = Root \/ table[i].parent \in above}

Chain(table) ==
    LET listed[k \in 0 .. Len(table)] ==
            IF k = 0 THEN <<>>
            ELSE LET before == listed[k - 1]
                     eligible == Eligible(table, before)
                 IN IF eligible = {} THEN before ELSE Append(before, NextRow(eligible))
        places == listed[Len(table)]
    IN [k \in DOMAIN places |-> table[places[k]]]

\* looksLikeXMessageId: an id this program makes.
\* Plausible bug: whatever is in the column is taken for a message's id.
OwnIdAny(id) == TRUE

OwnId(id) == id >= Root

\* The two reads of session_last_message_id: the rows, ...
LastRow(table) ==
    LET own == SelectSeq(Chain(table), LAMBDA row : OwnId(row.id))
    IN IF own = <<>> THEN Root ELSE Last(own).id

\* ... and the tasks that hang on what the rows end with, by queryOutboxLinks.
Links(tasks, parent) == {k \in DOMAIN tasks : tasks[k].parent = parent}

LastLink(tasks, last) ==
    LET end[n \in 0 .. Len(tasks)] ==
            IF n = 0 THEN last
            ELSE LET links == Links(tasks, end[n - 1])
                 IN IF links = {} THEN end[n - 1] ELSE tasks[Min(links)].m
    IN end[Len(tasks)]
-----------------------------------------------------------------------------
\* The handshake has made the root known to both; the party that made it may
\* have failed to store its copy.
Init ==
    /\ kind \in [Party -> AllKinds] /\ Range(kind) \in Kinds
    /\ \E p \in Party, stored \in BOOLEAN :
          rows = [q \in Party |-> IF q = p /\ ~stored THEN <<>>
                                  ELSE <<Row(Root, NoId, Root, "sent")>>]
    /\ said = <<>> /\ net = {} /\ mails = 0 /\ faults = 0
    /\ outbox = [p \in Party |-> <<>>] /\ at = [p \in Party |-> Idle]
    /\ ui = [p \in Party |-> NoId]
    /\ opened = [p \in Party |-> {}] /\ spoiled = [p \in Party |-> {}]
-----------------------------------------------------------------------------
(* Sending: us_send_message, in the process of the user interface *)

SendBegins(p) ==
    /\ ui[p] = NoId /\ Len(said) < MaxSaid
    /\ ui' = [ui EXCEPT ![p] = LastRow(rows[p])]
    /\ UNCHANGED <<kind, said, rows, outbox, at, net, mails, opened, spoiled, faults>>

SendEnds(p) ==
    /\ ui[p] # NoId /\ Len(said) < MaxSaid
    /\ LET parent == LastLink(outbox[p], ui[p])
       IN /\ said' = Append(said, [from |-> p, parent |-> parent])
          /\ outbox' = [outbox EXCEPT ![p] =
                          Append(@, [m |-> Len(said) + 1, parent |-> parent, due |-> TRUE])]
    /\ ui' = [ui EXCEPT ![p] = NoId]
    /\ UNCHANGED <<kind, rows, at, net, mails, opened, spoiled, faults>>
-----------------------------------------------------------------------------
(* The outbox: email_task_process_pending, in the Send process *)

Due(p) == {k \in DOMAIN outbox[p] : outbox[p][k].due}
DueTask(p) == outbox[p][Min(Due(p))]
Without(p, m) == [outbox EXCEPT ![p] = SelectSeq(@, LAMBDA task : task.m # m)]
Later(p, m) ==
    [outbox EXCEPT ![p] = [k \in DOMAIN @ |-> [@[k] EXCEPT !.due = @ /\ outbox[p][k].m # m]]]

\* What the other party's mailbox gets, with the ids of its header.
KeptIds(m) == [id |-> m, parent |-> said[m].parent]
RewrittenIds(m) == [id |-> ForeignId(mails + 1), parent |-> said[m].parent]
GraphIds(m) == [id |-> ForeignId(mails + 1), parent |-> NoId]

UsesGraph(p) == kind[p] = "graph"

Mail(p, m) ==
    LET ids == IF UsesGraph(p) THEN GraphIds(m)
               ELSE IF kind[p] = "keeps" THEN KeptIds(m) ELSE RewrittenIds(m)
    IN [n |-> mails + 1, m |-> m, to |-> Other(p), id |-> ids.id, parent |-> ids.parent]

Sends(p, m) == net' = net \cup {Mail(p, m)} /\ mails' = mails + 1
Spoil(who, m) == spoiled' = [q \in Party |-> spoiled[q] \cup IF q \in who THEN {m} ELSE {}]

CanSend(p) == at[p].step = "idle" /\ Due(p) # {}

\* The server takes the mail.
Accept(p) ==
    /\ CanSend(p)
    /\ Sends(p, DueTask(p).m)
    /\ at' = [at EXCEPT ![p] = [step |-> "accepted", m |-> DueTask(p).m]]
    /\ UNCHANGED <<kind, said, rows, outbox, ui, opened, spoiled, faults>>

\* The server takes the mail, and closing the connection or reading the
\* answer throws: the task is tried again.
AnswerLost(p) ==
    /\ CanSend(p) /\ Fault("answer")
    /\ Sends(p, DueTask(p).m)
    /\ outbox' = Later(p, DueTask(p).m)
    /\ UNCHANGED <<kind, said, rows, at, ui, opened, spoiled>>

\* The task is tried again later, or fails for good.
Refused(p) ==
    /\ CanSend(p) /\ Fault("refused")
    /\ \/ outbox' = Later(p, DueTask(p).m) /\ UNCHANGED spoiled
       \/ outbox' = Without(p, DueTask(p).m) /\ Spoil(Party, DueTask(p).m)
    /\ UNCHANGED <<kind, said, rows, at, ui, net, mails, opened>>

\* Graph: the status of the answer is not looked at, only its body.
Ignored(p) ==
    /\ CanSend(p) /\ UsesGraph(p) /\ Fault("ignored")
    /\ at' = [at EXCEPT ![p] = [step |-> "accepted", m |-> DueTask(p).m]]
    /\ Spoil({Other(p)}, DueTask(p).m)
    /\ UNCHANGED <<kind, said, rows, outbox, ui, net, mails, opened>>

BackoffEnds(p) ==
    /\ \E k \in DOMAIN outbox[p] :
          ~outbox[p][k].due /\ outbox' = [outbox EXCEPT ![p][k].due = TRUE]
    /\ UNCHANGED <<kind, said, rows, at, ui, net, mails, opened, spoiled, faults>>

StoredIds(p) == {rows[p][i].id : i \in DOMAIN rows[p]}

\* email_insert_sent_email: a row, unless the id has one.
InsertedSent(p, m) == Append(rows[p], Row(m, said[m].parent, m, "sent"))

WithSent(p, m) ==
    IF m \in StoredIds(p) THEN rows
    ELSE [rows EXCEPT ![p] = InsertedSent(p, m)]

Archive(p) ==
    /\ at[p].step = "accepted"
    /\ rows' = WithSent(p, at[p].m)
    /\ at' = [at EXCEPT ![p].step = "archived"]
    /\ UNCHANGED <<kind, said, outbox, ui, net, mails, opened, spoiled, faults>>

\* The failure of the insertion is passed over: the mail has left.
ArchiveFails(p) ==
    /\ at[p].step = "accepted" /\ at[p].m \notin StoredIds(p) /\ Fault("busy")
    /\ Spoil({p}, at[p].m)
    /\ at' = [at EXCEPT ![p].step = "archived"]
    /\ UNCHANGED <<kind, said, rows, outbox, ui, net, mails, opened>>

Delete(p) ==
    /\ at[p].step = "archived"
    /\ outbox' = Without(p, at[p].m)
    /\ at' = [at EXCEPT ![p] = Idle]
    /\ UNCHANGED <<kind, said, rows, ui, net, mails, opened, spoiled, faults>>

\* The process starts again, and with it the task.
Crash(p) ==
    /\ at[p].step # "idle" /\ Fault("crash")
    /\ at' = [at EXCEPT ![p] = Idle]
    /\ UNCHANGED <<kind, said, rows, outbox, ui, net, mails, opened, spoiled>>
-----------------------------------------------------------------------------
(* Receiving: FetchAndStore_c and email_download_pending_bodies *)

\* A mail of a Message-ID that has a row goes into that row: it gets the
\* header's In-Reply-To, and is not read again.
\* Plausible bug: the row is not looked for.
RowsOfTwice(p, mail) == {}

RowsOf(p, mail) == {i \in DOMAIN rows[p] : rows[p][i].id = mail.id}

Fetch(p) ==
    /\ \E mail \in net :
          /\ mail.to = p
          /\ net' = net \ {mail}
          /\ rows' = IF RowsOf(p, mail) = {}
                     THEN [rows EXCEPT ![p] =
                             Append(@, Row(mail.id, mail.parent, mail.m, "pending"))]
                     ELSE [rows EXCEPT ![p][Min(RowsOf(p, mail))].parent = mail.parent]
    /\ UNCHANGED <<kind, said, outbox, at, ui, mails, opened, spoiled, faults>>

\* The row gets the ids of the body, also when the message does not open: a
\* key opens one copy.
ReadRow(p, i) ==
    LET m == rows[p][i].m
    IN [rows[p][i] EXCEPT !.state = "read", !.id = m, !.parent = said[m].parent,
                          !.text = m \notin opened[p]]

\* Mails are read as their bodies can be fetched, in the order of uids, which for
\* Graph are texts without an order, or before it: in any order.
Read(p) ==
    /\ \E i \in DOMAIN rows[p] :
          /\ rows[p][i].state = "pending"
          /\ rows' = [rows EXCEPT ![p][i] = ReadRow(p, i)]
          /\ opened' = [opened EXCEPT ![p] = @ \cup {rows[p][i].m}]
    /\ UNCHANGED <<kind, said, outbox, at, ui, net, mails, spoiled, faults>>

\* After three misses a mail is no longer asked for, and keeps what its
\* header said.
Abandon(p) ==
    /\ Fault("missed")
    /\ \E i \in DOMAIN rows[p] :
          /\ rows[p][i].state = "pending"
          /\ rows' = [rows EXCEPT ![p][i].state = "given"]
          /\ Spoil(IF OwnId(rows[p][i].id) THEN {} ELSE {p}, rows[p][i].m)
    /\ UNCHANGED <<kind, said, outbox, at, ui, net, mails, opened>>
-----------------------------------------------------------------------------
\* Nobody has to write, but what was written is worked at: the children of
\* an account run for ever, and are started again when they end.
Work(p) ==
    \/ SendEnds(p) \/ Accept(p) \/ Archive(p) \/ Delete(p) \/ BackoffEnds(p)
    \/ Fetch(p) \/ Read(p)

Failure(p) ==
    AnswerLost(p) \/ Refused(p) \/ Ignored(p) \/ ArchiveFails(p) \/ Crash(p) \/ Abandon(p)

Next == \E p \in Party : SendBegins(p) \/ Work(p) \/ Failure(p)

Spec == Init /\ [][Next]_vars
FairSpec == Spec /\ \A p \in Party : WF_vars(Work(p))
-----------------------------------------------------------------------------
(* Properties *)

Shown(p) == Chain(rows[p])
Ids(list) == [k \in DOMAIN list |-> list[k].id]

\* A message and what it answers, up to the root.
Line(m) ==
    LET up[n \in 0 .. Len(said)] ==
            IF n = 0 THEN {m}
            ELSE up[n - 1] \cup {said[x].parent : x \in up[n - 1] \cap Messages}
    IN up[Len(said)]

\* A message is listed with its text if any copy of it was opened, as long as
\* mails keep their ids (see ConversationCopies.cfg for the other servers).
OpenedIsShown ==
    \A p \in Party : kind[Other(p)] = "keeps" =>
       \A row \in Range(Shown(p)) :
          row.state = "read" /\ row.m \in opened[p] => row.text

\* Every message is listed in the end by both, with all it answers, unless
\* it, or one it answers, could not be sent or stored.
AllShown ==
    <>[](\A p \in Party :
            LET ids == Range(Ids(Shown(p)))
            IN \A m \in Messages : Line(m) \cap spoiled[p] = {} => m \in ids)

\* A message that was not itself lost is listed: not so when one it answers
\* was refused (Faults = {"refused"}).
OnlyLostMissing ==
    <>[](\A p \in Party : Messages \ spoiled[p] \subseteq Range(Ids(Shown(p))))

\* A message is listed with its text if any copy of it was opened: not so, see
\* ConversationCopies.cfg.
TextIsShown ==
    \A p \in Party : \A row \in Range(Shown(p)) :
       row.state = "read" /\ row.m \in opened[p] => row.text

\* "so consecutive sends chain instead of all replying to the same parent"
\* (session_messages.cpp:249): not so, see ConversationCopies.cfg.
NoCommonParent ==
    \A j, k \in Messages :
       said[j].from = said[k].from /\ said[j].parent = said[k].parent => j = k

TypeOK ==
    /\ kind \in [Party -> AllKinds]
    /\ said \in Seq([from : Party, parent : Int])
    /\ \A p \in Party :
          /\ \A i \in DOMAIN rows[p] :
                rows[p][i] \in [id : Int, parent : Int, m : {Root} \cup Messages,
                                state : {"sent", "pending", "read", "given"}, text : BOOLEAN]
          /\ \A k \in DOMAIN outbox[p] :
                outbox[p][k] \in [m : Messages, parent : Int, due : BOOLEAN]
          /\ at[p] \in [step : {"idle", "accepted", "archived"}, m : {NoId} \cup Messages]
          /\ ui[p] \in Int /\ opened[p] \subseteq Messages /\ spoiled[p] \subseteq Messages
    /\ mails \in Nat /\ faults \in 0 .. MaxFaults
=============================================================================
