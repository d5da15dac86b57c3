------------------------------- MODULE Mailbox -------------------------------
(***************************************************************************)
(* Incoming mail of one account: the loop of its INBOX isolate             *)
(* (email_background_service.dart), the connection it polls or idles on    *)
(* (email_opt_163_impl.cpp), Microsoft Graph for Outlook                   *)
(* (email_opt_outlook_impl.cpp), and FetchAndStore_c, which writes what     *)
(* came to table localemail.                                               *)
(*                                                                         *)
(* A 163 account probes UIDNEXT and fetches when it has passed a baseline; *)
(* a QQ account waits in IDLE and probes when that times out; an Outlook   *)
(* account asks Graph what is new since a cursor.  IMAP mail is fetched    *)
(* from the highest uid in the table on.  Only mail of ours is read: of a  *)
(* foreign one its uid is kept, as a stub.  The Download isolate gets the   *)
(* body of a mail over a connection of its own.                            *)
(*                                                                         *)
(* A uid is a position in the mailbox, on Graph too.  The faults of a      *)
(* behaviour are those its scenario allows.                                *)
(***************************************************************************)
EXTENDS Naturals, Sequences, FiniteSets, FiniteSetsExt

CONSTANTS
    Kinds,          \* kinds of accounts, of {"163", "qq", "outlook", "gmail"}
    Scenarios,      \* sets of faults, see AllFaults
    Chunk,          \* rows of one INSERT (50)
    MaxTries,       \* times a body is asked for in vain (3)
    MaxMails,       \* bound: mails delivered
    MaxFaults       \* bound: faults

AllFaults == {
    "crash",        \* the process dies
    "refuse",       \* the server refuses a connection
    "close",        \* the connection ends and the socket knows
    "silent",       \* the connection is dead and the socket does not know
    "no",           \* SELECT is answered NO
    "busy",         \* an INSERT fails
    "mime",         \* Graph does not return a mail
    "rebuild" }     \* the server gives its mails new uids

ASSUME KindsAssumption == Kinds \subseteq {"163", "qq", "outlook", "gmail"}
ASSUME ScenariosAssumption == Scenarios \subseteq SUBSET AllFaults
ASSUME BoundsAssumption == {Chunk, MaxTries} \subseteq Nat \ {0} /\ MaxMails \in Nat /\ MaxFaults \in Nat

VARIABLES
    kind, scenario, \* of this behaviour
    mailbox,        \* the mails on the server: [id, own], by uid
    gen,            \* its UIDVALIDITY
    sent,           \* mails delivered so far
    rows,           \* table localemail: [id, own, uid, read, tries (retry_count)]
    conn,           \* store_: "none", "up" or "dead", and what is selected there
    sel,            \* current_selected_folder_ is the INBOX
    dl,             \* dl_store_ of the Download isolate
    round,          \* uids whose bodies it still asks for in this round
    graph,          \* last_graph_delta_link_, its saved copy, pending_message_ids_
    loop,           \* where the isolate is, and what it knows
    faults          \* faults so far

server == <<mailbox, gen, sent>>
fixed == <<kind, scenario>>
link == <<conn, sel>>
down == <<dl, round>>
vars == <<fixed, server, rows, link, down, graph, loop, faults>>

NoConn == [is |-> "none", selected |-> FALSE]
Up == [is |-> "up", selected |-> FALSE]

\* A child starts with a fetch, which it repeats until one succeeds.
Start == [at |-> "select", first |-> TRUE, next |-> 0, gen |-> 0, seen |-> 0,
          own |-> {}, foreign |-> {}]

Init ==
    /\ kind \in Kinds /\ scenario \in Scenarios
    /\ mailbox = <<>> /\ gen = 1 /\ sent = 0
    /\ rows = {}
    /\ conn = NoConn /\ sel = FALSE /\ dl = "none" /\ round = {}
    /\ graph = [cursor |-> 0, saved |-> 0, pending |-> {}]
    /\ loop = Start
    /\ faults = 0

Fault(f) == f \in scenario /\ faults < MaxFaults /\ faults' = faults + 1
-----------------------------------------------------------------------------
(* The server and the network *)

Deliver ==
    /\ sent < MaxMails /\ sent' = sent + 1
    /\ \E own \in BOOLEAN : mailbox' = Append(mailbox, [id |-> sent + 1, own |-> own])
    /\ UNCHANGED <<fixed, gen, rows, link, down, graph, loop, faults>>

\* The first mail is gone and the others have moved up: a new generation.
Rebuild ==
    /\ kind # "outlook" /\ Fault("rebuild")
    /\ mailbox # <<>> /\ mailbox' = Tail(mailbox)
    /\ gen' = gen + 1
    /\ conn' = NoConn /\ dl' = "none"
    /\ UNCHANGED <<fixed, sent, rows, sel, round, graph, loop>>

Close ==
    /\ Fault("close")
    /\ \/ conn.is = "up" /\ conn' = NoConn /\ UNCHANGED dl
       \/ dl = "up" /\ dl' = "none" /\ UNCHANGED conn
    /\ UNCHANGED <<fixed, server, rows, sel, round, graph, loop>>

Silent ==
    /\ Fault("silent")
    /\ \/ conn.is = "up" /\ conn' = [conn EXCEPT !.is = "dead"] /\ UNCHANGED dl
       \/ dl = "up" /\ dl' = "dead" /\ UNCHANGED conn
    /\ UNCHANGED <<fixed, server, rows, sel, round, graph, loop>>

\* TCP gives up on a dead connection.
GivesUp ==
    /\ conn.is = "dead"
    /\ conn' = NoConn
    /\ UNCHANGED <<fixed, server, rows, sel, down, graph, loop, faults>>

\* Memory is gone; the table, and the cursor in it, stay.
Crash ==
    /\ Fault("crash")
    /\ conn' = NoConn /\ sel' = FALSE /\ dl' = "none" /\ round' = {}
    /\ graph' = [graph EXCEPT !.cursor = graph.saved, !.pending = {}]
    /\ loop' = Start
    /\ UNCHANGED <<fixed, server, rows>>
-----------------------------------------------------------------------------
(* The table *)

Stored(id) == \E r \in rows : r.id = id /\ r.own

\* getMaxUid.  Column uuid is INTEGER, so the text bound to it is stored as a
\* number and MAX is that of numbers (email_db.cpp:334).
Watermark == Max({r.uid : r \in rows} \cup {0})

\* Nothing is left to do for a stub.
Entry(u) == [id |-> mailbox[u].id, own |-> mailbox[u].own, uid |-> u,
             read |-> ~mailbox[u].own, tries |-> 0]

\* The rows that have the Message-ID of a mail of ours.
Known(e) == {r \in rows : e.own /\ r.id = e.id}

\* insertMany: a statement for every Chunk rows, in the order of the answer.
Batch(entries) ==
    {e \in entries : Cardinality({k \in entries : k.uid < e.uid}) < Chunk}

\* runFetchCycle has returned false, to the loop or to the first fetch.
Fail == loop' = [loop EXCEPT !.at = IF loop.first THEN "select" ELSE "wait",
                             !.own = {}, !.foreign = {}]

\* It has returned true: the baseline of a poll moves to what its probe saw.
Succeed ==
    LET done == [loop EXCEPT !.at = "wait", !.first = FALSE, !.foreign = {}]
        base == Max({r.uid : r \in rows \cup loop.foreign} \cup {0}) + 1
    IN  loop' = IF loop.first THEN [done EXCEPT !.next = base]
                ELSE IF kind = "163" THEN [done EXCEPT !.next = loop.seen]
                ELSE done

\* Mail the table knows comes first: its row gets the uid the mail has now.
FirstKnown ==
    LET known == {e \in loop.own : Known(e) # {}}
    IN  {e \in known : \A k \in known : e.uid <= k.uid}

StoreKnown ==
    /\ loop.at = "known"
    /\ IF FirstKnown = {} THEN loop' = [loop EXCEPT !.at = "own"] /\ UNCHANGED rows
       ELSE /\ loop' = [loop EXCEPT !.own = @ \ FirstKnown]
            /\ \E e \in FirstKnown : \E r \in Known(e) :
                  rows' = (rows \ {r}) \cup {[r EXCEPT !.uid = e.uid]}
    /\ UNCHANGED <<fixed, server, link, down, graph, faults>>

\* The mail of ours that is new, a batch at a time.
StoreOwn ==
    /\ loop.at = "own"
    /\ rows' = rows \cup Batch(loop.own)
    /\ loop' = [loop EXCEPT !.own = @ \ Batch(loop.own),
                            !.at = IF loop.own = Batch(loop.own) THEN "stubs" ELSE "own"]
    /\ UNCHANGED <<fixed, server, link, down, graph, faults>>

\* A statement fails: insertMany leaves, and nobody looks at what it returns.
StoreFails ==
    /\ Fault("busy")
    /\ \/ loop.at = "known" /\ FirstKnown # {} /\ loop' = [loop EXCEPT !.own = @ \ FirstKnown]
       \/ loop.at = "own" /\ loop.own # {} /\ loop' = [loop EXCEPT !.own = {}, !.at = "stubs"]
       \/ loop.at = "stubs" /\ loop.foreign # {} /\ Succeed
    /\ UNCHANGED <<fixed, server, rows, link, down, graph>>

StoreStubs ==
    /\ loop.at = "stubs"
    /\ rows' = rows \cup loop.foreign
    /\ Succeed
    /\ UNCHANGED <<fixed, server, link, down, graph, faults>>

ToStore(entries) ==
    [loop EXCEPT !.at = "known", !.own = {e \in entries : e.own},
                 !.foreign = {e \in entries : ~e.own}]
-----------------------------------------------------------------------------
(* IMAP: the connection *)

\* connectStore_, for a connection that has ended.  A new one is made and what
\* is known to be selected stays, unless the server refuses.
ConnectStore(connected, refused) ==
    /\ conn.is = "none"
    /\ \/ conn' = Up /\ loop' = connected /\ UNCHANGED <<sel, faults>>
       \/ Fault("refuse") /\ sel' = FALSE /\ loop' = refused /\ UNCHANGED conn

\* SELECT, unless the folder is known to be selected.  An answer of NO is not
\* taken for a failure.
SelectInbox ==
    \/ sel /\ UNCHANGED <<link, faults>>
    \/ /\ ~sel /\ sel' = TRUE
       /\ conn' = [conn EXCEPT !.selected = TRUE]
       /\ UNCHANGED faults
    \/ ~sel /\ sel' = TRUE /\ Fault("no") /\ UNCHANGED conn

\* connectEmail, which a cycle begins with, looks at the credentials only: a
\* fetch connects when the socket knows that its connection has ended.
FetchConnects ==
    /\ loop.at = "select" /\ conn.is = "none" /\ kind \in {"163", "qq"}
    /\ \/ ConnectStore(loop, loop) /\ conn' = Up
       \/ Fault("refuse") /\ sel' = FALSE /\ Fail /\ UNCHANGED conn
    /\ UNCHANGED <<fixed, server, rows, down, graph>>

\* SetCredentials_c knows no Gmail account: its cycles end here.
NoCredentials ==
    /\ kind = "gmail" /\ loop.at = "select"
    /\ Fail
    /\ UNCHANGED <<fixed, server, rows, link, down, graph, faults>>

Select ==
    /\ loop.at = "select" /\ conn.is = "up"
    /\ SelectInbox
    /\ loop' = [loop EXCEPT !.at = "fetch"]
    /\ UNCHANGED <<fixed, server, rows, down, graph>>

\* Plausible bug: the mail the range starts with is always skipped.
FetchedAfterOne ==
    LET start == IF Watermark = 0 THEN 1 ELSE Watermark
    IN  {Entry(u) : u \in {v \in DOMAIN mailbox :
            (v >= start \/ v = Len(mailbox)) /\ v # start}}

\* What FETCH start:* is answered: at least the last mail.  The one it starts
\* with is skipped, unless it is the first.
Fetched ==
    LET start == IF Watermark = 0 THEN 1 ELSE Watermark
    IN  {Entry(u) : u \in {v \in DOMAIN mailbox :
            (v >= start \/ v = Len(mailbox)) /\ (v = start => start = 1)}}

\* A FETCH with nothing selected is answered BAD; the connection stays.
Fetch ==
    /\ loop.at = "fetch" /\ conn.is = "up"
    /\ IF conn.selected THEN loop' = ToStore(Fetched) ELSE Fail
    /\ UNCHANGED <<fixed, server, rows, link, down, graph, faults>>

\* The connection is found dead and dropped; what is known to be selected
\* stays.
FetchThrows ==
    /\ \/ loop.at = "select" /\ conn.is = "dead"
       \/ loop.at = "fetch" /\ conn.is # "up"
    /\ conn' = NoConn
    /\ Fail
    /\ UNCHANGED <<fixed, server, rows, sel, down, graph, faults>>
-----------------------------------------------------------------------------
(* IMAP: waiting for mail *)

Uidnext == Len(mailbox) + 1

Probing == \/ kind = "163" /\ loop.at = "wait"
           \/ kind = "qq" /\ loop.at = "probe"

\* A poll fetches when UIDNEXT has passed the baseline, or the generation has
\* changed.
Polled ==
    LET base == IF loop.gen \in {0, gen} THEN loop.next ELSE 0
    IN  loop' = [loop EXCEPT !.seen = Uidnext, !.gen = gen, !.next = base,
                             !.at = IF Uidnext > base THEN "select" ELSE "wait"]

\* After IDLE has timed out the baseline moves with the probe.
IdledOut ==
    loop' = [loop EXCEPT !.next = Uidnext,
                         !.at = IF Uidnext > loop.next THEN "select" ELSE "wait"]

\* A probe that fails is repeated by a poll, and makes a QQ account fetch.
ProbeFailed == IF kind = "163" THEN loop ELSE [loop EXCEPT !.at = "select"]

ProbeConnects ==
    /\ Probing /\ conn.is = "none"
    /\ ConnectStore(loop, ProbeFailed)
    /\ UNCHANGED <<fixed, server, rows, down, graph>>

Probe ==
    /\ Probing /\ conn.is = "up"
    /\ SelectInbox
    /\ IF kind = "163" THEN Polled ELSE IdledOut
    /\ UNCHANGED <<fixed, server, rows, down, graph>>

ProbeThrows ==
    /\ Probing /\ conn.is = "dead"
    /\ loop' = ProbeFailed
    /\ UNCHANGED <<fixed, server, rows, link, down, graph, faults>>

Waiting == kind = "qq" /\ loop.at = "wait"

\* idle_wait returns an error: the loop fetches.
IdleError == [loop EXCEPT !.at = "select"]

IdleConnects ==
    /\ Waiting /\ conn.is = "none"
    /\ ConnectStore(loop, IdleError)
    /\ UNCHANGED <<fixed, server, rows, down, graph>>

Idle ==
    /\ Waiting /\ conn.is = "up"
    /\ SelectInbox
    /\ loop' = [loop EXCEPT !.at = "idle", !.seen = Len(mailbox)]
    /\ UNCHANGED <<fixed, server, rows, down, graph>>

IdleThrows ==
    /\ \/ Waiting /\ conn.is = "dead"
       \/ loop.at = "idle" /\ conn.is # "up"
    /\ loop' = IdleError
    /\ UNCHANGED <<fixed, server, rows, link, down, graph, faults>>

\* IDLE ends with news of the selected folder, or without.  The connection is
\* closed, because raw reads may have left it out of step.
IdleEnds ==
    /\ loop.at = "idle" /\ conn.is = "up"
    /\ loop' = [loop EXCEPT !.at =
          IF conn.selected /\ Len(mailbox) > loop.seen THEN "select" ELSE "probe"]
    /\ conn' = NoConn /\ sel' = FALSE
    /\ UNCHANGED <<fixed, server, rows, down, graph, faults>>
-----------------------------------------------------------------------------
(* Microsoft Graph *)

\* graph_delta_query: the mails since the cursor, or those of the pages before
\* a request that failed.  The cursor moves on, and is saved.
DeltaQuery(ids) ==
    \E to \in graph.cursor .. Len(mailbox) :
        /\ IF to = Len(mailbox) THEN UNCHANGED faults ELSE Fault("refuse")
        /\ ids = graph.cursor + 1 .. to
        /\ graph' = [graph EXCEPT !.cursor = to, !.saved = to,
                                  !.pending = IF loop.at = "wait" THEN @ \cup ids ELSE {}]

\* idle_wait: whatever it finds, its result makes the loop fetch.
GraphWait ==
    /\ kind = "outlook" /\ loop.at = "wait"
    /\ \E ids \in SUBSET (DOMAIN mailbox) : DeltaQuery(ids)
    /\ loop' = [loop EXCEPT !.at = "select"]
    /\ UNCHANGED <<fixed, server, rows, link, down>>

\* No token: neither idle_wait nor a fetch gets anywhere.
GraphRefused ==
    /\ kind = "outlook" /\ loop.at \in {"select", "wait"}
    /\ Fault("refuse")
    /\ IF loop.at = "wait" THEN loop' = IdleError ELSE Fail
    /\ UNCHANGED <<fixed, server, rows, link, down, graph>>

\* fetch_email_headers: the mails idle_wait has found, or else a new query.
GraphIds(ids) ==
    \/ /\ graph.pending # {} /\ ids = graph.pending
       /\ graph' = [graph EXCEPT !.pending = {}]
       /\ UNCHANGED faults
    \/ graph.pending = {} /\ DeltaQuery(ids)

GraphFetch ==
    /\ kind = "outlook" /\ loop.at = "select"
    /\ \E ids \in SUBSET (DOMAIN mailbox) :
          /\ GraphIds(ids)
          /\ loop' = ToStore({Entry(u) : u \in ids})
    /\ UNCHANGED <<fixed, server, rows, link, down>>

\* graph_get_message_mime gets nothing, or an error for a body, which is then
\* a mail without X-Mailer.
MimeFails ==
    /\ kind = "outlook" /\ loop.at = "known"
    /\ Fault("mime")
    /\ \E e \in loop.own :
          loop' = [loop EXCEPT !.own = @ \ {e},
                               !.foreign = @ \cup {[e EXCEPT !.own = FALSE, !.read = TRUE]}]
    /\ UNCHANGED <<fixed, server, rows, link, down, graph>>
-----------------------------------------------------------------------------
(* The Download isolate *)

\* Plausible bug: only the mail that came last is looked for.
PendingNewest == {r \in rows : ~r.read /\ r.uid = Watermark}

\* queryPendingEmails: mail not read, and not asked for in vain too often.
Pending == {r \in rows : ~r.read /\ r.tries < MaxTries}

RoundStarts ==
    /\ round = {} /\ Pending # {}
    /\ round' = {r.uid : r \in Pending}
    /\ UNCHANGED <<fixed, server, rows, link, dl, graph, loop, faults>>

\* The body whose turn it is, by uid, for every row that has it.
Turn(u) == u \in round /\ \A v \in round : u <= v
Rows(u, new(_)) == {IF r.uid = u THEN new(r) ELSE r : r \in rows}
Counted(r) == [r EXCEPT !.tries = IF @ < MaxTries THEN @ + 1 ELSE @]

\* No body: counted, unless the text of the error is one of a list that stand
\* for the network.  The texts are vmime's and curl's, and either can come.
InVain ==
    \E u \in round :
        /\ Turn(u) /\ round' = round \ {u}
        /\ rows' \in {rows, Rows(u, Counted)}

\* connect_download_: a connection that does not answer NOOP is replaced.
DownloadConnects ==
    /\ round # {} /\ dl # "up" /\ kind # "outlook"
    /\ \/ dl' = "up" /\ UNCHANGED <<rows, round, faults>>
       \/ dl' = "none" /\ InVain /\ Fault("refuse")
    /\ UNCHANGED <<fixed, server, link, graph, loop>>

\* get_email fails with its connection, which is dropped.
DownloadThrows ==
    /\ \/ dl = "dead" /\ UNCHANGED faults
       \/ dl = "up" /\ Fault("close")
    /\ InVain /\ dl' = "none"
    /\ UNCHANGED <<fixed, server, link, graph, loop>>

\* Graph has no token, or no body.
BodyFails ==
    /\ kind = "outlook"
    /\ Fault("refuse") \/ Fault("mime")
    /\ InVain
    /\ UNCHANGED <<fixed, server, link, dl, graph, loop>>

\* The body of the mail that has the uid now: a row becomes that mail, and is
\* read.  A foreign one is no mail of ours, which counts, or ends it when it
\* has an X-Mailer.
Download ==
    /\ dl = "up" \/ kind = "outlook"
    /\ \E u \in round \cap DOMAIN mailbox :
          LET Become(r) == [r EXCEPT !.id = mailbox[u].id, !.own = TRUE, !.read = TRUE]
              End(r) == [r EXCEPT !.read = TRUE]
          IN  /\ Turn(u) /\ round' = round \ {u}
              /\ IF mailbox[u].own THEN rows' = Rows(u, Become)
                 ELSE rows' \in {Rows(u, Counted), Rows(u, End)}
    /\ UNCHANGED <<fixed, server, link, dl, graph, loop, faults>>

\* No mail has the uid any more, or SELECT was answered NO: the wait for a body
\* times out, which is not counted, and the connection is dropped.
DownloadWaits ==
    /\ dl = "up"
    /\ \E u \in round :
          /\ Turn(u) /\ round' = round \ {u}
          /\ \/ u \notin DOMAIN mailbox /\ UNCHANGED faults
             \/ Fault("no")
    /\ dl' = "none"
    /\ UNCHANGED <<fixed, server, rows, link, graph, loop>>
-----------------------------------------------------------------------------
Downloads ==
    RoundStarts \/ DownloadConnects \/ DownloadThrows \/ Download \/ DownloadWaits

Loop ==
    \/ StoreKnown \/ StoreOwn \/ StoreStubs
    \/ NoCredentials \/ FetchConnects \/ Select \/ Fetch \/ FetchThrows
    \/ ProbeConnects \/ Probe \/ ProbeThrows
    \/ IdleConnects \/ Idle \/ IdleThrows \/ IdleEnds
    \/ GraphWait \/ GraphRefused \/ GraphFetch

Environment ==
    \/ Deliver \/ Rebuild \/ Close \/ Silent \/ GivesUp \/ Crash
    \/ StoreFails \/ MimeFails \/ BodyFails

Next == Loop \/ Downloads \/ Environment

Spec == Init /\ [][Next]_vars /\ WF_vars(Loop) /\ WF_vars(Downloads) /\ WF_vars(GivesUp)
-----------------------------------------------------------------------------
(* Properties *)

TypeOK ==
    /\ conn \in [is : {"none", "up", "dead"}, selected : BOOLEAN] /\ sel \in BOOLEAN
    /\ rows \subseteq [id : 1 .. MaxMails, own : BOOLEAN, uid : 1 .. MaxMails,
                       read : BOOLEAN, tries : 0 .. MaxTries]
    /\ dl \in {"none", "up", "dead"} /\ round \subseteq 1 .. MaxMails
    /\ loop.at \in {"select", "fetch", "known", "own", "stubs", "wait", "probe", "idle"}
    /\ graph.saved \in 0 .. MaxMails /\ graph.cursor \in 0 .. MaxMails

OnServer(id) == \E u \in DOMAIN mailbox : mailbox[u] = [id |-> id, own |-> TRUE]

\* Every mail of ours gets to the table, if the server does not delete it.
AllMailStored ==
    \A id \in 1 .. MaxMails : OnServer(id) ~> (Stored(id) \/ ~OnServer(id))

\* The faults that cost an account no mail: IMAP mail is fetched from what the
\* table has on, while the cursor of Graph moves before its mail is stored.
Harmless == CASE kind \in {"163", "qq"} -> {"refuse", "crash"}
              [] kind = "outlook" -> {"refuse"}
              [] OTHER -> {}

\* Every mail of ours gets to the table over refused connections, probes,
\* queries and fetches, and for IMAP over crashes at any step.  Over a
\* connection that ends, a statement that fails and new uids it need not.
NewMailStored == kind # "gmail" /\ scenario \subseteq Harmless => AllMailStored

GivenUp(r) == r.tries = MaxTries

\* Every mail in the table gets read, whatever happens to connections, unless
\* its body has been asked for in vain so often that it is given up, or the
\* server has given its mails new uids.
AllRead ==
    \A id \in 1 .. MaxMails :
        Stored(id) ~> (gen # 1 \/ \E r \in rows : r.id = id /\ (r.read \/ GivenUp(r)))
=============================================================================
