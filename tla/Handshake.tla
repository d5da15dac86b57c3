------------------------------ MODULE Handshake ------------------------------
(***************************************************************************)
(* How a 1:1 conversation comes to life over mail: createSignalSession_ of *)
(* unified_session_manager.cpp on one side, the handlers of                *)
(* email_download_pending_bodies (email_oemailim.cpp) on both.             *)
(*                                                                         *)
(*   Initiator                              Responder                      *)
(*     create   -- bundle (1.0.0, root) -->   pin, own keys, session row   *)
(*     pin      <-- reply (1.0.0) -------                                  *)
(*     X3DH     -- init (1.0.1) --------->    X3DH, ratchet row            *)
(*     both     <-- msg (1.0.2) -------->     both                         *)
(*                                                                         *)
(* Mail arrives in any order and, when the outbox resends, twice.  The     *)
(* INBOX isolate stores rows in localemail, the Download isolate works     *)
(* through the pending ones in batches; the user creates and sends from a  *)
(* third.  A crash loses what they are doing and keeps the tables.         *)
(* An X3DH root is named by the ephemeral key it was made with; what the   *)
(* ratchet does on top of it is DoubleRatchet's subject, how a task leaves *)
(* the outbox Outbox's.  A row of localemail is named by its UID, here its *)
(* place in the mailbox; its state is islocal 0 ("new"), 1 ("first") or 2  *)
(* ("done"), or "gone" when the row has moved to another UID.              *)
(***************************************************************************)
EXTENDS Integers, FiniteSets, Sequences, SequencesExt

CONSTANTS
    Initiator, Responder,
    BatchSize,      \* queryPendingEmails' LIMIT (10)
    MaxTries,       \* retry_count at which a row is no longer pending (3)
    MaxSends,       \* bound: messages each party sends
    MaxDups,        \* bound: mails the outbox sends twice
    MaxMisses,      \* bound: bodies that cannot be fetched
    MaxCrashes      \* bound: crashes of either party

ASSUME PartiesAssumption == Initiator # Responder
ASSUME LimitsAssumption ==
    /\ BatchSize \in Nat \ {0} /\ MaxTries \in Nat \ {0}
    /\ {MaxSends, MaxDups, MaxMisses, MaxCrashes} \subseteq Nat

Parties == {Initiator, Responder}
Peer(p) == IF p = Initiator THEN Responder ELSE Initiator

VARIABLES
    ui,         \* createSession of the initiator: "none", "saved", "done"
    us,         \* us[p]: p's unified_session rows of the conversation
    keys,       \* keys[p]: p's own keys for it: "identity", "prekey"
    pinned,     \* pinned[p]: the keys of the peer that p keeps
    eks,        \* ephemeral keys generated so far
    root,       \* root[p]: X3DH root of p's signal_session row, 0 when none
    out,        \* mail in the outboxes
    posts,      \* mails ever queued (names them)
    box,        \* box[p]: p's localemail rows, in the order of their UIDs
    batch,      \* batch[p]: rows the Download isolate has yet to process
    job,        \* job[p]: what is left to do of the mail under processing
    opened,     \* opened[p]: sealed mail whose message key is used
    read,       \* read[p]: sealed mail whose plaintext is stored
    lost,       \* lost[p]: sealed mail given up
    faults      \* dups, misses and crashes so far

tables == <<us, keys, pinned, eks, root>>
vars == <<ui, tables, out, posts, box, batch, job, opened, read, lost, faults>>

NoRoot == 0
Idle == [step |-> "idle"]

Init ==
    /\ ui = "none"
    /\ us = [p \in Parties |-> 0]
    /\ keys = [p \in Parties |-> {}]
    /\ pinned = [p \in Parties |-> {}]
    /\ eks = 0
    /\ root = [p \in Parties |-> NoRoot]
    /\ out = {}
    /\ posts = 0
    /\ box = [p \in Parties |-> <<>>]
    /\ batch = [p \in Parties |-> <<>>]
    /\ job = [p \in Parties |-> Idle]
    /\ opened = [p \in Parties |-> {}]
    /\ read = [p \in Parties |-> {}]
    /\ lost = [p \in Parties |-> {}]
    /\ faults = [dup |-> 0, miss |-> 0, crash |-> 0]

\* TaskRepo::insert.
Post(p, kind) ==
    /\ out' = out \cup {[from |-> p, kind |-> kind, id |-> posts + 1,
                         root |-> root[p]]}
    /\ posts' = posts + 1
-----------------------------------------------------------------------------
(* The keys of the conversation: signal_key_repo.cpp.  Those of one side are *)
(* made once, and a bundle is published whole.                               *)

\* loadIdentity, loadSignedPrekey, and the prekey by its public key: there is
\* one for the conversation.
HasIdentity(own, p) == "identity" \in own[p]
HasPrekey(own, p) == "prekey" \in own[p]
MadePrekey(p) == HasPrekey(keys, p)

\* upsertIdentity and insertSignedPrekey.
UpsertIdentity(p) == [keys EXCEPT ![p] = @ \cup {"identity"}]
InsertPrekey(own, p) == [own EXCEPT ![p] = @ \cup {"prekey"}]

EnsureIdentity(p) == IF HasIdentity(keys, p) THEN keys ELSE UpsertIdentity(p)

\* The prekey is signed by the identity.
EnsurePrekey(own, p) ==
    IF HasPrekey(own, p) \/ ~HasIdentity(own, p) THEN own ELSE InsertPrekey(own, p)

\* bundle_for_session and what it publishes.
MakeBundle(p) == EnsurePrekey(EnsureIdentity(p), p)
HasBundle(p) == HasIdentity(keys, p) /\ HasPrekey(keys, p)

\* upsertPeerPrekey after the identity is pinned: verify_and_pin_peer.
PinPeer(p) == [pinned EXCEPT ![p] = @ \cup {"identity"}]
UpsertPeerPrekey(table, p) == [table EXCEPT ![p] = @ \cup {"prekey"}]
HasPeerPrekey(p) == "prekey" \in pinned[p]

\* signal_store_peer_prekey.
StorePeer(p) == UpsertPeerPrekey(PinPeer(p), p)
-----------------------------------------------------------------------------
(* The user's isolate *)

\* createSignalSession_: keys and the unified_session row first ...
Create ==
    /\ ui = "none"
    /\ ui' = "saved"
    /\ keys' = MakeBundle(Initiator)
    /\ us' = [us EXCEPT ![Initiator] = 1]
    /\ UNCHANGED <<pinned, eks, root, out, posts, box, batch, job, opened, read,
                   lost, faults>>

\* ... then the task that carries the bundle.
PostBundle ==
    /\ ui = "saved"
    /\ ui' = "done"
    /\ Post(Initiator, "bundle")
    /\ UNCHANGED <<tables, box, batch, job, opened, read, lost, faults>>

SentBy(p) ==
    Cardinality({m \in out \cup {e.mail : e \in ToSet(box[Peer(p)])} :
                    m.from = p /\ m.kind = "msg"})

\* loadSession, and loadActiveSession: no session of the conversation is closed.
HasSession(p) == root[p] # NoRoot
ActiveSession(p) == HasSession(p)

\* isReady and sendMessage: the ratchet row is all it takes.
Ready(p) == us[p] > 0 /\ ActiveSession(p)

Send(p) ==
    /\ Ready(p)
    /\ SentBy(p) < MaxSends
    /\ Post(p, "msg")
    /\ UNCHANGED <<ui, tables, box, batch, job, opened, read, lost, faults>>
-----------------------------------------------------------------------------
(* Mail *)

NewRow(m) == [mail |-> m, tries |-> 0, state |-> "new"]

RowsAdded(rows, m, twice) ==
    rows \o (IF twice THEN <<NewRow(m), NewRow(m)>> ELSE <<NewRow(m)>>)

\* The INBOX isolate stores a row for the mail; two copies that come in one
\* fetch get a row each.
Arrive(m, twice) ==
    /\ twice => faults.dup < MaxDups
    /\ faults' = IF twice THEN [faults EXCEPT !.dup = @ + 1] ELSE faults
    /\ out' = out \ {m}
    /\ box' = [box EXCEPT ![Peer(m.from)] = RowsAdded(@, m, twice)]
    /\ UNCHANGED <<ui, tables, posts, batch, job, opened, read, lost>>

\* A copy that comes later has the Message-ID of a row, which moves to the
\* copy's UID: a row still pending is now read first, a row that is done
\* stays done.
Gone(row) == [row EXCEPT !.state = "gone"]
Renamed(row) == IF row.state = "done" THEN row ELSE [row EXCEPT !.state = "first"]
RowMoved(rows, i) ==
    Append([rows EXCEPT ![i] = Gone(rows[i])], Renamed(rows[i]))

ArriveAgain(p, i) ==
    /\ box[p][i].state # "gone"
    /\ faults.dup < MaxDups
    /\ faults' = [faults EXCEPT !.dup = @ + 1]
    /\ box' = [box EXCEPT ![p] = RowMoved(@, i)]
    /\ UNCHANGED <<ui, tables, out, posts, batch, job, opened, read, lost>>

\* islocal below 2 and retry_count below its limit.
Pending(p) ==
    {i \in DOMAIN box[p] :
        box[p][i].state \in {"new", "first"} /\ box[p][i].tries < MaxTries}

\* ORDER BY islocal DESC, uuid ASC.
Precedes(p, i, j) ==
    IF box[p][i].state = box[p][j].state THEN i < j ELSE box[p][i].state = "first"

FirstPending(p) ==
    {i \in Pending(p) :
        Cardinality({j \in Pending(p) : Precedes(p, j, i)}) < BatchSize}

Kind(p, i) == box[p][i].mail.kind

\* Inits come first, then bundles, then messages.
Class(p, i) ==
    IF Kind(p, i) = "init" THEN 0 ELSE IF Kind(p, i) = "msg" THEN 2 ELSE 1

\* Plausible bug: the batch is processed in the order of the UIDs.
OrderedByUid(p, S) ==
    {order \in [1 .. Cardinality(S) -> S] :
        \A j, k \in DOMAIN order : j < k => order[j] < order[k]}

\* Phase 2: by class, each class in the order of the query.  There is one such
\* order.
Ordered(p, S) ==
    {order \in [1 .. Cardinality(S) -> S] :
        \A j, k \in DOMAIN order : j < k =>
            \/ Class(p, order[j]) < Class(p, order[k])
            \/ /\ Class(p, order[j]) = Class(p, order[k])
               /\ Precedes(p, order[j], order[k])}

\* incrementRetryCount of the rows whose body could not be fetched.
Missed(row) == [row EXCEPT !.tries = @ + 1]
RowsMissed(rows, missed) ==
    [i \in DOMAIN rows |-> IF i \in missed THEN Missed(rows[i]) ELSE rows[i]]

\* Phase 1: bodies are fetched, a failure counts against its row.
FetchBatch(p, missed) ==
    /\ batch[p] = <<>> /\ job[p] = Idle
    /\ FirstPending(p) # {}
    /\ missed \subseteq FirstPending(p)
    /\ faults.miss + Cardinality(missed) <= MaxMisses
    /\ faults' = [faults EXCEPT !.miss = @ + Cardinality(missed)]
    /\ \E order \in Ordered(p, FirstPending(p) \ missed) :
          batch' = [batch EXCEPT ![p] = order]
    /\ box' = [box EXCEPT ![p] = RowsMissed(@, missed)]
    /\ UNCHANGED <<ui, tables, out, posts, job, opened, read, lost>>

\* p's isolate turns to the first row of its batch.
Takes(p, kinds) ==
    /\ job[p] = Idle
    /\ batch[p] # <<>>
    /\ Kind(p, Head(batch[p])) \in kinds

\* setIslocal(2) of the row with this UID, if there still is one.
Finished(row) == IF row.state = "gone" THEN row ELSE [row EXCEPT !.state = "done"]
RowDone(rows, i) == [rows EXCEPT ![i] = Finished(rows[i])]
Done(p, i) == box' = [box EXCEPT ![p] = RowDone(@, i)]

Continue(p, step) ==
    job' = [job EXCEPT ![p] = [step |-> step, row |-> Head(batch[p])]]

Finish(p) == job' = [job EXCEPT ![p] = Idle]
-----------------------------------------------------------------------------
(* Bundles *)

\* signal_store_peer_prekey, and the row is done before the work starts.
TakeBundle(p) ==
    /\ Takes(p, {"bundle", "reply"})
    /\ pinned' = StorePeer(p)
    /\ Done(p, Head(batch[p]))
    /\ Continue(p, IF Kind(p, Head(batch[p])) = "bundle" THEN "show"
                                                        ELSE "initiate")
    /\ batch' = [batch EXCEPT ![p] = Tail(@)]
    /\ UNCHANGED <<ui, us, keys, eks, root, out, posts, opened, read, lost, faults>>

RowWanted(p) == IF us[p] > 0 THEN us ELSE [us EXCEPT ![p] = 1]

\* A root bundle: the conversation appears, and own keys for it are made.
ShowConversation(p) ==
    /\ job[p].step = "show"
    /\ us' = RowWanted(p)
    /\ keys' = MakeBundle(p)
    /\ job' = [job EXCEPT ![p].step = "answer"]
    /\ UNCHANGED <<ui, pinned, eks, root, out, posts, box, batch, opened, read,
                   lost, faults>>

Answer(p) ==
    /\ job[p].step = "answer"
    /\ Post(p, "reply")
    /\ Finish(p)
    /\ UNCHANGED <<ui, tables, box, batch, opened, read, lost, faults>>

\* x3dh_initiate, with a fresh ephemeral key, and dr_initialize.
X3dhInitiate(p) ==
    /\ HasPeerPrekey(p) /\ HasBundle(p)
    /\ eks' = eks + 1
    /\ root' = [root EXCEPT ![p] = eks + 1]

\* Plausible bug: every reply starts a session.
InitiateAgain(p) ==
    /\ job[p].step = "initiate"
    /\ us[p] > 0
    /\ X3dhInitiate(p)
    /\ job' = [job EXCEPT ![p].step = "post"]
    /\ UNCHANGED <<ui, us, keys, pinned, out, posts, box, batch, opened, read,
                   lost, faults>>

\* The initiator has the reply: X3DH with a fresh key and the ratchet row ...
Initiate(p) ==
    /\ job[p].step = "initiate"
    /\ us[p] > 0 /\ ~HasSession(p)
    /\ X3dhInitiate(p)
    /\ job' = [job EXCEPT ![p].step = "post"]
    /\ UNCHANGED <<ui, us, keys, pinned, out, posts, box, batch, opened, read,
                   lost, faults>>

\* ... then the task of the SESSION_INIT.
PostInit(p) ==
    /\ job[p].step = "post"
    /\ Post(p, "init")
    /\ Finish(p)
    /\ UNCHANGED <<ui, tables, box, batch, opened, read, lost, faults>>

\* A second reply finds the ratchet row.
AlreadyInitiated(p) ==
    /\ job[p].step = "initiate"
    /\ us[p] = 0 \/ HasSession(p)
    /\ Finish(p)
    /\ UNCHANGED <<ui, tables, out, posts, box, batch, opened, read, lost, faults>>
-----------------------------------------------------------------------------
(* Sealed mail: SESSION_INIT and RATCHET_MSG *)

\* Plausible bug: an init of a conversation already shown is a duplicate.
OpensUnlessShown(p, m) ==
    /\ m \notin opened[p]
    /\ IF m.kind = "init" THEN MadePrekey(p) /\ us[p] = 0
                          ELSE root[p] = m.root

\* An init needs our signed prekey and no other session; a message needs the
\* session it was sealed in.  No message key works twice.
Opens(p, m) ==
    /\ m \notin opened[p]
    /\ IF m.kind = "init" THEN MadePrekey(p) /\ root[p] \in {NoRoot, m.root}
                          ELSE root[p] = m.root

KeyUsed(p, m) == [opened EXCEPT ![p] = @ \cup {m}]

HeadMail(p) == box[p][Head(batch[p])].mail

\* The peer of an init is pinned, and its prekey kept when its session is new.
PinnedBy(p, m) ==
    IF m.kind # "init" THEN pinned
    ELSE IF HasSession(p) THEN PinPeer(p) ELSE StorePeer(p)

\* x3dh_respond gives the root of the init.
X3dhRespond(p, m) == root' = [root EXCEPT ![p] = m.root]

\* signal_session_decrypt, which creates the responder's ratchet row.
OpenSealed(p) ==
    /\ Takes(p, {"init", "msg"})
    /\ LET m == HeadMail(p)
       IN  /\ Opens(p, m)
           /\ IF HasSession(p) THEN UNCHANGED root ELSE X3dhRespond(p, m)
           /\ pinned' = PinnedBy(p, m)
           /\ opened' = KeyUsed(p, m)
    /\ Continue(p, "store")
    /\ batch' = [batch EXCEPT ![p] = Tail(@)]
    /\ UNCHANGED <<ui, us, keys, eks, out, posts, box, read, lost, faults>>

\* The conversation's row if an init finds none, the plaintext and islocal = 2
\* if the mail's row is still where it was.
StoreOpened(p) ==
    /\ job[p].step = "store"
    /\ LET row == box[p][job[p].row]
       IN  /\ read' = IF row.state = "gone" THEN read
                      ELSE [read EXCEPT ![p] = @ \cup {row.mail}]
           /\ us' = IF row.mail.kind = "init" THEN RowWanted(p) ELSE us
    /\ Done(p, job[p].row)
    /\ Finish(p)
    /\ UNCHANGED <<ui, keys, pinned, eks, root, out, posts, batch, opened, lost,
                   faults>>

\* A mail that does not open is done all the same: session_not_found,
\* unknown_spk, a second copy.
GiveUp(p) ==
    /\ Takes(p, {"init", "msg"})
    /\ ~Opens(p, HeadMail(p))
    /\ lost' = [lost EXCEPT ![p] = @ \cup ({HeadMail(p)} \ read[p])]
    /\ Done(p, Head(batch[p]))
    /\ batch' = [batch EXCEPT ![p] = Tail(@)]
    /\ UNCHANGED <<ui, tables, out, posts, job, opened, read, faults>>

Crash(p) ==
    /\ faults.crash < MaxCrashes
    /\ faults' = [faults EXCEPT !.crash = @ + 1]
    /\ ui' = IF p = Initiator /\ ui = "saved" THEN "done" ELSE ui
    /\ batch' = [batch EXCEPT ![p] = <<>>]
    /\ Finish(p)
    /\ UNCHANGED <<tables, out, posts, box, opened, read, lost>>

Deliver == \E m \in out : Arrive(m, FALSE)

Download(p) ==
    \/ \E missed \in SUBSET FirstPending(p) : FetchBatch(p, missed)
    \/ TakeBundle(p) \/ ShowConversation(p) \/ Answer(p)
    \/ Initiate(p) \/ PostInit(p) \/ AlreadyInitiated(p)
    \/ OpenSealed(p) \/ StoreOpened(p) \/ GiveUp(p)

Next ==
    \/ Create \/ PostBundle
    \/ Deliver
    \/ \E m \in out : Arrive(m, TRUE)
    \/ \E p \in Parties :
          \/ Send(p) \/ Download(p) \/ Crash(p)
          \/ \E i \in DOMAIN box[p] : ArriveAgain(p, i)

\* The isolates keep running and the mail gets through.
Fairness ==
    /\ WF_vars(PostBundle)
    /\ WF_vars(Deliver)
    /\ \A p \in Parties : WF_vars(Download(p))

Spec == Init /\ [][Next]_vars
FairSpec == Spec /\ Fairness
-----------------------------------------------------------------------------
(* Properties *)

Mail ==
    [from : Parties, kind : {"bundle", "reply", "init", "msg"}, id : 1 .. posts,
     root : 0 .. eks]

\* The shape of the tables; what is read was opened.
TypeOK ==
    /\ ui \in {"none", "saved", "done"}
    /\ us \in [Parties -> Nat]
    /\ {keys, pinned} \subseteq [Parties -> SUBSET {"identity", "prekey"}]
    /\ eks \in Nat /\ posts \in Nat
    /\ root \in [Parties -> 0 .. eks]
    /\ out \subseteq Mail
    /\ \A p \in Parties :
          /\ box[p] \in
                Seq([mail : Mail, tries : 0 .. MaxTries,
                     state : {"new", "first", "done", "gone"}])
          /\ ToSet(batch[p]) \subseteq DOMAIN box[p]
          /\ job[p].step \in {"idle", "show", "answer", "initiate", "post", "store"}
          /\ opened[p] \cup lost[p] \subseteq Mail
          /\ read[p] \subseteq opened[p]

\* The two sides hold the same X3DH root, and every init on its way is of it:
\* copies of bundles, replies and inits never start a second session.
RootsAgree ==
    /\ root[Initiator] # NoRoot /\ root[Responder] # NoRoot =>
          root[Initiator] = root[Responder]
    /\ \A m \in out : m.kind = "init" => m.root = root[Initiator]

\* The row of m at p has moved.
Moved(p, m) == \E e \in ToSet(box[p]) : e.mail = m /\ e.state = "gone"

\* A mail that never opens overtook its SESSION_INIT by a whole batch, at the
\* responder; or a crash, or a copy that moved its row, came between its key
\* and its plaintext.  (A message read together with its init is never lost:
\* inits are processed first.)
OnlyEarlyMailLost ==
    [][\A p \in Parties : \A m \in lost'[p] \ lost[p] :
          \/ m \in opened[p] /\ (faults.crash > 0 \/ Moved(p, m))
          \/ /\ p = Responder /\ root[p] = NoRoot
             /\ \A i \in ToSet(batch[p]) : Kind(p, i) # "init"]_vars

Abandoned == \E p \in Parties : \E i \in DOMAIN box[p] : box[p][i].tries >= MaxTries

\* Once created, a conversation comes to life on both sides, unless a crash
\* cut the handshake or a mail could not be fetched MaxTries times.
Completes ==
    ui # "none" ~>
        \/ \A p \in Parties : Ready(p)
        \/ faults.crash > 0
        \/ Abandoned

\* Whoever may send will be heard: an initiator that is ready has queued its
\* SESSION_INIT, or is about to.
ReadyIsHeard ==
    Ready(Initiator) =>
        \/ job[Initiator].step = "post"
        \/ \E m \in out \cup {e.mail : e \in ToSet(box[Responder])} : m.kind = "init"
=============================================================================
