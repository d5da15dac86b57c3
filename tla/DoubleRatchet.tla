---------------------------- MODULE DoubleRatchet ----------------------------
(***************************************************************************)
(* One 1:1 session of two parties (email/signal/signal_c_api.cpp over      *)
(* signal_protocol.cpp).  The initiator sends the SESSION_INIT, both then  *)
(* encrypt and decrypt at will.  The mail in between is kept, so it may be *)
(* read late, in any order, again, or never: net only grows and any mail   *)
(* in it may be handed to its recipient at any time.                       *)
(*                                                                         *)
(* Every call is one step here: what a step of another thread, or a crash, *)
(* between two statements of a call does is RatchetStore's subject.        *)
(***************************************************************************)
EXTENDS Ratchet, FiniteSets

CONSTANTS
    Initiator,      \* calls signal_session_initiate_with_id
    Responder,      \* published the signed prekey the initiator uses
    MaxSend         \* bound: messages each party encrypts

ASSUME PartyAssumption == Initiator # Responder
ASSUME MaxSendAssumption == MaxSend \in Nat

Parties == {Initiator, Responder}
Peer(p) == IF p = Initiator THEN Responder ELSE Initiator

VARIABLES
    open,       \* open[p]: p has a signal_session row
    row,        \* row[p]: that row
    skipped,    \* skipped[p]: p's signal_skipped_keys rows
    gen,        \* gen[p]: ratchet key pairs p has generated
    sent,       \* sent[p]: messages p has encrypted (names the plaintexts)
    net,        \* mail ever sent
    delivered   \* delivered[p]: mail p has decrypted

vars == <<open, row, skipped, gen, sent, net, delivered>>

Fresh(p) == Pub(p, gen[p] + 1)
SignedPrekey == Pub(Responder, 1)

FirstKey(p) == IF p = Responder THEN SignedPrekey ELSE NoPub(p)

\* Before dr_initialize there is no row; this value is never read.
Init ==
    /\ open = [p \in Parties |-> FALSE]
    /\ row = [p \in Parties |-> ResponderRow(FirstKey(p), Peer(p))]
    /\ skipped = [p \in Parties |-> {}]
    /\ gen = [p \in Parties |-> IF p = Responder THEN 1 ELSE 0]
    /\ sent = [p \in Parties |-> 0]
    /\ net = {}
    /\ delivered = [p \in Parties |-> {}]

Mail(p, kind, e) ==
    [from |-> p, kind |-> kind, id |-> sent[p], dh |-> e.dh, n |-> e.n,
     pn |-> e.pn, mk |-> e.mk]

\* signal_session_initiate_with_id: dr_initialize with the peer's signed
\* prekey, then dr_encrypt of the SESSION_INIT.
Initiate ==
    /\ ~open[Initiator]
    /\ sent[Initiator] < MaxSend
    /\ LET self == Fresh(Initiator)
           r == InitiatorRow(self, SignedPrekey)
       IN  /\ open' = [open EXCEPT ![Initiator] = TRUE]
           /\ row' = [row EXCEPT ![Initiator] = AfterSend(r, self)]
           /\ net' = net \cup {Mail(Initiator, "init", Envelope(r, self))}
    /\ gen' = [gen EXCEPT ![Initiator] = @ + 1]
    /\ sent' = [sent EXCEPT ![Initiator] = @ + 1]
    /\ UNCHANGED <<skipped, delivered>>

\* signal_session_encrypt.
Encrypt(p) ==
    /\ open[p]
    /\ sent[p] < MaxSend
    /\ CanSend(row[p])
    /\ row' = [row EXCEPT ![p] = AfterSend(@, Fresh(p))]
    /\ gen' = [gen EXCEPT ![p] = IF UsesFresh(row[p]) THEN @ + 1 ELSE @]
    /\ net' = net \cup {Mail(p, "msg", Envelope(row[p], Fresh(p)))}
    /\ sent' = [sent EXCEPT ![p] = @ + 1]
    /\ UNCHANGED <<open, skipped, delivered>>
-----------------------------------------------------------------------------
(* signal_session_decrypt *)

\* A SESSION_INIT creates the responder's row when there is none, any other
\* mail needs one (session_not_found).
Readable(p, m) == m.from = Peer(p) /\ (open[p] \/ m.kind = "init")

\* Plausible bug: a replayed SESSION_INIT resets the established ratchet.
RowResetByInit(p, m) ==
    IF m.kind = "init" THEN ResponderRow(SignedPrekey, Peer(p)) ELSE row[p]

RowFor(p, m) ==
    IF open[p] THEN row[p] ELSE ResponderRow(SignedPrekey, Peer(p))

StoredKeys(p, m) == {k \in skipped[p] : k.dh = m.dh /\ k.n = m.n}

\* INSERT OR REPLACE, keyed by (session, dh_pub, n).
StoreKeys(stored, new) ==
    {k \in stored : \A j \in new : j.dh # k.dh \/ j.n # k.n} \cup new

DropUsedKey(p, m) == skipped[p] \ StoredKeys(p, m)

\* Step 1: a key kept from an earlier gap opens the mail and is deleted.
DecryptStored(p, m) ==
    /\ Readable(p, m)
    /\ \E k \in StoredKeys(p, m) : k.mk = m.mk
    /\ open' = [open EXCEPT ![p] = TRUE]
    /\ row' = [row EXCEPT ![p] = RowFor(p, m)]
    /\ skipped' = [skipped EXCEPT ![p] = DropUsedKey(p, m)]
    /\ delivered' = [delivered EXCEPT ![p] = @ \cup {m}]
    /\ UNCHANGED <<gen, sent, net>>

\* Steps 2 to 4: the receiving chain, stepped to a new ratchet key first when
\* the mail carries one.
DecryptOnChain(p, m) ==
    /\ Readable(p, m)
    /\ StoredKeys(p, m) = {}
    /\ ChainOpens(RowFor(p, m), m)
    /\ open' = [open EXCEPT ![p] = TRUE]
    /\ row' = [row EXCEPT ![p] = AfterRecv(RowFor(p, m), m)]
    /\ skipped' =
         [skipped EXCEPT ![p] = StoreKeys(@, KeptKeys(RowFor(p, m), m))]
    /\ delivered' = [delivered EXCEPT ![p] = @ \cup {m}]
    /\ UNCHANGED <<gen, sent, net>>

\* decrypt_failed(_skipped), too_many_skipped: nothing but the responder's
\* fresh row is kept.
Refuse(p, m) ==
    /\ Readable(p, m)
    /\ IF StoredKeys(p, m) # {} THEN \A k \in StoredKeys(p, m) : k.mk # m.mk
                                ELSE ~ChainOpens(RowFor(p, m), m)
    /\ open' = [open EXCEPT ![p] = TRUE]
    /\ row' = [row EXCEPT ![p] = RowFor(p, m)]
    /\ UNCHANGED <<skipped, gen, sent, net, delivered>>

Next ==
    \/ Initiate
    \/ \E p \in Parties : Encrypt(p)
    \/ \E p \in Parties : \E m \in net :
          DecryptStored(p, m) \/ DecryptOnChain(p, m) \/ Refuse(p, m)

Spec == Init /\ [][Next]_vars
-----------------------------------------------------------------------------
(* Properties *)

PubKey == [owner : Parties, gen : Nat]
ChainKey == [root : Seq(SUBSET PubKey), n : Nat]
StoredKey == [dh : PubKey, n : Nat, mk : ChainKey]
RatchetRow ==
    [root : Seq(SUBSET PubKey), sendCk : ChainKey, recvCk : ChainKey,
     sendN : Nat, recvN : Nat, prevSendN : Nat, dhSelf : PubKey, dhPeer : PubKey]
Message ==
    [from : Parties, kind : {"init", "msg"}, id : Nat, dh : PubKey, n : Nat,
     pn : Nat, mk : ChainKey]

\* The shape of the rows and the mail.
TypeOK ==
    /\ open \in [Parties -> BOOLEAN]
    /\ row \in [Parties -> RatchetRow]
    /\ skipped \in [Parties -> SUBSET StoredKey]
    /\ gen \in [Parties -> Nat]
    /\ sent \in [Parties -> Nat]
    /\ net \in SUBSET Message
    /\ delivered \in [Parties -> SUBSET Message]

Decryptable(p, m) ==
    /\ Readable(p, m)
    /\ IF StoredKeys(p, m) # {} THEN \E k \in StoredKeys(p, m) : k.mk = m.mk
                                ELSE ChainOpens(RowFor(p, m), m)

\* A mail read again (a replayed SESSION_INIT included) is refused, however
\* the ratchet moved on since; dr_decrypt deletes or steps past every key it
\* has used.
NoReplay ==
    \A p \in Parties : \A m \in delivered[p] : ~Decryptable(p, m)

\* A mail not yet read can be decrypted whatever was read before it and
\* whatever was sent since, unless the gap it opens exceeds kMaxSkip.
NoMailLost ==
    \A p \in Parties : \A m \in net \ delivered[p] :
        /\ Readable(p, m)
        /\ WithinSkip(RowFor(p, m), m) \/ StoredKeys(p, m) # {}
        => Decryptable(p, m)

\* No message key seals two messages, on either side and in either direction.
NoKeyReuse ==
    \A a \in net : \A b \in net : a.mk = b.mk => a = b

\* Every key kept in signal_skipped_keys is the key of one mail that was sent
\* and not read yet: none for mail that does not exist, none left behind.
KeptKeysOutstanding ==
    \A p \in Parties : \A k \in skipped[p] :
        \E m \in net \ delivered[p] :
            m.from = Peer(p) /\ m.dh = k.dh /\ m.n = k.n /\ m.mk = k.mk

\* pn in a header is the number of messages its sender sealed on the chain
\* before (two root epochs back), which is what the recipient closes it with.
PnCountsPreviousChain ==
    \A m \in net :
        m.pn = Cardinality({e \in net : e.from = m.from
                                /\ Len(e.mk.root) = Len(m.mk.root) - 2})

\* One side's root key extends the other's by at most one DH output: the
\* parties derive the same keys, whatever the mail's order.
AheadBy1(p) ==
    row[p].root = KdfRoot(row[Peer(p)].root, Dh(row[p].dhSelf, row[p].dhPeer))
RootsInStep ==
    \/ row[Initiator].root = row[Responder].root
    \/ AheadBy1(Initiator)
    \/ AheadBy1(Responder)

(***************************************************************************)
(* The inductive invariant behind the properties above.  Either p leads: it *)
(* stepped to a new root the other has not read yet; or the two are level:  *)
(* p holds the sending chain of the common root, the other receives on it.  *)
(***************************************************************************)
Fledgling(p) == p = Responder /\ row[p] = ResponderRow(SignedPrekey, Initiator)

SendsAtRoot(p) == row[p].root # <<>> /\ row[p].sendCk.root = row[p].root

\* Odd epochs are led by the initiator.
OwnEpoch(p, len) == len % 2 = (IF p = Initiator THEN 1 ELSE 0)

Leads(p) ==
    LET q == Peer(p)
    IN  /\ open[p]
        /\ AheadBy1(p)
        /\ SendsAtRoot(p)
        /\ OwnEpoch(p, Len(row[p].root))
        /\ row[p].dhPeer = row[q].dhSelf
        /\ row[q].dhPeer # row[p].dhSelf
        /\ SendsAtRoot(q) \/ Fledgling(q)
        /\ ~open[q] => Fledgling(q)

Level(p) ==
    LET q == Peer(p)
    IN  /\ open[p] /\ open[q]
        /\ row[p].root = row[q].root
        /\ SendsAtRoot(p)
        /\ OwnEpoch(p, Len(row[p].root))
        /\ row[q].sendCk = NoChain
        /\ row[q].recvCk.root = row[q].root
        /\ row[p].dhPeer = row[q].dhSelf
        /\ row[q].dhPeer = row[p].dhSelf

\* A mail is from an epoch its sender led, and from the current one exactly if
\* it is on the sender's sending chain, behind the chain's position.
MailOnChain(m) ==
    LET r == row[m.from]
    IN  /\ m.mk.root # <<>>
        /\ OwnEpoch(m.from, Len(m.mk.root))
        /\ Len(m.mk.root) <= Len(r.root)
        /\ Len(m.mk.root) = Len(r.root) =>
              /\ m.mk.root = r.root
              /\ m.dh = r.dhSelf
        /\ m.mk.root = r.sendCk.root => m.mk.n < r.sendCk.n

OwnKeys(p) ==
    row[p].dhSelf.owner = p /\ row[p].dhSelf.gen <= gen[p]

RatchetInv ==
    /\ \A p \in Parties : OwnKeys(p)
    /\ \A m \in net : MailOnChain(m)
    /\ \/ /\ ~open[Initiator] /\ ~open[Responder]
          /\ net = {}
          /\ gen[Initiator] = 0
          /\ row[Initiator].root = <<>>
          /\ Fledgling(Responder)
       \/ /\ open[Initiator]
          /\ \E p \in Parties : Leads(p) \/ Level(p)

\* A root key only ever moves forward, one DH output a call: no mail resets or
\* rewinds an established ratchet.
RootsOnlyGrow ==
    [][\A p \in Parties :
          \/ row'[p].root = row[p].root
          \/ /\ Len(row'[p].root) = Len(row[p].root) + 1
             /\ row[p].root = SubSeq(row'[p].root, 1, Len(row[p].root))]_vars

\* The epochs of the two root keys, as the abstract turns.
Turns == INSTANCE RatchetTurns
             WITH epoch <- [p \in Parties |-> Len(row[p].root)]

\* The parties lead and follow in turns and skip no epoch.
TakesTurns == Turns!Spec
=============================================================================
