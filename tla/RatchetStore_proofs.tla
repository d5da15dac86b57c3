------------------------- MODULE RatchetStore_proofs -------------------------
(***************************************************************************)
(* Theorems about the 1:1 ratchet, for every MaxSkip and MaxSend.          *)
(*                                                                         *)
(* First about DoubleRatchet, where a call is one step: its type           *)
(* invariant, that both sides derive the same root keys in turns, that no  *)
(* message key is used twice, and that a mail opens once and only once: it *)
(* is neither lost nor read again.                                         *)
(*                                                                         *)
(* Then about the statements of the calls (RatchetStore), whatever crashes *)
(* and whichever statement fails, for any number of messages; they         *)
(* implement the calls of one step.                                        *)
(***************************************************************************)
EXTENDS RatchetStore, TLAPS

LEMMA PubIsKey == \A p \in Parties : \A g \in Nat : Pub(p, g) \in PubKey
  BY DEF Pub, PubKey

LEMMA PeerIsParty ==
    \A p \in Parties : Peer(p) \in Parties /\ Peer(p) # p /\ Peer(Peer(p)) = p
  BY PartyAssumption DEF Peer, Parties

LEMMA NoChainType == NoChain \in ChainKey
  BY DEF NoChain, ChainKey

LEMMA DhType == \A a, b \in PubKey : Dh(a, b) \in SUBSET PubKey
  BY DEF Dh

LEMMA RootType ==
    ASSUME NEW root \in Seq(SUBSET PubKey), NEW dh \in SUBSET PubKey
    PROVE  /\ KdfRoot(root, dh) \in Seq(SUBSET PubKey)
           /\ KdfChain(root) \in ChainKey
           /\ KdfRoot(root, dh) # <<>>
           /\ Len(KdfRoot(root, dh)) = Len(root) + 1
  BY DEF KdfRoot, KdfChain, ChainKey

LEMMA NextChainType ==
    ASSUME NEW ck \in ChainKey
    PROVE  NextChain(ck) \in ChainKey /\ NextChain(ck).root = ck.root
           /\ NextChain(ck).n = ck.n + 1
  BY DEF NextChain, ChainKey

LEMMA ResponderRowType ==
    ASSUME NEW spk \in PubKey, NEW p \in Parties
    PROVE  ResponderRow(spk, p) \in RatchetRow
  BY NoChainType, PubIsKey
     DEF ResponderRow, RatchetRow, NoPub

LEMMA InitiatorRowType ==
    ASSUME NEW self \in PubKey, NEW spk \in PubKey
    PROVE  InitiatorRow(self, spk) \in RatchetRow
  <1>. DEFINE root == KdfRoot(<<>>, Dh(self, spk))
  <1>1. <<>> \in Seq(SUBSET PubKey) /\ Dh(self, spk) \in SUBSET PubKey
    BY DhType
  <1>2. root \in Seq(SUBSET PubKey)
    BY <1>1, RootType
  <1>3. KdfChain(root) \in ChainKey
    BY <1>2 DEF KdfChain, ChainKey
  <1>. HIDE DEF root
  <1>4. [root |-> root, sendCk |-> KdfChain(root), recvCk |-> NoChain,
         sendN |-> 0, recvN |-> 0, prevSendN |-> 0,
         dhSelf |-> self, dhPeer |-> spk] \in RatchetRow
    BY <1>2, <1>3, NoChainType DEF RatchetRow
  <1>. QED  BY <1>4 DEF InitiatorRow, root

LEMMA SendStepType ==
    ASSUME NEW r \in RatchetRow, NEW fresh \in PubKey
    PROVE  SendStep(r, fresh) \in RatchetRow
  <1>. DEFINE root == KdfRoot(r.root, Dh(fresh, r.dhPeer))
  <1>1. root \in Seq(SUBSET PubKey) /\ KdfChain(root) \in ChainKey
    BY RootType, DhType DEF RatchetRow
  <1>. QED  BY <1>1 DEF SendStep, RatchetRow

LEMMA AfterSendType ==
    ASSUME NEW r \in RatchetRow, NEW fresh \in PubKey
    PROVE  /\ AfterSend(r, fresh) \in RatchetRow
           /\ Envelope(r, fresh).dh \in PubKey
           /\ Envelope(r, fresh).n \in Nat
           /\ Envelope(r, fresh).pn \in Nat
           /\ Envelope(r, fresh).mk \in ChainKey
  <1>. DEFINE s == SendStep(r, fresh)
  <1>1. s \in RatchetRow
    BY SendStepType
  <1>2. s.sendCk \in ChainKey /\ NextChain(s.sendCk) \in ChainKey
    BY <1>1, NextChainType DEF RatchetRow
  <1>3. /\ s.dhSelf \in PubKey /\ s.sendN \in Nat /\ s.prevSendN \in Nat
        /\ s.sendN + 1 \in Nat
    BY <1>1 DEF RatchetRow
  <1>. HIDE DEF s
  <1>4. [s EXCEPT !.sendCk = NextChain(s.sendCk), !.sendN = s.sendN + 1]
            \in RatchetRow
    BY <1>1, <1>2, <1>3 DEF RatchetRow
  <1>. QED  BY <1>2, <1>3, <1>4 DEF s, AfterSend, Envelope, MessageKey

LEMMA RecvStepType ==
    ASSUME NEW r \in RatchetRow, NEW m \in Message
    PROVE  RecvStep(r, m) \in RatchetRow
  <1>. DEFINE root == KdfRoot(r.root, Dh(r.dhSelf, m.dh))
  <1>1. root \in Seq(SUBSET PubKey) /\ KdfChain(root) \in ChainKey
    BY RootType, DhType DEF RatchetRow, Message
  <1>. QED  BY <1>1, NoChainType DEF RecvStep, RatchetRow, Message

LEMMA SkipToType ==
    ASSUME NEW ck \in ChainKey, NEW n \in Nat, NEW until \in Nat
    PROVE  /\ SkipTo(ck, n, until) \in ChainKey
           /\ SkipTo(ck, n, until).root = ck.root
           /\ IndexAfter(ck, n, until) \in Nat
  BY DEF SkipTo, IndexAfter, ChainKey

LEMMA AfterRecvType ==
    ASSUME NEW r \in RatchetRow, NEW m \in Message
    PROVE  AfterRecv(r, m) \in RatchetRow
  <1>. DEFINE s == RecvStep(r, m)
  <1>1. s \in RatchetRow
    BY RecvStepType
  <1>2. s.recvCk \in ChainKey /\ s.recvN \in Nat /\ m.n \in Nat
    BY <1>1 DEF RatchetRow, Message
  <1>. HIDE DEF s
  <1>3. /\ SkipTo(s.recvCk, s.recvN, m.n) \in ChainKey
        /\ IndexAfter(s.recvCk, s.recvN, m.n) \in Nat
    BY <1>2, SkipToType
  <1>4. /\ NextChain(SkipTo(s.recvCk, s.recvN, m.n)) \in ChainKey
        /\ IndexAfter(s.recvCk, s.recvN, m.n) + 1 \in Nat
    BY <1>3, NextChainType
  <1>. QED  BY <1>1, <1>4 DEF s, AfterRecv, RatchetRow

LEMMA SkippedKeysType ==
    ASSUME NEW ck \in ChainKey, NEW n \in Nat, NEW until \in Nat,
           NEW dh \in PubKey
    PROVE  SkippedKeys(ck, n, until, dh) \in SUBSET StoredKey
  <1>. SUFFICES ASSUME ck # NoChain, NEW i \in n .. (until - 1)
                PROVE  [dh |-> dh, n |-> i, mk |-> [ck EXCEPT !.n = @ + (i - n)]]
                          \in StoredKey
    BY DEF SkippedKeys
  <1>1. i \in Nat /\ i - n \in Nat
    OBVIOUS
  <1>. DEFINE mk == [ck EXCEPT !.n = @ + (i - n)]
  <1>2. mk \in ChainKey
    BY <1>1 DEF ChainKey
  <1>. HIDE DEF mk
  <1>3. [dh |-> dh, n |-> i, mk |-> mk] \in StoredKey
    BY <1>1, <1>2 DEF StoredKey
  <1>. QED  BY <1>3 DEF mk

LEMMA KeptKeysType ==
    ASSUME NEW r \in RatchetRow, NEW m \in Message
    PROVE  KeptKeys(r, m) \in SUBSET StoredKey
  <1>1. RecvStep(r, m) \in RatchetRow
    BY RecvStepType
  <1>. QED  BY <1>1, SkippedKeysType DEF KeptKeys, RatchetRow, Message
-----------------------------------------------------------------------------
LEMMA RowForType ==
    ASSUME TypeOK, NEW p \in Parties, NEW m \in Message
    PROVE  RowFor(p, m) \in RatchetRow
  BY ResponderRowType, PeerIsParty, PubIsKey, SMT
     DEF RowFor, TypeOK, SignedPrekey, Parties

LEMMA FreshType ==
    ASSUME TypeOK, NEW p \in Parties
    PROVE  Fresh(p) \in PubKey
  BY PubIsKey DEF TypeOK, Fresh

LEMMA SealType ==
    ASSUME TypeOK, NEW p \in Parties, NEW r \in RatchetRow, NEW kind \in {"init", "msg"}
    PROVE  /\ AfterSend(r, Fresh(p)) \in RatchetRow
           /\ Mail(p, kind, Envelope(r, Fresh(p))) \in Message
  <1>1. Fresh(p) \in PubKey
    BY FreshType
  <1>. QED  BY <1>1, AfterSendType DEF Mail, Message, TypeOK

LEMMA InitType == Init => TypeOK
  <1>. SUFFICES ASSUME Init PROVE TypeOK
    OBVIOUS
  <1>1. \A p \in Parties : ResponderRow(FirstKey(p), Peer(p)) \in RatchetRow
    BY ResponderRowType, PubIsKey, PeerIsParty
       DEF FirstKey, SignedPrekey, NoPub, Parties
  <1>. QED  BY <1>1 DEF Init, TypeOK

LEMMA InitiateType ==
    ASSUME TypeOK, Initiate
    PROVE  TypeOK'
  <1>. DEFINE self == Fresh(Initiator)
              r == InitiatorRow(self, SignedPrekey)
  <1>1. Initiator \in Parties /\ Responder \in Parties
    BY DEF Parties
  <1>2. self \in PubKey /\ SignedPrekey \in PubKey
    BY <1>1, FreshType, PubIsKey DEF SignedPrekey
  <1>3. r \in RatchetRow
    BY <1>2, InitiatorRowType
  <1>4. /\ AfterSend(r, self) \in RatchetRow
        /\ Mail(Initiator, "init", Envelope(r, self)) \in Message
    BY <1>1, <1>3, SealType
  <1>. QED  BY <1>1, <1>4 DEF Initiate, TypeOK

LEMMA EncryptType ==
    ASSUME TypeOK, NEW p \in Parties, Encrypt(p)
    PROVE  TypeOK'
  <1>1. row[p] \in RatchetRow
    BY DEF TypeOK
  <1>2. /\ AfterSend(row[p], Fresh(p)) \in RatchetRow
        /\ Mail(p, "msg", Envelope(row[p], Fresh(p))) \in Message
    BY <1>1, SealType
  <1>. QED  BY <1>2 DEF Encrypt, TypeOK

\* Every reachable state has rows, keys and mail of the declared shape.
THEOREM TypeCorrect == Spec => []TypeOK
  <1>1. TypeOK /\ [Next]_vars => TypeOK'
    <2>. SUFFICES ASSUME TypeOK, [Next]_vars PROVE TypeOK'
      OBVIOUS
    <2>1. CASE Initiate
      BY <2>1, InitiateType
    <2>2. ASSUME NEW p \in Parties, Encrypt(p) PROVE TypeOK'
      BY <2>2, EncryptType
    <2>3. ASSUME NEW p \in Parties, NEW m \in net,
                 DecryptStored(p, m) \/ DecryptOnChain(p, m) \/ Refuse(p, m)
          PROVE  TypeOK'
      <3>1. m \in Message /\ RowFor(p, m) \in RatchetRow
        BY RowForType DEF TypeOK
      <3>2. CASE DecryptStored(p, m)
        BY <3>1, <3>2 DEF DecryptStored, DropUsedKey, TypeOK
      <3>3. CASE DecryptOnChain(p, m)
        <4>1. AfterRecv(RowFor(p, m), m) \in RatchetRow
          BY <3>1, AfterRecvType
        <4>2. StoreKeys(skipped[p], KeptKeys(RowFor(p, m), m))
                 \in SUBSET StoredKey
          BY <3>1, KeptKeysType DEF StoreKeys, TypeOK
        <4>. QED  BY <3>1, <3>3, <4>1, <4>2 DEF DecryptOnChain, TypeOK
      <3>4. CASE Refuse(p, m)
        BY <3>1, <3>4 DEF Refuse, TypeOK
      <3>. QED  BY <2>3, <3>2, <3>3, <3>4
    <2>4. CASE UNCHANGED vars
      BY <2>4 DEF vars, TypeOK
    <2>. QED  BY <2>1, <2>2, <2>3, <2>4 DEF Next
  <1>. QED  BY <1>1, InitType, PTL DEF Spec
-----------------------------------------------------------------------------
(* What the ratchet operators do to the fields the invariant reads. *)

LEMMA SendOnChain ==
    ASSUME NEW r \in RatchetRow, NEW fresh \in PubKey, r.sendCk # NoChain
    PROVE  LET s == AfterSend(r, fresh)
               e == Envelope(r, fresh)
           IN  /\ s.root = r.root
               /\ s.sendCk.root = r.sendCk.root
               /\ s.sendCk.n = r.sendCk.n + 1
               /\ s.recvCk = r.recvCk
               /\ s.dhSelf = r.dhSelf /\ s.dhPeer = r.dhPeer
               /\ e.mk = r.sendCk /\ e.dh = r.dhSelf
  <1>1. SendStep(r, fresh) = r
    BY DEF SendStep
  <1>2. r.sendCk \in ChainKey
    BY DEF RatchetRow
  <1>3. AfterSend(r, fresh) =
            [r EXCEPT !.sendCk = NextChain(r.sendCk), !.sendN = r.sendN + 1]
    BY <1>1 DEF AfterSend
  <1>. QED  BY <1>1, <1>2, <1>3, NextChainType
            DEF Envelope, MessageKey, RatchetRow

LEMMA SendOnNewChain ==
    ASSUME NEW r \in RatchetRow, NEW fresh \in PubKey, r.sendCk = NoChain
    PROVE  LET s == AfterSend(r, fresh)
               e == Envelope(r, fresh)
               root == KdfRoot(r.root, Dh(fresh, r.dhPeer))
           IN  /\ s.root = root
               /\ s.sendCk.root = root
               /\ s.sendCk.n = 1
               /\ s.recvCk = r.recvCk
               /\ s.dhSelf = fresh /\ s.dhPeer = r.dhPeer
               /\ e.mk.root = root /\ e.mk.n = 0 /\ e.dh = fresh
  <1>. DEFINE root == KdfRoot(r.root, Dh(fresh, r.dhPeer))
              s == [r EXCEPT !.root = root, !.sendCk = KdfChain(root),
                             !.dhSelf = fresh]
  <1>1. SendStep(r, fresh) = s
    BY DEF SendStep
  <1>2. KdfChain(root) \in ChainKey /\ KdfChain(root).root = root
        /\ KdfChain(root).n = 0
    BY RootType, DhType DEF KdfChain, RatchetRow
  <1>3. /\ s.root = root /\ s.sendCk = KdfChain(root) /\ s.recvCk = r.recvCk
        /\ s.dhSelf = fresh /\ s.dhPeer = r.dhPeer
    BY DEF RatchetRow
  <1>4. AfterSend(r, fresh) =
            [s EXCEPT !.sendCk = NextChain(s.sendCk), !.sendN = s.sendN + 1]
    BY <1>1 DEF AfterSend
  <1>5. /\ NextChain(KdfChain(root)).root = root
        /\ NextChain(KdfChain(root)).n = 1
    BY <1>2, NextChainType
  <1>6. Envelope(r, fresh).mk = s.sendCk /\ Envelope(r, fresh).dh = s.dhSelf
    BY <1>1 DEF Envelope, MessageKey
  <1>7. s \in RatchetRow
    BY <1>1, SendStepType
  <1>. HIDE DEF s
  <1>. QED  BY <1>2, <1>3, <1>4, <1>5, <1>6, <1>7 DEF RatchetRow

LEMMA RecvOnChain ==
    ASSUME NEW r \in RatchetRow, NEW m \in Message, ~NewRatchetKey(r, m)
    PROVE  LET s == AfterRecv(r, m)
           IN  /\ s.root = r.root
               /\ s.sendCk = r.sendCk
               /\ s.recvCk.root = r.recvCk.root
               /\ s.dhSelf = r.dhSelf /\ s.dhPeer = r.dhPeer
  <1>1. RecvStep(r, m) = r
    BY DEF RecvStep
  <1>2. r.recvCk \in ChainKey /\ r.recvN \in Nat /\ m.n \in Nat
    BY DEF RatchetRow, Message
  <1>3. /\ SkipTo(r.recvCk, r.recvN, m.n) \in ChainKey
        /\ SkipTo(r.recvCk, r.recvN, m.n).root = r.recvCk.root
    BY <1>2, SkipToType
  <1>4. NextChain(SkipTo(r.recvCk, r.recvN, m.n)).root = r.recvCk.root
    BY <1>3, NextChainType
  <1>. QED  BY <1>1, <1>4 DEF AfterRecv, RatchetRow

LEMMA RecvOnNewChain ==
    ASSUME NEW r \in RatchetRow, NEW m \in Message, NewRatchetKey(r, m)
    PROVE  LET s == AfterRecv(r, m)
               root == KdfRoot(r.root, Dh(r.dhSelf, m.dh))
           IN  /\ s.root = root
               /\ s.sendCk = NoChain
               /\ s.recvCk.root = root
               /\ s.dhSelf = r.dhSelf /\ s.dhPeer = m.dh
               /\ ChainOpens(r, m) => m.mk.root = root
  <1>. DEFINE root == KdfRoot(r.root, Dh(r.dhSelf, m.dh))
              s == [r EXCEPT !.root = root, !.recvCk = KdfChain(root),
                       !.recvN = 0, !.prevSendN = r.sendN, !.sendN = 0,
                       !.sendCk = NoChain, !.dhPeer = m.dh]
              ck == SkipTo(s.recvCk, s.recvN, m.n)
  <1>1. RecvStep(r, m) = s /\ s \in RatchetRow
    BY RecvStepType DEF RecvStep
  <1>2. /\ s.root = root /\ s.sendCk = NoChain /\ s.recvCk = KdfChain(root)
        /\ s.dhSelf = r.dhSelf /\ s.dhPeer = m.dh
    BY DEF RatchetRow
  <1>3. s.recvCk \in ChainKey /\ s.recvN \in Nat /\ m.n \in Nat
    BY <1>1 DEF RatchetRow, Message
  <1>4. s.recvCk.root = root
    BY <1>2 DEF KdfChain
  <1>5. RecvStep(r, m) = s /\ AfterRecv(r, m) =
          [s EXCEPT !.recvCk = NextChain(ck),
                    !.recvN = IndexAfter(s.recvCk, s.recvN, m.n) + 1]
    BY <1>1 DEF AfterRecv
  <1>. HIDE DEF s
  <1>6. ck \in ChainKey /\ ck.root = root
    BY <1>3, <1>4, SkipToType
  <1>7. NextChain(ck).root = root
    BY <1>6, NextChainType
  <1>8. ChainOpens(r, m) => m.mk = ck
    BY <1>5 DEF ChainOpens, ChainKeyFor, MessageKey
  <1>. HIDE DEF ck, root
  <1>9. /\ AfterRecv(r, m).root = root /\ AfterRecv(r, m).sendCk = NoChain
        /\ AfterRecv(r, m).recvCk.root = root
        /\ AfterRecv(r, m).dhSelf = r.dhSelf /\ AfterRecv(r, m).dhPeer = m.dh
    BY <1>1, <1>2, <1>5, <1>7 DEF RatchetRow
  <1>. QED  BY <1>6, <1>8, <1>9 DEF root
-----------------------------------------------------------------------------
(* The roots stay in step. *)

LEMMA RowForIsRow ==
    ASSUME TypeOK, RatchetInv, NEW p \in Parties, NEW m \in net
    PROVE  RowFor(p, m) = row[p]
  <1>1. CASE open[p]
    BY <1>1 DEF RowFor
  <1>2. CASE ~open[p]
    <2>1. open[Initiator] /\ p = Responder
      BY <1>2 DEF RatchetInv, Parties
    <2>2. Fledgling(Responder)
      BY <1>2, <2>1, PartyAssumption DEF RatchetInv, Leads, Level, Peer, Parties
    <2>. QED  BY <1>2, <2>1, <2>2, PartyAssumption DEF RowFor, Fledgling, Peer
  <1>. QED  BY <1>1, <1>2

\* A call that only creates the responder's row, or changes no row at all,
\* keeps the invariant.
LEMMA InvRowsKept ==
    ASSUME TypeOK, RatchetInv, row' = row, gen' = gen, net' = net, net # {},
           \A p \in Parties : open[p] => open'[p]
    PROVE  RatchetInv'
  <1>1. open[Initiator]
    BY DEF RatchetInv
  <1>2. PICK p \in Parties : Leads(p) \/ Level(p)
    BY <1>1 DEF RatchetInv
  <1>3. Leads(p)' \/ Level(p)'
    BY <1>2, PeerIsParty
       DEF Leads, Level, Fledgling, SendsAtRoot, AheadBy1
  <1>4. /\ \A x \in Parties : OwnKeys(x)'
        /\ \A m \in net' : MailOnChain(m)'
    BY DEF RatchetInv, OwnKeys, MailOnChain
  <1>. QED  BY <1>1, <1>3, <1>4 DEF RatchetInv, Parties

\* A call that leaves p's root and ratchet keys alone, and its chains on their
\* roots, keeps the two sides where they were.
LEMMA PhaseKept ==
    ASSUME TypeOK, RatchetInv, open[Initiator], NEW p \in Parties, open[p],
           open' = open,
           \A x \in Parties \ {p} : row'[x] = row[x],
           row'[p].root = row[p].root,
           row'[p].dhSelf = row[p].dhSelf, row'[p].dhPeer = row[p].dhPeer,
           row'[p].sendCk = NoChain <=> row[p].sendCk = NoChain,
           row'[p].sendCk.root = row[p].sendCk.root,
           row'[p].recvCk.root = row[p].recvCk.root,
           \A x \in Parties : Fledgling(x) => (SendsAtRoot(x) \/ Fledgling(x))'
    PROVE  \E x \in Parties : (Leads(x) \/ Level(x))'
  <1>1. PICK x \in Parties : Leads(x) \/ Level(x)
    BY DEF RatchetInv
  <1>2. x = p \/ Peer(x) = p
    BY PeerIsParty DEF Peer, Parties
  <1>3. CASE Leads(x)
    <2>1. SendsAtRoot(x)'
      BY <1>3 DEF Leads, SendsAtRoot
    <2>2. AheadBy1(x)' /\ OwnEpoch(x, Len(row[x].root))'
      BY <1>3, PeerIsParty DEF Leads, AheadBy1
    <2>3. (SendsAtRoot(Peer(x)) \/ Fledgling(Peer(x)))'
      BY <1>3, PeerIsParty DEF Leads, SendsAtRoot
    <2>4. /\ (row[x].dhPeer = row[Peer(x)].dhSelf)'
          /\ (row[Peer(x)].dhPeer # row[x].dhSelf)'
      BY <1>3, PeerIsParty DEF Leads
    <2>5. (~open[Peer(x)] => Fledgling(Peer(x)))'
      BY <1>3, PeerIsParty DEF Leads, Fledgling
    <2>6. open'[x]
      BY <1>3 DEF Leads
    <2>. QED  BY <2>1, <2>2, <2>3, <2>4, <2>5, <2>6 DEF Leads
  <1>4. CASE Level(x)
    BY <1>4, PeerIsParty DEF Level, SendsAtRoot
  <1>. QED  BY <1>1, <1>3, <1>4

LEMMA OpenMeansStarted ==
    ASSUME RatchetInv, NEW p \in Parties, open[p]
    PROVE  open[Initiator]
  BY DEF RatchetInv, Parties

LEMMA EpochAlternates ==
    ASSUME NEW p \in Parties, NEW k \in Nat, OwnEpoch(p, k + 1)
    PROVE  OwnEpoch(Peer(p), k)
  BY PartyAssumption DEF OwnEpoch, Peer, Parties

LEMMA EpochNotShared ==
    ASSUME NEW p \in Parties, NEW k \in Nat
    PROVE  /\ ~(OwnEpoch(p, k) /\ OwnEpoch(Peer(p), k))
           /\ OwnEpoch(Peer(p), k) => OwnEpoch(p, k + 1)
           /\ OwnEpoch(p, k + 1) => k % 2 = (IF p = Initiator THEN 0 ELSE 1)
  BY PartyAssumption DEF OwnEpoch, Peer, Parties

LEMMA RowFacts ==
    ASSUME TypeOK, NEW p \in Parties
    PROVE  /\ row[p] \in RatchetRow
           /\ row[p].root \in Seq(SUBSET PubKey)
           /\ row[p].sendCk \in ChainKey /\ row[p].recvCk \in ChainKey
           /\ row[p].dhSelf \in PubKey /\ row[p].dhPeer \in PubKey
           /\ Len(row[p].root) \in Nat
           /\ gen[p] \in Nat /\ sent[p] \in Nat
  BY DEF TypeOK, RatchetRow

LEMMA AheadLen ==
    ASSUME TypeOK, NEW p \in Parties, AheadBy1(p)
    PROVE  /\ Len(row[p].root) = Len(row[Peer(p)].root) + 1
           /\ row[p].root # <<>>
  <1>1. Dh(row[p].dhSelf, row[p].dhPeer) \in SUBSET PubKey
    BY RowFacts, DhType
  <1>2. row[Peer(p)].root \in Seq(SUBSET PubKey)
    BY RowFacts, PeerIsParty
  <1>. QED  BY <1>1, <1>2, RootType DEF AheadBy1

\* A party with a sending chain has it on its root, in an epoch of its own.
LEMMA SenderAtRoot ==
    ASSUME TypeOK, RatchetInv, NEW p \in Parties, open[p],
           row[p].sendCk # NoChain
    PROVE  SendsAtRoot(p) /\ OwnEpoch(p, Len(row[p].root))
  <1>1. PICK x \in Parties : Leads(x) \/ Level(x)
    BY OpenMeansStarted DEF RatchetInv
  <1>2. x = p \/ (Peer(x) = p /\ Peer(p) = x)
    BY PeerIsParty DEF Peer, Parties
  <1>3. CASE x = p
    BY <1>1, <1>3 DEF Leads, Level
  <1>4. CASE Peer(x) = p /\ Peer(p) = x
    <2>1. Leads(x)
      BY <1>1, <1>4 DEF Level
    <2>2. ~Fledgling(p)
      BY RowFacts DEF Fledgling, ResponderRow
    <2>3. SendsAtRoot(p)
      BY <1>4, <2>1, <2>2 DEF Leads
    <2>4. Len(row[x].root) = Len(row[p].root) + 1
      BY <1>4, <2>1, AheadLen DEF Leads
    <2>5. OwnEpoch(x, Len(row[p].root) + 1)
      BY <2>1, <2>4 DEF Leads
    <2>. QED  BY <1>4, <2>3, <2>5, EpochAlternates, RowFacts
  <1>. QED  BY <1>2, <1>3, <1>4

\* A party with no sending chain that may send is level behind the other.
LEMMA NextToLead ==
    ASSUME TypeOK, RatchetInv, NEW p \in Parties, open[p],
           row[p].sendCk = NoChain, CanSend(row[p])
    PROVE  Level(Peer(p))
  <1>1. PICK x \in Parties : Leads(x) \/ Level(x)
    BY OpenMeansStarted DEF RatchetInv
  <1>2. x = p \/ (Peer(x) = p /\ Peer(p) = x)
    BY PeerIsParty DEF Peer, Parties
  <1>3. ~SendsAtRoot(p)
    BY DEF SendsAtRoot, NoChain
  <1>4. ~Fledgling(p)
    BY RowFacts, PubIsKey DEF Fledgling, ResponderRow, CanSend, UsesFresh, NoPub, Pub
  <1>. QED  BY <1>1, <1>2, <1>3, <1>4 DEF Leads, Level

LEMMA EncryptInv ==
    ASSUME TypeOK, RatchetInv, NEW p \in Parties, Encrypt(p)
    PROVE  RatchetInv'
  <1>. DEFINE r == row[p]
              f == Fresh(p)
  <1>0. PICK mail : mail = Mail(p, "msg", Envelope(r, f))
    OBVIOUS
  <1>1. /\ open[p] /\ open[Initiator] /\ open' = open /\ CanSend(r)
        /\ row' = [row EXCEPT ![p] = AfterSend(r, f)]
        /\ gen' = [gen EXCEPT ![p] = IF UsesFresh(r) THEN gen[p] + 1 ELSE gen[p]]
        /\ net' = net \cup {mail}
    BY <1>0, OpenMeansStarted DEF Encrypt
  <1>2. /\ r \in RatchetRow /\ f \in PubKey
        /\ f.owner = p /\ f.gen = gen[p] + 1
        /\ row'[p] = AfterSend(r, f)
        /\ \A x \in Parties \ {p} : row'[x] = row[x]
        /\ \A x \in Parties \ {p} : gen'[x] = gen[x]
    <2>1. r \in RatchetRow /\ f \in PubKey
      BY RowFacts, FreshType
    <2>2. f.owner = p /\ f.gen = gen[p] + 1
      BY DEF Fresh, Pub
    <2>3. /\ row'[p] = AfterSend(r, f)
          /\ \A x \in Parties \ {p} : row'[x] = row[x]
          /\ \A x \in Parties \ {p} : gen'[x] = gen[x]
      BY <1>1 DEF TypeOK
    <2>. QED  BY <2>1, <2>2, <2>3
  <1>3. /\ mail.from = p
        /\ mail.mk = Envelope(r, f).mk /\ mail.dh = Envelope(r, f).dh
    BY <1>0 DEF Mail
  <1>4. \A m \in net : /\ MailOnChain(m) /\ m.from \in Parties
                       /\ Len(m.mk.root) \in Nat /\ m.mk.n \in Nat
    BY DEF RatchetInv, TypeOK, Message, ChainKey
  <1>5. CASE r.sendCk # NoChain
    <2>. DEFINE s == AfterSend(r, f)
    <2>1. /\ s.root = r.root /\ s.sendCk.root = r.sendCk.root
          /\ s.sendCk.n = r.sendCk.n + 1 /\ s.recvCk = r.recvCk
          /\ s.dhSelf = r.dhSelf /\ s.dhPeer = r.dhPeer
          /\ mail.mk = r.sendCk /\ mail.dh = r.dhSelf
      BY <1>2, <1>3, <1>5, SendOnChain
    <2>2. SendsAtRoot(p) /\ OwnEpoch(p, Len(r.root))
      BY <1>1, <1>5, SenderAtRoot
    <2>3. gen'[p] = gen[p]
      BY <1>1, <1>5, RowFacts DEF UsesFresh, TypeOK
    <2>4. \A x \in Parties : OwnKeys(x)'
      BY <1>2, <2>1, <2>3 DEF RatchetInv, OwnKeys
    <2>5. MailOnChain(mail)'
      BY <1>2, <1>3, <2>1, <2>2, RowFacts DEF MailOnChain, SendsAtRoot, ChainKey
    <2>6. ASSUME NEW m \in net PROVE MailOnChain(m)'
      <3>1. CASE m.from = p
        <4>1. r.sendCk.n \in Nat
          BY RowFacts DEF ChainKey
        <4>2. /\ row'[p].root = r.root /\ row'[p].dhSelf = r.dhSelf
              /\ row'[p].sendCk.root = r.sendCk.root
              /\ row'[p].sendCk.n = r.sendCk.n + 1
          BY <1>2, <2>1
        <4>3. MailOnChain(m) /\ m.mk.n \in Nat
          BY <1>4
        <4>4. m.mk.n < r.sendCk.n => m.mk.n < r.sendCk.n + 1
          BY <4>1, <4>3
        <4>. QED  BY <3>1, <4>2, <4>3, <4>4 DEF MailOnChain
      <3>2. CASE m.from # p
        BY <1>2, <1>4, <3>2 DEF MailOnChain
      <3>. QED  BY <3>1, <3>2
    <2>7. ~Fledgling(p) /\ (s.sendCk # NoChain)
      <3>1. r.sendCk.root # <<>> /\ NoChain.root = <<>>
        BY <2>2 DEF SendsAtRoot, NoChain
      <3>. QED  BY <1>5, <2>1, <3>1 DEF Fledgling, ResponderRow
    <2>8. \A x \in Parties : Fledgling(x) => (SendsAtRoot(x) \/ Fledgling(x))'
      BY <1>2, <2>7 DEF Fledgling
    <2>9. \E x \in Parties : (Leads(x) \/ Level(x))'
      BY <1>1, <1>2, <1>5, <2>1, <2>7, <2>8, PhaseKept
    <2>. QED  BY <1>1, <2>4, <2>5, <2>6, <2>9 DEF RatchetInv
  <1>6. CASE r.sendCk = NoChain
    <2>. DEFINE s == AfterSend(r, f)
                q == Peer(p)
                root == KdfRoot(r.root, Dh(f, r.dhPeer))
    <2>1. /\ s.root = root /\ s.sendCk.root = root /\ s.sendCk.n = 1
          /\ s.recvCk = r.recvCk /\ s.dhSelf = f /\ s.dhPeer = r.dhPeer
          /\ mail.mk.root = root /\ mail.mk.n = 0 /\ mail.dh = f
      BY <1>2, <1>3, <1>6, SendOnNewChain
    <2>2. Level(q) /\ q \in Parties /\ q # p /\ Peer(q) = p
      BY <1>1, <1>6, NextToLead, PeerIsParty
    <2>3. /\ root # <<>> /\ Len(root) = Len(r.root) + 1
      BY <1>2, RootType, DhType DEF RatchetRow
    <2>4. OwnEpoch(p, Len(root))
      <3>1. OwnEpoch(q, Len(r.root))
        BY <2>2 DEF Level
      <3>. QED  BY <2>2, <2>3, <3>1, EpochNotShared, RowFacts
    <2>5. gen'[p] = gen[p] + 1
      BY <1>1, <1>6, RowFacts DEF UsesFresh, TypeOK
    <2>6. \A x \in Parties : OwnKeys(x)'
      BY <1>2, <2>1, <2>5, RowFacts DEF RatchetInv, OwnKeys
    <2>7. MailOnChain(mail)'
      BY <1>2, <1>3, <2>1, <2>3, <2>4 DEF MailOnChain
    <2>8. ASSUME NEW m \in net PROVE MailOnChain(m)'
      <3>1. CASE m.from = p
        <4>1. Len(m.mk.root) <= Len(r.root) /\ OwnEpoch(p, Len(m.mk.root))
              /\ m.mk.root # <<>>
          BY <1>4, <3>1 DEF MailOnChain
        <4>2. Len(m.mk.root) < Len(root) /\ m.mk.root # root
          BY <1>4, <2>3, <4>1, RowFacts
        <4>3. Len(m.mk.root) <= Len(root)
          BY <4>2, RowFacts
        <4>. QED  BY <1>2, <1>4, <2>1, <3>1, <4>1, <4>2, <4>3, <2>3
                  DEF MailOnChain
      <3>2. CASE m.from # p
        BY <1>2, <1>4, <3>2 DEF MailOnChain
      <3>. QED  BY <3>1, <3>2
    <2>9. Leads(p)'
      <3>1. AheadBy1(p)'
        BY <1>2, <2>1, <2>2 DEF AheadBy1, Level
      <3>2. SendsAtRoot(p)'
        BY <1>2, <2>1, <2>3 DEF SendsAtRoot
      <3>3. row'[q] = row[q]
        BY <1>2, <2>2
      <3>4. SendsAtRoot(q)'
        BY <2>2, <3>3 DEF Level, SendsAtRoot
      <3>5. row'[p].dhPeer = row'[q].dhSelf
        BY <1>2, <2>1, <2>2, <3>3 DEF Level
      <3>6. row'[q].dhPeer # row'[p].dhSelf
        <4>1. row'[q].dhPeer = r.dhSelf
          BY <2>2, <3>3 DEF Level
        <4>2. r.dhSelf.gen <= gen[p]
          BY DEF RatchetInv, OwnKeys
        <4>3. r.dhSelf.gen \in Nat
          BY RowFacts DEF PubKey
        <4>. QED  BY <1>2, <2>1, <4>1, <4>2, <4>3, RowFacts
      <3>7. open'[p] /\ open'[q]
        BY <1>1, <2>2 DEF Level
      <3>. QED  BY <1>2, <2>1, <2>4, <3>1, <3>2, <3>4, <3>5, <3>6, <3>7 DEF Leads
    <2>. QED  BY <1>1, <2>6, <2>7, <2>8, <2>9 DEF RatchetInv
  <1>. QED  BY <1>5, <1>6

LEMMA InitiateInv ==
    ASSUME TypeOK, RatchetInv, Initiate
    PROVE  RatchetInv'
  <1>. DEFINE f == Fresh(Initiator)
              r == InitiatorRow(f, SignedPrekey)
              s == AfterSend(r, f)
              root == KdfRoot(<<>>, Dh(f, SignedPrekey))
  <1>0. PICK mail : mail = Mail(Initiator, "init", Envelope(r, f))
    OBVIOUS
  <1>1. /\ Initiator \in Parties /\ Responder \in Parties
        /\ Peer(Initiator) = Responder
    BY DEF Parties, Peer
  <1>2. /\ ~open[Initiator] /\ net = {} /\ gen[Initiator] = 0
        /\ Fledgling(Responder)
    BY DEF Initiate, RatchetInv
  <1>3. /\ open' = [open EXCEPT ![Initiator] = TRUE]
        /\ row' = [row EXCEPT ![Initiator] = s]
        /\ gen' = [gen EXCEPT ![Initiator] = gen[Initiator] + 1]
        /\ net' = net \cup {mail}
    BY <1>0 DEF Initiate
  <1>4. /\ f \in PubKey /\ f = Pub(Initiator, 1)
        /\ f.owner = Initiator /\ f.gen = 1
        /\ SignedPrekey \in PubKey
    BY <1>1, <1>2, FreshType, PubIsKey DEF Fresh, Pub, SignedPrekey
  <1>5. r \in RatchetRow
    BY <1>4, InitiatorRowType
  <1>6. /\ root # <<>> /\ Len(root) = 1
    <2>1. Dh(f, SignedPrekey) \in SUBSET PubKey
      BY <1>4, DhType
    <2>2. root = Append(<<>>, Dh(f, SignedPrekey))
      BY DEF KdfRoot
    <2>3. root = <<Dh(f, SignedPrekey)>>
      BY <2>2
    <2>. QED  BY <2>3
  <1>7. /\ r.root = root /\ r.sendCk = [root |-> root, n |-> 0]
        /\ r.dhSelf = f /\ r.dhPeer = SignedPrekey
    BY DEF InitiatorRow, KdfChain
  <1>8. r.sendCk # NoChain /\ r.sendCk.root = root /\ r.sendCk.n = 0
    BY <1>6, <1>7 DEF NoChain
  <1>9. /\ s.root = root /\ s.sendCk.root = root /\ s.sendCk.n = 1
        /\ s.dhSelf = f /\ s.dhPeer = SignedPrekey
        /\ Envelope(r, f).mk = r.sendCk /\ Envelope(r, f).dh = f
    BY <1>4, <1>5, <1>7, <1>8, SendOnChain
  <1>10. /\ mail.from = Initiator /\ mail.mk = r.sendCk /\ mail.dh = f
    BY <1>0, <1>9 DEF Mail
  <1>11. /\ row'[Initiator] = s /\ row'[Responder] = row[Responder]
         /\ gen'[Initiator] = 1 /\ gen'[Responder] = gen[Responder]
         /\ open'[Initiator]
    BY <1>1, <1>2, <1>3, PartyAssumption DEF TypeOK
  <1>. HIDE DEF s, r, f, root
  <1>12. OwnEpoch(Initiator, Len(root))
    BY <1>6 DEF OwnEpoch
  <1>13. \A x \in Parties : OwnKeys(x)'
    BY <1>4, <1>9, <1>11 DEF RatchetInv, OwnKeys, Parties
  <1>14. MailOnChain(mail)'
    <2>1. /\ mail.mk.root = root /\ mail.mk.n = 0
      BY <1>8, <1>10
    <2>2. /\ row'[mail.from].root = root /\ row'[mail.from].dhSelf = f
          /\ row'[mail.from].sendCk.n = 1
      BY <1>9, <1>10, <1>11
    <2>3. OwnEpoch(mail.from, Len(mail.mk.root))
      BY <1>10, <1>12, <2>1
    <2>. QED  BY <1>6, <1>10, <2>1, <2>2, <2>3 DEF MailOnChain
  <1>15. /\ row[Responder].root = <<>> /\ row[Responder].dhSelf = SignedPrekey
         /\ row[Responder].dhPeer = NoPub(Initiator)
    BY <1>2 DEF Fledgling, ResponderRow
  <1>16. Leads(Initiator)'
    <2>1. AheadBy1(Initiator)'
      BY <1>1, <1>9, <1>11, <1>15 DEF AheadBy1, root
    <2>2. Fledgling(Responder)'
      BY <1>2, <1>11 DEF Fledgling
    <2>3. row'[Responder].dhPeer # f
      BY <1>4, <1>11, <1>15 DEF NoPub, Pub
    <2>4. SendsAtRoot(Initiator)'
      BY <1>6, <1>9, <1>11 DEF SendsAtRoot
    <2>. QED  BY <1>1, <1>9, <1>11, <1>12, <1>15, <2>1, <2>2, <2>3, <2>4
              DEF Leads
  <1>. QED  BY <1>1, <1>2, <1>3, <1>11, <1>13, <1>14, <1>16 DEF RatchetInv

\* A mail that carries a new ratchet key is read one epoch behind its sender.
\* What a mail opened on p's chain does to the rows.
StepsChain(p, m) ==
    /\ Readable(p, m) /\ ChainOpens(RowFor(p, m), m)
    /\ open' = [open EXCEPT ![p] = TRUE]
    /\ row' = [row EXCEPT ![p] = AfterRecv(RowFor(p, m), m)]
    /\ UNCHANGED <<gen, net>>

LEMMA ReadStepsChain ==
    \A p \in Parties, m \in net : DecryptOnChain(p, m) => StepsChain(p, m)
  BY DEF DecryptOnChain, StepsChain

LEMMA NewKeyLeads ==
    ASSUME TypeOK, RatchetInv, NEW p \in Parties, NEW m \in net,
           m.from = Peer(p), ChainOpens(row[p], m), NewRatchetKey(row[p], m)
    PROVE  /\ Leads(Peer(p))
           /\ Len(row[Peer(p)].root) = Len(row[p].root) + 1
           /\ m.dh = row[Peer(p)].dhSelf
  <1>. DEFINE r == row[p]
              q == Peer(p)
              root == KdfRoot(r.root, Dh(r.dhSelf, m.dh))
  <1>1. open[Initiator]
    BY DEF RatchetInv
  <1>2. ChainOpens(r, m) /\ m.from = q /\ m \in Message
    BY DEF TypeOK
  <1>3. q \in Parties /\ q # p /\ Peer(q) = p
    BY PeerIsParty
  <1>4. m.mk.root = root
    BY <1>2, RowFacts, RecvOnNewChain
  <1>5. Len(root) = Len(r.root) + 1
    <2>1. Dh(r.dhSelf, m.dh) \in SUBSET PubKey
      BY <1>2, RowFacts, DhType DEF Message
    <2>. QED  BY <2>1, RootType, RowFacts
  <1>6. Len(r.root) + 1 <= Len(row[q].root)
    BY <1>2, <1>4, <1>5 DEF RatchetInv, MailOnChain
  <1>7. PICK x \in Parties : Leads(x) \/ Level(x)
    BY <1>1 DEF RatchetInv
  <1>8. x = q \/ x = p
    BY <1>3, PeerIsParty DEF Peer, Parties
  <1>9. ~Level(x)
    BY <1>3, <1>6, <1>8, RowFacts DEF Level
  <1>10. x # p
    BY <1>3, <1>6, <1>7, <1>9, AheadLen, RowFacts DEF Leads
  <1>11. Leads(q)
    BY <1>7, <1>8, <1>9, <1>10
  <1>12. Len(row[q].root) = Len(r.root) + 1
    BY <1>3, <1>11, AheadLen DEF Leads
  <1>13. m.dh = row[q].dhSelf
    BY <1>2, <1>4, <1>5, <1>12 DEF RatchetInv, MailOnChain
  <1>. QED  BY <1>11, <1>12, <1>13

LEMMA NewKeyIsNext ==
    ASSUME TypeOK, RatchetInv, NEW p \in Parties, NEW m \in net,
           StepsChain(p, m), NewRatchetKey(row[p], m)
    PROVE  /\ Leads(Peer(p))
           /\ Len(row[Peer(p)].root) = Len(row[p].root) + 1
           /\ row'[p] = AfterRecv(row[p], m) /\ row'[Peer(p)] = row[Peer(p)]
  <1>1. RowFor(p, m) = row[p]
    BY RowForIsRow
  <1>2. /\ ChainOpens(row[p], m) /\ m.from = Peer(p)
        /\ row' = [row EXCEPT ![p] = AfterRecv(row[p], m)]
    BY <1>1 DEF StepsChain, Readable
  <1>. QED  BY <1>2, NewKeyLeads, PeerIsParty DEF TypeOK

\* A mail opened on p's chain was sealed by the other side, on the chain the
\* ratchet row stands on or the next.
LEMMA StepsChainInv ==
    ASSUME TypeOK, RatchetInv, NEW p \in Parties, NEW m \in net,
           StepsChain(p, m)
    PROVE  RatchetInv'
  <1>. DEFINE r == row[p]
              s == AfterRecv(r, m)
              q == Peer(p)
              root == KdfRoot(r.root, Dh(r.dhSelf, m.dh))
  <1>1. /\ RowFor(p, m) = r /\ ChainOpens(r, m) /\ m.from = q
        /\ open' = [open EXCEPT ![p] = TRUE]
        /\ row' = [row EXCEPT ![p] = s]
        /\ gen' = gen /\ net' = net
    <2>1. RowFor(p, m) = r
      BY RowForIsRow
    <2>. QED  BY <2>1 DEF StepsChain, Readable
  <1>2. /\ r \in RatchetRow /\ m \in Message
        /\ row'[p] = s /\ \A x \in Parties \ {p} : row'[x] = row[x]
        /\ open'[p] /\ \A x \in Parties \ {p} : open'[x] = open[x]
    BY <1>1 DEF TypeOK
  <1>3. /\ q \in Parties /\ q # p /\ Peer(q) = p
    BY PeerIsParty
  <1>4. open[Initiator] /\ open'[Initiator]
    BY <1>1, <1>2 DEF RatchetInv, Parties
  <1>5. \A x \in net : MailOnChain(x) /\ x.from \in Parties /\ x.mk \in ChainKey
    BY DEF RatchetInv, TypeOK, Message
  <1>6. CASE ~NewRatchetKey(r, m)
    <2>1. /\ s.root = r.root /\ s.sendCk = r.sendCk
          /\ s.recvCk.root = r.recvCk.root
          /\ s.dhSelf = r.dhSelf /\ s.dhPeer = r.dhPeer
      BY <1>2, <1>6, RecvOnChain
    <2>2. m.dh = r.dhPeer
      BY <1>6 DEF NewRatchetKey
    <2>3. ~Fledgling(p)
      <3>1. SUFFICES ASSUME Fledgling(p) PROVE FALSE
        OBVIOUS
      <3>2. r.recvCk = NoChain /\ RecvStep(r, m) = r
        BY <1>6, <3>1 DEF Fledgling, ResponderRow, RecvStep
      <3>3. m.mk = NoChain
        BY <1>1, <3>2 DEF ChainOpens, ChainKeyFor, MessageKey, SkipTo
      <3>. QED  BY <1>5, <3>3 DEF MailOnChain, NoChain
    <2>4. open[p]
      <3>1. SUFFICES ASSUME ~open[p] PROVE FALSE
        OBVIOUS
      <3>2. p = Responder
        BY <1>4, <3>1 DEF Parties
      <3>. QED  BY <1>4, <2>3, <3>1, <3>2, PartyAssumption
                DEF RatchetInv, Leads, Level, Peer, Parties
    <2>5. open' = open
      BY <1>1, <2>4 DEF TypeOK
    <2>6. \A x \in Parties : Fledgling(x) => (SendsAtRoot(x) \/ Fledgling(x))'
      BY <1>2, <2>3 DEF Fledgling
    <2>7. \E x \in Parties : (Leads(x) \/ Level(x))'
      BY <1>2, <1>4, <2>1, <2>4, <2>5, <2>6, PhaseKept
    <2>8. \A x \in Parties : OwnKeys(x)'
      BY <1>1, <1>2, <2>1 DEF RatchetInv, OwnKeys
    <2>9. \A x \in net : MailOnChain(x)'
      BY <1>2, <1>5, <2>1 DEF MailOnChain
    <2>. QED  BY <1>1, <1>4, <2>7, <2>8, <2>9 DEF RatchetInv
  <1>7. CASE NewRatchetKey(r, m)
    <2>1. /\ s.root = root /\ s.sendCk = NoChain /\ s.recvCk.root = root
          /\ s.dhSelf = r.dhSelf /\ s.dhPeer = m.dh
          /\ m.mk.root = root
      BY <1>1, <1>2, <1>7, RecvOnNewChain
    <2>2. Len(root) = Len(r.root) + 1 /\ root # <<>>
      <3>1. Dh(r.dhSelf, m.dh) \in SUBSET PubKey
        BY <1>2, DhType DEF RatchetRow, Message
      <3>. QED  BY <3>1, RootType, RowFacts
    <2>3. Leads(q) /\ Len(row[q].root) = Len(r.root) + 1
      BY <1>7, NewKeyIsNext
    <2>6. m.mk.root = row[q].root /\ m.dh = row[q].dhSelf
      BY <1>1, <1>5, <2>1, <2>2, <2>3 DEF MailOnChain
    <2>7. row'[q] = row[q]
      BY <1>2, <1>3
    <2>8. Level(q)'
      BY <1>2, <1>3, <2>1, <2>3, <2>6, <2>7 DEF Leads, Level, SendsAtRoot
    <2>9. \A x \in Parties : OwnKeys(x)'
      BY <1>1, <1>2, <2>1 DEF RatchetInv, OwnKeys
    <2>10. ASSUME NEW x \in net PROVE MailOnChain(x)'
      <3>1. CASE x.from = p
        <4>1. x.mk.root # <<>> /\ Len(x.mk.root) <= Len(r.root)
              /\ OwnEpoch(p, Len(x.mk.root))
          BY <1>5, <3>1 DEF MailOnChain
        <4>2. Len(x.mk.root) < Len(root)
          BY <1>5, <2>2, <4>1, RowFacts DEF ChainKey
        <4>3. NoChain.root = <<>>
          BY DEF NoChain
        <4>. QED  BY <1>2, <1>5, <2>1, <2>2, <3>1, <4>1, <4>2, <4>3, RowFacts
                  DEF MailOnChain
      <3>2. CASE x.from # p
        BY <1>2, <1>5, <3>2 DEF MailOnChain
      <3>. QED  BY <3>1, <3>2
    <2>. QED  BY <1>1, <1>3, <1>4, <2>8, <2>9, <2>10 DEF RatchetInv
  <1>. QED  BY <1>6, <1>7
-----------------------------------------------------------------------------
(* The theorems *)

LEMMA InitInv == Init => RatchetInv
  <1>. SUFFICES ASSUME Init PROVE RatchetInv
    OBVIOUS
  <1>1. /\ Initiator \in Parties /\ Responder \in Parties
        /\ Peer(Initiator) = Responder /\ Peer(Responder) = Initiator
    BY PartyAssumption DEF Parties, Peer
  <1>2. /\ row[Initiator] = ResponderRow(NoPub(Initiator), Responder)
        /\ row[Responder] = ResponderRow(SignedPrekey, Initiator)
        /\ gen[Initiator] = 0 /\ gen[Responder] = 1
    BY <1>1, PartyAssumption DEF Init, FirstKey
  <1>3. \A p \in Parties : OwnKeys(p)
    BY <1>1, <1>2, PartyAssumption
       DEF Parties, OwnKeys, ResponderRow, NoPub, Pub, SignedPrekey
  <1>4. row[Initiator].root = <<>> /\ Fledgling(Responder)
    BY <1>2 DEF Fledgling, ResponderRow
  <1>5. net = {} /\ ~open[Initiator] /\ ~open[Responder]
    BY <1>1 DEF Init
  <1>. QED  BY <1>2, <1>3, <1>4, <1>5 DEF RatchetInv

\* What DecryptStored, Refuse and stuttering leave of the ratchet.
LEMMA ReadKeepsRows ==
    ASSUME TypeOK, RatchetInv, NEW p \in Parties, NEW m \in net,
           DecryptStored(p, m) \/ Refuse(p, m)
    PROVE  row' = row
  <1>1. Readable(p, m) /\ row' = [row EXCEPT ![p] = RowFor(p, m)]
    BY DEF DecryptStored, Refuse
  <1>2. RowFor(p, m) = row[p]
    BY <1>1, RowForIsRow DEF Readable
  <1>. QED  BY <1>1, <1>2 DEF TypeOK

LEMMA NextInv == TypeOK /\ RatchetInv /\ [Next]_vars => RatchetInv'
  <1>. SUFFICES ASSUME TypeOK, RatchetInv, [Next]_vars PROVE RatchetInv'
    OBVIOUS
  <1>1. CASE Initiate
    BY <1>1, InitiateInv
  <1>2. ASSUME NEW p \in Parties, Encrypt(p) PROVE RatchetInv'
    BY <1>2, EncryptInv
  <1>3. ASSUME NEW p \in Parties, NEW m \in net, DecryptOnChain(p, m)
        PROVE  RatchetInv'
    BY <1>3, ReadStepsChain, StepsChainInv
  <1>4. ASSUME NEW p \in Parties, NEW m \in net,
               DecryptStored(p, m) \/ Refuse(p, m)
        PROVE  RatchetInv'
    <2>1. row' = row
      BY <1>4, ReadKeepsRows
    <2>2. gen' = gen /\ net' = net /\ net # {}
      BY <1>4 DEF DecryptStored, Refuse
    <2>3. \A x \in Parties : open[x] => open'[x]
      BY <1>4 DEF DecryptStored, Refuse, TypeOK
    <2>. QED  BY <2>1, <2>2, <2>3, InvRowsKept
  <1>5. CASE UNCHANGED vars
    BY <1>5 DEF vars, RatchetInv, OwnKeys, MailOnChain, Fledgling, Leads, Level,
                AheadBy1, SendsAtRoot
  <1>. QED  BY <1>1, <1>2, <1>3, <1>4, <1>5 DEF Next

\* The inductive invariant holds in every reachable state, for any kMaxSkip
\* and any number of messages.
THEOREM RatchetInvariant == Spec => []RatchetInv
  <1>1. Spec => []TypeOK
    BY TypeCorrect
  <1>. QED  BY <1>1, InitInv, NextInv, PTL DEF Spec

\* The parties' root keys differ by at most one DH output, whatever the mail's
\* order.
THEOREM RootsAgree == Spec => []RootsInStep
  <1>1. TypeOK /\ RatchetInv => RootsInStep
    <2>. SUFFICES ASSUME TypeOK, RatchetInv PROVE RootsInStep
      OBVIOUS
    <2>1. CASE open[Initiator]
      <3>1. PICK p \in Parties : Leads(p) \/ Level(p)
        BY <2>1 DEF RatchetInv
      <3>2. CASE Leads(p)
        BY <3>1, <3>2 DEF Leads, RootsInStep, Parties
      <3>3. CASE Level(p)
        BY <3>1, <3>3, PartyAssumption DEF Level, RootsInStep, Peer, Parties
      <3>. QED  BY <3>1, <3>2, <3>3
    <2>2. CASE ~open[Initiator]
      BY <2>2 DEF RatchetInv, RootsInStep, Fledgling, ResponderRow
    <2>. QED  BY <2>1, <2>2
  <1>. QED  BY <1>1, TypeCorrect, RatchetInvariant, PTL

\* The key of the next message is on no mail: on the sender's own mail by the
\* chain's position, on the other's because it leads other epochs.
LEMMA SealsFresh ==
    ASSUME TypeOK, RatchetInv, NEW p \in Parties, Encrypt(p), NEW b \in net
    PROVE  b.mk # Envelope(row[p], Fresh(p)).mk
  <1>. DEFINE r == row[p]
  <1>1. open[p] /\ CanSend(r)
    BY DEF Encrypt
  <1>2. r \in RatchetRow /\ Fresh(p) \in PubKey
    BY RowFacts, FreshType
  <1>3. /\ MailOnChain(b) /\ b.mk \in ChainKey /\ b.from \in Parties
        /\ b.from = p \/ b.from = Peer(p)
    BY PartyAssumption DEF RatchetInv, TypeOK, Message, Peer, Parties
  <1>4. CASE r.sendCk # NoChain
    <2>1. SendsAtRoot(p) /\ OwnEpoch(p, Len(r.root))
      BY <1>1, <1>4, SenderAtRoot
    <2>2. Envelope(r, Fresh(p)).mk = r.sendCk
      BY <1>2, <1>4, SendOnChain
    <2>3. CASE b.from = p
      BY <1>2, <1>3, <2>2, <2>3, RowFacts DEF MailOnChain, ChainKey
    <2>4. CASE b.from = Peer(p)
      BY <1>3, <2>1, <2>2, <2>4, RowFacts, EpochNotShared
         DEF MailOnChain, SendsAtRoot
    <2>. QED  BY <1>3, <2>3, <2>4
  <1>5. CASE r.sendCk = NoChain
    <2>1. Level(Peer(p)) /\ Peer(p) \in Parties /\ Peer(Peer(p)) = p
      BY <1>1, <1>5, NextToLead, PeerIsParty
    <2>2. OwnEpoch(p, Len(r.root) + 1)
      BY <2>1, RowFacts, EpochNotShared DEF Level
    <2>3. Dh(Fresh(p), r.dhPeer) \in SUBSET PubKey
      BY <1>2, RowFacts, DhType
    <2>4. Len(Envelope(r, Fresh(p)).mk.root) = Len(r.root) + 1
      <3>1. Envelope(r, Fresh(p)).mk.root = KdfRoot(r.root, Dh(Fresh(p), r.dhPeer))
        BY <1>2, <1>5, SendOnNewChain
      <3>. QED  BY <2>3, <3>1, RootType, RowFacts
    <2>5. CASE b.from = p
      BY <1>3, <2>4, <2>5, RowFacts DEF MailOnChain
    <2>6. CASE b.from = Peer(p)
      BY <1>3, <2>2, <2>4, <2>6, RowFacts, EpochNotShared DEF MailOnChain
    <2>. QED  BY <1>3, <2>5, <2>6
  <1>. QED  BY <1>4, <1>5

LEMMA SealKeepsKeys ==
    ASSUME TypeOK, RatchetInv, NoKeyReuse,
           Initiate \/ \E p \in Parties : Encrypt(p)
    PROVE  NoKeyReuse'
  <1>1. CASE Initiate
    <2>1. net = {}
      BY <1>1 DEF Initiate, RatchetInv
    <2>2. PICK mail : net' = net \cup {mail}
      BY <1>1 DEF Initiate
    <2>. QED  BY <2>1, <2>2 DEF NoKeyReuse
  <1>2. ASSUME NEW p \in Parties, Encrypt(p) PROVE NoKeyReuse'
    <2>1. PICK mail : /\ mail = Mail(p, "msg", Envelope(row[p], Fresh(p)))
                      /\ net' = net \cup {mail}
      BY <1>2 DEF Encrypt
    <2>2. mail.mk = Envelope(row[p], Fresh(p)).mk
      BY <2>1 DEF Mail
    <2>3. \A b \in net : b.mk # mail.mk
      BY <1>2, <2>2, SealsFresh
    <2>. QED  BY <2>1, <2>3 DEF NoKeyReuse
  <1>. QED  BY <1>1, <1>2

\* Every message dr_encrypt seals has a key no mail was sealed with before.
THEOREM KeysNotReused == Spec => []NoKeyReuse
  <1>1. Init => NoKeyReuse
    BY DEF Init, NoKeyReuse
  <1>2. TypeOK /\ RatchetInv /\ NoKeyReuse /\ [Next]_vars => NoKeyReuse'
    <2>. SUFFICES ASSUME TypeOK, RatchetInv, NoKeyReuse, [Next]_vars
                  PROVE  NoKeyReuse'
      OBVIOUS
    <2>1. CASE net' = net
      BY <2>1 DEF NoKeyReuse
    <2>. QED  BY <2>1, SealKeepsKeys
              DEF Next, vars, DecryptStored, DecryptOnChain, Refuse
  <1>. QED  BY <1>1, <1>2, TypeCorrect, RatchetInvariant, PTL DEF Spec
-----------------------------------------------------------------------------
(* Turns *)

\* A step leaves the roots alone or appends one DH output to one of them.
Appends(p) ==
    /\ \E d \in SUBSET PubKey : row'[p].root = Append(row[p].root, d)
    /\ row'[Peer(p)].root = row[Peer(p)].root
    /\ \/ /\ Len(row[p].root) = Len(row[Peer(p)].root)
          /\ OwnEpoch(p, Len(row[p].root) + 1)
       \/ Len(row[p].root) + 1 = Len(row[Peer(p)].root)

LEMMA StepMoves ==
    ASSUME TypeOK, RatchetInv, [Next]_vars
    PROVE  \/ \A p \in Parties : row'[p].root = row[p].root
           \/ \E p \in Parties : Appends(p)
  <1>1. CASE Initiate
    <2>. DEFINE f == Fresh(Initiator)
                r == InitiatorRow(f, SignedPrekey)
    <2>1. /\ Initiator \in Parties /\ Responder \in Parties
          /\ Peer(Initiator) = Responder
      BY DEF Parties, Peer
    <2>2. row' = [row EXCEPT ![Initiator] = AfterSend(r, f)]
      BY <1>1 DEF Initiate
    <2>3. f \in PubKey /\ SignedPrekey \in PubKey
      BY <2>1, FreshType, PubIsKey DEF SignedPrekey
    <2>4. r \in RatchetRow /\ r.root = Append(<<>>, Dh(f, SignedPrekey))
      BY <2>3, InitiatorRowType DEF InitiatorRow, KdfRoot
    <2>5. r.sendCk # NoChain
      BY DEF InitiatorRow, KdfChain, KdfRoot, NoChain
    <2>6. AfterSend(r, f).root = r.root
      BY <2>3, <2>4, <2>5, SendOnChain
    <2>7. row[Initiator].root = <<>> /\ row[Responder].root = <<>>
      BY <1>1 DEF Initiate, RatchetInv, Fledgling, ResponderRow
    <2>8. row'[Initiator].root = r.root /\ row'[Responder] = row[Responder]
      BY <2>1, <2>2, <2>6, PartyAssumption DEF TypeOK
    <2>9. Dh(f, SignedPrekey) \in SUBSET PubKey
      BY <2>3, DhType
    <2>. HIDE DEF r, f
    <2>10. Appends(Initiator)
      BY <2>1, <2>4, <2>7, <2>8, <2>9 DEF Appends, OwnEpoch
    <2>. QED  BY <2>1, <2>10
  <1>2. ASSUME NEW p \in Parties, Encrypt(p)
        PROVE  (\A x \in Parties : row'[x].root = row[x].root) \/ Appends(p)
    <2>. DEFINE r == row[p]
    <2>1. /\ open[p] /\ CanSend(r)
          /\ row'[p] = AfterSend(r, Fresh(p))
          /\ \A x \in Parties \ {p} : row'[x] = row[x]
      BY <1>2 DEF Encrypt, TypeOK
    <2>2. r \in RatchetRow /\ Fresh(p) \in PubKey
      BY RowFacts, FreshType
    <2>3. CASE r.sendCk # NoChain
      BY <2>1, <2>2, <2>3, SendOnChain
    <2>4. CASE r.sendCk = NoChain
      <3>1. Level(Peer(p)) /\ Peer(p) \in Parties /\ Peer(p) # p
            /\ Peer(Peer(p)) = p
        BY <2>1, <2>4, NextToLead, PeerIsParty
      <3>2. row'[p].root = Append(r.root, Dh(Fresh(p), r.dhPeer))
        BY <2>1, <2>2, <2>4, SendOnNewChain DEF KdfRoot
      <3>3. Dh(Fresh(p), r.dhPeer) \in SUBSET PubKey
        BY <2>2, RowFacts, DhType
      <3>4. Len(r.root) = Len(row[Peer(p)].root)
            /\ OwnEpoch(p, Len(r.root) + 1)
        BY <3>1, RowFacts, EpochNotShared DEF Level
      <3>. QED  BY <2>1, <3>1, <3>2, <3>3, <3>4 DEF Appends
    <2>. QED  BY <2>3, <2>4
  <1>3. ASSUME NEW p \in Parties, NEW m \in net, DecryptOnChain(p, m)
        PROVE  (\A x \in Parties : row'[x].root = row[x].root) \/ Appends(p)
    <2>1. CASE ~NewRatchetKey(row[p], m)
      <3>1. row' = [row EXCEPT ![p] = AfterRecv(row[p], m)]
        BY <1>3, RowForIsRow DEF DecryptOnChain
      <3>2. AfterRecv(row[p], m).root = row[p].root
        BY <2>1, RowFacts, RecvOnChain DEF TypeOK
      <3>. QED  BY <3>1, <3>2 DEF TypeOK
    <2>2. CASE NewRatchetKey(row[p], m)
      <3>1. /\ Len(row[Peer(p)].root) = Len(row[p].root) + 1
            /\ row'[p] = AfterRecv(row[p], m) /\ row'[Peer(p)] = row[Peer(p)]
        BY <1>3, <2>2, ReadStepsChain, NewKeyIsNext
      <3>2. row'[p].root = Append(row[p].root, Dh(row[p].dhSelf, m.dh))
        BY <2>2, <3>1, RowFacts, RecvOnNewChain DEF TypeOK, KdfRoot
      <3>3. Dh(row[p].dhSelf, m.dh) \in SUBSET PubKey
        BY RowFacts, DhType DEF TypeOK, Message
      <3>. QED  BY <3>1, <3>2, <3>3 DEF Appends
    <2>. QED  BY <2>1, <2>2
  <1>4. ASSUME NEW p \in Parties, NEW m \in net,
               DecryptStored(p, m) \/ Refuse(p, m)
        PROVE  row' = row
    BY <1>4, ReadKeepsRows
  <1>5. CASE UNCHANGED vars
    BY <1>5 DEF vars
  <1>. QED  BY <1>1, <1>2, <1>3, <1>4, <1>5 DEF Next

\* No call rewinds or resets a root key.
THEOREM RootsGrow == Spec => RootsOnlyGrow
  <1>. DEFINE Grows(p) ==
         \/ row'[p].root = row[p].root
         \/ /\ Len(row'[p].root) = Len(row[p].root) + 1
            /\ row[p].root = SubSeq(row'[p].root, 1, Len(row[p].root))
  <1>1. TypeOK /\ RatchetInv /\ [Next]_vars => [\A p \in Parties : Grows(p)]_vars
    <2>. SUFFICES ASSUME TypeOK, RatchetInv, [Next]_vars, NEW p \in Parties
                  PROVE  Grows(p)
      OBVIOUS
    <2>1. CASE \E x \in Parties : Appends(x)
      <3>1. PICK x \in Parties : Appends(x)
        BY <2>1
      <3>2. CASE p = x
        <4>1. PICK d \in SUBSET PubKey : row'[p].root = Append(row[p].root, d)
          BY <3>1, <3>2 DEF Appends
        <4>2. row[p].root \in Seq(SUBSET PubKey)
          BY RowFacts
        <4>. QED  BY <4>1, <4>2
      <3>3. CASE p # x
        <4>1. p = Peer(x)
          BY <3>3, PartyAssumption DEF Peer, Parties
        <4>. QED  BY <3>1, <4>1 DEF Appends
      <3>. QED  BY <3>2, <3>3
    <2>. QED  BY <2>1, StepMoves
  <1>. QED  BY <1>1, TypeCorrect, RatchetInvariant, PTL DEF Spec, RootsOnlyGrow

\* The session implements the abstract turns.
THEOREM ImplementsTurns == Spec => TakesTurns
  <1>. DEFINE epoch == [p \in Parties |-> Len(row[p].root)]
  <1>1. Init => Turns!Init
    <2>. SUFFICES ASSUME Init PROVE Turns!Init
      OBVIOUS
    <2>1. \A p \in Parties : row[p].root = <<>>
      BY DEF Init, ResponderRow
    <2>. QED  BY <2>1 DEF Turns!Init, Parties
  <1>2. TypeOK /\ RatchetInv /\ [Next]_vars => [Turns!Next]_epoch
    <2>. SUFFICES ASSUME TypeOK, RatchetInv, [Next]_vars
                  PROVE  [Turns!Next]_epoch
      OBVIOUS
    <2>1. CASE \A p \in Parties : row'[p].root = row[p].root
      <3>1. epoch' = epoch
        BY <2>1
      <3>. QED  BY <3>1
    <2>2. CASE \E p \in Parties : Appends(p)
      <3>1. PICK p \in Parties : Appends(p)
        BY <2>2
      <3>2. PICK d \in SUBSET PubKey : row'[p].root = Append(row[p].root, d)
        BY <3>1 DEF Appends
      <3>3. Len(row'[p].root) = Len(row[p].root) + 1
        BY <3>2, RowFacts
      <3>4. \A x \in Parties \ {p} : row'[x].root = row[x].root
        BY <3>1, PartyAssumption DEF Appends, Peer, Parties
      <3>5. epoch' = [epoch EXCEPT ![p] = epoch[p] + 1]
        BY <3>3, <3>4
      <3>6. Turns!Side(p) = Peer(p) /\ Peer(p) \in Parties
        BY PeerIsParty DEF Turns!Side, Peer
      <3>7. CASE /\ Len(row[p].root) = Len(row[Peer(p)].root)
                 /\ OwnEpoch(p, Len(row[p].root) + 1)
        <4>1. Turns!MyTurn(p)
          <5>1. Len(row[p].root) % 2 = (IF p = Initiator THEN 0 ELSE 1)
            BY <3>7, RowFacts, EpochNotShared
          <5>. QED  BY <5>1 DEF Turns!MyTurn
        <4>2. Turns!Lead(p)
          BY <3>5, <3>6, <3>7, <4>1 DEF Turns!Lead
        <4>. QED  BY <4>2 DEF Turns!Next, Parties
      <3>8. CASE Len(row[p].root) + 1 = Len(row[Peer(p)].root)
        <4>1. Turns!Follow(p)
          BY <3>5, <3>6, <3>8 DEF Turns!Follow
        <4>. QED  BY <4>1 DEF Turns!Next, Parties
      <3>. QED  BY <3>1, <3>7, <3>8 DEF Appends
    <2>. QED  BY <2>1, <2>2, StepMoves
  <1>. QED  BY <1>1, <1>2, TypeCorrect, RatchetInvariant, PTL
            DEF Spec, TakesTurns, Turns!Spec
-----------------------------------------------------------------------------
(* What is behind a receiving chain *)

\* A sender counts a chain's messages by its position, and puts one key pair on
\* one chain only; no mail carries the key its sender published to begin with.
SealInv ==
    /\ \A p \in Parties :
          /\ row[p].sendN = row[p].sendCk.n
          /\ gen[p] >= FirstKey(p).gen
          /\ row[p].sendCk # NoChain => row[p].dhSelf.gen > FirstKey(p).gen
    /\ \A m \in net :
          /\ m.n = m.mk.n
          /\ m.dh.owner = m.from /\ m.dh.gen <= gen[m.from]
          /\ m.dh.gen > FirstKey(m.from).gen
          /\ row[m.from].sendCk # NoChain /\ m.dh = row[m.from].dhSelf =>
                m.mk.root = row[m.from].sendCk.root
    /\ \A a, b \in net : a.from = b.from /\ a.dh = b.dh => a.mk.root = b.mk.root

\* On the receiving chain, or a chain before it.
Behind(r, x) == Len(x.mk.root) <= Len(r.root) /\ (x.dh = r.dhPeer => x.n < r.recvN)

\* The mail read and the keys kept are behind the receiving chain; no key is
\* kept for a mail that was read, and every chain there is a key of was read from.
ReadInv(p) ==
    LET r == row[p]
    IN  /\ r.recvN = r.recvCk.n
        /\ r.recvCk = NoChain => /\ delivered[p] = {} /\ skipped[p] = {}
                                 /\ r.dhPeer.gen <= FirstKey(Peer(p)).gen
        /\ r.recvCk # NoChain => \E m \in delivered[p] :
              m.dh = r.dhPeer /\ m.mk.root = r.recvCk.root /\ m.n + 1 >= r.recvN
        /\ \A m \in delivered[p] :
              /\ m \in net /\ m.from = Peer(p) /\ Behind(r, m)
              /\ \A k \in skipped[p] : k.dh # m.dh \/ k.n # m.n
        /\ \A k \in skipped[p] :
              /\ Behind(r, k) /\ k.mk.n = k.n
              /\ \E m \in delivered[p] : m.dh = k.dh /\ m.mk.root = k.mk.root

\* What is behind the receiving chain was read or has its key kept.
KeptInv(p) ==
    \A m \in net :
        m.from = Peer(p) /\ Behind(row[p], m) =>
            m \in delivered[p] \/ \E k \in skipped[p] : k.dh = m.dh /\ k.n = m.n

\* The pn of a mail closes the chain two epochs before; the chain a party reads
\* on is that one when the next mail with a new key arrives.
ClosingInv ==
    /\ \A p \in Parties :
          /\ row[p].recvCk.root # <<>> =>
                Len(row[p].recvCk.root) =
                    IF row[p].sendCk = NoChain THEN Len(row[p].root)
                    ELSE Len(row[p].root) - 1
          /\ row[p].recvCk.root = <<>> => Len(row[p].root) <= 1
          /\ \A m \in net : m.from = p =>
                /\ row[p].sendCk # NoChain /\ Len(m.mk.root) = Len(row[p].root) - 2 =>
                      m.n < row[p].prevSendN
                /\ row[p].sendCk = NoChain /\ Len(m.mk.root) = Len(row[p].root) - 1 =>
                      m.n < row[p].prevSendN
    /\ \A a, b \in net :
          a.from = b.from /\ Len(b.mk.root) = Len(a.mk.root) - 2 => b.n < a.pn
-----------------------------------------------------------------------------
(* What the operators do to the counters *)

LEMMA SendCounts ==
    ASSUME NEW r \in RatchetRow, NEW fresh \in PubKey
    PROVE  LET s == AfterSend(r, fresh)
               e == Envelope(r, fresh)
           IN  /\ s.sendN = r.sendN + 1 /\ s.recvN = r.recvN
               /\ s.prevSendN = r.prevSendN
               /\ e.n = r.sendN /\ e.pn = r.prevSendN
  <1>. DEFINE s == SendStep(r, fresh)
  <1>1. s \in RatchetRow
    BY SendStepType
  <1>2. s.sendN = r.sendN /\ s.recvN = r.recvN /\ s.prevSendN = r.prevSendN
    BY DEF SendStep, RatchetRow
  <1>. HIDE DEF s
  <1>3. AfterSend(r, fresh) = [s EXCEPT !.sendCk = NextChain(s.sendCk), !.sendN = s.sendN + 1]
    BY DEF AfterSend, s
  <1>4. Envelope(r, fresh).n = s.sendN /\ Envelope(r, fresh).pn = s.prevSendN
    BY DEF Envelope, s
  <1>. QED  BY <1>1, <1>2, <1>3, <1>4 DEF RatchetRow

LEMMA SkippedIs ==
    ASSUME NEW ck \in ChainKey, NEW n \in Nat, NEW until \in Nat, NEW dh \in PubKey
    PROVE  /\ \A k \in SkippedKeys(ck, n, until, dh) :
                 /\ ck # NoChain /\ k.dh = dh /\ k.n \in Nat /\ n <= k.n /\ k.n < until
                 /\ k.mk.root = ck.root /\ k.mk.n = ck.n + (k.n - n)
           /\ ck # NoChain =>
                 \A i \in Nat : n <= i /\ i < until =>
                     \E k \in SkippedKeys(ck, n, until, dh) : k.dh = dh /\ k.n = i
  <1>1. CASE ck = NoChain
    BY <1>1 DEF SkippedKeys
  <1>2. CASE ck # NoChain
    <2>. DEFINE key(i) == [dh |-> dh, n |-> i, mk |-> [ck EXCEPT !.n = @ + (i - n)]]
    <2>1. SkippedKeys(ck, n, until, dh) = {key(i) : i \in n .. (until - 1)}
      BY <1>2 DEF SkippedKeys
    <2>2. \A i \in n .. (until - 1) :
             /\ i \in Nat /\ n <= i /\ i < until
             /\ key(i).dh = dh /\ key(i).n = i
             /\ key(i).mk.root = ck.root /\ key(i).mk.n = ck.n + (i - n)
      BY DEF ChainKey
    <2>3. \A i \in Nat : n <= i /\ i < until => i \in n .. (until - 1)
      OBVIOUS
    <2>. HIDE DEF key
    <2>. QED  BY <1>2, <2>1, <2>2, <2>3
  <1>. QED  BY <1>1, <1>2

LEMMA SkippedHas ==
    ASSUME NEW ck \in ChainKey, NEW n \in Nat, NEW until \in Nat, NEW dh \in PubKey,
           NEW i \in Nat, ck # NoChain, n <= i, i < until
    PROVE  \E k \in SkippedKeys(ck, n, until, dh) : k.dh = dh /\ k.n = i
  BY SkippedIs

LEMMA FirstKeyGen == \A p \in Parties : FirstKey(p).gen \in Nat
  BY DEF FirstKey, NoPub, SignedPrekey, Pub

LEMMA StoredAre ==
    ASSUME NEW old, NEW new
    PROVE  /\ \A k \in StoreKeys(old, new) : k \in old \/ k \in new
           /\ new \subseteq StoreKeys(old, new)
           /\ \A k \in old : \E j \in StoreKeys(old, new) : j.dh = k.dh /\ j.n = k.n
  BY DEF StoreKeys

\* A mail opened on a chain is at or ahead of it; the chain stops behind it.
LEMMA SkipCounts ==
    ASSUME NEW ck \in ChainKey, NEW m \in Message, ck.root # <<>>, m.n = m.mk.n,
           SkipTo(ck, ck.n, m.n) = m.mk
    PROVE  /\ ck # NoChain /\ ck.root = m.mk.root /\ ck.n <= m.n
           /\ IndexAfter(ck, ck.n, m.n) = m.n
           /\ NextChain(SkipTo(ck, ck.n, m.n)).n = m.n + 1
  <1>1. ck # NoChain /\ m.mk \in ChainKey /\ m.n \in Nat /\ ck.n \in Nat
    BY DEF NoChain, ChainKey, Message
  <1>2. ck.n <= m.n
    BY <1>1 DEF SkipTo
  <1>3. SkipTo(ck, ck.n, m.n).root = ck.root
    BY <1>1, SkipToType
  <1>4. NextChain(m.mk).n = m.mk.n + 1
    BY <1>1, NextChainType
  <1>. QED  BY <1>1, <1>2, <1>3, <1>4 DEF IndexAfter

LEMMA RecvOnChainCounts ==
    ASSUME NEW r \in RatchetRow, NEW m \in Message, ~NewRatchetKey(r, m),
           ChainOpens(r, m), r.recvN = r.recvCk.n, m.n = m.mk.n, m.mk.root # <<>>
    PROVE  LET s == AfterRecv(r, m)
           IN  /\ r.recvCk # NoChain /\ r.recvCk.root = m.mk.root /\ r.recvN <= m.n
               /\ s.recvN = m.n + 1 /\ s.recvCk.n = m.n + 1
               /\ s.sendN = r.sendN /\ s.prevSendN = r.prevSendN
               /\ KeptKeys(r, m) = SkippedKeys(r.recvCk, r.recvN, m.n, r.dhPeer)
  <1>1. RecvStep(r, m) = r
    BY DEF RecvStep
  <1>2. SkipTo(r.recvCk, r.recvCk.n, m.n) = m.mk
    BY <1>1 DEF ChainOpens, ChainKeyFor, MessageKey
  <1>3. r.recvCk \in ChainKey /\ r.recvCk.n \in Nat /\ m.n \in Nat
    BY DEF RatchetRow, ChainKey, Message
  <1>4. SkipTo(r.recvCk, r.recvCk.n, m.n).root = r.recvCk.root
    BY <1>3, SkipToType
  <1>5. /\ r.recvCk # NoChain /\ r.recvCk.root = m.mk.root /\ r.recvCk.n <= m.n
        /\ IndexAfter(r.recvCk, r.recvCk.n, m.n) = m.n
        /\ NextChain(SkipTo(r.recvCk, r.recvCk.n, m.n)).n = m.n + 1
    BY <1>2, <1>3, <1>4, SkipCounts
  <1>6. AfterRecv(r, m) = [r EXCEPT !.recvCk = NextChain(SkipTo(r.recvCk, r.recvCk.n, m.n)),
                                    !.recvN = m.n + 1]
    BY <1>1, <1>5 DEF AfterRecv
  <1>7. KeptKeys(r, m) = SkippedKeys(r.recvCk, r.recvN, m.n, r.dhPeer)
    BY <1>1 DEF KeptKeys
  <1>. QED  BY <1>5, <1>6, <1>7 DEF RatchetRow

LEMMA RecvOnNewChainCounts ==
    ASSUME NEW r \in RatchetRow, NEW m \in Message, NewRatchetKey(r, m),
           ChainOpens(r, m), m.n = m.mk.n
    PROVE  LET s == AfterRecv(r, m)
               root == KdfRoot(r.root, Dh(r.dhSelf, m.dh))
           IN  /\ s.recvN = m.n + 1 /\ s.recvCk.n = m.n + 1
               /\ s.sendN = 0 /\ s.prevSendN = r.sendN
               /\ KeptKeys(r, m) =
                     SkippedKeys(KdfChain(root), 0, m.n, m.dh)
                     \cup SkippedKeys(r.recvCk, r.recvN, m.pn, r.dhPeer)
               /\ KdfChain(root) \in ChainKey /\ KdfChain(root) # NoChain
               /\ KdfChain(root).root = root /\ KdfChain(root).n = 0
  <1>. DEFINE root == KdfRoot(r.root, Dh(r.dhSelf, m.dh))
              ck == KdfChain(root)
              s == [r EXCEPT !.root = root, !.recvCk = ck,
                       !.recvN = 0, !.prevSendN = r.sendN, !.sendN = 0,
                       !.sendCk = NoChain, !.dhPeer = m.dh]
  <1>1. RecvStep(r, m) = s /\ s \in RatchetRow
    BY RecvStepType DEF RecvStep
  <1>2. /\ s.recvCk = ck /\ s.recvN = 0 /\ s.dhPeer = m.dh
        /\ s.sendN = 0 /\ s.prevSendN = r.sendN
    BY DEF RatchetRow
  <1>3. /\ root \in Seq(SUBSET PubKey) /\ root # <<>>
        /\ ck \in ChainKey /\ ck.root = root /\ ck.n = 0
    <2>1. r.root \in Seq(SUBSET PubKey) /\ Dh(r.dhSelf, m.dh) \in SUBSET PubKey
      BY DhType DEF RatchetRow, Message
    <2>2. root \in Seq(SUBSET PubKey) /\ root # <<>> /\ ck \in ChainKey
      BY <2>1, RootType
    <2>. HIDE DEF root
    <2>. QED  BY <2>2 DEF KdfChain
  <1>4. /\ AfterRecv(r, m) = [s EXCEPT !.recvCk = NextChain(SkipTo(s.recvCk, s.recvN, m.n)),
                                       !.recvN = IndexAfter(s.recvCk, s.recvN, m.n) + 1]
        /\ SkipTo(s.recvCk, s.recvN, m.n) = m.mk
        /\ KeptKeys(r, m) = SkippedKeys(s.recvCk, s.recvN, m.n, s.dhPeer)
                            \cup SkippedKeys(r.recvCk, r.recvN, m.pn, r.dhPeer)
    BY <1>1 DEF AfterRecv, ChainOpens, ChainKeyFor, MessageKey, KeptKeys
  <1>. HIDE DEF s, ck, root
  <1>5. SkipTo(ck, ck.n, m.n) = m.mk
    BY <1>2, <1>3, <1>4
  <1>6. /\ ck # NoChain /\ IndexAfter(ck, ck.n, m.n) = m.n
        /\ NextChain(SkipTo(ck, ck.n, m.n)).n = m.n + 1
    BY <1>3, <1>5, SkipCounts
  <1>7. /\ AfterRecv(r, m).recvN = m.n + 1 /\ AfterRecv(r, m).recvCk.n = m.n + 1
        /\ AfterRecv(r, m).sendN = s.sendN /\ AfterRecv(r, m).prevSendN = s.prevSendN
    BY <1>1, <1>2, <1>3, <1>4, <1>6 DEF RatchetRow
  <1>. QED  BY <1>2, <1>3, <1>4, <1>6, <1>7 DEF ck, root
-----------------------------------------------------------------------------
(* The three calls that change a ratchet row *)

LEMMA InitiateIs ==
    ASSUME TypeOK, RatchetInv, Initiate
    PROVE  \E mail :
             LET s == row'[Initiator]
             IN  /\ net = {} /\ net' = {mail} /\ mail.from = Initiator
                 /\ mail.n = 0 /\ mail.mk.n = 0 /\ mail.dh = s.dhSelf
                 /\ mail.mk.root = s.sendCk.root
                 /\ s.sendN = 1 /\ s.sendCk.n = 1 /\ s.sendCk # NoChain
                 /\ s.sendCk.root = s.root /\ Len(s.root) = 1
                 /\ s.recvCk = NoChain /\ s.recvN = 0
                 /\ s.dhPeer = SignedPrekey
                 /\ s.dhSelf.owner = Initiator /\ s.dhSelf.gen = 1
                 /\ gen'[Initiator] = 1 /\ gen'[Responder] = gen[Responder]
                 /\ row'[Responder] = row[Responder]
                 /\ row[Responder] = ResponderRow(SignedPrekey, Initiator)
                 /\ delivered' = delivered /\ skipped' = skipped
  <1>. DEFINE f == Fresh(Initiator)
              r == InitiatorRow(f, SignedPrekey)
              s == AfterSend(r, f)
              root == KdfRoot(<<>>, Dh(f, SignedPrekey))
  <1>0. PICK mail : mail = Mail(Initiator, "init", Envelope(r, f))
    OBVIOUS
  <1>1. Initiator \in Parties /\ Responder \in Parties
    BY DEF Parties
  <1>2. /\ net = {} /\ gen[Initiator] = 0 /\ Fledgling(Responder)
    BY DEF Initiate, RatchetInv
  <1>3. /\ row' = [row EXCEPT ![Initiator] = s]
        /\ gen' = [gen EXCEPT ![Initiator] = gen[Initiator] + 1]
        /\ net' = net \cup {mail} /\ delivered' = delivered /\ skipped' = skipped
    BY <1>0 DEF Initiate
  <1>4. f \in PubKey /\ f.owner = Initiator /\ f.gen = 1 /\ SignedPrekey \in PubKey
    BY <1>1, <1>2, FreshType, PubIsKey DEF Fresh, Pub, SignedPrekey
  <1>5. r \in RatchetRow
    BY <1>4, InitiatorRowType
  <1>6. /\ root # <<>> /\ Len(root) = 1
    <2>1. Dh(f, SignedPrekey) \in SUBSET PubKey
      BY <1>4, DhType
    <2>2. root = <<Dh(f, SignedPrekey)>>
      BY DEF KdfRoot
    <2>. QED  BY <2>2
  <1>7. /\ r.root = root /\ r.sendCk = [root |-> root, n |-> 0] /\ r.recvCk = NoChain
        /\ r.dhSelf = f /\ r.dhPeer = SignedPrekey /\ r.sendN = 0 /\ r.recvN = 0
    BY DEF InitiatorRow, KdfChain
  <1>8. r.sendCk # NoChain /\ r.sendCk.root = root /\ r.sendCk.n = 0
    BY <1>6, <1>7 DEF NoChain
  <1>9. /\ s.root = root /\ s.sendCk.root = root /\ s.sendCk.n = 1 /\ s.recvCk = NoChain
        /\ s.dhSelf = f /\ s.dhPeer = SignedPrekey
        /\ Envelope(r, f).mk = r.sendCk /\ Envelope(r, f).dh = f
    BY <1>4, <1>5, <1>7, <1>8, SendOnChain
  <1>10. s.sendN = 1 /\ s.recvN = 0 /\ Envelope(r, f).n = 0
    BY <1>4, <1>5, <1>7, SendCounts
  <1>11. /\ mail.from = Initiator /\ mail.mk = r.sendCk /\ mail.dh = f /\ mail.n = 0
    BY <1>0, <1>9, <1>10 DEF Mail
  <1>12. /\ row'[Initiator] = s /\ row'[Responder] = row[Responder]
         /\ gen'[Initiator] = 1 /\ gen'[Responder] = gen[Responder]
    BY <1>1, <1>2, <1>3, PartyAssumption DEF TypeOK
  <1>13. s.sendCk # NoChain
    BY <1>6, <1>9 DEF NoChain
  <1>14. net' = {mail}
    BY <1>2, <1>3
  <1>15. row[Responder] = ResponderRow(SignedPrekey, Initiator)
    BY <1>2 DEF Fledgling
  <1>. HIDE DEF s, r, f, root
  <1>16. mail.mk.n = 0 /\ mail.mk.root = root
    BY <1>8, <1>11
  <1>. QED  BY <1>2, <1>3, <1>4, <1>6, <1>9, <1>10, <1>11, <1>12, <1>13, <1>14, <1>15, <1>16

LEMMA EncryptIs ==
    ASSUME TypeOK, RatchetInv, SealInv, NEW p \in Parties, Encrypt(p)
    PROVE  \E mail :
             LET r == row[p]
                 s == row'[p]
             IN  /\ net' = net \cup {mail} /\ mail.from = p
                 /\ mail.n = r.sendN /\ mail.pn = r.prevSendN
                 /\ mail.dh = s.dhSelf /\ mail.mk.root = s.sendCk.root
                 /\ mail.n = mail.mk.n /\ mail.n \in Nat
                 /\ s.sendN = mail.n + 1 /\ s.sendCk.n = mail.n + 1
                 /\ s.prevSendN = r.prevSendN
                 /\ s.sendCk # NoChain /\ s.sendCk.root = s.root
                 /\ s.recvCk = r.recvCk /\ s.recvN = r.recvN /\ s.dhPeer = r.dhPeer
                 /\ \A x \in Parties \ {p} : row'[x] = row[x] /\ gen'[x] = gen[x]
                 /\ open[p] /\ delivered' = delivered /\ skipped' = skipped
                 /\ \/ /\ r.sendCk # NoChain
                       /\ s.root = r.root /\ s.sendCk.root = r.sendCk.root
                       /\ s.dhSelf = r.dhSelf /\ gen'[p] = gen[p]
                    \/ /\ r.sendCk = NoChain /\ Level(Peer(p))
                       /\ Len(s.root) = Len(r.root) + 1
                       /\ s.dhSelf.owner = p /\ s.dhSelf.gen = gen[p] + 1
                       /\ gen'[p] = gen[p] + 1
  <1>. DEFINE r == row[p]
              f == Fresh(p)
              s == AfterSend(r, f)
  <1>0. PICK mail : mail = Mail(p, "msg", Envelope(r, f))
    OBVIOUS
  <1>1. /\ open[p] /\ CanSend(r)
        /\ row' = [row EXCEPT ![p] = s]
        /\ gen' = [gen EXCEPT ![p] = IF UsesFresh(r) THEN gen[p] + 1 ELSE gen[p]]
        /\ net' = net \cup {mail} /\ delivered' = delivered /\ skipped' = skipped
    BY <1>0 DEF Encrypt
  <1>2. /\ r \in RatchetRow /\ f \in PubKey
        /\ f.owner = p /\ f.gen = gen[p] + 1
        /\ row'[p] = s
        /\ \A x \in Parties \ {p} : row'[x] = row[x] /\ gen'[x] = gen[x]
    BY <1>1, RowFacts, FreshType DEF TypeOK, Fresh, Pub
  <1>3. /\ mail.from = p /\ mail.n = Envelope(r, f).n /\ mail.pn = Envelope(r, f).pn
        /\ mail.mk = Envelope(r, f).mk /\ mail.dh = Envelope(r, f).dh
    BY <1>0 DEF Mail
  <1>4. /\ s.sendN = r.sendN + 1 /\ s.recvN = r.recvN /\ s.prevSendN = r.prevSendN
        /\ mail.n = r.sendN /\ mail.pn = r.prevSendN
    BY <1>2, <1>3, SendCounts
  <1>5. r.sendN = r.sendCk.n /\ r.sendN \in Nat
    BY <1>2 DEF SealInv, RatchetRow
  <1>6. CASE r.sendCk # NoChain
    <2>1. /\ s.root = r.root /\ s.sendCk.root = r.sendCk.root
          /\ s.sendCk.n = r.sendCk.n + 1 /\ s.recvCk = r.recvCk
          /\ s.dhSelf = r.dhSelf /\ s.dhPeer = r.dhPeer
          /\ mail.mk = r.sendCk /\ mail.dh = r.dhSelf
      BY <1>2, <1>3, <1>6, SendOnChain
    <2>2. r.root # <<>> /\ r.sendCk.root = r.root
      BY <1>1, <1>6, SenderAtRoot DEF SendsAtRoot
    <2>3. gen'[p] = gen[p]
      BY <1>1, <1>6, RowFacts DEF UsesFresh, TypeOK
    <2>4. s.sendCk # NoChain
      BY <2>1, <2>2 DEF NoChain
    <2>. HIDE DEF s
    <2>. QED  BY <1>1, <1>2, <1>3, <1>4, <1>5, <1>6, <2>1, <2>2, <2>3, <2>4
  <1>7. CASE r.sendCk = NoChain
    <2>. DEFINE root == KdfRoot(r.root, Dh(f, r.dhPeer))
    <2>1. /\ s.root = root /\ s.sendCk.root = root /\ s.sendCk.n = 1
          /\ s.recvCk = r.recvCk /\ s.dhSelf = f /\ s.dhPeer = r.dhPeer
          /\ mail.mk.root = root /\ mail.mk.n = 0 /\ mail.dh = f
      BY <1>2, <1>3, <1>7, SendOnNewChain
    <2>2. Level(Peer(p))
      BY <1>1, <1>7, NextToLead
    <2>3. /\ root # <<>> /\ Len(root) = Len(r.root) + 1
      BY <1>2, RootType, DhType DEF RatchetRow
    <2>4. gen'[p] = gen[p] + 1
      BY <1>1, <1>7, RowFacts DEF UsesFresh, TypeOK
    <2>5. s.sendCk # NoChain
      BY <2>1, <2>3 DEF NoChain
    <2>6. r.sendN = 0
      BY <1>5, <1>7 DEF NoChain
    <2>. HIDE DEF s, root, f
    <2>. QED  BY <1>1, <1>2, <1>3, <1>4, <1>5, <1>7, <2>1, <2>2, <2>3, <2>4, <2>5, <2>6
  <1>. QED  BY <1>6, <1>7

LEMMA ReadIs ==
    ASSUME TypeOK, RatchetInv, SealInv, NEW p \in Parties, NEW m \in net,
           row[p].recvN = row[p].recvCk.n, DecryptOnChain(p, m)
    PROVE  LET r == row[p]
               s == row'[p]
               root == KdfRoot(r.root, Dh(r.dhSelf, m.dh))
           IN  /\ m.from = Peer(p) /\ StoredKeys(p, m) = {}
               /\ net' = net /\ gen' = gen
               /\ \A x \in Parties \ {p} : /\ row'[x] = row[x] /\ skipped'[x] = skipped[x]
                                           /\ delivered'[x] = delivered[x]
               /\ delivered'[p] = delivered[p] \cup {m}
               /\ skipped'[p] = StoreKeys(skipped[p], KeptKeys(r, m))
               /\ s.recvN = m.n + 1 /\ s.recvCk.n = m.n + 1
               /\ s.recvCk.root = m.mk.root /\ s.dhSelf = r.dhSelf /\ s.dhPeer = m.dh
               /\ \/ /\ m.dh = r.dhPeer
                     /\ r.recvCk # NoChain /\ r.recvCk.root = m.mk.root /\ r.recvN <= m.n
                     /\ s.root = r.root /\ s.sendCk = r.sendCk /\ s.sendN = r.sendN
                     /\ s.prevSendN = r.prevSendN
                     /\ KeptKeys(r, m) = SkippedKeys(r.recvCk, r.recvN, m.n, r.dhPeer)
                  \/ /\ m.dh # r.dhPeer /\ Leads(Peer(p))
                     /\ s.root = root /\ s.root = m.mk.root /\ s.root = row[Peer(p)].root
                     /\ Len(s.root) = Len(r.root) + 1
                     /\ s.sendCk = NoChain /\ s.sendN = 0 /\ s.prevSendN = r.sendN
                     /\ KeptKeys(r, m) =
                           SkippedKeys(KdfChain(root), 0, m.n, m.dh)
                           \cup SkippedKeys(r.recvCk, r.recvN, m.pn, r.dhPeer)
                     /\ KdfChain(root) \in ChainKey /\ KdfChain(root) # NoChain
                     /\ KdfChain(root).root = root /\ KdfChain(root).n = 0
  <1>. DEFINE r == row[p]
              s == AfterRecv(r, m)
              q == Peer(p)
              root == KdfRoot(r.root, Dh(r.dhSelf, m.dh))
  <1>1. RowFor(p, m) = r
    BY RowForIsRow
  <1>2. /\ ChainOpens(r, m) /\ m.from = q /\ StoredKeys(p, m) = {}
        /\ row' = [row EXCEPT ![p] = s]
        /\ skipped' = [skipped EXCEPT ![p] = StoreKeys(skipped[p], KeptKeys(r, m))]
        /\ delivered' = [delivered EXCEPT ![p] = delivered[p] \cup {m}]
        /\ gen' = gen /\ net' = net
    BY <1>1 DEF DecryptOnChain, Readable
  <1>3. /\ r \in RatchetRow /\ m \in Message /\ row'[p] = s
        /\ delivered'[p] = delivered[p] \cup {m}
        /\ skipped'[p] = StoreKeys(skipped[p], KeptKeys(r, m))
        /\ \A x \in Parties \ {p} : /\ row'[x] = row[x] /\ skipped'[x] = skipped[x]
                                    /\ delivered'[x] = delivered[x]
    BY <1>2 DEF TypeOK
  <1>4. m.n = m.mk.n /\ m.mk.root # <<>> /\ MailOnChain(m)
    BY DEF SealInv, RatchetInv, MailOnChain
  <1>5. CASE ~NewRatchetKey(r, m)
    <2>1. /\ s.root = r.root /\ s.sendCk = r.sendCk /\ s.recvCk.root = r.recvCk.root
          /\ s.dhSelf = r.dhSelf /\ s.dhPeer = r.dhPeer
      BY <1>3, <1>5, RecvOnChain
    <2>2. /\ r.recvCk # NoChain /\ r.recvCk.root = m.mk.root /\ r.recvN <= m.n
          /\ s.recvN = m.n + 1 /\ s.recvCk.n = m.n + 1
          /\ s.sendN = r.sendN /\ s.prevSendN = r.prevSendN
          /\ KeptKeys(r, m) = SkippedKeys(r.recvCk, r.recvN, m.n, r.dhPeer)
      BY <1>2, <1>3, <1>4, <1>5, RecvOnChainCounts
    <2>3. m.dh = r.dhPeer
      BY <1>5 DEF NewRatchetKey
    <2>. HIDE DEF s
    <2>. QED  BY <1>2, <1>3, <2>1, <2>2, <2>3
  <1>6. CASE NewRatchetKey(r, m)
    <2>1. /\ s.root = root /\ s.sendCk = NoChain /\ s.recvCk.root = root
          /\ s.dhSelf = r.dhSelf /\ s.dhPeer = m.dh /\ m.mk.root = root
      BY <1>2, <1>3, <1>6, RecvOnNewChain
    <2>2. /\ s.recvN = m.n + 1 /\ s.recvCk.n = m.n + 1
          /\ s.sendN = 0 /\ s.prevSendN = r.sendN
          /\ KeptKeys(r, m) =
                SkippedKeys(KdfChain(root), 0, m.n, m.dh)
                \cup SkippedKeys(r.recvCk, r.recvN, m.pn, r.dhPeer)
          /\ KdfChain(root) \in ChainKey /\ KdfChain(root) # NoChain
          /\ KdfChain(root).root = root /\ KdfChain(root).n = 0
      BY <1>2, <1>3, <1>4, <1>6, RecvOnNewChainCounts
    <2>3. m.dh # r.dhPeer
      BY <1>6 DEF NewRatchetKey
    <2>4. Leads(q) /\ Len(row[q].root) = Len(r.root) + 1
      BY <1>6, ReadStepsChain, NewKeyIsNext
    <2>5. Len(root) = Len(r.root) + 1
      <3>1. Dh(r.dhSelf, m.dh) \in SUBSET PubKey
        BY <1>3, RowFacts, DhType DEF Message
      <3>. QED  BY <3>1, RootType, RowFacts
    <2>6. m.mk.root = row[q].root
      BY <1>2, <1>4, <2>1, <2>4, <2>5 DEF MailOnChain
    <2>. HIDE DEF s, root
    <2>. QED  BY <1>2, <1>3, <2>1, <2>2, <2>3, <2>4, <2>5, <2>6 DEF root
  <1>. QED  BY <1>5, <1>6
-----------------------------------------------------------------------------
(* The four parts of the invariant are kept *)

LEMMA MailFacts ==
    ASSUME TypeOK, RatchetInv, SealInv, NEW m \in net
    PROVE  /\ m \in Message /\ m.from \in Parties /\ m.n \in Nat /\ m.pn \in Nat
           /\ m.mk \in ChainKey /\ m.n = m.mk.n
           /\ m.dh.gen \in Nat /\ Len(m.mk.root) \in Nat /\ Len(m.mk.root) > 0
           /\ Len(m.mk.root) <= Len(row[m.from].root)
           /\ Len(m.mk.root) = Len(row[m.from].root) =>
                 m.mk.root = row[m.from].root /\ m.dh = row[m.from].dhSelf
           /\ m.mk.root = row[m.from].sendCk.root => m.n < row[m.from].sendN
           /\ OwnEpoch(m.from, Len(m.mk.root))
  <1>1. m \in Message /\ MailOnChain(m) /\ m.n = m.mk.n
    BY DEF TypeOK, RatchetInv, SealInv
  <1>2. /\ m.from \in Parties /\ m.n \in Nat /\ m.pn \in Nat
        /\ m.mk \in ChainKey /\ m.dh.gen \in Nat
    BY <1>1 DEF Message, PubKey
  <1>3. m.mk.root \in Seq(SUBSET PubKey) /\ m.mk.root # <<>>
    BY <1>1, <1>2 DEF ChainKey, MailOnChain
  <1>4. Len(m.mk.root) \in Nat /\ Len(m.mk.root) > 0
    BY <1>3
  <1>5. row[m.from].sendN = row[m.from].sendCk.n
    BY <1>2 DEF SealInv
  <1>. QED  BY <1>1, <1>2, <1>4, <1>5 DEF MailOnChain

LEMMA SealSteps ==
    ASSUME TypeOK, RatchetInv, SealInv, \A p \in Parties : ReadInv(p), [Next]_vars
    PROVE  SealInv'
  <1>1. CASE Initiate
    <2>1. PICK mail :
             LET s == row'[Initiator]
             IN  /\ net' = {mail} /\ mail.from = Initiator
                 /\ mail.n = 0 /\ mail.mk.n = 0 /\ mail.dh = s.dhSelf
                 /\ mail.mk.root = s.sendCk.root
                 /\ s.sendN = 1 /\ s.sendCk.n = 1
                 /\ s.dhSelf.owner = Initiator /\ s.dhSelf.gen = 1
                 /\ gen'[Initiator] = 1 /\ gen'[Responder] = gen[Responder]
                 /\ row'[Responder] = row[Responder]
      BY <1>1, InitiateIs
    <2>2. FirstKey(Initiator).gen = 0
      BY PartyAssumption DEF FirstKey, NoPub, Pub
    <2>. QED  BY <2>1, <2>2, PartyAssumption DEF SealInv, Parties
  <1>2. ASSUME NEW p \in Parties, Encrypt(p) PROVE SealInv'
    <2>. DEFINE r == row[p]
                s == row'[p]
    <2>1. PICK mail :
             /\ net' = net \cup {mail} /\ mail.from = p
             /\ mail.dh = s.dhSelf /\ mail.mk.root = s.sendCk.root
             /\ mail.n = mail.mk.n /\ mail.n \in Nat
             /\ s.sendN = mail.n + 1 /\ s.sendCk.n = mail.n + 1
             /\ \A x \in Parties \ {p} : row'[x] = row[x] /\ gen'[x] = gen[x]
             /\ \/ /\ r.sendCk # NoChain /\ s.sendCk.root = r.sendCk.root
                   /\ s.dhSelf = r.dhSelf /\ gen'[p] = gen[p]
                \/ /\ r.sendCk = NoChain
                   /\ s.dhSelf.owner = p /\ s.dhSelf.gen = gen[p] + 1
                   /\ gen'[p] = gen[p] + 1
      BY <1>2, EncryptIs
    <2>2. gen[p] \in Nat /\ FirstKey(p).gen \in Nat /\ gen[p] >= FirstKey(p).gen
          /\ r.dhSelf.owner = p /\ r.dhSelf.gen <= gen[p] /\ r.dhSelf.gen \in Nat
      BY RowFacts DEF FirstKey, NoPub, SignedPrekey, Pub, SealInv, RatchetInv, OwnKeys, PubKey
    <2>3. \A b \in net : b.from = p /\ b.dh = s.dhSelf => b.mk.root = s.sendCk.root
      <3>. SUFFICES ASSUME NEW b \in net, b.from = p, b.dh = s.dhSelf
                    PROVE  b.mk.root = s.sendCk.root
        OBVIOUS
      <3>1. b.dh.gen \in Nat /\ b.dh.gen <= gen[p]
        BY MailFacts DEF SealInv
      <3>2. r.sendCk # NoChain /\ b.dh = r.dhSelf => b.mk.root = r.sendCk.root
        BY DEF SealInv
      <3>. QED  BY <2>1, <2>2, <3>1, <3>2
    <2>4. s.dhSelf.owner = p /\ s.dhSelf.gen <= gen'[p] /\ s.dhSelf.gen > FirstKey(p).gen
      BY <2>1, <2>2 DEF SealInv
    <2>5. gen'[p] >= gen[p] /\ gen'[p] \in Nat
      BY <2>1, <2>2
    <2>. HIDE DEF r, s
    <2>6. ASSUME NEW x \in Parties
          PROVE  /\ row'[x].sendN = row'[x].sendCk.n /\ gen'[x] >= FirstKey(x).gen
                 /\ row'[x].sendCk # NoChain => row'[x].dhSelf.gen > FirstKey(x).gen
      BY <2>1, <2>2, <2>4, <2>5 DEF SealInv, s
    <2>7. ASSUME NEW m \in net'
          PROVE  /\ m.n = m.mk.n /\ m.dh.owner = m.from /\ m.dh.gen <= gen'[m.from]
                 /\ m.dh.gen > FirstKey(m.from).gen
                 /\ row'[m.from].sendCk # NoChain /\ m.dh = row'[m.from].dhSelf =>
                       m.mk.root = row'[m.from].sendCk.root
      <3>1. CASE m = mail
        BY <2>1, <2>4, <3>1 DEF s
      <3>2. CASE m \in net
        <4>1. m.from \in Parties /\ m.dh.gen \in Nat /\ gen[m.from] \in Nat
          BY <3>2, MailFacts, RowFacts
        <4>2. /\ m.n = m.mk.n /\ m.dh.owner = m.from /\ m.dh.gen <= gen[m.from]
              /\ m.dh.gen > FirstKey(m.from).gen
              /\ row[m.from].sendCk # NoChain /\ m.dh = row[m.from].dhSelf =>
                    m.mk.root = row[m.from].sendCk.root
          BY <3>2 DEF SealInv
        <4>3. CASE m.from = p
          BY <2>2, <2>3, <2>5, <3>2, <4>1, <4>2, <4>3 DEF s
        <4>4. CASE m.from # p
          BY <2>1, <4>1, <4>2, <4>4
        <4>. QED  BY <4>3, <4>4
      <3>. QED  BY <2>1, <3>1, <3>2
    <2>8. \A a, b \in net' : a.from = b.from /\ a.dh = b.dh => a.mk.root = b.mk.root
      BY <2>1, <2>3 DEF SealInv
    <2>. QED  BY <2>6, <2>7, <2>8 DEF SealInv
  <1>3. ASSUME NEW p \in Parties, NEW m \in net, DecryptOnChain(p, m) PROVE SealInv'
    <2>. DEFINE r == row[p]
                s == row'[p]
    <2>1. /\ net' = net /\ gen' = gen /\ s.dhSelf = r.dhSelf
          /\ \A x \in Parties \ {p} : row'[x] = row[x]
          /\ \/ s.sendCk = r.sendCk /\ s.sendN = r.sendN
             \/ s.sendCk = NoChain /\ s.sendN = 0
      BY <1>3, ReadIs DEF ReadInv
    <2>2. NoChain.n = 0
      BY DEF NoChain
    <2>3. \A x \in net : x.from \in Parties
      BY MailFacts
    <2>4. ASSUME NEW x \in Parties
          PROVE  /\ row'[x].sendN = row'[x].sendCk.n /\ gen'[x] >= FirstKey(x).gen
                 /\ row'[x].sendCk # NoChain => row'[x].dhSelf.gen > FirstKey(x).gen
      BY <2>1, <2>2 DEF SealInv
    <2>5. ASSUME NEW x \in net
          PROVE  row'[x.from].sendCk # NoChain /\ x.dh = row'[x.from].dhSelf =>
                       x.mk.root = row'[x.from].sendCk.root
      BY <2>1, <2>3 DEF SealInv
    <2>. QED  BY <2>1, <2>4, <2>5 DEF SealInv
  <1>4. ASSUME NEW p \in Parties, NEW m \in net, DecryptStored(p, m) \/ Refuse(p, m)
        PROVE  SealInv'
    <2>1. row' = row /\ net' = net /\ gen' = gen
      BY <1>4, ReadKeepsRows DEF DecryptStored, Refuse
    <2>. QED  BY <2>1 DEF SealInv
  <1>5. CASE UNCHANGED vars
    BY <1>5 DEF vars, SealInv
  <1>. QED  BY <1>1, <1>2, <1>3, <1>4, <1>5 DEF Next

LEMMA ClosingSteps ==
    ASSUME TypeOK, RatchetInv, SealInv, ClosingInv, \A p \in Parties : ReadInv(p), [Next]_vars
    PROVE  ClosingInv'
  <1>0. /\ NoChain.root = <<>> /\ NoChain.n = 0
        /\ \A p \in Parties : Len(row[p].root) \in Nat /\ row[p].sendN \in Nat
                              /\ row[p].prevSendN \in Nat
    BY RowFacts DEF NoChain, RatchetRow
  <1>1. CASE Initiate
    <2>1. PICK mail :
             LET s == row'[Initiator]
             IN  /\ net' = {mail} /\ mail.from = Initiator
                 /\ mail.mk.root = s.sendCk.root
                 /\ s.sendCk # NoChain /\ s.sendCk.root = s.root /\ Len(s.root) = 1
                 /\ s.recvCk = NoChain
                 /\ row'[Responder] = row[Responder]
                 /\ row[Responder] = ResponderRow(SignedPrekey, Initiator)
      BY <1>1, InitiateIs
    <2>2. row[Responder].root = <<>> /\ row[Responder].recvCk = NoChain
      BY <2>1 DEF ResponderRow
    <2>3. Len(mail.mk.root) = 1
      BY <2>1
    <2>4. Initiator # Responder /\ Parties = {Initiator, Responder}
      BY PartyAssumption DEF Parties
    <2>5. \A x \in net' : x.from = Initiator /\ Len(x.mk.root) = 1
      BY <2>1, <2>3
    <2>6. ASSUME NEW x \in Parties
          PROVE  /\ row'[x].recvCk.root = <<>> /\ Len(row'[x].root) <= 1
                 /\ x = Initiator => Len(row'[x].root) = 1 /\ row'[x].sendCk # NoChain
      <3>1. CASE x = Initiator
        <4>1. row'[x].recvCk = NoChain /\ row'[x].sendCk # NoChain
          BY <2>1, <3>1
        <4>2. Len(row'[x].root) = 1
          BY <2>1, <3>1
        <4>. QED  BY <1>0, <4>1, <4>2
      <3>2. CASE x = Responder
        <4>1. row'[x] = row[Responder] /\ x # Initiator
          BY <2>1, <2>4, <3>2
        <4>2. row[Responder].recvCk.root = <<>> /\ Len(row[Responder].root) = 0
          BY <1>0, <2>2
        <4>. QED  BY <4>1, <4>2
      <3>. QED  BY <2>4, <3>1, <3>2
    <2>7. ASSUME NEW x \in Parties
          PROVE  /\ row'[x].recvCk.root # <<>> =>
                      Len(row'[x].recvCk.root) =
                          IF row'[x].sendCk = NoChain THEN Len(row'[x].root)
                          ELSE Len(row'[x].root) - 1
                 /\ row'[x].recvCk.root = <<>> => Len(row'[x].root) <= 1
                 /\ \A m \in net' : m.from = x =>
                      /\ row'[x].sendCk # NoChain /\ Len(m.mk.root) = Len(row'[x].root) - 2 =>
                            m.n < row'[x].prevSendN
                      /\ row'[x].sendCk = NoChain /\ Len(m.mk.root) = Len(row'[x].root) - 1 =>
                            m.n < row'[x].prevSendN
      BY <2>4, <2>5, <2>6
    <2>8. \A a, b \in net' :
             a.from = b.from /\ Len(b.mk.root) = Len(a.mk.root) - 2 => b.n < a.pn
      BY <2>5
    <2>. QED  BY <2>7, <2>8 DEF ClosingInv
  <1>2. ASSUME NEW p \in Parties, Encrypt(p) PROVE ClosingInv'
    <2>. DEFINE r == row[p]
                s == row'[p]
    <2>1. PICK mail :
             /\ net' = net \cup {mail} /\ mail.from = p
             /\ mail.pn = r.prevSendN /\ mail.mk.root = s.root
             /\ s.prevSendN = r.prevSendN /\ s.sendCk # NoChain /\ s.recvCk = r.recvCk
             /\ \A x \in Parties \ {p} : row'[x] = row[x]
             /\ \/ r.sendCk # NoChain /\ s.root = r.root
                \/ r.sendCk = NoChain /\ Level(Peer(p)) /\ Len(s.root) = Len(r.root) + 1
      BY <1>2, EncryptIs
    <2>2. Len(r.root) \in Nat /\ Len(s.root) \in Nat
      BY <1>0, <2>1
    <2>3. \A b \in net : b.from = p => Len(b.mk.root) \in Nat /\ Len(b.mk.root) <= Len(r.root)
      BY MailFacts
    <2>4. \A b \in net : b.from = p /\ Len(b.mk.root) = Len(s.root) - 2 => b.n < r.prevSendN
      <3>1. CASE r.sendCk # NoChain
        BY <2>1, <3>1 DEF ClosingInv
      <3>2. CASE r.sendCk = NoChain
        <4>1. Len(s.root) - 2 = Len(r.root) - 1
          <5>1. Len(s.root) = Len(r.root) + 1
            BY <2>1, <3>2
          <5>. QED  BY ONLY <2>2, <5>1
        <4>2. \A b \in net : b.from = p /\ Len(b.mk.root) = Len(r.root) - 1 =>
                 b.n < r.prevSendN
          BY ONLY <3>2, ClosingInv, p \in Parties DEF ClosingInv
        <4>. QED  BY ONLY <4>1, <4>2
      <3>. QED  BY <3>1, <3>2
    <2>5. \A a, b \in net' :
             a.from = b.from /\ Len(b.mk.root) = Len(a.mk.root) - 2 => b.n < a.pn
      <3>. SUFFICES ASSUME NEW a \in net', NEW b \in net', a.from = b.from,
                           Len(b.mk.root) = Len(a.mk.root) - 2
                    PROVE  b.n < a.pn
        OBVIOUS
      <3>1. CASE a \in net /\ b \in net
        BY <3>1 DEF ClosingInv
      <3>2. CASE a = mail /\ b \in net
        BY <2>1, <2>4, <3>2
      <3>3. CASE b = mail
        <4>1. a = mail \/ a \in net
          BY <2>1
        <4>. QED  BY <2>1, <2>2, <2>3, <3>3, <4>1
      <3>. QED  BY <2>1, <3>1, <3>2, <3>3
    <2>6. /\ s.recvCk.root # <<>> => Len(s.recvCk.root) = Len(s.root) - 1
          /\ s.recvCk.root = <<>> => Len(s.root) <= 1
      <3>1. CASE r.sendCk # NoChain
        BY <2>1, <3>1 DEF ClosingInv
      <3>2. CASE r.sendCk = NoChain
        <4>1. r.recvCk.root = r.root /\ r.root # <<>>
          BY <2>1, <3>2, PeerIsParty DEF Level, SendsAtRoot
        <4>. QED  BY <2>1, <2>2, <3>2, <4>1
      <3>. QED  BY <3>1, <3>2
    <2>7. \A m \in net' : m.from = p /\ Len(m.mk.root) = Len(s.root) - 2 => m.n < s.prevSendN
      BY <2>1, <2>2, <2>4
    <2>. HIDE DEF r, s
    <2>8. ASSUME NEW x \in Parties
          PROVE  /\ row'[x].recvCk.root # <<>> =>
                      Len(row'[x].recvCk.root) =
                          IF row'[x].sendCk = NoChain THEN Len(row'[x].root)
                          ELSE Len(row'[x].root) - 1
                 /\ row'[x].recvCk.root = <<>> => Len(row'[x].root) <= 1
                 /\ \A m \in net' : m.from = x =>
                      /\ row'[x].sendCk # NoChain /\ Len(m.mk.root) = Len(row'[x].root) - 2 =>
                            m.n < row'[x].prevSendN
                      /\ row'[x].sendCk = NoChain /\ Len(m.mk.root) = Len(row'[x].root) - 1 =>
                            m.n < row'[x].prevSendN
      <3>1. CASE x = p
        BY <2>1, <2>6, <2>7, <3>1 DEF s
      <3>2. CASE x # p
        BY <2>1, <3>2 DEF ClosingInv
      <3>. QED  BY <3>1, <3>2
    <2>. QED  BY <2>5, <2>8 DEF ClosingInv
  <1>3. ASSUME NEW p \in Parties, NEW m \in net, DecryptOnChain(p, m) PROVE ClosingInv'
    <2>. DEFINE r == row[p]
                s == row'[p]
                q == Peer(p)
    <2>1. /\ net' = net
          /\ \A x \in Parties \ {p} : row'[x] = row[x]
          /\ s.recvCk.root = m.mk.root
          /\ \/ /\ r.recvCk # NoChain /\ r.recvCk.root = m.mk.root
                /\ s.root = r.root /\ s.sendCk = r.sendCk /\ s.prevSendN = r.prevSendN
             \/ /\ Leads(q) /\ s.root = m.mk.root /\ Len(s.root) = Len(r.root) + 1
                /\ s.sendCk = NoChain /\ s.prevSendN = r.sendN
      BY <1>3, ReadIs DEF ReadInv
    <2>2. m.mk.root # <<>> /\ Len(r.root) \in Nat
      BY RowFacts DEF RatchetInv, MailOnChain
    <2>3. /\ s.recvCk.root # <<>>
          /\ Len(s.recvCk.root) =
                IF s.sendCk = NoChain THEN Len(s.root) ELSE Len(s.root) - 1
      BY <2>1, <2>2 DEF ClosingInv
    <2>4. \A x \in net : x.from = p =>
             /\ s.sendCk # NoChain /\ Len(x.mk.root) = Len(s.root) - 2 => x.n < s.prevSendN
             /\ s.sendCk = NoChain /\ Len(x.mk.root) = Len(s.root) - 1 => x.n < s.prevSendN
      <3>1. CASE s.root = r.root /\ s.sendCk = r.sendCk /\ s.prevSendN = r.prevSendN
        BY <3>1 DEF ClosingInv
      <3>2. CASE /\ Leads(q) /\ Len(s.root) = Len(r.root) + 1
                 /\ s.sendCk = NoChain /\ s.prevSendN = r.sendN
        <4>. SUFFICES ASSUME NEW x \in net, x.from = p, Len(x.mk.root) = Len(r.root)
                      PROVE  x.n < r.sendN
          BY <2>2, <3>2
        <4>1. Len(x.mk.root) > 0 /\ x.mk.root = r.root
          BY MailFacts
        <4>2. SendsAtRoot(p)
          <5>1. ~Fledgling(p)
            BY <4>1 DEF Fledgling, ResponderRow
          <5>. QED  BY <3>2, <5>1, PeerIsParty DEF Leads
        <4>. QED  BY <4>1, <4>2, MailFacts DEF SendsAtRoot
      <3>. QED  BY <2>1, <3>1, <3>2
    <2>. HIDE DEF r, s, q
    <2>5. ASSUME NEW x \in Parties
          PROVE  /\ row'[x].recvCk.root # <<>> =>
                      Len(row'[x].recvCk.root) =
                          IF row'[x].sendCk = NoChain THEN Len(row'[x].root)
                          ELSE Len(row'[x].root) - 1
                 /\ row'[x].recvCk.root = <<>> => Len(row'[x].root) <= 1
                 /\ \A y \in net' : y.from = x =>
                      /\ row'[x].sendCk # NoChain /\ Len(y.mk.root) = Len(row'[x].root) - 2 =>
                            y.n < row'[x].prevSendN
                      /\ row'[x].sendCk = NoChain /\ Len(y.mk.root) = Len(row'[x].root) - 1 =>
                            y.n < row'[x].prevSendN
      <3>1. CASE x = p
        BY <2>1, <2>3, <2>4, <3>1 DEF s
      <3>2. CASE x # p
        BY <2>1, <3>2 DEF ClosingInv
      <3>. QED  BY <3>1, <3>2
    <2>6. \A a, b \in net' :
             a.from = b.from /\ Len(b.mk.root) = Len(a.mk.root) - 2 => b.n < a.pn
      BY <2>1 DEF ClosingInv
    <2>. QED  BY <2>5, <2>6 DEF ClosingInv
  <1>4. ASSUME NEW p \in Parties, NEW m \in net, DecryptStored(p, m) \/ Refuse(p, m)
        PROVE  ClosingInv'
    <2>1. row' = row /\ net' = net
      BY <1>4, ReadKeepsRows DEF DecryptStored, Refuse
    <2>. QED  BY <2>1 DEF ClosingInv
  <1>5. CASE UNCHANGED vars
    BY <1>5 DEF vars, ClosingInv
  <1>. QED  BY <1>1, <1>2, <1>3, <1>4, <1>5 DEF Next

\* The keys a mail leaves behind: of the mail before it on its chain, and when
\* that chain is new also of the rest of the chain read on so far.
LEMMA NewKeys ==
    ASSUME TypeOK, RatchetInv, SealInv, NEW p \in Parties, ReadInv(p), NEW m \in net,
           DecryptOnChain(p, m)
    PROVE  LET r == row[p]
           IN  \A k \in KeptKeys(r, m) :
                  /\ k.n \in Nat /\ k.mk.n = k.n
                  /\ \/ /\ k.dh = m.dh /\ k.mk.root = m.mk.root /\ k.n < m.n
                        /\ m.dh = r.dhPeer => r.recvN <= k.n
                     \/ /\ m.dh # r.dhPeer /\ r.recvCk # NoChain
                        /\ k.dh = r.dhPeer /\ k.mk.root = r.recvCk.root /\ r.recvN <= k.n
  <1>. DEFINE r == row[p]
              root == KdfRoot(r.root, Dh(r.dhSelf, m.dh))
  <1>1. /\ r.recvCk \in ChainKey /\ r.recvN \in Nat /\ r.dhPeer \in PubKey
        /\ r.recvN = r.recvCk.n
        /\ m.n \in Nat /\ m.pn \in Nat /\ m.dh \in PubKey
    BY RowFacts, MailFacts DEF RatchetRow, Message, ReadInv
  <1>2. \/ /\ m.dh = r.dhPeer
           /\ r.recvCk # NoChain /\ r.recvCk.root = m.mk.root
           /\ KeptKeys(r, m) = SkippedKeys(r.recvCk, r.recvN, m.n, r.dhPeer)
        \/ /\ m.dh # r.dhPeer /\ root = m.mk.root
           /\ KeptKeys(r, m) = SkippedKeys(KdfChain(root), 0, m.n, m.dh)
                               \cup SkippedKeys(r.recvCk, r.recvN, m.pn, r.dhPeer)
           /\ KdfChain(root) \in ChainKey /\ KdfChain(root).root = root
           /\ KdfChain(root).n = 0
    BY <1>1, ReadIs
  <1>. HIDE DEF r, root
  <1>3. \A k \in SkippedKeys(r.recvCk, r.recvN, m.n, r.dhPeer) :
           /\ k.n \in Nat /\ k.dh = r.dhPeer /\ r.recvN <= k.n /\ k.n < m.n
           /\ k.mk.root = r.recvCk.root /\ k.mk.n = r.recvCk.n + (k.n - r.recvN)
    BY <1>1, SkippedIs
  <1>4. \A k \in SkippedKeys(r.recvCk, r.recvN, m.pn, r.dhPeer) :
           /\ r.recvCk # NoChain
           /\ k.n \in Nat /\ k.dh = r.dhPeer /\ r.recvN <= k.n
           /\ k.mk.root = r.recvCk.root /\ k.mk.n = r.recvCk.n + (k.n - r.recvN)
    BY <1>1, SkippedIs
  <1>5. CASE m.dh = r.dhPeer
    <2>. SUFFICES ASSUME NEW k \in KeptKeys(r, m)
                  PROVE  /\ k.n \in Nat /\ k.mk.n = k.n
                         /\ k.dh = m.dh /\ k.mk.root = m.mk.root /\ k.n < m.n
                         /\ r.recvN <= k.n
      BY <1>5 DEF r
    <2>. QED  BY <1>1, <1>2, <1>3, <1>5
  <1>6. CASE m.dh # r.dhPeer
    <2>1. \A k \in SkippedKeys(KdfChain(root), 0, m.n, m.dh) :
             /\ k.n \in Nat /\ k.dh = m.dh /\ k.n < m.n
             /\ k.mk.root = KdfChain(root).root /\ k.mk.n = KdfChain(root).n + (k.n - 0)
      <3>1. KdfChain(root) \in ChainKey /\ 0 \in Nat
        BY <1>2, <1>6
      <3>. QED  BY <1>1, <3>1, SkippedIs
    <2>2. \A k \in SkippedKeys(KdfChain(root), 0, m.n, m.dh) :
             k.mk.root = m.mk.root /\ k.mk.n = k.n
      BY <1>2, <1>6, <2>1
    <2>3. \A k \in SkippedKeys(r.recvCk, r.recvN, m.pn, r.dhPeer) : k.mk.n = k.n
      BY <1>1, <1>4
    <2>4. KeptKeys(r, m) = SkippedKeys(KdfChain(root), 0, m.n, m.dh)
                           \cup SkippedKeys(r.recvCk, r.recvN, m.pn, r.dhPeer)
      BY <1>2, <1>6
    <2>. QED  BY <1>4, <1>6, <2>1, <2>2, <2>3, <2>4 DEF r
  <1>. QED  BY <1>5, <1>6

LEMMA ReadOnChain ==
    ASSUME TypeOK, RatchetInv, SealInv, NEW p \in Parties, ReadInv(p), NEW m \in net,
           DecryptOnChain(p, m)
    PROVE  ReadInv(p)'
  <1>. DEFINE r == row[p]
              s == row'[p]
  <1>1. /\ m.from = Peer(p) /\ StoredKeys(p, m) = {}
        /\ net' = net /\ delivered'[p] = delivered[p] \cup {m}
        /\ skipped'[p] = StoreKeys(skipped[p], KeptKeys(r, m))
        /\ s.recvN = m.n + 1 /\ s.recvCk.n = m.n + 1
        /\ s.recvCk.root = m.mk.root /\ s.dhPeer = m.dh
        /\ \/ /\ m.dh = r.dhPeer /\ r.recvCk # NoChain
              /\ r.recvCk.root = m.mk.root /\ r.recvN <= m.n /\ s.root = r.root
           \/ /\ m.dh # r.dhPeer /\ s.root = m.mk.root /\ Len(s.root) = Len(r.root) + 1
    BY ReadIs DEF ReadInv
  <1>2. /\ m.n \in Nat /\ m.mk.root # <<>> /\ Len(m.mk.root) \in Nat
        /\ r.recvN \in Nat /\ Len(r.root) \in Nat
    BY MailFacts, RowFacts DEF RatchetRow, RatchetInv, MailOnChain
  <1>3. s.recvCk # NoChain
    BY <1>1, <1>2 DEF NoChain
  <1>4. \A x \in delivered[p] :
           /\ x \in net /\ x.from = Peer(p) /\ x.n \in Nat /\ Len(x.mk.root) \in Nat
           /\ Len(x.mk.root) <= Len(r.root) /\ (x.dh = r.dhPeer => x.n < r.recvN)
    BY MailFacts DEF ReadInv, Behind
  <1>5. \A x \in delivered[p] : x.dh = m.dh => m.dh = r.dhPeer
    <2>1. \A x \in delivered[p] : x.dh = m.dh => x.mk.root = m.mk.root
      BY <1>1, <1>4 DEF SealInv
    <2>. SUFFICES ASSUME NEW x \in delivered[p], x.dh = m.dh, m.dh # r.dhPeer
                  PROVE  FALSE
      OBVIOUS
    <2>2. Len(m.mk.root) = Len(r.root) + 1
      BY <1>1
    <2>3. Len(m.mk.root) <= Len(r.root)
      BY <1>4, <2>1
    <2>. QED  BY ONLY <1>2, <2>2, <2>3
  <1>6. \A k \in skipped[p] :
           /\ k.n \in Nat /\ Len(k.mk.root) \in Nat /\ k.mk.n = k.n
           /\ Len(k.mk.root) <= Len(r.root) /\ (k.dh = r.dhPeer => k.n < r.recvN)
           /\ \E x \in delivered[p] : x.dh = k.dh /\ x.mk.root = k.mk.root
    <2>1. \A k \in skipped[p] : k.n \in Nat /\ Len(k.mk.root) \in Nat
      BY DEF TypeOK, StoredKey, ChainKey
    <2>. QED  BY <2>1 DEF ReadInv, Behind
  <1>7. r.recvCk # NoChain =>
           \E x \in delivered[p] : x.dh = r.dhPeer /\ x.mk.root = r.recvCk.root
    BY DEF ReadInv
  <1>8. \A k \in KeptKeys(r, m) :
           /\ k.n \in Nat /\ k.mk.n = k.n
           /\ \/ /\ k.dh = m.dh /\ k.mk.root = m.mk.root /\ k.n < m.n
                 /\ m.dh = r.dhPeer => r.recvN <= k.n
              \/ /\ m.dh # r.dhPeer /\ r.recvCk # NoChain
                 /\ k.dh = r.dhPeer /\ k.mk.root = r.recvCk.root /\ r.recvN <= k.n
    BY NewKeys
  <1>9. Len(r.root) <= Len(s.root) /\ Len(m.mk.root) <= Len(s.root) /\ Len(s.root) \in Nat
    BY <1>1, <1>2, <1>4, <1>7
  <1>10. \A k \in skipped'[p] : k \in skipped[p] \/ k \in KeptKeys(r, m)
    BY <1>1, StoredAre
  <1>11. \A k \in skipped[p] : k.dh # m.dh \/ k.n # m.n
    BY <1>1 DEF StoredKeys
  <1>12. \A x \in delivered[p] : \A k \in skipped[p] : k.dh # x.dh \/ k.n # x.n
    BY DEF ReadInv
  <1>. HIDE DEF r, s
  <1>13. ASSUME NEW x \in delivered'[p]
         PROVE  /\ x \in net' /\ x.from = Peer(p)
                /\ Len(x.mk.root) <= Len(s.root) /\ (x.dh = s.dhPeer => x.n < s.recvN)
                /\ \A k \in skipped'[p] : k.dh # x.dh \/ k.n # x.n
    <2>1. CASE x = m
      <3>1. \A k \in KeptKeys(r, m) : k.dh # m.dh \/ k.n # m.n
        BY <1>2, <1>8
      <3>. QED  BY <1>1, <1>2, <1>9, <1>10, <1>11, <2>1, <3>1
    <2>2. CASE x \in delivered[p]
      <3>1. \A k \in KeptKeys(r, m) : k.dh # x.dh \/ k.n # x.n
        BY <1>2, <1>4, <1>5, <1>8, <2>2
      <3>2. x.dh = s.dhPeer => x.n < s.recvN
        BY <1>1, <1>2, <1>4, <1>5, <2>2
      <3>3. Len(x.mk.root) <= Len(s.root)
        BY <1>2, <1>4, <1>9, <2>2
      <3>. QED  BY <1>1, <1>4, <1>10, <1>12, <2>2, <3>1, <3>2, <3>3
    <2>. QED  BY <1>1, <2>1, <2>2
  <1>14. ASSUME NEW k \in skipped'[p]
         PROVE  /\ Len(k.mk.root) <= Len(s.root) /\ (k.dh = s.dhPeer => k.n < s.recvN)
                /\ k.mk.n = k.n
                /\ \E x \in delivered'[p] : x.dh = k.dh /\ x.mk.root = k.mk.root
    <2>1. CASE k \in skipped[p]
      <3>1. PICK x \in delivered[p] : x.dh = k.dh /\ x.mk.root = k.mk.root
        BY <1>6, <2>1
      <3>2. k.dh = s.dhPeer => k.n < s.recvN
        BY <1>1, <1>2, <1>5, <1>6, <2>1, <3>1
      <3>3. Len(k.mk.root) <= Len(s.root)
        BY <1>2, <1>6, <1>9, <2>1
      <3>. QED  BY <1>1, <1>6, <2>1, <3>1, <3>2, <3>3
    <2>2. CASE k \in KeptKeys(r, m)
      <3>1. CASE k.dh = m.dh /\ k.mk.root = m.mk.root /\ k.n < m.n
        BY <1>1, <1>2, <1>8, <1>9, <2>2, <3>1
      <3>2. CASE /\ m.dh # r.dhPeer /\ r.recvCk # NoChain
                 /\ k.dh = r.dhPeer /\ k.mk.root = r.recvCk.root
        <4>1. PICK x \in delivered[p] : x.dh = r.dhPeer /\ x.mk.root = r.recvCk.root
          BY <1>7, <3>2
        <4>2. Len(k.mk.root) <= Len(s.root)
          BY <1>2, <1>4, <1>9, <3>2, <4>1
        <4>. QED  BY <1>1, <1>8, <2>2, <3>2, <4>1, <4>2
      <3>. QED  BY <1>8, <2>2, <3>1, <3>2
    <2>. QED  BY <1>10, <2>1, <2>2
  <1>15. \E x \in delivered'[p] :
            x.dh = s.dhPeer /\ x.mk.root = s.recvCk.root /\ x.n + 1 >= s.recvN
    BY <1>1, <1>2
  <1>. QED  BY <1>1, <1>3, <1>13, <1>14, <1>15 DEF ReadInv, Behind, s

LEMMA ReadStored ==
    ASSUME TypeOK, RatchetInv, SealInv, NEW p \in Parties, ReadInv(p), NEW m \in net,
           DecryptStored(p, m)
    PROVE  ReadInv(p)'
  <1>1. /\ m.from = Peer(p) /\ row' = row /\ net' = net
        /\ delivered'[p] = delivered[p] \cup {m}
        /\ skipped'[p] = skipped[p] \ StoredKeys(p, m)
    BY ReadKeepsRows DEF DecryptStored, Readable, DropUsedKey, TypeOK
  <1>2. PICK k \in skipped[p] : k.dh = m.dh /\ k.n = m.n /\ k.mk = m.mk
    BY DEF DecryptStored, StoredKeys
  <1>3. Behind(row[p], m) /\ row[p].recvCk # NoChain
    BY <1>2 DEF ReadInv, Behind
  <1>4. \A j \in skipped'[p] : j \in skipped[p] /\ (j.dh # m.dh \/ j.n # m.n)
    BY <1>1 DEF StoredKeys
  <1>5. \A x \in delivered'[p] : /\ x \in net' /\ x.from = Peer(p) /\ Behind(row[p], x)
                                 /\ \A j \in skipped'[p] : j.dh # x.dh \/ j.n # x.n
    BY <1>1, <1>3, <1>4 DEF ReadInv
  <1>6. \A j \in skipped'[p] : /\ Behind(row[p], j) /\ j.mk.n = j.n
                               /\ \E x \in delivered'[p] : x.dh = j.dh /\ x.mk.root = j.mk.root
    BY <1>1, <1>4 DEF ReadInv
  <1>. QED  BY <1>1, <1>3, <1>5, <1>6 DEF ReadInv, Behind

LEMMA ReadSteps ==
    ASSUME TypeOK, RatchetInv, SealInv, \A p \in Parties : ReadInv(p), [Next]_vars,
           NEW p \in Parties
    PROVE  ReadInv(p)'
  <1>0. \A x \in delivered[p] \cup skipped[p] : Len(x.mk.root) \in Nat
    BY DEF TypeOK, Message, StoredKey, ChainKey
  <1>1. CASE Initiate
    <2>1. /\ net = {} /\ delivered' = delivered /\ skipped' = skipped
          /\ row'[Initiator].recvCk = NoChain /\ row'[Initiator].recvN = 0
          /\ row'[Initiator].dhPeer = SignedPrekey
          /\ row'[Responder] = row[Responder]
      BY <1>1, InitiateIs
    <2>2. \A x \in Parties : delivered[x] = {} /\ skipped[x] = {}
      BY <2>1 DEF ReadInv
    <2>3. CASE p = Initiator
      BY <2>1, <2>2, <2>3, PartyAssumption DEF ReadInv, NoChain, FirstKey, Peer, SignedPrekey, Pub, Parties
    <2>4. CASE p = Responder
      <3>1. row[Responder].recvCk = NoChain
        BY <2>2, <2>4 DEF ReadInv
      <3>. QED  BY <2>1, <2>2, <2>4, <3>1 DEF ReadInv
    <2>. QED  BY <2>3, <2>4 DEF Parties
  <1>2. ASSUME NEW q \in Parties, Encrypt(q) PROVE ReadInv(p)'
    <2>1. /\ delivered' = delivered /\ skipped' = skipped /\ net \subseteq net'
          /\ row'[p].recvCk = row[p].recvCk /\ row'[p].recvN = row[p].recvN
          /\ row'[p].dhPeer = row[p].dhPeer
          /\ \/ row'[p].root = row[p].root
             \/ Len(row'[p].root) = Len(row[p].root) + 1
      BY <1>2, EncryptIs
    <2>2. Len(row[p].root) \in Nat
      BY RowFacts
    <2>3. \A x \in delivered[p] \cup skipped[p] : Behind(row[p], x) => Behind(row'[p], x)
      BY <1>0, <2>1, <2>2 DEF Behind
    <2>4. ASSUME NEW x \in delivered[p]
          PROVE  /\ x \in net' /\ x.from = Peer(p) /\ Behind(row'[p], x)
                 /\ \A k \in skipped[p] : k.dh # x.dh \/ k.n # x.n
      BY <2>1, <2>3 DEF ReadInv
    <2>5. ASSUME NEW k \in skipped[p]
          PROVE  /\ Behind(row'[p], k) /\ k.mk.n = k.n
                 /\ \E m \in delivered[p] : m.dh = k.dh /\ m.mk.root = k.mk.root
      BY <2>3 DEF ReadInv
    <2>. QED  BY <2>1, <2>4, <2>5 DEF ReadInv, Behind
  <1>3. ASSUME NEW q \in Parties, NEW m \in net, DecryptOnChain(q, m) PROVE ReadInv(p)'
    <2>1. CASE q = p
      BY <1>3, <2>1, ReadOnChain
    <2>2. CASE q # p
      <3>1. /\ row'[p] = row[p] /\ net' = net
            /\ skipped'[p] = skipped[p] /\ delivered'[p] = delivered[p]
        BY <1>3, <2>2, ReadIs DEF ReadInv
      <3>. QED  BY <3>1 DEF ReadInv, Behind
    <2>. QED  BY <2>1, <2>2
  <1>4. ASSUME NEW q \in Parties, NEW m \in net, DecryptStored(q, m) PROVE ReadInv(p)'
    <2>1. CASE q = p
      BY <1>4, <2>1, ReadStored
    <2>2. CASE q # p
      <3>1. /\ row' = row /\ net' = net
            /\ skipped'[p] = skipped[p] /\ delivered'[p] = delivered[p]
        BY <1>4, <2>2, ReadKeepsRows DEF DecryptStored, TypeOK
      <3>. QED  BY <3>1 DEF ReadInv, Behind
    <2>. QED  BY <2>1, <2>2
  <1>5. ASSUME NEW q \in Parties, NEW m \in net, Refuse(q, m) PROVE ReadInv(p)'
    <2>1. row' = row /\ net' = net /\ skipped' = skipped /\ delivered' = delivered
      BY <1>5, ReadKeepsRows DEF Refuse
    <2>. QED  BY <2>1 DEF ReadInv, Behind
  <1>6. CASE UNCHANGED vars
    BY <1>6 DEF vars, ReadInv, Behind
  <1>. QED  BY <1>1, <1>2, <1>3, <1>4, <1>5, <1>6 DEF Next

LEMMA SameMail ==
    ASSUME TypeOK, SealInv, NoKeyReuse, NEW a \in net, NEW b \in net,
           a.from = b.from, a.dh = b.dh, a.n = b.n
    PROVE  a = b
  <1>1. a.mk.root = b.mk.root /\ a.mk.n = b.mk.n
    BY DEF SealInv
  <1>2. a.mk \in ChainKey /\ b.mk \in ChainKey
    BY DEF TypeOK, Message
  <1>3. a.mk = b.mk
    BY <1>1, <1>2 DEF ChainKey
  <1>. QED  BY <1>3 DEF NoKeyReuse

\* Of two parties one leads, or they are level.
LEMMA PhaseOf ==
    ASSUME TypeOK, RatchetInv, NEW p \in Parties, net # {}
    PROVE  Leads(p) \/ Level(p) \/ Leads(Peer(p)) \/ Level(Peer(p))
  <1>1. PICK x \in Parties : Leads(x) \/ Level(x)
    BY DEF RatchetInv
  <1>2. x = p \/ x = Peer(p)
    BY PeerIsParty DEF Peer, Parties
  <1>. QED  BY <1>1, <1>2

\* What a party seals is ahead of its peer's receiving chain.
LEMMA SealedAhead ==
    ASSUME TypeOK, RatchetInv, SealInv, NEW q \in Parties, ReadInv(Peer(q)), Encrypt(q),
           NEW mail,
           mail.dh = row'[q].dhSelf, mail.mk.root = row'[q].root,
           mail.n = row[q].sendN
    PROVE  ~Behind(row[Peer(q)], mail)
  <1>. DEFINE p == Peer(q)
              r == row[q]
              s == row'[q]
  <1>1. p \in Parties /\ p # q /\ Peer(p) = q
    BY PeerIsParty
  <1>2. /\ open[q]
        /\ \/ /\ r.sendCk # NoChain /\ s.root = r.root /\ s.dhSelf = r.dhSelf
           \/ /\ r.sendCk = NoChain /\ Level(p) /\ Len(s.root) = Len(r.root) + 1
    BY EncryptIs
  <1>3. /\ Len(r.root) \in Nat /\ Len(row[p].root) \in Nat
        /\ r.sendN \in Nat /\ row[p].recvN \in Nat
    BY <1>1, RowFacts DEF RatchetRow
  <1>4. CASE r.sendCk = NoChain
    <2>1. Len(mail.mk.root) = Len(row[p].root) + 1
      BY <1>1, <1>2, <1>4 DEF Level
    <2>. QED  BY <1>3, <2>1 DEF Behind
  <1>5. CASE r.sendCk # NoChain
    <2>1. PICK x \in Parties : Leads(x) \/ Level(x)
      BY <1>2, OpenMeansStarted DEF RatchetInv
    <2>2. x = p \/ x = q
      BY <1>1 DEF Peer, Parties
    <2>3. Leads(q) \/ Level(q) \/ Leads(p)
      BY <1>1, <1>5, <2>1, <2>2 DEF Level
    <2>4. CASE Leads(q)
      <3>1. Len(r.root) = Len(row[p].root) + 1
        BY <1>1, <2>4, AheadLen DEF Leads
      <3>. QED  BY <1>2, <1>3, <1>5, <3>1 DEF Behind
    <2>5. CASE Level(q) \/ Leads(p)
      <3>1. mail.dh = row[p].dhPeer /\ row[p].dhPeer = r.dhSelf
        BY <1>1, <1>2, <1>5, <2>5 DEF Level, Leads
      <3>2. row[p].recvN <= r.sendN
        <4>1. CASE row[p].recvCk = NoChain
          BY <1>3, <4>1 DEF ReadInv, NoChain
        <4>2. CASE row[p].recvCk # NoChain
          <5>1. PICK y \in delivered[p] : y.dh = row[p].dhPeer /\ y.n + 1 >= row[p].recvN
            BY <4>2 DEF ReadInv
          <5>2. y \in net /\ y.from = q
            BY <1>1, <5>1 DEF ReadInv
          <5>3. y.mk.root = r.sendCk.root
            BY <1>5, <3>1, <5>1, <5>2 DEF SealInv
          <5>4. y.n < r.sendN /\ y.n \in Nat
            BY <5>2, <5>3, MailFacts
          <5>. QED  BY <1>3, <5>1, <5>4
        <4>. QED  BY <4>1, <4>2
      <3>. QED  BY <1>3, <3>1, <3>2 DEF Behind
    <2>. QED  BY <2>3, <2>4, <2>5
  <1>. QED  BY <1>4, <1>5

LEMMA KeptOnChain ==
    ASSUME TypeOK, RatchetInv, SealInv, NoKeyReuse, ClosingInv,
           NEW p \in Parties, ReadInv(p), KeptInv(p), NEW m \in net, DecryptOnChain(p, m)
    PROVE  KeptInv(p)'
  <1>. DEFINE r == row[p]
              s == row'[p]
              q == Peer(p)
              root == KdfRoot(r.root, Dh(r.dhSelf, m.dh))
              kept == KeptKeys(r, m)
  <1>1. /\ m.from = q /\ net' = net /\ delivered'[p] = delivered[p] \cup {m}
        /\ skipped'[p] = StoreKeys(skipped[p], kept)
        /\ s.recvN = m.n + 1 /\ s.dhPeer = m.dh
        /\ \/ /\ m.dh = r.dhPeer /\ r.recvCk # NoChain /\ s.root = r.root
              /\ r.recvN <= m.n
              /\ kept = SkippedKeys(r.recvCk, r.recvN, m.n, r.dhPeer)
           \/ /\ m.dh # r.dhPeer /\ Leads(q) /\ s.root = m.mk.root
              /\ s.root = row[q].root /\ Len(s.root) = Len(r.root) + 1
              /\ kept = SkippedKeys(KdfChain(root), 0, m.n, m.dh)
                        \cup SkippedKeys(r.recvCk, r.recvN, m.pn, r.dhPeer)
              /\ KdfChain(root) \in ChainKey /\ KdfChain(root) # NoChain
    BY ReadIs DEF ReadInv
  <1>2. /\ r.recvCk \in ChainKey /\ r.recvN \in Nat /\ r.dhPeer \in PubKey
        /\ Len(r.root) \in Nat /\ m.n \in Nat /\ m.pn \in Nat /\ m.dh \in PubKey
        /\ q \in Parties /\ q # p /\ Peer(q) = p
    BY RowFacts, MailFacts, PeerIsParty DEF RatchetRow, Message
  <1>3. /\ \A k \in kept : \E j \in skipped'[p] : j.dh = k.dh /\ j.n = k.n
        /\ \A k \in skipped[p] : \E j \in skipped'[p] : j.dh = k.dh /\ j.n = k.n
    BY <1>1, StoredAre
  <1>. SUFFICES ASSUME NEW x \in net, x.from = q, Behind(s, x), x # m,
                       ~Behind(r, x)
                PROVE  \E k \in kept : k.dh = x.dh /\ k.n = x.n
    BY <1>1, <1>3 DEF KeptInv, Behind
  <1>4. /\ x.n \in Nat /\ Len(x.mk.root) \in Nat
        /\ Len(x.mk.root) <= Len(row[q].root)
        /\ Len(x.mk.root) = Len(row[q].root) => x.dh = row[q].dhSelf
        /\ x.dh.gen > FirstKey(q).gen /\ x.dh.gen \in Nat
    BY MailFacts DEF SealInv
  <1>5. x.dh = m.dh => x.n < m.n
    <2>1. x.dh = m.dh => x.n # m.n
      BY <1>1, SameMail
    <2>2. x.dh = m.dh => x.n < m.n + 1
      BY <1>1 DEF Behind
    <2>. QED  BY <1>2, <1>4, <2>1, <2>2
  <1>6. CASE m.dh = r.dhPeer
    <2>1. x.dh = m.dh /\ r.recvN <= x.n
      BY <1>1, <1>2, <1>4, <1>6 DEF Behind
    <2>2. kept = SkippedKeys(r.recvCk, r.recvN, m.n, r.dhPeer) /\ r.recvCk # NoChain
      BY <1>1, <1>6
    <2>3. x.n < m.n
      BY <1>5, <2>1
    <2>. HIDE DEF r, kept
    <2>4. \E k \in SkippedKeys(r.recvCk, r.recvN, m.n, r.dhPeer) :
             k.dh = r.dhPeer /\ k.n = x.n
      <3>1. r.recvCk \in ChainKey /\ r.recvN \in Nat /\ r.dhPeer \in PubKey
            /\ m.n \in Nat /\ x.n \in Nat
        BY <1>2, <1>4
      <3>. QED  BY ONLY <2>1, <2>2, <2>3, <3>1, SkippedHas
    <2>. QED  BY <1>6, <2>1, <2>2, <2>4
  <1>7. CASE m.dh # r.dhPeer
    <2>1. /\ Leads(q) /\ s.root = m.mk.root /\ s.root = row[q].root
          /\ Len(s.root) = Len(r.root) + 1
          /\ kept = SkippedKeys(KdfChain(root), 0, m.n, m.dh)
                    \cup SkippedKeys(r.recvCk, r.recvN, m.pn, r.dhPeer)
          /\ KdfChain(root) \in ChainKey /\ KdfChain(root) # NoChain
      BY <1>1, <1>7
    <2>2. CASE x.dh = m.dh
      <3>1. x.n < m.n /\ 0 <= x.n /\ 0 \in Nat /\ x.n \in Nat /\ m.n \in Nat
            /\ m.dh \in PubKey
        BY <1>2, <1>4, <1>5, <2>2
      <3>. DEFINE ck == KdfChain(root)
      <3>3. ck \in ChainKey /\ ck # NoChain
        BY <2>1
      <3>. HIDE DEF r, kept, root, ck
      <3>2. \E k \in SkippedKeys(ck, 0, m.n, m.dh) : k.dh = m.dh /\ k.n = x.n
        BY <3>1, <3>3, SkippedHas
      <3>. QED  BY <2>1, <2>2, <3>2 DEF ck
    <2>3. CASE x.dh # m.dh
      <3>1. m.dh = row[q].dhSelf
        BY <1>1, <2>1, MailFacts
      <3>2. Len(x.mk.root) <= Len(r.root)
        <4>1. Len(row[q].root) = Len(r.root) + 1 /\ Len(r.root) \in Nat
          BY <1>2, <2>1
        <4>2. Len(x.mk.root) # Len(row[q].root)
          BY <1>4, <2>3, <3>1
        <4>3. Len(x.mk.root) \in Nat /\ Len(x.mk.root) <= Len(row[q].root)
          BY <1>4
        <4>. QED  BY ONLY <4>1, <4>2, <4>3
      <3>3. x.dh = r.dhPeer /\ r.recvN <= x.n
        BY <1>2, <1>4, <3>2 DEF Behind
      <3>4. r.recvCk # NoChain
        <4>1. r.dhPeer.gen > FirstKey(q).gen /\ r.dhPeer.gen \in Nat
              /\ FirstKey(q).gen \in Nat
          BY <1>2, <1>4, <3>3, FirstKeyGen
        <4>2. r.recvCk = NoChain => r.dhPeer.gen <= FirstKey(q).gen
          BY DEF ReadInv
        <4>. HIDE DEF r, q
        <4>. QED  BY <4>1, <4>2
      <3>5. PICK y \in delivered[p] : y.dh = r.dhPeer /\ y.mk.root = r.recvCk.root
        BY <3>4 DEF ReadInv
      <3>6. y \in net /\ y.from = q
        BY <3>5 DEF ReadInv
      <3>7. x.mk.root = r.recvCk.root /\ x.mk.root # <<>>
        BY <3>3, <3>5, <3>6 DEF SealInv, RatchetInv, MailOnChain
      <3>8. SendsAtRoot(p)
        <4>1. ~Fledgling(p)
          BY <3>4 DEF Fledgling, ResponderRow
        <4>. QED  BY <1>2, <2>1, <4>1 DEF Leads
      <3>9. r.sendCk # NoChain
        BY <3>8 DEF SendsAtRoot, NoChain
      <3>10. Len(x.mk.root) = Len(m.mk.root) - 2
        <4>1. Len(x.mk.root) = Len(r.root) - 1
          BY <3>7, <3>9 DEF ClosingInv
        <4>2. Len(m.mk.root) = Len(r.root) + 1
          BY <2>1
        <4>. QED  BY <1>2, <4>1, <4>2
      <3>11. x.n < m.pn
        BY <1>1, <3>10 DEF ClosingInv
      <3>. HIDE DEF r, kept, root
      <3>12. \E k \in SkippedKeys(r.recvCk, r.recvN, m.pn, r.dhPeer) :
                k.dh = r.dhPeer /\ k.n = x.n
        <4>1. /\ r.recvCk \in ChainKey /\ r.recvN \in Nat /\ r.dhPeer \in PubKey
              /\ m.pn \in Nat /\ x.n \in Nat
          BY <1>2, <1>4
        <4>2. r.recvCk # NoChain /\ r.recvN <= x.n /\ x.n < m.pn
          BY <3>3, <3>4, <3>11
        <4>. QED  BY ONLY <4>1, <4>2, SkippedHas
      <3>. QED  BY <2>1, <3>3, <3>12
    <2>. QED  BY <2>2, <2>3
  <1>. QED  BY <1>6, <1>7

LEMMA KeptSteps ==
    ASSUME TypeOK, RatchetInv, SealInv, NoKeyReuse, ClosingInv,
           \A p \in Parties : ReadInv(p) /\ KeptInv(p), [Next]_vars,
           NEW p \in Parties
    PROVE  KeptInv(p)'
  <1>1. CASE Initiate
    <2>1. PICK mail :
             LET s == row'[Initiator]
             IN  /\ net' = {mail} /\ mail.from = Initiator
                 /\ mail.mk.root = s.sendCk.root
                 /\ s.sendCk.root = s.root /\ Len(s.root) = 1
                 /\ row'[Responder] = row[Responder]
                 /\ row[Responder] = ResponderRow(SignedPrekey, Initiator)
      BY <1>1, InitiateIs
    <2>2. Len(row'[Responder].root) = 0
      <3>1. row[Responder].root = <<>>
        BY <2>1 DEF ResponderRow
      <3>. QED  BY <2>1, <3>1
    <2>3. Len(mail.mk.root) = 1
      BY <2>1
    <2>4. ~Behind(row'[Responder], mail)
      BY <2>2, <2>3 DEF Behind
    <2>5. CASE p = Initiator
      <3>1. Peer(p) # Initiator
        BY <2>5, PeerIsParty
      <3>. QED  BY <2>1, <3>1 DEF KeptInv
    <2>6. CASE p = Responder
      BY <2>1, <2>4, <2>6 DEF KeptInv, Behind
    <2>. QED  BY <2>5, <2>6 DEF Parties
  <1>2. ASSUME NEW q \in Parties, Encrypt(q) PROVE KeptInv(p)'
    <2>1. PICK mail :
             LET r == row[q]
                 s == row'[q]
             IN  /\ net' = net \cup {mail} /\ mail.from = q
                 /\ mail.n = r.sendN
                 /\ mail.dh = s.dhSelf /\ mail.mk.root = s.root
                 /\ s.recvN = r.recvN /\ s.dhPeer = r.dhPeer
                 /\ \A x \in Parties \ {q} : row'[x] = row[x]
                 /\ delivered' = delivered /\ skipped' = skipped
                 /\ \/ s.root = r.root
                    \/ Level(Peer(q)) /\ Len(s.root) = Len(r.root) + 1
      BY <1>2, EncryptIs
    <2>2. CASE p = q
      <3>1. Peer(p) \in Parties /\ Peer(p) # p /\ Peer(Peer(p)) = p
        BY PeerIsParty
      <3>2. ASSUME NEW x \in net, x.from = Peer(p), Behind(row'[p], x)
            PROVE  Behind(row[p], x)
        <4>1. CASE row'[p].root = row[p].root
          BY <2>1, <2>2, <3>2, <4>1 DEF Behind
        <4>2. CASE Level(Peer(p))
          <5>1. Len(x.mk.root) <= Len(row[p].root)
            BY <3>1, <3>2, <4>2, MailFacts DEF Level
          <5>. QED  BY <2>1, <2>2, <3>2, <5>1 DEF Behind
        <4>. QED  BY <2>1, <2>2, <4>1, <4>2
      <3>. QED  BY <2>1, <2>2, <3>1, <3>2 DEF KeptInv, Behind
    <2>3. CASE p # q
      <3>1. p = Peer(q) /\ Peer(p) = q
        BY <2>3, PeerIsParty DEF Peer, Parties
      <3>2. ~Behind(row[p], mail)
        BY <1>2, <2>1, <3>1, SealedAhead
      <3>3. row'[p] = row[p]
        BY <2>1, <2>3
      <3>. QED  BY <2>1, <3>1, <3>2, <3>3 DEF KeptInv, Behind
    <2>. QED  BY <2>2, <2>3
  <1>3. ASSUME NEW q \in Parties, NEW m \in net, DecryptOnChain(q, m) PROVE KeptInv(p)'
    <2>1. CASE q = p
      BY <1>3, <2>1, KeptOnChain
    <2>2. CASE q # p
      <3>1. /\ row'[p] = row[p] /\ net' = net
            /\ skipped'[p] = skipped[p] /\ delivered'[p] = delivered[p]
        BY <1>3, <2>2, ReadIs DEF ReadInv
      <3>. QED  BY <3>1 DEF KeptInv, Behind
    <2>. QED  BY <2>1, <2>2
  <1>4. ASSUME NEW q \in Parties, NEW m \in net, DecryptStored(q, m) PROVE KeptInv(p)'
    <2>1. /\ row' = row /\ net' = net /\ m.from = Peer(q)
          /\ delivered' = [delivered EXCEPT ![q] = @ \cup {m}]
          /\ skipped' = [skipped EXCEPT ![q] = DropUsedKey(q, m)]
      BY <1>4, ReadKeepsRows DEF DecryptStored, Readable
    <2>2. CASE q = p
      <3>1. /\ delivered'[p] = delivered[p] \cup {m}
            /\ skipped'[p] = skipped[p] \ StoredKeys(p, m)
        BY <2>1, <2>2 DEF TypeOK, DropUsedKey
      <3>2. ASSUME NEW x \in net, x.from = Peer(p), Behind(row[p], x), x # m,
                   NEW k \in skipped[p], k.dh = x.dh, k.n = x.n
            PROVE  k \in skipped'[p]
        <4>1. k.dh # m.dh \/ k.n # m.n
          BY <2>1, <2>2, <3>2, SameMail
        <4>. QED  BY <3>1, <4>1 DEF StoredKeys
      <3>. QED  BY <2>1, <3>1, <3>2 DEF KeptInv, Behind
    <2>3. CASE q # p
      <3>1. skipped'[p] = skipped[p] /\ delivered'[p] = delivered[p]
        BY <2>1, <2>3 DEF TypeOK
      <3>. QED  BY <2>1, <3>1 DEF KeptInv, Behind
    <2>. QED  BY <2>2, <2>3
  <1>5. ASSUME NEW q \in Parties, NEW m \in net, Refuse(q, m) PROVE KeptInv(p)'
    <2>1. row' = row /\ net' = net /\ skipped' = skipped /\ delivered' = delivered
      BY <1>5, ReadKeepsRows DEF Refuse
    <2>. QED  BY <2>1 DEF KeptInv, Behind
  <1>6. CASE UNCHANGED vars
    BY <1>6 DEF vars, KeptInv, Behind
  <1>. QED  BY <1>1, <1>2, <1>3, <1>4, <1>5, <1>6 DEF Next
-----------------------------------------------------------------------------
(* Every mail opens once *)

DeliveryInv ==
    /\ SealInv
    /\ ClosingInv
    /\ \A p \in Parties : ReadInv(p) /\ KeptInv(p)

LEMMA DeliveryInit == Init => DeliveryInv
  <1>. SUFFICES ASSUME Init PROVE DeliveryInv
    OBVIOUS
  <1>1. /\ net = {}
        /\ \A p \in Parties :
              /\ row[p] = ResponderRow(FirstKey(p), Peer(p))
              /\ delivered[p] = {} /\ skipped[p] = {}
              /\ gen[p] = IF p = Responder THEN 1 ELSE 0
    BY DEF Init
  <1>2. NoChain.root = <<>> /\ NoChain.n = 0 /\ Len(<<>>) = 0
    BY DEF NoChain
  <1>3. \A p \in Parties : FirstKey(p).gen = IF p = Responder THEN 1 ELSE 0
    BY DEF FirstKey, SignedPrekey, NoPub, Pub
  <1>4. \A p \in Parties :
           /\ row[p].root = <<>> /\ row[p].sendCk = NoChain /\ row[p].recvCk = NoChain
           /\ row[p].sendN = 0 /\ row[p].recvN = 0 /\ row[p].dhPeer = NoPub(Peer(p))
    <2>. TAKE p \in Parties
    <2>1. row[p] = ResponderRow(FirstKey(p), Peer(p))
      BY <1>1
    <2>. QED  BY <2>1 DEF ResponderRow
  <1>5. \A p \in Parties : NoPub(p).gen = 0
    BY DEF NoPub, Pub
  <1>6. SealInv
    <2>1. \A p \in Parties : /\ row[p].sendN = row[p].sendCk.n
                             /\ gen[p] >= FirstKey(p).gen
                             /\ row[p].sendCk = NoChain
      <3>. SUFFICES ASSUME NEW p \in Parties
                    PROVE  /\ row[p].sendN = row[p].sendCk.n
                           /\ gen[p] >= FirstKey(p).gen
                           /\ row[p].sendCk = NoChain
        OBVIOUS
      <3>1. gen[p] = FirstKey(p).gen /\ gen[p] \in Int
        BY <1>1, <1>3
      <3>2. gen[p] >= FirstKey(p).gen
        BY <3>1
      <3>. QED  BY <1>2, <1>4, <3>2
    <2>. QED  BY <1>1, <2>1 DEF SealInv
  <1>7. ClosingInv
    BY <1>1, <1>2, <1>4 DEF ClosingInv
  <1>8. \A p \in Parties : ReadInv(p)
    BY <1>1, <1>2, <1>3, <1>4, <1>5, PeerIsParty DEF ReadInv
  <1>9. \A p \in Parties : KeptInv(p)
    BY <1>1 DEF KeptInv
  <1>. QED  BY <1>6, <1>7, <1>8, <1>9 DEF DeliveryInv

LEMMA DeliveryNext ==
    TypeOK /\ RatchetInv /\ NoKeyReuse /\ DeliveryInv /\ [Next]_vars => DeliveryInv'
  <1>. SUFFICES ASSUME TypeOK, RatchetInv, NoKeyReuse, DeliveryInv, [Next]_vars
                PROVE  DeliveryInv'
    OBVIOUS
  <1>1. SealInv /\ ClosingInv /\ (\A p \in Parties : ReadInv(p) /\ KeptInv(p))
    BY DEF DeliveryInv
  <1>2. SealInv'
    BY <1>1, SealSteps
  <1>3. ClosingInv'
    BY <1>1, ClosingSteps
  <1>4. ASSUME NEW p \in Parties PROVE ReadInv(p)' /\ KeptInv(p)'
    BY <1>1, ReadSteps, KeptSteps
  <1>. QED  BY <1>2, <1>3, <1>4 DEF DeliveryInv

\* The mail and the keys a party holds: all it read lies behind its receiving
\* chain, and of what lies there unread it kept the key.
THEOREM ReadingInvariant == Spec => []DeliveryInv
  BY DeliveryInit, DeliveryNext, TypeCorrect, RatchetInvariant, KeysNotReused, PTL
     DEF Spec

\* dr_decrypt refuses whatever it has decrypted once, a replayed SESSION_INIT
\* included: its key is gone or the chain is past it.
THEOREM NothingReplayed == Spec => []NoReplay
  <1>1. TypeOK /\ RatchetInv /\ DeliveryInv => NoReplay
    <2>. SUFFICES ASSUME TypeOK, RatchetInv, DeliveryInv,
                         NEW p \in Parties, NEW m \in delivered[p], Decryptable(p, m)
                  PROVE  FALSE
      BY DEF NoReplay
    <2>. DEFINE r == row[p]
                root == KdfRoot(r.root, Dh(r.dhSelf, m.dh))
    <2>1. SealInv /\ ReadInv(p)
      BY DEF DeliveryInv
    <2>2. m \in net /\ Behind(r, m) /\ \A k \in skipped[p] : k.dh # m.dh \/ k.n # m.n
      BY <2>1 DEF ReadInv
    <2>3. ChainOpens(r, m)
      <3>1. StoredKeys(p, m) = {}
        BY <2>2 DEF StoredKeys
      <3>. QED  BY <2>2, <3>1, RowForIsRow DEF Decryptable
    <2>4. /\ r \in RatchetRow /\ m \in Message /\ m.n \in Nat /\ r.recvN \in Nat
          /\ r.recvN = r.recvCk.n /\ m.n = m.mk.n /\ m.mk.root # <<>>
          /\ Len(r.root) \in Nat
      BY <2>1, <2>2, RowFacts, MailFacts DEF RatchetRow, ReadInv, RatchetInv, MailOnChain
    <2>5. CASE ~NewRatchetKey(r, m)
      <3>1. r.recvN <= m.n
        BY <2>3, <2>4, <2>5, RecvOnChainCounts
      <3>. QED  BY <2>2, <2>4, <2>5, <3>1 DEF Behind, NewRatchetKey
    <2>6. CASE NewRatchetKey(r, m)
      <3>1. m.mk.root = root
        BY <2>3, <2>4, <2>6, RecvOnNewChain
      <3>2. Len(root) = Len(r.root) + 1
        BY <2>4, RowFacts, RootType, DhType DEF Message
      <3>. HIDE DEF root
      <3>. QED  BY <2>2, <2>4, <3>1, <3>2 DEF Behind
    <2>. QED  BY <2>5, <2>6
  <1>. QED  BY <1>1, TypeCorrect, RatchetInvariant, ReadingInvariant, PTL

LEMMA SkipReaches ==
    ASSUME NEW ck \in ChainKey, NEW m \in Message, ck # NoChain,
           ck.root = m.mk.root, ck.n <= m.n, m.n = m.mk.n
    PROVE  SkipTo(ck, ck.n, m.n) = m.mk
  <1>1. m.mk \in ChainKey /\ m.n \in Nat /\ ck.n \in Nat
    BY DEF Message, ChainKey
  <1>2. CASE m.n <= ck.n
    <2>1. SkipTo(ck, ck.n, m.n) = ck
      BY <1>2 DEF SkipTo
    <2>2. ck.n = m.mk.n
      BY <1>1, <1>2
    <2>. QED  BY <1>1, <2>1, <2>2 DEF ChainKey
  <1>3. CASE ~(m.n <= ck.n)
    <2>1. SkipTo(ck, ck.n, m.n) = [ck EXCEPT !.n = ck.n + (m.n - ck.n)]
      BY <1>3 DEF SkipTo
    <2>2. ck.n + (m.n - ck.n) = m.mk.n
      BY <1>1
    <2>3. [ck EXCEPT !.n = m.mk.n] = [root |-> ck.root, n |-> m.mk.n]
      BY DEF ChainKey
    <2>4. m.mk = [root |-> m.mk.root, n |-> m.mk.n]
      BY <1>1 DEF ChainKey
    <2>. QED  BY <2>1, <2>2, <2>3, <2>4
  <1>. QED  BY <1>2, <1>3

\* A mail ahead of the receiving chain opens on it, or on the chain its new
\* ratchet key leads to.
LEMMA AheadOpens ==
    ASSUME TypeOK, RatchetInv, SealInv, NEW p \in Parties, ReadInv(p), NEW m \in net,
           m.from = Peer(p), ~Behind(row[p], m)
    PROVE  ChainKeyFor(row[p], m) = m.mk
  <1>. DEFINE r == row[p]
              q == Peer(p)
              root == KdfRoot(r.root, Dh(r.dhSelf, m.dh))
              ck == KdfChain(root)
  <1>1. /\ r \in RatchetRow /\ m \in Message /\ m.n \in Nat /\ m.n = m.mk.n
        /\ r.recvCk \in ChainKey /\ r.recvN \in Nat /\ r.recvN = r.recvCk.n
        /\ Len(r.root) \in Nat /\ Len(m.mk.root) \in Nat
        /\ m.dh.gen > FirstKey(q).gen /\ m.dh.gen \in Nat
        /\ q \in Parties /\ q # p /\ Peer(q) = p
    BY RowFacts, MailFacts, PeerIsParty DEF RatchetRow, ReadInv, SealInv
  <1>2. CASE m.dh = r.dhPeer
    <2>1. r.recvCk # NoChain
      <3>1. FirstKey(q).gen \in Nat
        BY <1>1, FirstKeyGen
      <3>2. r.recvCk = NoChain => r.dhPeer.gen <= FirstKey(q).gen
        BY DEF ReadInv
      <3>. HIDE DEF r, q
      <3>. QED  BY <1>1, <1>2, <3>1, <3>2
    <2>2. PICK y \in delivered[p] : y.dh = r.dhPeer /\ y.mk.root = r.recvCk.root
      BY <2>1 DEF ReadInv
    <2>3. y \in net /\ y.from = q /\ Len(y.mk.root) <= Len(r.root)
      BY <2>2 DEF ReadInv, Behind
    <2>4. m.mk.root = r.recvCk.root
      BY <1>2, <2>2, <2>3 DEF SealInv
    <2>5. r.recvCk.n <= m.n
      BY <1>1, <1>2, <2>2, <2>3, <2>4 DEF Behind
    <2>6. SkipTo(r.recvCk, r.recvCk.n, m.n) = m.mk
      BY <1>1, <2>1, <2>4, <2>5, SkipReaches
    <2>. QED  BY <1>1, <1>2, <2>6 DEF ChainKeyFor, RecvStep, NewRatchetKey, MessageKey
  <1>3. CASE m.dh # r.dhPeer
    <2>1. Len(r.root) < Len(row[q].root) /\ Len(row[q].root) \in Nat
          /\ Len(m.mk.root) <= Len(row[q].root)
      <3>1. Len(m.mk.root) <= Len(row[m.from].root) /\ m.from = q
        BY MailFacts
      <3>2. Len(row[q].root) \in Nat
        BY <1>1, RowFacts
      <3>3. Len(m.mk.root) > Len(r.root)
        BY <1>1, <1>3 DEF Behind
      <3>. HIDE DEF r, q
      <3>. QED  BY <1>1, <3>1, <3>2, <3>3
    <2>2. Leads(q)
      <3>1. ~Leads(p)
        BY <1>1, <2>1, AheadLen DEF Leads
      <3>. QED  BY <1>1, <2>1, <3>1, PhaseOf DEF Level
    <2>3. Len(row[q].root) = Len(r.root) + 1
      BY <1>1, <2>2, AheadLen DEF Leads
    <2>4. m.mk.root = row[q].root /\ m.dh = row[q].dhSelf
      <3>1. Len(m.mk.root) > Len(r.root)
        BY <1>1, <1>3 DEF Behind
      <3>2. Len(m.mk.root) = Len(row[q].root)
        BY <1>1, <2>1, <2>3, <3>1
      <3>. QED  BY <3>2, MailFacts
    <2>5. m.mk.root = root
      BY <1>1, <2>2, <2>4 DEF Leads, AheadBy1, Dh
    <2>6. /\ ck \in ChainKey /\ ck # NoChain /\ ck.root = root /\ ck.n = 0
      <3>1. root \in Seq(SUBSET PubKey) /\ root # <<>> /\ ck \in ChainKey
        BY <1>1, RowFacts, RootType, DhType DEF Message
      <3>. QED  BY <3>1 DEF KdfChain, NoChain
    <2>7. RecvStep(r, m).recvCk = ck /\ RecvStep(r, m).recvN = 0
      BY <1>1, <1>3 DEF RecvStep, NewRatchetKey, RatchetRow
    <2>. HIDE DEF ck, root, r
    <2>8. SkipTo(ck, ck.n, m.n) = m.mk
      BY <1>1, <2>5, <2>6, SkipReaches
    <2>. QED  BY <2>6, <2>7, <2>8 DEF ChainKeyFor, MessageKey, r
  <1>. QED  BY <1>2, <1>3

\* Whatever was read before, and whatever was sent since, a mail not read yet
\* opens: with its kept key when its chain went past it, on the receiving chain
\* otherwise.
THEOREM NothingLost == Spec => []NoMailLost
  <1>1. TypeOK /\ RatchetInv /\ DeliveryInv => NoMailLost
    <2>. SUFFICES ASSUME TypeOK, RatchetInv, DeliveryInv,
                         NEW p \in Parties, NEW m \in net \ delivered[p], Readable(p, m),
                         WithinSkip(RowFor(p, m), m) \/ StoredKeys(p, m) # {}
                  PROVE  Decryptable(p, m)
      BY DEF NoMailLost
    <2>1. SealInv /\ ReadInv(p) /\ KeptInv(p) /\ m.from = Peer(p) /\ RowFor(p, m) = row[p]
      BY RowForIsRow DEF DeliveryInv, Readable
    <2>2. CASE StoredKeys(p, m) # {}
      <3>1. PICK k \in skipped[p] : k \in StoredKeys(p, m) /\ k.dh = m.dh /\ k.n = m.n
        BY <2>2 DEF StoredKeys
      <3>2. k.mk.n = k.n /\ \E y \in delivered[p] : y.dh = k.dh /\ y.mk.root = k.mk.root
        BY <2>1 DEF ReadInv
      <3>3. PICK y \in delivered[p] : y.dh = k.dh /\ y.mk.root = k.mk.root
        BY <3>2
      <3>4. y \in net /\ y.from = Peer(p)
        BY <2>1 DEF ReadInv
      <3>5. k.mk.root = m.mk.root /\ k.mk.n = m.mk.n
        BY <2>1, <3>1, <3>2, <3>3, <3>4 DEF SealInv
      <3>6. k.mk \in ChainKey /\ m.mk \in ChainKey
        BY DEF TypeOK, StoredKey, Message
      <3>7. k.mk = m.mk
        BY <3>5, <3>6 DEF ChainKey
      <3>. QED  BY <2>2, <3>1, <3>7 DEF Decryptable
    <2>3. CASE StoredKeys(p, m) = {}
      <3>1. ~Behind(row[p], m)
        BY <2>1, <2>3 DEF KeptInv, StoredKeys
      <3>2. ChainKeyFor(row[p], m) = m.mk
        BY <2>1, <3>1, AheadOpens
      <3>. QED  BY <2>1, <2>3, <3>2 DEF Decryptable, ChainOpens
    <2>. QED  BY <2>2, <2>3
  <1>. QED  BY <1>1, TypeCorrect, RatchetInvariant, ReadingInvariant, PTL
-----------------------------------------------------------------------------
(* The statements of the calls (RatchetStore) *)

Reading == {"stored", "chain", "keys"}

Call ==
    {Idle} \cup [op : {"encrypt"}, row : RatchetRow]
    \cup [op : Reading, mail : Message, row : RatchetRow, opened : BOOLEAN,
          keys : SUBSET StoredKey]
    \cup [op : {"plaintext"}, mail : Message]

Backup ==
    {NoBackup} \cup [open : {TRUE}, row : RatchetRow, skipped : SUBSET StoredKey,
                     delivered : SUBSET Message]

\* What the threads hold and what was exported are rows, keys and mail.
StoreType ==
    /\ TypeOK
    /\ call \in [Parties -> [Threads -> Call]]
    /\ backup \in [Parties -> Backup]
    /\ \A p \in Parties, t \in Threads :
          call[p][t].op \in Reading \cup {"plaintext"} => call[p][t].mail \in net

\* What a thread of p works on is the row as it is, and it may go on.
Holds(p, c) ==
    /\ c.op \in {"encrypt"} \cup Reading => open[p] /\ c.row = row[p]
    /\ c.op = "encrypt" => CanSend(row[p]) /\ sent[p] < MaxSend
    /\ c.op \in Reading => c.mail.from = Peer(p)
    /\ c.op = "keys" => ChainOpens(row[p], c.mail)

AllHold == \A p \in Parties, t \in Threads : Holds(p, call[p][t])

\* No thread of p but t decrypts; no two do.
Alone(p, t) ==
    \A u \in Threads \ {t} : call[p][u].op \notin Reading \cup {"plaintext"}
OneReader ==
    \A p \in Parties, t \in Threads :
        call[p][t].op \in Reading \cup {"plaintext"} => Alone(p, t)

StoreInv ==
    "restore" \notin faults /\ ~raced =>
        /\ RatchetInv /\ NoKeyReuse /\ AllHold /\ OneReader
        /\ \A p \in Parties : backup[p] = NoBackup
-----------------------------------------------------------------------------
LEMMA CallIs ==
    /\ Idle \in Call /\ Idle.op = "idle"
    /\ \A c \in Call :
          /\ c.op \in {"idle", "encrypt", "plaintext"} \cup Reading
          /\ c.op \in {"encrypt"} \cup Reading => c.row \in RatchetRow
          /\ c.op \in {"plaintext"} \cup Reading => c.mail \in Message
          /\ c.op \in Reading => c.keys \subseteq StoredKey /\ c.opened \in BOOLEAN
  BY DEF Call, Idle, Reading

LEMMA KeyOutIs ==
    ASSUME NEW c \in Call, c.op \in Reading, NEW k
    PROVE  LET e == [c EXCEPT !.op = "keys", !.keys = @ \ {k}]
           IN  e \in Call /\ e.op = "keys" /\ e.mail = c.mail /\ e.row = c.row
  <1>. DEFINE left == c.keys \ {k}
              e == [c EXCEPT !.op = "keys", !.keys = left]
              Readings == [op : Reading, mail : Message, row : RatchetRow,
                           opened : BOOLEAN, keys : SUBSET StoredKey]
  <1>1. c \in Readings
    BY DEF Call, Idle, Reading
  <1>2. left \in SUBSET StoredKey /\ "keys" \in Reading
    BY <1>1 DEF Reading
  <1>. HIDE DEF left
  <1>3. e \in Readings
    BY <1>1, <1>2
  <1>4. e.op = "keys" /\ e.mail = c.mail /\ e.row = c.row
    BY <1>1
  <1>. QED  BY <1>3, <1>4 DEF Call, left

LEMMA EnterIs ==
    ASSUME StoreType, NEW p \in Parties, NEW t \in Threads, NEW c \in Call,
           Enter(p, t, c)
    PROVE  /\ call' \in [Parties -> [Threads -> Call]]
           /\ \A q \in Parties, u \in Threads :
                 call'[q][u] = IF q = p /\ u = t THEN c ELSE call[q][u]
  BY DEF StoreType, Enter

LEMMA WrittenIs ==
    ASSUME NEW table, NEW p \in Parties, NEW rows, NEW new \in Written(table, p, rows)
    PROVE  new = [table EXCEPT ![p] = rows] \/ new = table
  BY DEF Written

LEMMA ThreadsAre ==
    /\ \A t \in Encryptors : t \in Threads
    /\ \A t \in Decryptors : t \in Threads
  BY DEF Threads

LEMMA StoreInitType == StoreInit => StoreType
  <1>. SUFFICES ASSUME StoreInit PROVE StoreType
    OBVIOUS
  <1>1. TypeOK
    BY InitType DEF StoreInit
  <1>2. /\ call \in [Parties -> [Threads -> Call]]
        /\ \A p \in Parties, t \in Threads : call[p][t].op = "idle"
    BY CallIs DEF StoreInit
  <1>3. backup \in [Parties -> Backup]
    BY DEF StoreInit, Backup
  <1>. QED  BY <1>1, <1>2, <1>3 DEF StoreType, Reading

\* The shapes after a step of one thread: those of its call and of the tables.
LEMMA ThreadType ==
    ASSUME StoreType, TypeOK', NEW p \in Parties, NEW t \in Threads, NEW c \in Call,
           Enter(p, t, c), backup' = backup, net \subseteq net',
           c.op \in Reading \cup {"plaintext"} => c.mail \in net
    PROVE  StoreType'
  <1>1. /\ call' \in [Parties -> [Threads -> Call]]
        /\ \A q \in Parties, u \in Threads :
              call'[q][u] = IF q = p /\ u = t THEN c ELSE call[q][u]
    BY EnterIs
  <1>2. \A q \in Parties, u \in Threads :
           call'[q][u].op \in Reading \cup {"plaintext"} => call'[q][u].mail \in net'
    BY <1>1 DEF StoreType
  <1>. QED  BY <1>1, <1>2 DEF StoreType

LEMMA EncryptStepsType ==
    ASSUME StoreType, NEW p \in Parties, NEW t \in Threads,
           BeginEncrypt(p, t) \/ EndEncrypt(p, t) \/ EncryptFails(p, t)
    PROVE  StoreType'
  <1>. DEFINE r == call[p][t].row
  <1>0. TypeOK
    BY DEF StoreType
  <1>1. CASE BeginEncrypt(p, t)
    <2>. DEFINE c == [op |-> "encrypt", row |-> row[p]]
    <2>1. c \in Call /\ c.op = "encrypt"
      BY <1>0 DEF Call, TypeOK
    <2>2. Enter(p, t, c) /\ UNCHANGED <<vars, backup>>
      BY <1>1 DEF BeginEncrypt
    <2>. HIDE DEF c
    <2>3. TypeOK' /\ net' = net
      BY <1>0, <2>2 DEF vars, TypeOK
    <2>. QED  BY <2>1, <2>2, <2>3, ThreadType DEF Reading
  <1>2. CASE EndEncrypt(p, t)
    <2>1. r \in RatchetRow
      BY <1>2, CallIs DEF EndEncrypt, StoreType
    <2>2. /\ AfterSend(r, Fresh(p)) \in RatchetRow
          /\ Mail(p, "msg", Envelope(r, Fresh(p))) \in Message
      BY <1>0, <2>1, SealType
    <2>3. TypeOK'
      BY <1>0, <1>2, <2>2 DEF EndEncrypt, TypeOK
    <2>4. Enter(p, t, Idle) /\ backup' = backup /\ net \subseteq net'
      BY <1>2 DEF EndEncrypt
    <2>. QED  BY <2>3, <2>4, CallIs, ThreadType DEF Reading
  <1>3. CASE EncryptFails(p, t)
    <2>1. Enter(p, t, Idle) /\ UNCHANGED <<vars, backup>>
      BY <1>3 DEF EncryptFails
    <2>2. TypeOK' /\ net' = net
      BY <1>0, <2>1 DEF vars, TypeOK
    <2>. QED  BY <2>1, <2>2, CallIs, ThreadType DEF Reading
  <1>. QED  BY <1>1, <1>2, <1>3

LEMMA BeginDecryptType ==
    ASSUME StoreType, NEW p \in Parties, NEW t \in Threads, NEW m \in net,
           BeginDecrypt(p, t, m)
    PROVE  StoreType'
  <1>. DEFINE op == IF StoredKeys(p, m) # {} THEN "stored" ELSE "chain"
              keys == IF StoredKeys(p, m) # {} THEN StoredKeys(p, m)
                      ELSE KeptKeys(RowFor(p, m), m)
              r == RowFor(p, m)
              c == [op |-> op, mail |-> m, row |-> r, opened |-> ~open[p],
                    keys |-> keys]
  <1>1. TypeOK /\ m \in Message /\ r \in RatchetRow
    BY RowForType DEF StoreType, TypeOK
  <1>2. keys \subseteq StoredKey /\ op \in Reading /\ (~open[p]) \in BOOLEAN
    BY <1>1, KeptKeysType DEF StoredKeys, TypeOK, Reading
  <1>3. /\ Enter(p, t, c) /\ UNCHANGED <<skipped, gen, sent, net, delivered, backup>>
        /\ open' = [open EXCEPT ![p] = TRUE] /\ row' = [row EXCEPT ![p] = r]
    BY DEF BeginDecrypt
  <1>4. TypeOK'
    BY <1>1, <1>3 DEF TypeOK
  <1>. HIDE DEF op, keys, r
  <1>5. c \in Call /\ c.mail = m
    BY <1>1, <1>2 DEF Call
  <1>. HIDE DEF c
  <1>. QED  BY <1>3, <1>4, <1>5, ThreadType

LEMMA DecryptStepsType ==
    ASSUME StoreType, NEW p \in Parties, NEW t \in Threads,
           \/ DecryptFails(p, t) \/ DeleteKey(p, t) \/ InsertKey(p, t)
           \/ SaveRow(p, t) \/ StorePlaintext(p, t)
    PROVE  StoreType'
  <1>. DEFINE c == call[p][t]
              d == [op |-> "plaintext", mail |-> c.mail]
  <1>0. TypeOK /\ c \in Call
    BY DEF StoreType
  <1>1. c.op \in Reading \cup {"plaintext"} => c.mail \in net /\ c.mail \in Message
    BY <1>0, CallIs DEF StoreType
  <1>2. c.op \in Reading => d \in Call /\ d.op = "plaintext" /\ d.mail \in net
    BY <1>1 DEF Call
  <1>3. CASE DecryptFails(p, t)
    <2>1. Enter(p, t, Idle) /\ UNCHANGED <<vars, backup>>
      BY <1>3 DEF DecryptFails
    <2>2. TypeOK' /\ net' = net
      BY <1>0, <2>1 DEF vars, TypeOK
    <2>. QED  BY <2>1, <2>2, CallIs, ThreadType DEF Reading
  <1>4. CASE DeleteKey(p, t)
    <2>1. /\ c.op \in Reading /\ Enter(p, t, d)
          /\ skipped' \in Written(skipped, p, DropUsedKey(p, c.mail))
          /\ UNCHANGED <<open, row, gen, sent, net, delivered, backup>>
      BY <1>4 DEF DeleteKey, Reading
    <2>2. skipped' = [skipped EXCEPT ![p] = DropUsedKey(p, c.mail)] \/ skipped' = skipped
      BY <2>1, WrittenIs
    <2>3. DropUsedKey(p, c.mail) \subseteq StoredKey
      BY <1>0 DEF DropUsedKey, TypeOK
    <2>4. TypeOK'
      BY <1>0, <2>1, <2>2, <2>3 DEF TypeOK
    <2>. HIDE DEF d
    <2>. QED  BY <1>2, <2>1, <2>4, ThreadType
  <1>5. CASE InsertKey(p, t)
    <2>1. /\ c.op \in Reading
          /\ UNCHANGED <<open, row, gen, sent, net, delivered, backup>>
      BY <1>5 DEF InsertKey, Reading
    <2>2. PICK k \in c.keys :
             /\ skipped' \in Written(skipped, p, StoreKeys(skipped[p], {k}))
             /\ Enter(p, t, [c EXCEPT !.op = "keys", !.keys = @ \ {k}])
      BY <1>5 DEF InsertKey
    <2>. DEFINE e == [c EXCEPT !.op = "keys", !.keys = @ \ {k}]
    <2>3. e \in Call /\ e.op = "keys" /\ e.mail = c.mail
      BY <1>0, <2>1, KeyOutIs
    <2>4. \/ skipped' = [skipped EXCEPT ![p] = StoreKeys(skipped[p], {k})]
          \/ skipped' = skipped
      BY <2>2, WrittenIs
    <2>5. StoreKeys(skipped[p], {k}) \subseteq StoredKey
      BY <1>0, <2>1, CallIs DEF StoreKeys, TypeOK
    <2>6. TypeOK'
      BY <1>0, <2>1, <2>4, <2>5 DEF TypeOK
    <2>7. Enter(p, t, e)
      BY <2>2
    <2>. HIDE DEF e
    <2>. QED  BY <1>1, <2>1, <2>3, <2>6, <2>7, ThreadType
  <1>6. CASE SaveRow(p, t)
    <2>1. /\ c.op \in Reading /\ Enter(p, t, d)
          /\ row' \in Written(row, p, SavedRow(p, c.row, c.mail))
          /\ UNCHANGED <<open, skipped, gen, sent, net, delivered, backup>>
      BY <1>6 DEF SaveRow, Reading
    <2>2. row' = [row EXCEPT ![p] = SavedRow(p, c.row, c.mail)] \/ row' = row
      BY <2>1, WrittenIs
    <2>3. SavedRow(p, c.row, c.mail) \in RatchetRow
      BY <1>0, <1>1, <2>1, CallIs, AfterRecvType DEF SavedRow
    <2>4. TypeOK'
      BY <1>0, <2>1, <2>2, <2>3 DEF TypeOK
    <2>. HIDE DEF d
    <2>. QED  BY <1>2, <2>1, <2>4, ThreadType
  <1>7. CASE StorePlaintext(p, t)
    <2>1. /\ c.op = "plaintext" /\ Enter(p, t, Idle)
          /\ delivered' = [delivered EXCEPT ![p] = @ \cup {c.mail}]
          /\ UNCHANGED <<open, row, skipped, gen, sent, net, backup>>
      BY <1>7 DEF StorePlaintext
    <2>2. TypeOK'
      BY <1>0, <1>1, <2>1 DEF TypeOK
    <2>. QED  BY <2>1, <2>2, CallIs, ThreadType DEF Reading
  <1>. QED  BY <1>3, <1>4, <1>5, <1>6, <1>7

LEMMA FaultsType ==
    ASSUME StoreType, NEW p \in Parties, Crash(p) \/ Export(p) \/ Restore(p)
    PROVE  StoreType'
  <1>0. TypeOK
    BY DEF StoreType
  <1>1. CASE Crash(p)
    <2>1. call' = [call EXCEPT ![p] = [t \in Threads |-> Idle]] /\ UNCHANGED <<vars, backup>>
      BY <1>1 DEF Crash
    <2>2. TypeOK' /\ net' = net
      BY <1>0, <2>1 DEF vars, TypeOK
    <2>3. /\ call' \in [Parties -> [Threads -> Call]]
          /\ \A q \in Parties, t \in Threads :
                call'[q][t] = IF q = p THEN Idle ELSE call[q][t]
      BY <2>1, CallIs DEF StoreType
    <2>. QED  BY <2>1, <2>2, <2>3, CallIs DEF StoreType, Reading
  <1>2. CASE Export(p)
    <2>. DEFINE b == [open |-> TRUE, row |-> row[p], skipped |-> skipped[p],
                      delivered |-> delivered[p]]
    <2>1. backup' = [backup EXCEPT ![p] = b] /\ UNCHANGED <<vars, call>>
      BY <1>2 DEF Export
    <2>2. TypeOK' /\ net' = net
      BY <1>0, <2>1 DEF vars, TypeOK
    <2>3. b \in Backup
      BY <1>0 DEF Backup, TypeOK
    <2>. HIDE DEF b
    <2>. QED  BY <2>1, <2>2, <2>3 DEF StoreType
  <1>3. CASE Restore(p)
    <2>. DEFINE b == backup[p]
    <2>1. /\ b # NoBackup
          /\ row' = [row EXCEPT ![p] = b.row]
          /\ skipped' = [skipped EXCEPT ![p] = b.skipped]
          /\ delivered' = [delivered EXCEPT ![p] = b.delivered]
          /\ UNCHANGED <<open, gen, sent, net, call, backup>>
      BY <1>3 DEF Restore
    <2>2. b.row \in RatchetRow /\ b.skipped \in SUBSET StoredKey /\ b.delivered \in SUBSET Message
      BY <2>1 DEF StoreType, Backup
    <2>. HIDE DEF b
    <2>3. TypeOK'
      BY <1>0, <2>1, <2>2 DEF TypeOK
    <2>. QED  BY <2>1, <2>3 DEF StoreType
  <1>. QED  BY <1>1, <1>2, <1>3

LEMMA StoreNextType == StoreType /\ [StoreNext]_storeVars => StoreType'
  <1>. SUFFICES ASSUME StoreType, [StoreNext]_storeVars PROVE StoreType'
    OBVIOUS
  <1>1. CASE StoreInitiate
    <2>1. TypeOK' /\ net \subseteq net' /\ UNCHANGED <<call, backup>>
      BY <1>1, InitiateType DEF StoreInitiate, Initiate, StoreType
    <2>. QED  BY <2>1 DEF StoreType
  <1>2. CASE UNCHANGED storeVars
    BY <1>2 DEF storeVars, vars, StoreType, TypeOK
  <1>3. ASSUME NEW p \in Parties, NEW t \in Threads,
               BeginEncrypt(p, t) \/ EndEncrypt(p, t) \/ EncryptFails(p, t)
        PROVE  StoreType'
    BY <1>3, EncryptStepsType
  <1>4. ASSUME NEW p \in Parties, NEW t \in Threads, NEW m \in net, BeginDecrypt(p, t, m)
        PROVE  StoreType'
    BY <1>4, BeginDecryptType
  <1>5. ASSUME NEW p \in Parties, NEW t \in Threads,
               \/ DecryptFails(p, t) \/ DeleteKey(p, t) \/ InsertKey(p, t)
               \/ SaveRow(p, t) \/ StorePlaintext(p, t)
        PROVE  StoreType'
    BY <1>5, DecryptStepsType
  <1>6. ASSUME NEW p \in Parties, Crash(p) \/ Export(p) \/ Restore(p)
        PROVE  StoreType'
    BY <1>6, FaultsType
  <1>. QED  BY <1>1, <1>2, <1>3, <1>4, <1>5, <1>6, ThreadsAre DEF StoreNext

LEMMA StoreTypeAlways == StoreSpec => []StoreType
  BY StoreInitType, StoreNextType, PTL DEF StoreSpec

\* What may go wrong is settled when a behaviour begins, and calls that have
\* met have met.
LEMMA HistoryKept ==
    ASSUME [StoreNext]_storeVars
    PROVE  /\ faults' = faults
           /\ (raced' = raced) \/ (raced' \in BOOLEAN)
           /\ ~raced' => ~raced
  <1>1. CASE StoreInitiate \/ UNCHANGED storeVars
    BY <1>1 DEF StoreInitiate, storeVars
  <1>2. ASSUME NEW p \in Parties, NEW t \in Threads,
               BeginEncrypt(p, t) \/ EndEncrypt(p, t) \/ EncryptFails(p, t)
        PROVE  faults' = faults /\ (raced' = raced \/ raced' = (raced \/ Copied(p, t)))
    BY <1>2 DEF BeginEncrypt, EndEncrypt, EncryptFails
  <1>3. ASSUME NEW p \in Parties, NEW t \in Threads, NEW m \in net, BeginDecrypt(p, t, m)
        PROVE  faults' = faults /\ raced' = (raced \/ Decrypting(p, t))
    BY <1>3 DEF BeginDecrypt
  <1>4. ASSUME NEW p \in Parties, NEW t \in Threads,
               \/ DecryptFails(p, t) \/ DeleteKey(p, t) \/ InsertKey(p, t)
               \/ SaveRow(p, t) \/ StorePlaintext(p, t)
        PROVE  /\ faults' = faults
               /\ \/ raced' = raced
                  \/ raced' = (raced \/ (row' # row /\ Copied(p, t)))
    BY <1>4 DEF DecryptFails, DeleteKey, InsertKey, SaveRow, StorePlaintext
  <1>5. ASSUME NEW p \in Parties, Crash(p) \/ Export(p) \/ Restore(p)
        PROVE  faults' = faults /\ raced' = raced
    BY <1>5 DEF Crash, Export, Restore
  <1>. QED  BY <1>1, <1>2, <1>3, <1>4, <1>5, ThreadsAre DEF StoreNext

\* Whatever threads call, crash and fail, and whatever is restored, the tables
\* hold rows, keys and mail, and so do the copies the threads work on.
THEOREM StoreTypeCorrect == StoreSpec => []StoreTypeOK
  <1>1. StoreType /\ raced \in BOOLEAN => StoreTypeOK
    <2>. SUFFICES ASSUME StoreType, NEW p \in Parties, NEW t \in Threads
                  PROVE  /\ TypeOK
                         /\ call[p][t].op \in
                               {"idle", "encrypt", "stored", "chain", "keys", "plaintext"}
                         /\ call[p][t].op \in {"encrypt", "stored", "chain", "keys"} =>
                               call[p][t].row \in RatchetRow
                         /\ call[p][t].op \in {"stored", "chain", "keys", "plaintext"} =>
                               call[p][t].mail \in net
                         /\ call[p][t].op \in {"stored", "chain", "keys"} =>
                               call[p][t].keys \subseteq StoredKey
      BY DEF StoreTypeOK, StoreType
    <2>1. call[p][t] \in Call
      BY DEF StoreType
    <2>. QED  BY <2>1, CallIs DEF StoreType, Reading
  <1>. DEFINE Flag == raced \in BOOLEAN
  <1>2. StoreInit => Flag
    BY DEF StoreInit
  <1>3. Flag /\ [StoreNext]_storeVars => Flag'
    BY HistoryKept
  <1>4. StoreType /\ Flag => StoreTypeOK
    BY <1>1
  <1>. HIDE DEF Flag
  <1>. QED  BY <1>2, <1>3, <1>4, StoreTypeAlways, PTL DEF StoreSpec
-----------------------------------------------------------------------------
(* Until calls race, the row a call works on is the row as it is. *)

LEMMA OthersIdle ==
    ASSUME NEW p, NEW t, ~Copied(p, t), NEW u \in Threads, u # t
    PROVE  call[p][u].op \notin {"encrypt"} \cup Reading
  BY DEF Copied, Reading

LEMMA IsAlone ==
    ASSUME NEW p, NEW t, ~Decrypting(p, t)
    PROVE  Alone(p, t)
  BY DEF Decrypting, Alone, Reading

\* After a step of p's thread it is enough to look at that thread, if the row
\* is as it was or no other thread of p has a copy.
LEMMA HoldsKept ==
    ASSUME StoreType, NEW p \in Parties, NEW t \in Threads, NEW c \in Call,
           Enter(p, t, c), Holds(p, c)',
           AllHold,
           \/ row'[p] = row[p] /\ sent'[p] = sent[p] /\ (open[p] => open'[p])
           \/ ~Copied(p, t),
           \A q \in Parties \ {p} :
              row'[q] = row[q] /\ open'[q] = open[q] /\ sent'[q] = sent[q]
    PROVE  AllHold'
  <1>. SUFFICES ASSUME NEW q \in Parties, NEW u \in Threads
                PROVE  Holds(q, call[q][u])'
    BY DEF AllHold
  <1>1. call'[q][u] = IF q = p /\ u = t THEN c ELSE call[q][u]
    BY EnterIs
  <1>2. Holds(q, call[q][u])
    BY DEF AllHold
  <1>3. CASE q = p /\ u = t
    BY <1>1, <1>3 DEF Holds
  <1>4. CASE q = p /\ u # t
    <2>1. CASE ~Copied(p, t)
      <3>1. call[q][u].op \notin {"encrypt"} \cup Reading
        BY <1>4, <2>1, OthersIdle
      <3>. QED  BY <1>1, <1>4, <3>1 DEF Holds, Reading
    <2>2. CASE row'[p] = row[p] /\ sent'[p] = sent[p] /\ (open[p] => open'[p])
      BY <1>1, <1>2, <1>4, <2>2 DEF Holds
    <2>. QED  BY <2>1, <2>2
  <1>5. CASE q # p
    BY <1>1, <1>2, <1>5 DEF Holds
  <1>. QED  BY <1>3, <1>4, <1>5

LEMMA ReadersKept ==
    ASSUME StoreType, OneReader, NEW p \in Parties, NEW t \in Threads, NEW c \in Call,
           Enter(p, t, c),
           c.op \in Reading \cup {"plaintext"} => Alone(p, t)
    PROVE  OneReader'
  <1>1. \A q \in Parties, u \in Threads :
           call'[q][u] = IF q = p /\ u = t THEN c ELSE call[q][u]
    BY EnterIs
  <1>. SUFFICES ASSUME NEW q \in Parties, NEW u \in Threads,
                       call'[q][u].op \in Reading \cup {"plaintext"},
                       NEW v \in Threads \ {u}
                PROVE  call'[q][v].op \notin Reading \cup {"plaintext"}
    BY DEF OneReader, Alone
  <1>2. CASE q = p /\ u = t
    BY <1>1, <1>2 DEF Alone
  <1>3. CASE q = p /\ v = t
    <2>1. Alone(p, u)
      BY <1>1, <1>3 DEF OneReader
    <2>2. call[p][u].op \in Reading \cup {"plaintext"}
      BY <1>1, <1>3
    <2>3. c.op \in Reading \cup {"plaintext"} => FALSE
      BY <1>3, <2>2 DEF Alone
    <2>. QED  BY <1>1, <1>3, <2>3
  <1>4. CASE q # p \/ (u # t /\ v # t)
    <2>1. call'[q][u] = call[q][u] /\ call'[q][v] = call[q][v]
      BY <1>1, <1>4
    <2>. QED  BY <2>1 DEF OneReader, Alone
  <1>. QED  BY <1>2, <1>3, <1>4

LEMMA RowsUntouched ==
    ASSUME TypeOK, RatchetInv, NoKeyReuse, net # {} \/ vars' = vars,
           row' = row, gen' = gen, net' = net,
           \A p \in Parties : open[p] => open'[p]
    PROVE  RatchetInv' /\ NoKeyReuse'
  <1>1. RatchetInv'
    BY NextInv, InvRowsKept
  <1>2. NoKeyReuse'
    BY DEF NoKeyReuse
  <1>. QED  BY <1>1, <1>2

LEMMA EncryptStepsInv ==
    ASSUME StoreType, RatchetInv, NoKeyReuse, AllHold, OneReader, ~raced',
           NEW p \in Parties, NEW t \in Threads,
           BeginEncrypt(p, t) \/ EndEncrypt(p, t) \/ EncryptFails(p, t)
    PROVE  RatchetInv' /\ NoKeyReuse' /\ AllHold' /\ OneReader'
  <1>0. TypeOK /\ Holds(p, call[p][t]) /\ Idle \in Call /\ Idle.op = "idle"
    BY CallIs DEF StoreType, AllHold
  <1>1. CASE BeginEncrypt(p, t)
    <2>0. PICK c : c = [op |-> "encrypt", row |-> row[p]]
      OBVIOUS
    <2>1. /\ Enter(p, t, c) /\ vars' = vars
          /\ open[p] /\ sent[p] < MaxSend /\ CanSend(row[p])
      BY <1>1, <2>0 DEF BeginEncrypt
    <2>2. UNCHANGED <<open, row, gen, sent, net>>
      BY <2>1 DEF vars
    <2>3. c \in Call /\ c.op = "encrypt" /\ c.row = row[p]
      BY <1>0, <2>0 DEF Call, TypeOK
    <2>4. Holds(p, c)'
      BY <2>1, <2>2, <2>3 DEF Holds, Reading
    <2>5. AllHold' /\ OneReader'
      BY <2>1, <2>2, <2>3, <2>4, HoldsKept, ReadersKept DEF Reading
    <2>. QED  BY <1>0, <2>1, <2>2, <2>5, RowsUntouched
  <1>2. CASE EndEncrypt(p, t)
    <2>1. call[p][t].row = row[p] /\ open[p] /\ sent[p] < MaxSend /\ CanSend(row[p])
      BY <1>0, <1>2 DEF EndEncrypt, Holds
    <2>2. Encrypt(p) /\ Enter(p, t, Idle)
      BY <1>2, <2>1 DEF EndEncrypt, Encrypt
    <2>3. RatchetInv' /\ NoKeyReuse'
      BY <1>0, <2>2, EncryptInv, SealKeepsKeys
    <2>4. Holds(p, Idle)'
      BY <1>0 DEF Holds, Reading
    <2>5. \A q \in Parties \ {p} :
             row'[q] = row[q] /\ open'[q] = open[q] /\ sent'[q] = sent[q]
      BY <1>0, <2>2 DEF Encrypt, TypeOK
    <2>6. ~Copied(p, t)
      BY <1>2 DEF EndEncrypt
    <2>7. AllHold' /\ OneReader'
      BY <1>0, <2>2, <2>4, <2>5, <2>6, HoldsKept, ReadersKept DEF Reading
    <2>. QED  BY <2>3, <2>7
  <1>3. CASE EncryptFails(p, t)
    <2>1. Enter(p, t, Idle) /\ vars' = vars
      BY <1>3 DEF EncryptFails
    <2>2. UNCHANGED <<open, row, gen, sent, net>>
      BY <2>1 DEF vars
    <2>3. Holds(p, Idle)'
      BY <1>0 DEF Holds, Reading
    <2>4. AllHold' /\ OneReader'
      BY <1>0, <2>1, <2>2, <2>3, HoldsKept, ReadersKept DEF Reading
    <2>. QED  BY <1>0, <2>1, <2>2, <2>4, RowsUntouched
  <1>. QED  BY <1>1, <1>2, <1>3

LEMMA BeginDecryptInv ==
    ASSUME StoreType, RatchetInv, NoKeyReuse, AllHold, OneReader, ~raced',
           NEW p \in Parties, NEW t \in Threads, NEW m \in net,
           BeginDecrypt(p, t, m)
    PROVE  RatchetInv' /\ NoKeyReuse' /\ AllHold' /\ OneReader'
  <1>. DEFINE op == IF StoredKeys(p, m) # {} THEN "stored" ELSE "chain"
              keys == IF StoredKeys(p, m) # {} THEN StoredKeys(p, m)
                      ELSE KeptKeys(RowFor(p, m), m)
              r == RowFor(p, m)
  <1>0. PICK c : c = [op |-> op, mail |-> m, row |-> r, opened |-> ~open[p],
                      keys |-> keys]
    OBVIOUS
  <1>1. TypeOK /\ m \in Message /\ m.from = Peer(p) /\ r = row[p]
    BY RowForIsRow DEF StoreType, TypeOK, BeginDecrypt, Readable
  <1>2. row[p] \in RatchetRow /\ KeptKeys(r, m) \in SUBSET StoredKey
    BY <1>1, RowFacts, KeptKeysType
  <1>3. keys \subseteq StoredKey /\ op \in {"stored", "chain"} /\ (~open[p]) \in BOOLEAN
    BY <1>1, <1>2 DEF StoredKeys, TypeOK
  <1>4. /\ Enter(p, t, c) /\ UNCHANGED <<gen, sent, net>>
        /\ open' = [open EXCEPT ![p] = TRUE] /\ row' = [row EXCEPT ![p] = r]
    BY <1>0 DEF BeginDecrypt
  <1>5. row' = row /\ open'[p] /\ \A q \in Parties \ {p} : open'[q] = open[q]
    BY <1>1, <1>4 DEF TypeOK
  <1>. HIDE DEF op, keys, r
  <1>6. c \in Call
    BY <1>0, <1>1, <1>2, <1>3 DEF Call, Reading
  <1>7. c.op \in {"stored", "chain"} /\ c.mail = m /\ c.row = r
    BY <1>0, <1>3
  <1>8. Holds(p, c)'
    BY <1>1, <1>5, <1>7 DEF Holds, Reading
  <1>9. Alone(p, t)
    BY IsAlone DEF BeginDecrypt
  <1>10. AllHold' /\ OneReader'
    BY <1>4, <1>5, <1>6, <1>8, <1>9, HoldsKept, ReadersKept
  <1>. QED  BY <1>1, <1>4, <1>5, <1>10, RowsUntouched

LEMMA SaveRowSteps ==
    ASSUME StoreType, RatchetInv, AllHold,
           NEW p \in Parties, NEW t \in Threads, SaveRow(p, t)
    PROVE  row' = row \/ StepsChain(p, call[p][t].mail)
  <1>. DEFINE c == call[p][t]
              m == c.mail
  <1>1. /\ c.op \in {"chain", "keys"} /\ (c.op = "chain" => ChainOpens(c.row, m))
        /\ row' \in Written(row, p, AfterRecv(c.row, m))
        /\ UNCHANGED <<open, gen, net>>
    BY DEF SaveRow, Opens, SavedRow
  <1>2. TypeOK /\ m \in net
    BY <1>1 DEF StoreType, Reading
  <1>3. open[p] /\ c.row = row[p] /\ m.from = Peer(p) /\ ChainOpens(row[p], m)
    BY <1>1 DEF AllHold, Holds, Reading
  <1>4. RowFor(p, m) = row[p] /\ open' = [open EXCEPT ![p] = TRUE]
    BY <1>1, <1>2, <1>3 DEF RowFor, TypeOK
  <1>5. row' = [row EXCEPT ![p] = AfterRecv(row[p], m)] \/ row' = row
    BY <1>1, <1>3, WrittenIs
  <1>. QED  BY <1>1, <1>3, <1>4, <1>5 DEF StepsChain, Readable

LEMMA DecryptStepsInv ==
    ASSUME StoreType, RatchetInv, NoKeyReuse, AllHold, OneReader, ~raced',
           NEW p \in Parties, NEW t \in Threads,
           \/ DecryptFails(p, t) \/ DeleteKey(p, t) \/ InsertKey(p, t)
           \/ SaveRow(p, t) \/ StorePlaintext(p, t)
    PROVE  RatchetInv' /\ NoKeyReuse' /\ AllHold' /\ OneReader'
  <1>. PICK c : c = call[p][t]
    OBVIOUS
  <1>0. TypeOK /\ c \in Call /\ Holds(p, c) /\ Idle \in Call /\ Idle.op = "idle"
    BY CallIs DEF StoreType, AllHold
  <1>1. c.op \in Reading \cup {"plaintext"} => c.mail \in net
    BY DEF StoreType
  <1>2. UNCHANGED <<open, gen, sent, net>> /\ net # {}
    BY <1>1 DEF DecryptFails, DeleteKey, InsertKey, SaveRow, StorePlaintext, vars, Reading
  <1>3. RatchetInv' /\ NoKeyReuse'
    <2>1. CASE row' = row
      BY <1>0, <1>2, <2>1, RowsUntouched
    <2>2. CASE SaveRow(p, t) /\ row' # row
      <3>1. StepsChain(p, c.mail) /\ c.mail \in net
        BY <1>1, <2>2, SaveRowSteps DEF SaveRow, Reading
      <3>. QED  BY <1>0, <1>2, <3>1, StepsChainInv DEF NoKeyReuse
    <2>. QED  BY <2>1, <2>2 DEF DecryptFails, DeleteKey, InsertKey, StorePlaintext, vars
  <1>4. \A q \in Parties \ {p} :
           row'[q] = row[q] /\ open'[q] = open[q] /\ sent'[q] = sent[q]
    <2>1. CASE row' = row
      BY <1>2, <2>1
    <2>2. CASE SaveRow(p, t)
      BY <1>0, <1>2, <2>2 DEF SaveRow, Written, TypeOK
    <2>. QED  BY <2>1, <2>2 DEF DecryptFails, DeleteKey, InsertKey, StorePlaintext, vars
  <1>. DEFINE Still == row'[p] = row[p] /\ sent'[p] = sent[p] /\ (open[p] => open'[p])
  <1>5. Still \/ ~Copied(p, t)
    <2>1. CASE row' = row
      BY <1>2, <2>1
    <2>2. CASE SaveRow(p, t) /\ row' # row
      BY <2>2 DEF SaveRow
    <2>. QED  BY <2>1, <2>2 DEF DecryptFails, DeleteKey, InsertKey, StorePlaintext, vars
  <1>6. c.op \in Reading \cup {"plaintext"} /\ Alone(p, t)
    <2>1. c.op \in Reading \cup {"plaintext"}
      BY DEF DecryptFails, DeleteKey, InsertKey, SaveRow, StorePlaintext, Reading
    <2>. QED  BY <2>1 DEF OneReader
  <1>7. CASE InsertKey(p, t)
    <2>1. /\ c.op \in {"chain", "keys"} /\ (c.op = "chain" => ChainOpens(c.row, c.mail))
          /\ row' = row
      BY <1>7 DEF InsertKey, Opens
    <2>2. PICK k \in c.keys : Enter(p, t, [c EXCEPT !.op = "keys", !.keys = @ \ {k}])
      BY <1>7 DEF InsertKey
    <2>. PICK e : e = [c EXCEPT !.op = "keys", !.keys = @ \ {k}]
      OBVIOUS
    <2>3. e \in Call /\ e.op = "keys" /\ e.mail = c.mail /\ e.row = c.row
      BY <1>0, <2>1, KeyOutIs DEF Reading
    <2>4. Enter(p, t, e)
      BY <2>2
    <2>5. Holds(p, e)'
      BY <1>0, <1>2, <2>1, <2>3 DEF Holds, Reading
    <2>. QED  BY <1>3, <1>4, <1>5, <1>6, <2>3, <2>4, <2>5, HoldsKept, ReadersKept
  <1>8. CASE DeleteKey(p, t) \/ SaveRow(p, t)
    <2>. PICK d : d = [op |-> "plaintext", mail |-> c.mail]
      OBVIOUS
    <2>1. Enter(p, t, d) /\ c.op \in Reading
      BY <1>8 DEF DeleteKey, SaveRow, Reading
    <2>2. d \in Call /\ d.op = "plaintext"
      BY <1>0, <2>1, CallIs DEF Call
    <2>3. Holds(p, d)'
      BY <2>2 DEF Holds, Reading
    <2>. QED  BY <1>3, <1>4, <1>5, <1>6, <2>1, <2>2, <2>3, HoldsKept, ReadersKept
  <1>9. CASE DecryptFails(p, t) \/ StorePlaintext(p, t)
    <2>1. Enter(p, t, Idle)
      BY <1>9 DEF DecryptFails, StorePlaintext
    <2>2. Holds(p, Idle)'
      BY <1>0 DEF Holds, Reading
    <2>. QED  BY <1>0, <1>3, <1>4, <1>5, <1>6, <2>1, <2>2, HoldsKept, ReadersKept
  <1>. QED  BY <1>7, <1>8, <1>9

LEMMA StoreInitInv == StoreInit => StoreInv
  <1>. SUFFICES ASSUME StoreInit PROVE StoreInv
    OBVIOUS
  <1>1. RatchetInv /\ NoKeyReuse
    BY InitInv DEF StoreInit, Init, NoKeyReuse
  <1>2. AllHold /\ OneReader
    BY CallIs DEF StoreInit, AllHold, Holds, OneReader, Reading
  <1>3. \A p \in Parties : backup[p] = NoBackup
    BY DEF StoreInit
  <1>. QED  BY <1>1, <1>2, <1>3 DEF StoreInv

LEMMA StoreNextInv ==
    ASSUME StoreType, StoreInv, [StoreNext]_storeVars
    PROVE  StoreInv'
  <1>1. faults' = faults /\ (~raced' => ~raced)
    BY HistoryKept
  <1>. SUFFICES ASSUME "restore" \notin faults, ~raced'
                PROVE  /\ RatchetInv' /\ NoKeyReuse' /\ AllHold' /\ OneReader'
                       /\ \A p \in Parties : backup'[p] = NoBackup
    BY <1>1 DEF StoreInv
  <1>2. /\ RatchetInv /\ NoKeyReuse /\ AllHold /\ OneReader /\ TypeOK
        /\ \A p \in Parties : backup[p] = NoBackup
    BY <1>1 DEF StoreInv, StoreType
  <1>3. CASE StoreInitiate
    <2>1. Initiate /\ UNCHANGED <<call, backup>>
      BY <1>3 DEF StoreInitiate
    <2>2. RatchetInv' /\ NoKeyReuse'
      BY <1>2, <2>1, InitiateInv, SealKeepsKeys
    <2>3. /\ ~open[Initiator] /\ Initiator \in Parties
          /\ \A q \in Parties \ {Initiator} :
                row'[q] = row[q] /\ open'[q] = open[q] /\ sent'[q] = sent[q]
      BY <1>2, <2>1 DEF Initiate, TypeOK, Parties
    <2>4. AllHold' /\ OneReader'
      BY <1>2, <2>1, <2>3 DEF AllHold, Holds, OneReader, Alone, Reading
    <2>. QED  BY <1>2, <2>1, <2>2, <2>4
  <1>4. ASSUME vars' = vars, backup' = backup, AllHold', OneReader'
        PROVE  /\ RatchetInv' /\ NoKeyReuse' /\ AllHold' /\ OneReader'
               /\ \A p \in Parties : backup'[p] = NoBackup
    <2>1. UNCHANGED <<open, row, gen, net>>
      BY <1>4 DEF vars
    <2>. QED  BY <1>2, <1>4, <2>1, RowsUntouched
  <1>5. CASE UNCHANGED storeVars
    <2>1. AllHold' /\ OneReader'
      BY <1>2, <1>5 DEF storeVars, vars, AllHold, Holds, OneReader, Alone
    <2>. QED  BY <1>4, <1>5, <2>1 DEF storeVars
  <1>6. ASSUME NEW p \in Parties, NEW t \in Threads,
               BeginEncrypt(p, t) \/ EndEncrypt(p, t) \/ EncryptFails(p, t)
        PROVE  RatchetInv' /\ NoKeyReuse' /\ AllHold' /\ OneReader' /\ backup' = backup
    BY <1>2, <1>6, EncryptStepsInv DEF BeginEncrypt, EndEncrypt, EncryptFails
  <1>7. ASSUME NEW p \in Parties, NEW t \in Threads, NEW m \in net, BeginDecrypt(p, t, m)
        PROVE  RatchetInv' /\ NoKeyReuse' /\ AllHold' /\ OneReader' /\ backup' = backup
    BY <1>2, <1>7, BeginDecryptInv DEF BeginDecrypt
  <1>8. ASSUME NEW p \in Parties, NEW t \in Threads,
               \/ DecryptFails(p, t) \/ DeleteKey(p, t) \/ InsertKey(p, t)
               \/ SaveRow(p, t) \/ StorePlaintext(p, t)
        PROVE  RatchetInv' /\ NoKeyReuse' /\ AllHold' /\ OneReader' /\ backup' = backup
    BY <1>2, <1>8, DecryptStepsInv
       DEF DecryptFails, DeleteKey, InsertKey, SaveRow, StorePlaintext
  <1>9. ASSUME NEW p \in Parties, Crash(p)
        PROVE  /\ RatchetInv' /\ NoKeyReuse' /\ AllHold' /\ OneReader'
               /\ \A q \in Parties : backup'[q] = NoBackup
    <2>1. call' = [call EXCEPT ![p] = [t \in Threads |-> Idle]]
          /\ vars' = vars /\ backup' = backup
      BY <1>9 DEF Crash
    <2>2. /\ \A q \in Parties, t \in Threads :
                call'[q][t] = IF q = p THEN Idle ELSE call[q][t]
          /\ UNCHANGED <<open, row, sent>>
      BY <2>1 DEF StoreType, vars
    <2>3. AllHold' /\ OneReader'
      BY <1>2, <2>2, CallIs DEF AllHold, Holds, OneReader, Alone, Reading
    <2>. QED  BY <1>4, <2>1, <2>3
  <1>10. ASSUME NEW p \in Parties, Export(p) \/ Restore(p) PROVE FALSE
    BY <1>2, <1>10 DEF Export, Restore
  <1>. QED
    BY <1>2, <1>3, <1>5, <1>6, <1>7, <1>8, <1>9, <1>10, ThreadsAre DEF StoreNext

\* Whatever crashes, whichever write fails and however the calls of an account
\* interleave, until a row is written under another call's copy of it (or two
\* decryptions meet, or a backup is restored) the roots stay in step and every
\* call works on the row as the table holds it.
THEOREM CallsOnTheRow == StoreSpec => []StoreInv
  <1>1. StoreType /\ StoreInv /\ [StoreNext]_storeVars => StoreInv'
    BY StoreNextInv
  <1>. QED  BY <1>1, StoreInitInv, StoreTypeAlways, PTL DEF StoreSpec

\* dr_encrypt saves the row before the mail is handed on, so no message key
\* encrypts two messages although a crash or a busy database may drop any of
\* the statements around it, and although calls interleave: it takes a row
\* written under another call's copy (or two decryptions that meet, or a
\* restored backup).
THEOREM KeysNotReusedStatements == StoreSpec => []NoKeyTwice
  <1>1. StoreInv => NoKeyTwice
    BY DEF StoreInv, NoKeyTwice
  <1>. QED  BY <1>1, CallsOnTheRow, PTL
-----------------------------------------------------------------------------
(* Undisturbed, the statements of a call are one step of DoubleRatchet *)

OpenMap == [p \in Parties |-> open[p] /\ ~Opening(p)]
SkippedMap == [p \in Parties |-> skipped[p] \ Inserting(p)]
DeliveredMap == [p \in Parties |-> delivered[p] \cup OnItsWay(p)]

\* A key behind the chain of row r, and the ratchet key p's row has of the peer.
Past(r, k) == k.dh.gen <= r.dhPeer.gen /\ (k.dh = r.dhPeer => k.n < r.recvN)
PeerKey(p) ==
    /\ row[p].dhPeer.owner = Peer(p)
    /\ row[p].dhPeer.gen <= row[Peer(p)].dhSelf.gen
KeysPast(p) ==
    /\ \A k \in skipped[p] \ Inserting(p) : Past(row[p], k)
    /\ ~open[p] => skipped[p] = {}

\* What a decryption of p still knows of the state it began in.
Reads(p, c) ==
    /\ c.op \in Reading /\ c.opened =>
          row[p] = ResponderRow(SignedPrekey, Peer(p)) /\ c.mail.kind = "init"
    /\ c.op = "stored" => c.keys = StoredKeys(p, c.mail) /\ c.keys # {}
    /\ c.op = "chain" => StoredKeys(p, c.mail) = {} /\ c.keys = KeptKeys(row[p], c.mail)
    /\ c.op = "keys" =>
          /\ c.keys \subseteq KeptKeys(row[p], c.mail)
          /\ KeptKeys(row[p], c.mail) \subseteq c.keys \cup skipped[p]
          /\ StoredKeys(p, c.mail) \subseteq KeptKeys(row[p], c.mail)

LinkInv ==
    /\ \A p \in Parties : PeerKey(p) /\ KeysPast(p)
    /\ \A p \in Parties, t \in Threads : Reads(p, call[p][t])

LEMMA SkippedOnce ==
    ASSUME NEW ck, NEW n, NEW until, NEW dh,
           NEW j \in SkippedKeys(ck, n, until, dh), NEW k \in SkippedKeys(ck, n, until, dh),
           j.n = k.n
    PROVE  j = k
  BY DEF SkippedKeys

\* The keys a mail leaves behind are past the chain it leaves, and have places
\* of their own.
LEMMA KeptArePast ==
    ASSUME NEW r \in RatchetRow, NEW m \in Message,
           NewRatchetKey(r, m) => r.dhPeer.gen < m.dh.gen
    PROVE  /\ \A k \in KeptKeys(r, m) : Past(AfterRecv(r, m), k)
           /\ \A k \in StoredKey : Past(r, k) =>
                 /\ Past(AfterRecv(r, m), k)
                 /\ \A j \in KeptKeys(r, m) : j.dh # k.dh \/ j.n # k.n
           /\ \A j, k \in KeptKeys(r, m) : j.dh = k.dh /\ j.n = k.n => j = k
  <1>. DEFINE s == AfterRecv(r, m)
              old == SkippedKeys(r.recvCk, r.recvN, m.n, r.dhPeer)
              closed == SkippedKeys(r.recvCk, r.recvN, m.pn, r.dhPeer)
              root == KdfRoot(r.root, Dh(r.dhSelf, m.dh))
              new == SkippedKeys(KdfChain(root), 0, m.n, m.dh)
  <1>1. /\ r.recvCk \in ChainKey /\ r.recvN \in Nat /\ m.n \in Nat /\ m.pn \in Nat
        /\ r.dhPeer \in PubKey /\ m.dh \in PubKey
        /\ r.dhPeer.gen \in Nat /\ m.dh.gen \in Nat
    BY DEF RatchetRow, Message, PubKey
  <1>2. KdfChain(root) \in ChainKey /\ KdfChain(root) # NoChain
    <2>1. root \in Seq(SUBSET PubKey) /\ root # <<>> /\ KdfChain(root) \in ChainKey
      BY RootType, DhType DEF RatchetRow, Message
    <2>. QED  BY <2>1 DEF KdfChain, NoChain
  <1>3. \A k \in StoredKey : k.n \in Nat /\ k.dh.gen \in Nat
    BY DEF StoredKey, PubKey
  <1>4. /\ \A k \in old : k.dh = r.dhPeer /\ k.n \in Nat /\ r.recvN <= k.n /\ k.n < m.n
        /\ \A k \in closed : k.dh = r.dhPeer /\ k.n \in Nat /\ r.recvN <= k.n
        /\ old # {} => r.recvCk # NoChain
    BY <1>1, SkippedIs
  <1>5. \A k \in new : k.dh = m.dh /\ k.n \in Nat /\ k.n < m.n
    BY <1>1, <1>2, SkippedIs
  <1>6. CASE ~NewRatchetKey(r, m)
    <2>1. RecvStep(r, m) = r
      BY <1>6 DEF RecvStep
    <2>2. KeptKeys(r, m) = old
      BY <1>6, <2>1 DEF KeptKeys
    <2>3. /\ s.dhPeer = r.dhPeer
          /\ s.recvN = IndexAfter(r.recvCk, r.recvN, m.n) + 1
      BY <2>1 DEF AfterRecv, RatchetRow
    <2>4. /\ s.recvN \in Nat /\ r.recvN < s.recvN
          /\ r.recvCk # NoChain => m.n < s.recvN
      BY <1>1, <2>3 DEF IndexAfter
    <2>. HIDE DEF s, old
    <2>5. \A k \in old : Past(s, k)
      BY <1>1, <1>4, <2>3, <2>4 DEF Past
    <2>6. \A k \in StoredKey : Past(r, k) =>
             Past(s, k) /\ \A j \in old : j.dh # k.dh \/ j.n # k.n
      BY <1>1, <1>3, <1>4, <2>3, <2>4 DEF Past
    <2>7. \A j, k \in old : j.n = k.n => j = k
      BY SkippedOnce DEF old
    <2>. QED  BY <2>2, <2>5, <2>6, <2>7 DEF s
  <1>7. CASE NewRatchetKey(r, m)
    <2>0. m.dh # r.dhPeer /\ r.dhPeer.gen < m.dh.gen
      BY <1>7 DEF NewRatchetKey
    <2>. DEFINE v == RecvStep(r, m)
    <2>1. v.recvCk = KdfChain(root) /\ v.recvN = 0 /\ v.dhPeer = m.dh /\ v \in RatchetRow
      BY <1>7, RecvStepType DEF RecvStep, RatchetRow
    <2>. HIDE DEF v
    <2>2. KeptKeys(r, m) = new \cup closed
      BY <1>7, <2>1 DEF KeptKeys, v
    <2>3. /\ s.dhPeer = v.dhPeer
          /\ s.recvN = IndexAfter(v.recvCk, v.recvN, m.n) + 1
      BY <2>1 DEF AfterRecv, RatchetRow, v
    <2>4. s.dhPeer = m.dh /\ s.recvN = m.n + 1
      BY <1>1, <1>2, <2>1, <2>3 DEF IndexAfter
    <2>. HIDE DEF s, new, closed
    <2>5. \A k \in new \cup closed : Past(s, k)
      BY <1>1, <1>4, <1>5, <2>0, <2>4 DEF Past
    <2>6. \A k \in StoredKey : Past(r, k) =>
             Past(s, k) /\ \A j \in new \cup closed : j.dh # k.dh \/ j.n # k.n
      BY <1>1, <1>3, <1>4, <1>5, <2>0, <2>4 DEF Past
    <2>7. \A j, k \in new : j.n = k.n => j = k
      BY SkippedOnce DEF new
    <2>8. \A j, k \in closed : j.n = k.n => j = k
      BY SkippedOnce DEF closed
    <2>9. \A j, k \in new \cup closed : j.dh = k.dh /\ j.n = k.n => j = k
      BY <1>4, <1>5, <2>0, <2>7, <2>8
    <2>. QED  BY <2>2, <2>5, <2>6, <2>9 DEF s
  <1>. QED  BY <1>6, <1>7

\* The peer's new ratchet key is one it generated later.
LEMMA NewKeyLater ==
    ASSUME TypeOK, RatchetInv, NEW p \in Parties, NEW m \in net, PeerKey(p),
           m.from = Peer(p), ChainOpens(row[p], m), NewRatchetKey(row[p], m)
    PROVE  /\ m.dh = row[Peer(p)].dhSelf /\ m.dh.owner = Peer(p)
           /\ row[p].dhPeer.gen < m.dh.gen
  <1>. DEFINE q == Peer(p)
  <1>1. m.dh = row[q].dhSelf /\ q \in Parties
    BY NewKeyLeads, PeerIsParty
  <1>2. m.dh.owner = q /\ row[p].dhPeer.owner = q /\ row[p].dhPeer.gen <= m.dh.gen
    BY <1>1 DEF RatchetInv, OwnKeys, PeerKey
  <1>3. m.dh \in PubKey /\ row[p].dhPeer \in PubKey
    BY RowFacts DEF TypeOK, Message
  <1>4. m.dh.gen # row[p].dhPeer.gen
    BY <1>2, <1>3 DEF PubKey, NewRatchetKey
  <1>5. m.dh.gen \in Nat /\ row[p].dhPeer.gen \in Nat
    BY <1>3 DEF PubKey
  <1>. QED  BY <1>1, <1>2, <1>4, <1>5

\* One thread decrypts: what the calls hide is what its call hides.
Unopened(c) == c.op \in Reading /\ c.opened
Ahead(c) == IF c.op = "keys" THEN KeptKeys(c.row, c.mail) ELSE {}
OnWay(c) == IF c.op = "plaintext" THEN {c.mail} ELSE {}

LEMMA OneCall ==
    ASSUME NEW p \in Parties, NEW t \in Threads, Alone(p, t)
    PROVE  /\ Opening(p) <=> Unopened(call[p][t])
           /\ Inserting(p) = Ahead(call[p][t])
           /\ OnItsWay(p) = OnWay(call[p][t])
  <1>1. \A u \in Threads : u # t => call[p][u].op \notin Reading \cup {"plaintext"}
    BY DEF Alone
  <1>2. Opening(p) <=> Unopened(call[p][t])
    BY <1>1 DEF Opening, Unopened, Reading
  <1>3. Inserting(p) = Ahead(call[p][t])
    <2>1. {u \in Threads : call[p][u].op = "keys"} =
             IF call[p][t].op = "keys" THEN {t} ELSE {}
      BY <1>1 DEF Reading
    <2>. QED  BY <2>1 DEF Inserting, Ahead
  <1>4. OnItsWay(p) = OnWay(call[p][t])
    <2>1. {u \in Threads : call[p][u].op = "plaintext"} =
             IF call[p][t].op = "plaintext" THEN {t} ELSE {}
      BY <1>1 DEF Reading
    <2>. QED  BY <2>1 DEF OnItsWay, OnWay
  <1>. QED  BY <1>2, <1>3, <1>4

LEMMA AloneKept ==
    ASSUME StoreType, NEW p \in Parties, NEW t \in Threads, NEW c \in Call,
           Enter(p, t, c), Alone(p, t)
    PROVE  Alone(p, t)'
  <1>1. \A u \in Threads \ {t} : call'[p][u] = call[p][u]
    BY EnterIs
  <1>. QED  BY <1>1 DEF Alone

LEMMA OneCallNext ==
    ASSUME NEW p \in Parties, NEW t \in Threads, Alone(p, t)'
    PROVE  /\ Opening(p)' <=> Unopened(call'[p][t])
           /\ Inserting(p)' = Ahead(call'[p][t])
           /\ OnItsWay(p)' = OnWay(call'[p][t])
  <1>1. \A u \in Threads : u # t => call'[p][u].op \notin Reading \cup {"plaintext"}
    BY DEF Alone
  <1>2. Opening(p)' <=> Unopened(call'[p][t])
    BY <1>1 DEF Opening, Unopened, Reading
  <1>3. Inserting(p)' = Ahead(call'[p][t])
    <2>1. {u \in Threads : call'[p][u].op = "keys"} =
             IF call'[p][t].op = "keys" THEN {t} ELSE {}
      BY <1>1 DEF Reading
    <2>. QED  BY <2>1 DEF Inserting, Ahead
  <1>4. OnItsWay(p)' = OnWay(call'[p][t])
    <2>1. {u \in Threads : call'[p][u].op = "plaintext"} =
             IF call'[p][t].op = "plaintext" THEN {t} ELSE {}
      BY <1>1 DEF Reading
    <2>. QED  BY <2>1 DEF OnItsWay, OnWay
  <1>. QED  BY <1>2, <1>3, <1>4

\* A thread that encrypts hides nothing, so p's maps are those of the others.
LEMMA OneCallKept ==
    ASSUME NEW p \in Parties,
           \A t \in Threads :
              \/ call'[p][t] = call[p][t]
              \/ /\ call[p][t].op \in {"idle", "encrypt"}
                 /\ call'[p][t].op \in {"idle", "encrypt"}
    PROVE  /\ Opening(p)' = Opening(p)
           /\ Inserting(p)' = Inserting(p)
           /\ OnItsWay(p)' = OnItsWay(p)
  <1>1. \A t \in Threads :
           /\ call'[p][t].op \in Reading \cup {"plaintext"} <=>
                 call[p][t].op \in Reading \cup {"plaintext"}
           /\ call[p][t].op \in Reading \cup {"plaintext"} => call'[p][t] = call[p][t]
    BY DEF Reading
  <1>2. Opening(p)' = Opening(p)
    BY <1>1 DEF Opening, Reading
  <1>3. Inserting(p)' = Inserting(p)
    <2>1. {t \in Threads : call'[p][t].op = "keys"} = {t \in Threads : call[p][t].op = "keys"}
      BY <1>1 DEF Reading
    <2>2. \A t \in {u \in Threads : call[p][u].op = "keys"} : call'[p][t] = call[p][t]
      BY <1>1 DEF Reading
    <2>. QED  BY <2>1, <2>2 DEF Inserting
  <1>4. OnItsWay(p)' = OnItsWay(p)
    <2>1. {t \in Threads : call'[p][t].op = "plaintext"} =
             {t \in Threads : call[p][t].op = "plaintext"}
      BY <1>1 DEF Reading
    <2>2. \A t \in {u \in Threads : call[p][u].op = "plaintext"} : call'[p][t] = call[p][t]
      BY <1>1 DEF Reading
    <2>. QED  BY <2>1, <2>2 DEF OnItsWay
  <1>. QED  BY <1>2, <1>3, <1>4

\* What a step of p's thread to the call c does to the mapped variables.
LEMMA MapsMove ==
    ASSUME StoreType, NEW p \in Parties, NEW t \in Threads, NEW c \in Call,
           Alone(p, t), Enter(p, t, c),
           \A q \in Parties \ {p} :
              open'[q] = open[q] /\ skipped'[q] = skipped[q] /\ delivered'[q] = delivered[q]
    PROVE  /\ OpenMap' = [OpenMap EXCEPT ![p] = open'[p] /\ ~Unopened(c)]
           /\ SkippedMap' = [SkippedMap EXCEPT ![p] = skipped'[p] \ Ahead(c)]
           /\ DeliveredMap' = [DeliveredMap EXCEPT ![p] = delivered'[p] \cup OnWay(c)]
           /\ OpenMap[p] <=> open[p] /\ ~Unopened(call[p][t])
           /\ SkippedMap[p] = skipped[p] \ Ahead(call[p][t])
           /\ DeliveredMap[p] = delivered[p] \cup OnWay(call[p][t])
  <1>1. \A q \in Parties, u \in Threads :
           call'[q][u] = IF q = p /\ u = t THEN c ELSE call[q][u]
    BY EnterIs
  <1>2. /\ Opening(p)' <=> Unopened(c)
        /\ Inserting(p)' = Ahead(c) /\ OnItsWay(p)' = OnWay(c)
    <2>1. call'[p][t] = c
      BY <1>1
    <2>. QED  BY <2>1, AloneKept, OneCallNext
  <1>3. /\ Opening(p) <=> Unopened(call[p][t])
        /\ Inserting(p) = Ahead(call[p][t]) /\ OnItsWay(p) = OnWay(call[p][t])
    BY OneCall
  <1>4. \A q \in Parties \ {p} :
           /\ Opening(q)' = Opening(q)
           /\ Inserting(q)' = Inserting(q) /\ OnItsWay(q)' = OnItsWay(q)
    <2>. TAKE q \in Parties \ {p}
    <2>1. \A u \in Threads : call'[q][u] = call[q][u]
      BY <1>1
    <2>. QED  BY <2>1, OneCallKept
  <1>5. OpenMap' = [OpenMap EXCEPT ![p] = open'[p] /\ ~Unopened(c)]
    BY <1>2, <1>4 DEF OpenMap
  <1>6. SkippedMap' = [SkippedMap EXCEPT ![p] = skipped'[p] \ Ahead(c)]
    BY <1>2, <1>4 DEF SkippedMap
  <1>7. DeliveredMap' = [DeliveredMap EXCEPT ![p] = delivered'[p] \cup OnWay(c)]
    BY <1>2, <1>4 DEF DeliveredMap
  <1>8. OpenMap[p] <=> open[p] /\ ~Unopened(call[p][t])
    BY <1>3 DEF OpenMap
  <1>9. /\ SkippedMap[p] = skipped[p] \ Ahead(call[p][t])
        /\ DeliveredMap[p] = delivered[p] \cup OnWay(call[p][t])
    BY <1>3 DEF SkippedMap, DeliveredMap
  <1>. QED  BY <1>5, <1>6, <1>7, <1>8, <1>9

LEMMA MapsAsTheyAre ==
    ASSUME NEW p \in Parties
    PROVE  /\ [OpenMap EXCEPT ![p] = OpenMap[p]] = OpenMap
           /\ [SkippedMap EXCEPT ![p] = SkippedMap[p]] = SkippedMap
           /\ [DeliveredMap EXCEPT ![p] = DeliveredMap[p]] = DeliveredMap
  BY DEF OpenMap, SkippedMap, DeliveredMap

\* The operators of the instance are those of DoubleRatchet.
LEMMA SameOperators ==
    /\ Calls!Parties = Parties
    /\ \A p \in Parties : Calls!Peer(p) = Peer(p)
    /\ \A p \in Parties : Calls!Fresh(p) = Fresh(p)
    /\ Calls!SignedPrekey = SignedPrekey
    /\ \A r, f : /\ Calls!AfterSend(r, f) = AfterSend(r, f)
                 /\ Calls!Envelope(r, f) = Envelope(r, f)
                 /\ Calls!InitiatorRow(r, f) = InitiatorRow(r, f)
                 /\ Calls!ResponderRow(r, f) = ResponderRow(r, f)
    /\ \A r : (Calls!CanSend(r) <=> CanSend(r)) /\ (Calls!UsesFresh(r) <=> UsesFresh(r))
    /\ \A p, k, e : Calls!Mail(p, k, e) = Mail(p, k, e)
    /\ \A r, m : /\ Calls!AfterRecv(r, m) = AfterRecv(r, m)
                 /\ Calls!KeptKeys(r, m) = KeptKeys(r, m)
                 /\ Calls!ChainOpens(r, m) <=> ChainOpens(r, m)
    /\ \A old, new : Calls!StoreKeys(old, new) = StoreKeys(old, new)
  <1>1. /\ Calls!Parties = Parties /\ Calls!SignedPrekey = SignedPrekey
        /\ \A p \in Parties : Calls!Peer(p) = Peer(p) /\ Calls!Fresh(p) = Fresh(p)
    BY DEF Calls!Parties, Parties, Calls!SignedPrekey, SignedPrekey, Calls!Peer, Peer,
           Calls!Fresh, Fresh, Calls!Pub, Pub
  <1>2. /\ Calls!NoChain = NoChain
        /\ \A a, b : Calls!Dh(a, b) = Dh(a, b) /\ Calls!KdfRoot(a, b) = KdfRoot(a, b)
        /\ \A ck : /\ Calls!KdfChain(ck) = KdfChain(ck)
                   /\ Calls!NextChain(ck) = NextChain(ck)
                   /\ Calls!MessageKey(ck) = MessageKey(ck)
    BY DEF Calls!NoChain, NoChain, Calls!Dh, Dh, Calls!KdfRoot, KdfRoot,
           Calls!KdfChain, KdfChain, Calls!NextChain, NextChain,
           Calls!MessageKey, MessageKey
  <1>3. \A r, f : /\ Calls!InitiatorRow(r, f) = InitiatorRow(r, f)
                  /\ Calls!ResponderRow(r, f) = ResponderRow(r, f)
    BY <1>2 DEF Calls!InitiatorRow, InitiatorRow, Calls!ResponderRow, ResponderRow,
                Calls!NoPub, NoPub, Calls!Pub, Pub
  <1>4. \A r : (Calls!UsesFresh(r) <=> UsesFresh(r)) /\ (Calls!CanSend(r) <=> CanSend(r))
    BY <1>2 DEF Calls!UsesFresh, UsesFresh, Calls!CanSend, CanSend
  <1>5. \A r, f : Calls!SendStep(r, f) = SendStep(r, f)
    BY <1>2 DEF Calls!SendStep, SendStep
  <1>6. \A r, f : Calls!AfterSend(r, f) = AfterSend(r, f)
    BY <1>2, <1>5 DEF Calls!AfterSend, AfterSend
  <1>7. \A r, f : Calls!Envelope(r, f) = Envelope(r, f)
    BY <1>2, <1>5 DEF Calls!Envelope, Envelope
  <1>8. \A p, k, e : Calls!Mail(p, k, e) = Mail(p, k, e)
    BY DEF Calls!Mail, Mail
  <1>9. \A r, m : /\ Calls!NewRatchetKey(r, m) <=> NewRatchetKey(r, m)
                  /\ Calls!RecvStep(r, m) = RecvStep(r, m)
    BY <1>2 DEF Calls!NewRatchetKey, NewRatchetKey, Calls!RecvStep, RecvStep
  <1>10. /\ \A ck, n, u : /\ Calls!SkipTo(ck, n, u) = SkipTo(ck, n, u)
                          /\ Calls!IndexAfter(ck, n, u) = IndexAfter(ck, n, u)
                          /\ Calls!CanSkip(ck, n, u) <=> CanSkip(ck, n, u)
         /\ \A ck, n, u, d : Calls!SkippedKeys(ck, n, u, d) = SkippedKeys(ck, n, u, d)
    BY <1>2 DEF Calls!SkipTo, SkipTo, Calls!IndexAfter, IndexAfter,
                Calls!CanSkip, CanSkip, Calls!SkippedKeys, SkippedKeys
  <1>11. \A r, m : Calls!AfterRecv(r, m) = AfterRecv(r, m)
    BY <1>2, <1>9, <1>10 DEF Calls!AfterRecv, AfterRecv
  <1>12. \A r, m : Calls!KeptKeys(r, m) = KeptKeys(r, m)
    BY <1>9, <1>10 DEF Calls!KeptKeys, KeptKeys
  <1>13. \A r, m : Calls!ChainOpens(r, m) <=> ChainOpens(r, m)
    BY <1>2, <1>9, <1>10 DEF Calls!ChainOpens, ChainOpens, Calls!WithinSkip, WithinSkip,
                             Calls!ChainKeyFor, ChainKeyFor
  <1>14. \A old, new : Calls!StoreKeys(old, new) = StoreKeys(old, new)
    BY DEF Calls!StoreKeys, StoreKeys
  <1>. QED
    BY <1>1, <1>3, <1>4, <1>6, <1>7, <1>8, <1>11, <1>12, <1>13, <1>14

\* The keys kept for m that count as stored, and the actions of the instance on
\* the mapped variables.
Found(p, m) == {k \in SkippedMap[p] : k.dh = m.dh /\ k.n = m.n}

LEMMA MappedReads ==
    ASSUME NEW p \in Parties, NEW m
    PROVE  /\ Calls!Readable(p, m) <=> m.from = Peer(p) /\ (OpenMap[p] \/ m.kind = "init")
           /\ Calls!RowFor(p, m) =
                 IF OpenMap[p] THEN row[p] ELSE ResponderRow(SignedPrekey, Peer(p))
           /\ Calls!StoredKeys(p, m) = Found(p, m)
           /\ Calls!DropUsedKey(p, m) = SkippedMap[p] \ Found(p, m)
  <1>1. /\ Calls!Readable(p, m) <=> m.from = Peer(p) /\ (OpenMap[p] \/ m.kind = "init")
        /\ Calls!RowFor(p, m) =
              IF OpenMap[p] THEN row[p] ELSE ResponderRow(SignedPrekey, Peer(p))
    BY SameOperators DEF Calls!Readable, Calls!RowFor, OpenMap
  <1>2. Calls!StoredKeys(p, m) = Found(p, m)
    BY DEF Calls!StoredKeys, Found, SkippedMap
  <1>3. Calls!DropUsedKey(p, m) = SkippedMap[p] \ Found(p, m)
    BY <1>2 DEF Calls!DropUsedKey, SkippedMap
  <1>. QED  BY <1>1, <1>2, <1>3

\* A mail of p's peer that the instance reads on p's row as it is.
MayRead(p, m) ==
    /\ m.from = Peer(p)
    /\ OpenMap[p] \/ m.kind = "init"
    /\ ~OpenMap[p] => row[p] = ResponderRow(SignedPrekey, Peer(p))
    /\ OpenMap' = [OpenMap EXCEPT ![p] = TRUE]
    /\ UNCHANGED <<gen, sent, net>>

LEMMA MapsToRefuse ==
    ASSUME NEW p \in Parties, NEW m \in net, MayRead(p, m),
           IF Found(p, m) # {} THEN \A k \in Found(p, m) : k.mk # m.mk
                               ELSE ~ChainOpens(row[p], m),
           row' = [row EXCEPT ![p] = row[p]],
           SkippedMap' = SkippedMap, DeliveredMap' = DeliveredMap
    PROVE  Calls!Next
  <1>1. Calls!Readable(p, m) /\ Calls!RowFor(p, m) = row[p] /\ Calls!StoredKeys(p, m) = Found(p, m)
    BY MappedReads DEF MayRead
  <1>2. Calls!Refuse(p, m)
    BY <1>1, SameOperators DEF Calls!Refuse, MayRead, OpenMap, SkippedMap, DeliveredMap
  <1>. QED  BY <1>2, SameOperators DEF Calls!Next

LEMMA MapsToStored ==
    ASSUME NEW p \in Parties, NEW m \in net, MayRead(p, m),
           \E k \in Found(p, m) : k.mk = m.mk,
           row' = [row EXCEPT ![p] = row[p]],
           SkippedMap' = [SkippedMap EXCEPT ![p] = SkippedMap[p] \ Found(p, m)],
           DeliveredMap' = [DeliveredMap EXCEPT ![p] = DeliveredMap[p] \cup {m}]
    PROVE  Calls!Next
  <1>1. /\ Calls!Readable(p, m) /\ Calls!RowFor(p, m) = row[p]
        /\ Calls!StoredKeys(p, m) = Found(p, m)
        /\ Calls!DropUsedKey(p, m) = SkippedMap[p] \ Found(p, m)
    BY MappedReads DEF MayRead
  <1>2. Calls!DecryptStored(p, m)
    BY <1>1, SameOperators DEF Calls!DecryptStored, MayRead, OpenMap, SkippedMap, DeliveredMap
  <1>. QED  BY <1>2, SameOperators DEF Calls!Next

LEMMA MapsToOnChain ==
    ASSUME NEW p \in Parties, NEW m \in net, MayRead(p, m),
           Found(p, m) = {}, ChainOpens(row[p], m),
           row' = [row EXCEPT ![p] = AfterRecv(row[p], m)],
           SkippedMap' = [SkippedMap EXCEPT ![p] =
                             StoreKeys(SkippedMap[p], KeptKeys(row[p], m))],
           DeliveredMap' = [DeliveredMap EXCEPT ![p] = DeliveredMap[p] \cup {m}]
    PROVE  Calls!Next
  <1>1. /\ Calls!Readable(p, m) /\ Calls!RowFor(p, m) = row[p]
        /\ Calls!StoredKeys(p, m) = Found(p, m)
    BY MappedReads DEF MayRead
  <1>2. Calls!DecryptOnChain(p, m)
    BY <1>1, SameOperators DEF Calls!DecryptOnChain, MayRead, OpenMap, SkippedMap, DeliveredMap
  <1>. QED  BY <1>2, SameOperators DEF Calls!Next

LEMMA MapsToEncrypt ==
    ASSUME NEW p \in Parties, OpenMap[p], sent[p] < MaxSend, CanSend(row[p]),
           row' = [row EXCEPT ![p] = AfterSend(row[p], Fresh(p))],
           gen' = [gen EXCEPT ![p] = IF UsesFresh(row[p]) THEN gen[p] + 1 ELSE gen[p]],
           net' = net \cup {Mail(p, "msg", Envelope(row[p], Fresh(p)))},
           sent' = [sent EXCEPT ![p] = sent[p] + 1],
           OpenMap' = OpenMap, SkippedMap' = SkippedMap, DeliveredMap' = DeliveredMap
    PROVE  Calls!Next
  <1>1. Calls!Encrypt(p)
    BY SameOperators DEF Calls!Encrypt, OpenMap, SkippedMap, DeliveredMap
  <1>. QED  BY <1>1, SameOperators DEF Calls!Next

LEMMA MapsToInitiate ==
    ASSUME Initiate, ~OpenMap[Initiator],
           OpenMap' = [OpenMap EXCEPT ![Initiator] = TRUE],
           SkippedMap' = SkippedMap, DeliveredMap' = DeliveredMap
    PROVE  Calls!Next
  <1>1. Initiator \in Parties
    BY DEF Parties
  <1>2. Calls!Initiate
    BY <1>1, SameOperators DEF Initiate, Calls!Initiate, OpenMap, SkippedMap, DeliveredMap
  <1>. QED  BY <1>2 DEF Calls!Next

LEMMA MapsToStutter ==
    ASSUME UNCHANGED <<row, gen, sent, net>>,
           OpenMap' = OpenMap, SkippedMap' = SkippedMap, DeliveredMap' = DeliveredMap
    PROVE  UNCHANGED Calls!vars
  BY DEF Calls!vars, OpenMap, SkippedMap, DeliveredMap

LEMMA MapsToInit == StoreInit => Calls!Init
  <1>. SUFFICES ASSUME StoreInit PROVE Calls!Init
    OBVIOUS
  <1>1. \A p \in Parties, t \in Threads : call[p][t] = Idle
    BY DEF StoreInit
  <1>2. \A p \in Parties :
           ~Opening(p) /\ Inserting(p) = {} /\ OnItsWay(p) = {}
    BY <1>1, CallIs DEF Opening, Inserting, OnItsWay
  <1>. QED
    BY <1>2, SameOperators
       DEF StoreInit, Init, Calls!Init, Calls!FirstKey, FirstKey, Calls!NoPub, NoPub,
           Calls!Pub, Pub
-----------------------------------------------------------------------------
(* Step by step *)

LEMMA LinkInit == StoreInit => LinkInv
  <1>. SUFFICES ASSUME StoreInit PROVE LinkInv
    OBVIOUS
  <1>1. \A p \in Parties : skipped[p] = {}
    BY DEF StoreInit, Init
  <1>2. \A p \in Parties, t \in Threads : call[p][t].op = "idle"
    BY CallIs DEF StoreInit
  <1>3. ASSUME NEW p \in Parties PROVE PeerKey(p)
    <2>1. \A q \in Parties : /\ row[q].dhPeer = Pub(Peer(q), 0)
                             /\ row[q].dhSelf = FirstKey(q)
      BY DEF StoreInit, Init, ResponderRow, NoPub
    <2>2. \A q \in Parties : FirstKey(q).gen >= 0
      BY DEF FirstKey, SignedPrekey, NoPub, Pub
    <2>3. row[p].dhPeer.owner = Peer(p) /\ row[p].dhPeer.gen = 0
      <3>1. row[p].dhPeer = Pub(Peer(p), 0)
        BY <2>1
      <3>2. Pub(Peer(p), 0).owner = Peer(p) /\ Pub(Peer(p), 0).gen = 0
        BY DEF Pub
      <3>. QED  BY <3>1, <3>2
    <2>4. row[Peer(p)].dhSelf.gen >= 0
      BY <2>1, <2>2, PeerIsParty
    <2>5. FirstKey(Peer(p)).gen \in Nat
      BY FirstKeyGen, PeerIsParty
    <2>. QED  BY <2>1, <2>3, <2>4, <2>5, PeerIsParty DEF PeerKey
  <1>. QED  BY <1>1, <1>2, <1>3 DEF LinkInv, KeysPast, Reads, Reading

\* After a step of p's thread it is enough to look at p.
LEMMA LinkKept ==
    ASSUME StoreType, LinkInv,
           NEW p \in Parties, NEW t \in Threads, NEW c \in Call, Enter(p, t, c),
           Alone(p, t),
           \A q \in Parties : PeerKey(q)',
           Reads(p, c)',
           \A k \in skipped'[p] \ Ahead(c) : Past(row'[p], k),
           open'[p] \/ skipped'[p] = {},
           \A q \in Parties \ {p} :
              row'[q] = row[q] /\ skipped'[q] = skipped[q] /\ open'[q] = open[q]
    PROVE  LinkInv'
  <1>1. \A q \in Parties, u \in Threads :
           call'[q][u] = IF q = p /\ u = t THEN c ELSE call[q][u]
    BY EnterIs
  <1>2. KeysPast(p)'
    <2>1. call'[p][t] = c
      BY <1>1
    <2>2. Inserting(p)' = Ahead(c)
      BY <2>1, AloneKept, OneCallNext
    <2>. QED  BY <2>2 DEF KeysPast
  <1>3. ASSUME NEW q \in Parties \ {p} PROVE KeysPast(q)'
    <2>1. \A u \in Threads : call'[q][u] = call[q][u]
      BY <1>1
    <2>2. Inserting(q)' = Inserting(q)
      BY <2>1, OneCallKept
    <2>3. KeysPast(q)
      BY DEF LinkInv
    <2>. QED  BY <2>2, <2>3 DEF KeysPast
  <1>4. ASSUME NEW q \in Parties, NEW u \in Threads PROVE Reads(q, call[q][u])'
    <2>1. CASE q = p /\ u = t
      BY <1>1, <2>1
    <2>3. CASE q = p /\ u # t
      <3>1. call'[q][u].op \notin Reading
        BY <1>1, <2>3 DEF Alone
      <3>. QED  BY <3>1 DEF Reads, Reading
    <2>2. CASE q # p
      <3>1. Reads(q, call[q][u])
        BY DEF LinkInv
      <3>. QED  BY <1>1, <2>2, <3>1 DEF Reads, StoredKeys
    <2>. QED  BY <2>1, <2>2, <2>3
  <1>. QED  BY <1>2, <1>3, <1>4 DEF LinkInv

\* What p's call knows before a step, the rows and the keys of the others.
Linked(p, t) ==
    /\ StoreType /\ RatchetInv /\ AllHold /\ LinkInv /\ faults = {}
    /\ p \in Parties /\ t \in Threads /\ Alone(p, t)

LEMMA LinkedIs ==
    ASSUME NEW p, NEW t, Linked(p, t)
    PROVE  LET c == call[p][t]
           IN  /\ Alone(p, t) /\ StoreType /\ TypeOK /\ RatchetInv /\ LinkInv
               /\ p \in Parties /\ t \in Threads /\ c \in Call
               /\ Holds(p, c) /\ Reads(p, c)
               /\ \A q \in Parties : PeerKey(q)
               /\ \A k \in skipped[p] \ Ahead(c) : Past(row[p], k)
               /\ open[p] \/ skipped[p] = {}
               /\ c.op \in Reading \cup {"plaintext"} => c.mail \in net
               /\ Idle \in Call /\ Idle.op = "idle"
               /\ \A table, rows : Written(table, p, rows) = {[table EXCEPT ![p] = rows]}
  <1>1. /\ Alone(p, t) /\ StoreType /\ TypeOK /\ RatchetInv /\ LinkInv /\ AllHold
        /\ p \in Parties /\ t \in Threads /\ faults = {}
    BY DEF Linked, StoreType
  <1>2. /\ call[p][t] \in Call /\ Idle \in Call /\ Idle.op = "idle"
        /\ call[p][t].op \in Reading \cup {"plaintext"} => call[p][t].mail \in net
    BY <1>1, CallIs DEF StoreType
  <1>3. /\ Holds(p, call[p][t]) /\ Reads(p, call[p][t])
        /\ \A q \in Parties : PeerKey(q)
        /\ KeysPast(p)
    BY <1>1 DEF AllHold, LinkInv
  <1>4. Inserting(p) = Ahead(call[p][t])
    BY <1>1, OneCall
  <1>5. \A table, rows : Written(table, p, rows) = {[table EXCEPT ![p] = rows]}
    BY <1>1 DEF Written
  <1>. QED  BY <1>1, <1>2, <1>3, <1>4, <1>5 DEF KeysPast

\* A call that goes from one state without rows ahead to another, and touches
\* no table, is no step of the session.
LEMMA CallStutters ==
    ASSUME NEW p, NEW t, Linked(p, t), NEW c \in Call, Enter(p, t, c),
           UNCHANGED <<row, skipped, gen, sent, net, delivered>>,
           \A q \in Parties \ {p} : open'[q] = open[q],
           call[p][t].op \in {"idle", "encrypt"},
           c.op \notin {"keys", "plaintext"}, Reads(p, c),
           open'[p] \/ skipped[p] = {},
           open[p] <=> open'[p] /\ ~Unopened(c),
           open \in [Parties -> BOOLEAN]
    PROVE  LinkInv' /\ UNCHANGED Calls!vars
  <1>1. /\ Alone(p, t) /\ StoreType /\ LinkInv /\ p \in Parties /\ t \in Threads
        /\ \A q \in Parties : PeerKey(q)
        /\ \A k \in skipped[p] \ Ahead(call[p][t]) : Past(row[p], k)
    BY LinkedIs
  <1>2. /\ ~Unopened(call[p][t]) /\ Ahead(call[p][t]) = {} /\ OnWay(call[p][t]) = {}
        /\ Ahead(c) = {} /\ OnWay(c) = {}
    BY DEF Unopened, Ahead, OnWay, Reading
  <1>3. (\A q \in Parties : PeerKey(q)') /\ Reads(p, c)'
    BY <1>1 DEF PeerKey, Reads, StoredKeys
  <1>4. LinkInv'
    BY <1>1, <1>2, <1>3, LinkKept
  <1>5. /\ OpenMap' = [OpenMap EXCEPT ![p] = open'[p] /\ ~Unopened(c)]
        /\ SkippedMap' = [SkippedMap EXCEPT ![p] = skipped'[p] \ Ahead(c)]
        /\ DeliveredMap' = [DeliveredMap EXCEPT ![p] = delivered'[p] \cup OnWay(c)]
        /\ OpenMap[p] <=> open[p] /\ ~Unopened(call[p][t])
        /\ SkippedMap[p] = skipped[p] \ Ahead(call[p][t])
        /\ DeliveredMap[p] = delivered[p] \cup OnWay(call[p][t])
    BY <1>1, MapsMove
  <1>6. SkippedMap' = SkippedMap /\ DeliveredMap' = DeliveredMap
    BY <1>2, <1>5 DEF SkippedMap, DeliveredMap
  <1>7. OpenMap' = OpenMap
    BY <1>2, <1>5 DEF OpenMap
  <1>. QED  BY <1>4, <1>6, <1>7, MapsToStutter

\* A step of a thread of p that encrypts, before and after: what the other calls
\* know stands if the row does, or if none of them has a copy of it.
LEMMA EncryptKeepsLink ==
    ASSUME StoreType, LinkInv, NEW p \in Parties, NEW t \in Threads, NEW c \in Call,
           Enter(p, t, c),
           call[p][t].op \in {"idle", "encrypt"}, c.op \in {"idle", "encrypt"},
           UNCHANGED <<open, skipped, delivered>>,
           \A q \in Parties : PeerKey(q)',
           \A q \in Parties \ {p} : row'[q] = row[q],
           row'[p].dhPeer = row[p].dhPeer /\ row'[p].recvN = row[p].recvN,
           row'[p] = row[p] \/ ~Copied(p, t)
    PROVE  /\ LinkInv'
           /\ OpenMap' = OpenMap /\ SkippedMap' = SkippedMap
           /\ DeliveredMap' = DeliveredMap
  <1>1. \A q \in Parties, u \in Threads :
           call'[q][u] = IF q = p /\ u = t THEN c ELSE call[q][u]
    BY EnterIs
  <1>2. ASSUME NEW q \in Parties
        PROVE  /\ Opening(q)' = Opening(q)
               /\ Inserting(q)' = Inserting(q)
               /\ OnItsWay(q)' = OnItsWay(q)
    <2>1. \A u \in Threads :
             \/ call'[q][u] = call[q][u]
             \/ /\ call[q][u].op \in {"idle", "encrypt"}
                /\ call'[q][u].op \in {"idle", "encrypt"}
      BY <1>1
    <2>. QED  BY <2>1, OneCallKept
  <1>3. /\ OpenMap' = OpenMap /\ SkippedMap' = SkippedMap
        /\ DeliveredMap' = DeliveredMap
    BY <1>2 DEF OpenMap, SkippedMap, DeliveredMap
  <1>4. ASSUME NEW q \in Parties PROVE KeysPast(q)'
    <2>1. KeysPast(q)
      BY DEF LinkInv
    <2>2. row'[q].dhPeer = row[q].dhPeer /\ row'[q].recvN = row[q].recvN
      OBVIOUS
    <2>. QED  BY <1>2, <2>1, <2>2 DEF KeysPast, Past
  <1>5. ASSUME NEW q \in Parties, NEW u \in Threads PROVE Reads(q, call[q][u])'
    <2>1. Reads(q, call[q][u])
      BY DEF LinkInv
    <2>2. CASE q = p /\ u = t
      BY <1>1, <2>2 DEF Reads, Reading
    <2>3. CASE q = p /\ u # t /\ ~Copied(p, t)
      <3>1. call'[q][u].op \notin Reading
        BY <1>1, <2>3, OthersIdle
      <3>. QED  BY <3>1 DEF Reads, Reading
    <2>4. CASE row'[q] = row[q] /\ ~(q = p /\ u = t)
      <3>1. call'[q][u] = call[q][u] /\ skipped' = skipped
        BY <1>1, <2>4
      <3>. QED  BY <2>1, <2>4, <3>1 DEF Reads, StoredKeys
    <2>. QED  BY <2>2, <2>3, <2>4
  <1>6. LinkInv'
    BY <1>4, <1>5 DEF LinkInv
  <1>. QED  BY <1>3, <1>6

LEMMA EncryptStepsLink ==
    ASSUME StoreType, RatchetInv, AllHold, LinkInv, faults = {}, ~raced',
           NEW p \in Parties, NEW t \in Threads,
           BeginEncrypt(p, t) \/ EndEncrypt(p, t) \/ EncryptFails(p, t)
    PROVE  LinkInv' /\ [Calls!Next]_Calls!vars
  <1>. DEFINE r == row[p]
  <1>1. /\ TypeOK /\ call[p][t] \in Call /\ Holds(p, call[p][t])
        /\ \A q \in Parties : PeerKey(q)
        /\ Idle \in Call /\ Idle.op = "idle"
    BY CallIs DEF StoreType, AllHold, LinkInv
  <1>2. CASE BeginEncrypt(p, t)
    <2>. PICK c : c = [op |-> "encrypt", row |-> r]
      OBVIOUS
    <2>1. Enter(p, t, c) /\ vars' = vars /\ call[p][t].op = "idle"
      BY <1>1, <1>2 DEF BeginEncrypt
    <2>2. c \in Call /\ c.op = "encrypt"
      BY <1>1 DEF Call, TypeOK
    <2>3. UNCHANGED <<open, row, skipped, gen, sent, net, delivered>>
      BY <2>1 DEF vars
    <2>4. \A q \in Parties : PeerKey(q)'
      BY <1>1, <2>3 DEF PeerKey
    <2>5. /\ LinkInv' /\ OpenMap' = OpenMap /\ SkippedMap' = SkippedMap
          /\ DeliveredMap' = DeliveredMap
      BY <2>1, <2>2, <2>3, <2>4, EncryptKeepsLink
    <2>. QED  BY <2>3, <2>5, MapsToStutter
  <1>3. CASE EndEncrypt(p, t)
    <2>0. call[p][t].op = "encrypt" /\ Enter(p, t, Idle) /\ ~Copied(p, t)
      BY <1>3 DEF EndEncrypt
    <2>1. /\ call[p][t].row = r /\ open[p]
          /\ sent[p] < MaxSend /\ CanSend(r)
      <3>1. Holds(p, call[p][t])
        BY <1>1
      <3>. QED  BY ONLY <2>0, <3>1 DEF Holds
    <2>2. /\ row' = [row EXCEPT ![p] = AfterSend(r, Fresh(p))]
          /\ gen' = [gen EXCEPT ![p] = IF UsesFresh(r) THEN gen[p] + 1 ELSE gen[p]]
          /\ net' = net \cup {Mail(p, "msg", Envelope(r, Fresh(p)))}
          /\ sent' = [sent EXCEPT ![p] = sent[p] + 1]
          /\ UNCHANGED <<open, skipped, delivered>>
      BY <1>3, <2>1 DEF EndEncrypt
    <2>3. /\ r \in RatchetRow /\ r.dhSelf \in PubKey /\ r.dhPeer \in PubKey
          /\ Fresh(p) \in PubKey /\ gen[p] \in Nat
      BY <1>1, RowFacts, FreshType
    <2>4. /\ row'[p].dhPeer = r.dhPeer /\ row'[p].recvN = r.recvN
          /\ row'[p].dhSelf = r.dhSelf \/ row'[p].dhSelf = Fresh(p)
      <3>1. row'[p] = AfterSend(r, Fresh(p))
        BY <1>1, <2>2 DEF TypeOK
      <3>. QED  BY <2>3, <3>1, SendOnChain, SendOnNewChain, SendCounts
    <2>5. \A q \in Parties \ {p} : row'[q] = row[q]
      BY <1>1, <2>2 DEF TypeOK
    <2>6. \A q \in Parties : PeerKey(q)'
      <3>1. r.dhSelf.gen \in Nat /\ r.dhSelf.gen <= gen[p] /\ Fresh(p).gen = gen[p] + 1
        BY <1>1, <2>3 DEF PubKey, RatchetInv, OwnKeys, Fresh, Pub
      <3>2. r.dhSelf.gen <= row'[p].dhSelf.gen /\ row'[p].dhSelf.gen \in Nat
        BY <2>3, <2>4, <3>1
      <3>3. PeerKey(p)'
        <4>1. row'[Peer(p)] = row[Peer(p)]
          BY <1>1, <2>5, PeerIsParty
        <4>. QED  BY <1>1, <2>4, <4>1 DEF PeerKey
      <3>4. ASSUME NEW q \in Parties \ {p} PROVE PeerKey(q)'
        <4>1. Peer(q) = p
          BY <1>1, PeerIsParty DEF Peer, Parties
        <4>2. row[q].dhPeer \in PubKey
          BY <1>1, RowFacts
        <4>3. row[q].dhPeer.gen \in Nat /\ row[q].dhPeer.gen <= r.dhSelf.gen
              /\ row[q].dhPeer.owner = p
          BY <1>1, <4>1, <4>2 DEF PeerKey, PubKey
        <4>4. row[q].dhPeer.gen <= row'[p].dhSelf.gen
          BY <3>1, <3>2, <4>3
        <4>. QED  BY <2>5, <4>1, <4>3, <4>4 DEF PeerKey
      <3>. QED  BY <3>3, <3>4
    <2>7. /\ LinkInv' /\ OpenMap' = OpenMap /\ SkippedMap' = SkippedMap
          /\ DeliveredMap' = DeliveredMap
      BY <1>1, <2>0, <2>2, <2>4, <2>5, <2>6, EncryptKeepsLink
    <2>8. OpenMap[p]
      <3>1. \A u \in Threads : call[p][u].op \notin Reading
        BY <2>0, OthersIdle DEF Reading
      <3>2. ~Opening(p)
        BY <3>1 DEF Opening, Reading
      <3>. QED  BY <2>1, <3>2 DEF OpenMap
    <2>9. Calls!Next
      BY <2>1, <2>2, <2>7, <2>8, MapsToEncrypt
    <2>. QED  BY <2>7, <2>9
  <1>4. CASE EncryptFails(p, t)
    BY <1>4 DEF EncryptFails
  <1>. QED  BY <1>2, <1>3, <1>4

LEMMA InitiateLink ==
    ASSUME StoreType, RatchetInv, AllHold, LinkInv, StoreInitiate
    PROVE  LinkInv' /\ [Calls!Next]_Calls!vars
  <1>. DEFINE i == Initiator
              self == Fresh(i)
              r == InitiatorRow(self, SignedPrekey)
  <1>1. /\ Initiate /\ call' = call /\ TypeOK
        /\ i \in Parties /\ Responder \in Parties /\ Responder # i
        /\ Peer(i) = Responder /\ Peer(Responder) = i
    BY PartyAssumption DEF StoreInitiate, StoreType, Parties, Peer
  <1>2. /\ ~open[i] /\ open' = [open EXCEPT ![i] = TRUE]
        /\ row' = [row EXCEPT ![i] = AfterSend(r, self)]
        /\ skipped' = skipped /\ delivered' = delivered
    BY <1>1 DEF Initiate
  <1>3. /\ skipped[i] = {}
        /\ \A t \in Threads : call[i][t].op \notin Reading \cup {"encrypt"}
    BY <1>1, <1>2 DEF LinkInv, KeysPast, AllHold, Holds
  <1>4. row[Responder] = ResponderRow(SignedPrekey, i)
    BY <1>1, <1>2 DEF RatchetInv, Fledgling
  <1>5. row'[Responder] = row[Responder] /\ row'[i] = AfterSend(r, self)
        /\ open'[Responder] = open[Responder] /\ open'[i]
    BY <1>1, <1>2 DEF TypeOK
  <1>6. self \in PubKey /\ SignedPrekey \in PubKey /\ gen[i] \in Nat
    BY <1>1, FreshType, RowFacts, PubIsKey DEF SignedPrekey
  <1>7. r \in RatchetRow /\ r.sendCk # NoChain /\ r.dhSelf = self /\ r.dhPeer = SignedPrekey
    <2>1. r \in RatchetRow
      BY <1>6, InitiatorRowType
    <2>2. KdfRoot(<<>>, Dh(self, SignedPrekey)) # <<>>
      <3>1. <<>> \in Seq(SUBSET PubKey) /\ Dh(self, SignedPrekey) \in SUBSET PubKey
        BY <1>6, DhType
      <3>. QED  BY <3>1, RootType
    <2>. QED  BY <2>1, <2>2 DEF InitiatorRow, KdfChain, NoChain
  <1>8. row'[i].dhSelf = self /\ row'[i].dhPeer = SignedPrekey
    BY <1>5, <1>6, <1>7, SendOnChain
  <1>9. PeerKey(i)' /\ PeerKey(Responder)'
    <2>1. /\ row[Responder].dhPeer = Pub(i, 0) /\ row[Responder].dhSelf = SignedPrekey
          /\ SignedPrekey.owner = Responder /\ SignedPrekey.gen = 1
          /\ Pub(i, 0).owner = i /\ Pub(i, 0).gen = 0 /\ self.gen = gen[i] + 1
      BY <1>4 DEF ResponderRow, SignedPrekey, NoPub, Pub, Fresh
    <2>. QED  BY <1>1, <1>5, <1>6, <1>8, <2>1 DEF PeerKey
  <1>10. \A p \in Parties, t \in Threads : call'[p][t] = call[p][t]
    BY <1>1
  <1>11. \A p \in Parties : /\ Opening(p)' = Opening(p) /\ Inserting(p)' = Inserting(p)
                            /\ OnItsWay(p)' = OnItsWay(p)
    BY <1>10, OneCallKept
  <1>12. ~Opening(i) /\ ~Opening(i)'
    <2>1. ~Opening(i)
      BY <1>3 DEF Opening, Reading
    <2>. QED  BY <1>1, <1>11, <2>1
  <1>13. \A p \in Parties : p = i \/ p = Responder
    BY DEF Parties
  <1>14. \A p \in Parties : KeysPast(p)'
    <2>1. KeysPast(i)'
      BY <1>2, <1>3, <1>5 DEF KeysPast
    <2>2. KeysPast(Responder)'
      <3>1. KeysPast(Responder)
        BY <1>1 DEF LinkInv
      <3>. QED  BY <1>1, <1>2, <1>5, <1>11, <3>1 DEF KeysPast
    <2>. QED  BY <1>13, <2>1, <2>2
  <1>15. \A p \in Parties, t \in Threads : Reads(p, call[p][t])'
    <2>1. \A t \in Threads : Reads(i, call[i][t])'
      BY <1>1, <1>3 DEF Reads, Reading
    <2>2. \A t \in Threads : Reads(Responder, call[Responder][t])'
      <3>1. \A t \in Threads : Reads(Responder, call[Responder][t])
        BY <1>1 DEF LinkInv
      <3>. QED  BY <1>1, <1>2, <1>5, <3>1 DEF Reads, StoredKeys
    <2>. QED  BY <1>13, <2>1, <2>2
  <1>16. LinkInv'
    BY <1>9, <1>13, <1>14, <1>15 DEF LinkInv
  <1>17. SkippedMap' = SkippedMap /\ DeliveredMap' = DeliveredMap
    BY <1>2, <1>11 DEF SkippedMap, DeliveredMap
  <1>18. /\ OpenMap' = [OpenMap EXCEPT ![i] = TRUE] /\ ~OpenMap[i]
    BY <1>1, <1>2, <1>5, <1>11, <1>12, <1>13 DEF OpenMap
  <1>19. Calls!Next
    BY <1>1, <1>17, <1>18, MapsToInitiate
  <1>. QED  BY <1>16, <1>19

LEMMA BeginDecryptLink ==
    ASSUME NEW p, NEW t, Linked(p, t), NEW m \in net, BeginDecrypt(p, t, m)
    PROVE  LinkInv' /\ [Calls!Next]_Calls!vars
  <1>. DEFINE op == IF StoredKeys(p, m) # {} THEN "stored" ELSE "chain"
              keys == IF StoredKeys(p, m) # {} THEN StoredKeys(p, m)
                      ELSE KeptKeys(RowFor(p, m), m)
              r == RowFor(p, m)
  <1>. PICK c : c = [op |-> op, mail |-> m, row |-> r, opened |-> ~open[p],
                     keys |-> keys]
    OBVIOUS
  <1>1. /\ TypeOK /\ RatchetInv /\ p \in Parties /\ t \in Threads /\ m \in Message
        /\ row \in [Parties -> RatchetRow] /\ open \in [Parties -> BOOLEAN]
    BY LinkedIs DEF TypeOK
  <1>2. r = row[p] /\ r \in RatchetRow
    BY <1>1, RowForIsRow
  <1>3. keys \subseteq StoredKey /\ op \in {"stored", "chain"} /\ (~open[p]) \in BOOLEAN
    BY <1>1, <1>2, KeptKeysType DEF StoredKeys, TypeOK
  <1>4. /\ Enter(p, t, c) /\ UNCHANGED <<skipped, gen, sent, net, delivered>>
        /\ open' = [open EXCEPT ![p] = TRUE] /\ row' = [row EXCEPT ![p] = r]
        /\ call[p][t].op = "idle" /\ m.from = Peer(p) /\ (open[p] \/ m.kind = "init")
    BY LinkedIs DEF BeginDecrypt, Readable
  <1>5. row' = row /\ open'[p] /\ \A q \in Parties \ {p} : open'[q] = open[q]
    BY <1>1, <1>2, <1>4
  <1>6. ~open[p] => row[p] = ResponderRow(SignedPrekey, Peer(p))
    BY <1>2 DEF RowFor
  <1>7. op = "stored" => keys = StoredKeys(p, m) /\ keys # {}
    OBVIOUS
  <1>8. op = "chain" => StoredKeys(p, m) = {} /\ keys = KeptKeys(row[p], m)
    BY <1>2
  <1>. HIDE DEF op, keys, r
  <1>9. c.op = op /\ c.mail = m /\ c.keys = keys /\ c.opened = ~open[p]
    OBVIOUS
  <1>10. c \in Call
    BY <1>1, <1>2, <1>3 DEF Call, Reading
  <1>11. Reads(p, c)
    BY <1>3, <1>4, <1>6, <1>7, <1>8, <1>9 DEF Reads
  <1>12. c.op \in Reading /\ c.op \notin {"keys", "plaintext"}
    BY <1>3, <1>9 DEF Reading
  <1>13. open[p] <=> open'[p] /\ ~Unopened(c)
    BY <1>5, <1>9, <1>12 DEF Unopened
  <1>. QED
    BY <1>1, <1>4, <1>5, <1>10, <1>11, <1>12, <1>13, CallStutters

\* A call that reads, in the state of the session: its mail may be read on the
\* row as it is, and what the step leaves alone.
LEMMA ReadingMaps ==
    ASSUME NEW p, NEW t, Linked(p, t), call[p][t].op \in Reading,
           NEW c \in Call, Enter(p, t, c),
           UNCHANGED <<open, gen, sent, net, delivered>>,
           \A q \in Parties \ {p} : skipped'[q] = skipped[q]
    PROVE  LET d == call[p][t]
           IN  /\ ~Unopened(c) => MayRead(p, d.mail)
               /\ Unopened(c) = Unopened(d) => OpenMap' = OpenMap
               /\ SkippedMap[p] = skipped[p] \ Ahead(d)
               /\ SkippedMap' = [SkippedMap EXCEPT ![p] = skipped'[p] \ Ahead(c)]
               /\ DeliveredMap' = [DeliveredMap EXCEPT ![p] = DeliveredMap[p] \cup OnWay(c)]
  <1>. DEFINE d == call[p][t]
  <1>1. /\ Alone(p, t) /\ StoreType /\ p \in Parties /\ t \in Threads
        /\ Holds(p, d) /\ Reads(p, d)
    BY LinkedIs
  <1>2. open[p] /\ d.mail.from = Peer(p)
    BY <1>1 DEF Holds
  <1>3. d.opened => row[p] = ResponderRow(SignedPrekey, Peer(p)) /\ d.mail.kind = "init"
    BY <1>1 DEF Reads
  <1>4. OnWay(d) = {}
    BY DEF OnWay, Reading
  <1>5. /\ OpenMap' = [OpenMap EXCEPT ![p] = open'[p] /\ ~Unopened(c)]
        /\ SkippedMap' = [SkippedMap EXCEPT ![p] = skipped'[p] \ Ahead(c)]
        /\ DeliveredMap' = [DeliveredMap EXCEPT ![p] = delivered'[p] \cup OnWay(c)]
        /\ OpenMap[p] <=> open[p] /\ ~Unopened(d)
        /\ SkippedMap[p] = skipped[p] \ Ahead(d)
        /\ DeliveredMap[p] = delivered[p] \cup OnWay(d)
    BY <1>1, MapsMove
  <1>6. ~Unopened(c) => OpenMap' = [OpenMap EXCEPT ![p] = TRUE]
    BY <1>2, <1>5
  <1>7. ~Unopened(c) => MayRead(p, d.mail)
    BY <1>2, <1>3, <1>5, <1>6 DEF MayRead, Unopened
  <1>8. Unopened(c) = Unopened(d) => OpenMap' = OpenMap
    BY <1>1, <1>2, <1>5 DEF OpenMap
  <1>9. DeliveredMap' = [DeliveredMap EXCEPT ![p] = DeliveredMap[p] \cup OnWay(c)]
    BY <1>4, <1>5
  <1>. QED  BY <1>5, <1>7, <1>8, <1>9

\* The keys a mail that opens leaves behind, and those the session has already.
LEMMA OpensPast ==
    ASSUME NEW p, NEW t, Linked(p, t), call[p][t].op \in {"chain", "keys"},
           call[p][t].op = "chain" => Opens(call[p][t])
    PROVE  LET m == call[p][t].mail
               kept == KeptKeys(row[p], m)
               old == skipped[p] \ Ahead(call[p][t])
           IN  /\ ChainOpens(row[p], m) /\ m \in net /\ m \in Message
               /\ m.from = Peer(p) /\ call[p][t].row = row[p]
               /\ NewRatchetKey(row[p], m) =>
                     m.dh = row[Peer(p)].dhSelf /\ m.dh.owner = Peer(p)
               /\ \A k \in kept : Past(AfterRecv(row[p], m), k)
               /\ \A k \in old : /\ Past(AfterRecv(row[p], m), k)
                                 /\ \A j \in kept : j.dh # k.dh \/ j.n # k.n
               /\ \A j, k \in kept : j.dh = k.dh /\ j.n = k.n => j = k
               /\ Found(p, m) = {}
               /\ open[p]
  <1>. DEFINE d == call[p][t]
              m == d.mail
              kept == KeptKeys(row[p], m)
              old == skipped[p] \ Ahead(d)
  <1>1. /\ Alone(p, t) /\ StoreType /\ TypeOK /\ RatchetInv /\ p \in Parties /\ t \in Threads
        /\ Holds(p, d) /\ Reads(p, d) /\ PeerKey(p)
        /\ \A k \in old : Past(row[p], k)
        /\ m \in net /\ d.op \in Reading
    BY LinkedIs DEF Reading
  <1>2. open[p] /\ d.row = row[p] /\ m.from = Peer(p) /\ (d.op = "keys" => ChainOpens(row[p], m))
    BY <1>1 DEF Holds
  <1>3. ChainOpens(row[p], m)
    BY <1>2 DEF Opens
  <1>4. m \in Message /\ row[p] \in RatchetRow /\ old \subseteq StoredKey
    BY <1>1, RowFacts DEF TypeOK
  <1>5. NewRatchetKey(row[p], m) =>
           /\ m.dh = row[Peer(p)].dhSelf /\ m.dh.owner = Peer(p)
           /\ row[p].dhPeer.gen < m.dh.gen
    BY <1>1, <1>2, <1>3, NewKeyLater
  <1>6. /\ \A k \in kept : Past(AfterRecv(row[p], m), k)
        /\ \A k \in StoredKey : Past(row[p], k) =>
              /\ Past(AfterRecv(row[p], m), k)
              /\ \A j \in kept : j.dh # k.dh \/ j.n # k.n
        /\ \A j, k \in kept : j.dh = k.dh /\ j.n = k.n => j = k
    BY <1>4, <1>5, KeptArePast
  <1>7. Found(p, m) = {}
    <2>1. SkippedMap[p] = old
      BY <1>1, OneCall DEF SkippedMap
    <2>2. d.op = "keys" => Ahead(d) = kept /\ StoredKeys(p, m) \subseteq kept
      BY <1>1, <1>2 DEF Ahead, Reads
    <2>3. d.op = "chain" => StoredKeys(p, m) = {}
      BY <1>1 DEF Reads
    <2>. QED  BY <2>1, <2>2, <2>3 DEF Found, StoredKeys
  <1>. HIDE DEF kept, old, m
  <1>8. \A k \in old : /\ Past(AfterRecv(row[p], m), k)
                       /\ \A j \in kept : j.dh # k.dh \/ j.n # k.n
    BY <1>1, <1>4, <1>6
  <1>. QED  BY <1>1, <1>2, <1>3, <1>4, <1>5, <1>6, <1>7, <1>8 DEF kept, old, m

LEMMA DecryptFailsLink ==
    ASSUME NEW p, NEW t, Linked(p, t), DecryptFails(p, t)
    PROVE  LinkInv' /\ [Calls!Next]_Calls!vars
  <1>. DEFINE d == call[p][t]
              m == d.mail
  <1>1. /\ Alone(p, t) /\ StoreType /\ TypeOK /\ LinkInv /\ p \in Parties /\ t \in Threads
        /\ Holds(p, d) /\ Reads(p, d)
        /\ \A q \in Parties : PeerKey(q)
        /\ \A k \in skipped[p] \ Ahead(d) : Past(row[p], k)
        /\ open[p] \/ skipped[p] = {}
        /\ Idle \in Call /\ Idle.op = "idle"
    BY LinkedIs
  <1>2. /\ d.op \in {"stored", "chain"} /\ d.op \in Reading /\ ~Opens(d) /\ Enter(p, t, Idle)
        /\ UNCHANGED <<open, row, skipped, gen, sent, net, delivered>>
    BY DEF DecryptFails, vars, Reading
  <1>3. m \in net /\ d.row = row[p]
    <2>1. d.op \in Reading \cup {"plaintext"} => m \in net
      BY <1>1 DEF StoreType
    <2>. QED  BY <1>1, <1>2, <2>1 DEF Holds
  <1>4. Ahead(d) = {} /\ Ahead(Idle) = {} /\ OnWay(Idle) = {} /\ ~Unopened(Idle)
    BY <1>1, <1>2 DEF Ahead, OnWay, Unopened, Reading
  <1>5. LinkInv'
    <2>1. Reads(p, Idle)' /\ \A q \in Parties : PeerKey(q)'
      BY <1>1, <1>2 DEF Reads, Reading, PeerKey
    <2>. QED  BY <1>1, <1>2, <1>4, <2>1, LinkKept
  <1>6. /\ MayRead(p, m)
        /\ SkippedMap[p] = skipped[p]
        /\ SkippedMap' = [SkippedMap EXCEPT ![p] = SkippedMap[p]]
        /\ DeliveredMap' = [DeliveredMap EXCEPT ![p] = DeliveredMap[p]]
    <2>1. /\ MayRead(p, m)
          /\ SkippedMap[p] = skipped[p] \ Ahead(d)
          /\ SkippedMap' = [SkippedMap EXCEPT ![p] = skipped'[p] \ Ahead(Idle)]
          /\ DeliveredMap' = [DeliveredMap EXCEPT ![p] = DeliveredMap[p] \cup OnWay(Idle)]
      <3>1. /\ d.op \in Reading /\ Enter(p, t, Idle) /\ Idle \in Call /\ ~Unopened(Idle)
            /\ \A q \in Parties \ {p} : skipped'[q] = skipped[q]
        BY <1>1, <1>2, <1>4
      <3>2. UNCHANGED <<open, gen, sent, net, delivered>>
        BY <1>2
      <3>. QED  BY ONLY <3>1, <3>2, Linked(p, t), ReadingMaps
    <2>2. /\ skipped[p] \ {} = skipped[p] /\ skipped' = skipped
          /\ DeliveredMap[p] \cup {} = DeliveredMap[p]
      BY <1>2
    <2>. QED  BY <1>4, <2>1, <2>2
  <1>7. SkippedMap' = SkippedMap /\ DeliveredMap' = DeliveredMap
        /\ row' = [row EXCEPT ![p] = row[p]]
    BY <1>1, <1>2, <1>6, MapsAsTheyAre DEF TypeOK
  <1>8. Found(p, m) = StoredKeys(p, m)
    BY <1>6 DEF Found, StoredKeys
  <1>9. IF Found(p, m) # {} THEN \A k \in Found(p, m) : k.mk # m.mk
                            ELSE ~ChainOpens(row[p], m)
    BY <1>1, <1>2, <1>3, <1>8 DEF Opens, Reads
  <1>10. Calls!Next
    BY <1>1, <1>3, <1>6, <1>7, <1>9, MapsToRefuse
  <1>. QED  BY <1>5, <1>10

LEMMA DeleteKeyLink ==
    ASSUME NEW p, NEW t, Linked(p, t), DeleteKey(p, t)
    PROVE  LinkInv' /\ [Calls!Next]_Calls!vars
  <1>. DEFINE d == call[p][t]
              m == d.mail
  <1>. PICK c : c = [op |-> "plaintext", mail |-> m]
    OBVIOUS
  <1>1. /\ Alone(p, t) /\ StoreType /\ TypeOK /\ LinkInv /\ p \in Parties /\ t \in Threads
        /\ Holds(p, d) /\ Reads(p, d)
        /\ \A q \in Parties : PeerKey(q)
        /\ \A k \in skipped[p] \ Ahead(d) : Past(row[p], k)
        /\ open[p] \/ skipped[p] = {}
    BY LinkedIs
  <1>2. /\ d.op = "stored" /\ d.op \in Reading /\ Opens(d) /\ Enter(p, t, c)
        /\ UNCHANGED <<open, row, gen, sent, net, delivered>>
    BY DEF DeleteKey, Reading
  <1>3. skipped' = [skipped EXCEPT ![p] = skipped[p] \ StoredKeys(p, m)]
    <2>1. skipped' \in Written(skipped, p, DropUsedKey(p, m))
      BY DEF DeleteKey
    <2>. QED  BY <2>1, LinkedIs DEF DropUsedKey
  <1>4. /\ skipped'[p] = skipped[p] \ StoredKeys(p, m)
        /\ \A q \in Parties \ {p} : skipped'[q] = skipped[q]
    BY <1>1, <1>3 DEF TypeOK
  <1>5. m \in net /\ m \in Message
    BY <1>1, <1>2 DEF StoreType, TypeOK
  <1>6. c \in Call /\ c.op = "plaintext" /\ c.mail = m
    BY <1>5 DEF Call
  <1>7. Ahead(d) = {} /\ Ahead(c) = {} /\ OnWay(c) = {m} /\ ~Unopened(c)
    BY <1>2, <1>6 DEF Ahead, OnWay, Unopened, Reading
  <1>8. LinkInv'
    <2>1. Reads(p, c)' /\ \A q \in Parties : PeerKey(q)'
      BY <1>1, <1>2, <1>6 DEF Reads, Reading, PeerKey
    <2>. QED  BY <1>1, <1>2, <1>4, <1>6, <1>7, <2>1, LinkKept
  <1>9. /\ MayRead(p, m)
        /\ SkippedMap[p] = skipped[p]
        /\ SkippedMap' = [SkippedMap EXCEPT ![p] = skipped'[p]]
        /\ DeliveredMap' = [DeliveredMap EXCEPT ![p] = DeliveredMap[p] \cup {m}]
    <2>1. /\ MayRead(p, m)
          /\ SkippedMap[p] = skipped[p] \ Ahead(d)
          /\ SkippedMap' = [SkippedMap EXCEPT ![p] = skipped'[p] \ Ahead(c)]
          /\ DeliveredMap' = [DeliveredMap EXCEPT ![p] = DeliveredMap[p] \cup OnWay(c)]
      <3>1. d.op \in Reading /\ Enter(p, t, c) /\ c \in Call /\ ~Unopened(c)
        BY <1>2, <1>6, <1>7
      <3>2. UNCHANGED <<open, gen, sent, net, delivered>>
        BY <1>2
      <3>. QED  BY ONLY <1>4, <3>1, <3>2, Linked(p, t), ReadingMaps
    <2>2. skipped[p] \ {} = skipped[p] /\ skipped'[p] \ {} = skipped'[p]
      OBVIOUS
    <2>. QED  BY <1>7, <2>1, <2>2
  <1>10. Found(p, m) = StoredKeys(p, m)
    BY <1>9 DEF Found, StoredKeys
  <1>11. \E k \in Found(p, m) : k.mk = m.mk
    BY <1>1, <1>2, <1>10 DEF Opens, Reads
  <1>12. row' = [row EXCEPT ![p] = row[p]]
    BY <1>1, <1>2 DEF TypeOK
  <1>13. SkippedMap' = [SkippedMap EXCEPT ![p] = SkippedMap[p] \ Found(p, m)]
    BY <1>4, <1>9, <1>10
  <1>14. Calls!Next
    BY <1>1, <1>5, <1>9, <1>11, <1>12, <1>13, MapsToStored
  <1>. QED  BY <1>8, <1>14

LEMMA InsertKeyLink ==
    ASSUME NEW p, NEW t, Linked(p, t), InsertKey(p, t)
    PROVE  LinkInv' /\ [Calls!Next]_Calls!vars
  <1>. PICK m : m = call[p][t].mail
    OBVIOUS
  <1>. DEFINE d == call[p][t]
              kept == KeptKeys(row[p], m)
              old == skipped[p] \ Ahead(d)
  <1>1. /\ Alone(p, t) /\ StoreType /\ TypeOK /\ LinkInv /\ p \in Parties /\ t \in Threads
        /\ d \in Call /\ Reads(p, d)
        /\ \A q \in Parties : PeerKey(q)
        /\ \A k \in old : Past(row[p], k)
    BY LinkedIs
  <1>2. /\ d.op \in {"chain", "keys"} /\ d.op \in Reading
        /\ d.op = "chain" => Opens(d)
        /\ UNCHANGED <<open, row, gen, sent, net, delivered>>
    BY DEF InsertKey, Reading
  <1>3. PICK k \in d.keys :
           /\ skipped' \in Written(skipped, p, StoreKeys(skipped[p], {k}))
           /\ Enter(p, t, [d EXCEPT !.op = "keys", !.keys = @ \ {k}])
    BY DEF InsertKey
  <1>. PICK e : e = [d EXCEPT !.op = "keys", !.keys = @ \ {k}]
    OBVIOUS
  <1>4. /\ e \in Call /\ e.op = "keys" /\ e.mail = m /\ e.row = d.row
        /\ e.keys = d.keys \ {k} /\ e.opened = d.opened /\ Enter(p, t, e)
    <2>1. e \in Call /\ e.op = "keys" /\ e.mail = m /\ e.row = d.row
      BY <1>1, <1>2, KeyOutIs
    <2>2. e.keys = d.keys \ {k} /\ e.opened = d.opened
      BY <1>1, <1>2 DEF Call, Idle, Reading
    <2>. QED  BY <1>3, <2>1, <2>2
  <1>5. /\ m.from = Peer(p) /\ d.row = row[p] /\ open[p]
        /\ \A j \in old, i \in kept : i.dh # j.dh \/ i.n # j.n
        /\ \A i, j \in kept : i.dh = j.dh /\ i.n = j.n => i = j
    BY <1>2, OpensPast
  <1>6. skipped' = [skipped EXCEPT ![p] = StoreKeys(skipped[p], {k})]
    BY <1>3, LinkedIs
  <1>7. /\ skipped'[p] = {j \in skipped[p] : j.dh # k.dh \/ j.n # k.n} \cup {k}
        /\ \A q \in Parties \ {p} : skipped'[q] = skipped[q]
    BY <1>1, <1>6 DEF StoreKeys, TypeOK
  <1>8. /\ d.keys \subseteq kept
        /\ kept \subseteq d.keys \cup skipped[p] \cup old
        /\ StoredKeys(p, m) \subseteq kept
        /\ Ahead(e) = kept /\ old = skipped[p] \ kept
    <2>1. CASE d.op = "chain"
      <3>1. d.keys = kept /\ StoredKeys(p, m) = {} /\ Ahead(d) = {}
        BY <1>1, <2>1 DEF Reads, Ahead
      <3>2. old = skipped[p] \ kept
        BY <1>5, <3>1
      <3>. QED  BY <1>4, <1>5, <3>1, <3>2 DEF Ahead
    <2>2. CASE d.op = "keys"
      <3>1. Ahead(d) = kept /\ Ahead(e) = kept
        BY <1>4, <1>5, <2>2 DEF Ahead
      <3>. QED  BY <1>1, <2>2, <3>1 DEF Reads
    <2>. QED  BY <1>2, <2>1, <2>2
  <1>. HIDE DEF kept, old
  <1>9. skipped'[p] \ kept = old
    BY <1>5, <1>7, <1>8
  <1>10. kept \subseteq e.keys \cup skipped'[p]
    <2>1. ASSUME NEW j \in kept, j \notin e.keys PROVE j \in skipped'[p]
      <3>1. CASE j = k
        BY <1>7, <3>1
      <3>2. CASE j # k
        <4>1. j \in skipped[p]
          BY <1>4, <1>8, <2>1, <3>2 DEF old
        <4>2. k \in kept
          BY <1>8
        <4>3. j.dh # k.dh \/ j.n # k.n
          BY <1>5, <3>2, <4>2
        <4>. QED  BY <1>7, <4>1, <4>3
      <3>. QED  BY <3>1, <3>2
    <2>. QED  BY <2>1
  <1>11. LinkInv'
    <2>1. StoredKeys(p, m)' \subseteq kept
      <3>1. \A j \in skipped'[p] : j \in skipped[p] \/ j \in kept
        BY <1>7, <1>8
      <3>. QED  BY <1>8, <3>1 DEF StoredKeys
    <2>2. KeptKeys(row'[p], m) = kept
      BY <1>2 DEF kept
    <2>3. e.opened => row[p] = ResponderRow(SignedPrekey, Peer(p)) /\ m.kind = "init"
      BY <1>1, <1>2, <1>4 DEF Reads
    <2>4. Reads(p, e)'
      BY <1>2, <1>4, <1>8, <1>10, <2>1, <2>2, <2>3 DEF Reads
    <2>5. \A q \in Parties : PeerKey(q)'
      BY <1>1, <1>2 DEF PeerKey
    <2>6. \A j \in skipped'[p] \ Ahead(e) : Past(row'[p], j)
      BY <1>1, <1>2, <1>8, <1>9
    <2>. QED  BY <1>1, <1>2, <1>4, <1>5, <1>7, <2>4, <2>5, <2>6, LinkKept
  <1>12. Unopened(e) = Unopened(d)
    BY <1>2, <1>4 DEF Unopened, Reading
  <1>13. /\ OpenMap' = OpenMap
         /\ SkippedMap[p] = old
         /\ SkippedMap' = [SkippedMap EXCEPT ![p] = skipped'[p] \ Ahead(e)]
         /\ DeliveredMap' = [DeliveredMap EXCEPT ![p] = DeliveredMap[p] \cup OnWay(e)]
    BY <1>2, <1>4, <1>7, <1>12, ReadingMaps DEF old
  <1>14. OnWay(e) = {}
    BY <1>4 DEF OnWay
  <1>15. SkippedMap' = SkippedMap /\ DeliveredMap' = DeliveredMap
    <2>1. DeliveredMap[p] \cup {} = DeliveredMap[p]
      OBVIOUS
    <2>. QED  BY <1>1, <1>8, <1>9, <1>13, <1>14, <2>1, MapsAsTheyAre
  <1>. QED  BY <1>2, <1>11, <1>13, <1>15, MapsToStutter

LEMMA SaveRowLink ==
    ASSUME NEW p, NEW t, Linked(p, t), SaveRow(p, t)
    PROVE  LinkInv' /\ [Calls!Next]_Calls!vars
  <1>. DEFINE d == call[p][t]
              m == d.mail
              s == AfterRecv(row[p], m)
              kept == KeptKeys(row[p], m)
              old == skipped[p] \ Ahead(d)
  <1>. PICK c : c = [op |-> "plaintext", mail |-> m]
    OBVIOUS
  <1>1. /\ Alone(p, t) /\ StoreType /\ TypeOK /\ RatchetInv /\ LinkInv
        /\ p \in Parties /\ t \in Threads
        /\ Reads(p, d) /\ \A q \in Parties : PeerKey(q)
    BY LinkedIs
  <1>2. /\ d.op \in {"chain", "keys"} /\ d.op \in Reading
        /\ d.op = "chain" => Opens(d)
        /\ d.keys = {} /\ Enter(p, t, c)
        /\ UNCHANGED <<open, skipped, gen, sent, net, delivered>>
    BY DEF SaveRow, Reading
  <1>3. /\ ChainOpens(row[p], m) /\ m \in net /\ m \in Message
        /\ m.from = Peer(p) /\ d.row = row[p] /\ open[p]
        /\ NewRatchetKey(row[p], m) => m.dh = row[Peer(p)].dhSelf /\ m.dh.owner = Peer(p)
        /\ \A k \in kept : Past(s, k)
        /\ \A k \in old : Past(s, k) /\ \A j \in kept : j.dh # k.dh \/ j.n # k.n
        /\ Found(p, m) = {}
    BY <1>2, OpensPast
  <1>4. row' = [row EXCEPT ![p] = s]
    <2>1. row' \in Written(row, p, AfterRecv(d.row, m))
      BY DEF SaveRow, SavedRow
    <2>. QED  BY <1>3, <2>1, LinkedIs
  <1>5. row'[p] = s /\ \A q \in Parties \ {p} : row'[q] = row[q]
    BY <1>1, <1>4 DEF TypeOK
  <1>6. c \in Call /\ c.op = "plaintext" /\ c.mail = m
    BY <1>3 DEF Call
  <1>7. Ahead(c) = {} /\ OnWay(c) = {m} /\ ~Unopened(c)
    BY <1>6 DEF Ahead, OnWay, Unopened, Reading
  <1>8. kept \subseteq skipped[p] /\ (skipped[p] = old \/ old = skipped[p] \ kept)
        /\ (skipped[p] = old => kept = {})
    <2>1. CASE d.op = "chain"
      BY <1>1, <1>2, <2>1 DEF Reads, Ahead
    <2>2. CASE d.op = "keys"
      BY <1>1, <1>2, <1>3, <2>2 DEF Reads, Ahead
    <2>. QED  BY <1>2, <2>1, <2>2
  <1>9. \A q \in Parties : PeerKey(q)'
    <2>1. s.dhSelf = row[p].dhSelf
          /\ (s.dhPeer = row[p].dhPeer \/ (NewRatchetKey(row[p], m) /\ s.dhPeer = m.dh))
      BY <1>1, <1>3, RowFacts, RecvOnChain, RecvOnNewChain
    <2>2. PeerKey(p)'
      <3>1. row'[Peer(p)] = row[Peer(p)] /\ row[Peer(p)].dhSelf.gen \in Nat
        BY <1>1, <1>5, PeerIsParty, RowFacts DEF PubKey
      <3>. HIDE DEF s, m
      <3>. QED  BY <1>1, <1>3, <1>5, <2>1, <3>1 DEF PeerKey, s, m
    <2>3. ASSUME NEW q \in Parties \ {p} PROVE PeerKey(q)'
      <3>1. Peer(q) = p
        BY <1>1, PeerIsParty DEF Peer, Parties
      <3>. QED  BY <1>1, <1>5, <2>1, <3>1 DEF PeerKey
    <2>. QED  BY <2>2, <2>3
  <1>. HIDE DEF kept, old, s
  <1>10. LinkInv'
    <2>1. Reads(p, c)'
      BY <1>6 DEF Reads, Reading
    <2>2. \A k \in skipped'[p] \ Ahead(c) : Past(row'[p], k)
      BY <1>2, <1>3, <1>5, <1>8
    <2>. QED  BY <1>1, <1>2, <1>3, <1>5, <1>6, <1>9, <2>1, <2>2, LinkKept
  <1>11. /\ MayRead(p, m)
         /\ SkippedMap[p] = old
         /\ SkippedMap' = [SkippedMap EXCEPT ![p] = skipped'[p] \ Ahead(c)]
         /\ DeliveredMap' = [DeliveredMap EXCEPT ![p] = DeliveredMap[p] \cup OnWay(c)]
    BY <1>2, <1>6, <1>7, ReadingMaps DEF old
  <1>12. StoreKeys(old, kept) = skipped[p]
    <2>1. StoreKeys(old, kept) = old \cup kept
      BY <1>3 DEF StoreKeys
    <2>. QED  BY <1>8, <2>1
  <1>13. SkippedMap' = [SkippedMap EXCEPT ![p] = StoreKeys(SkippedMap[p], kept)]
    BY <1>2, <1>7, <1>11, <1>12
  <1>14. Calls!Next
    BY <1>1, <1>3, <1>4, <1>7, <1>11, <1>13, MapsToOnChain DEF kept, s
  <1>. QED  BY <1>10, <1>14

LEMMA StorePlaintextLink ==
    ASSUME NEW p, NEW t, Linked(p, t), StorePlaintext(p, t)
    PROVE  LinkInv' /\ [Calls!Next]_Calls!vars
  <1>. DEFINE d == call[p][t]
  <1>1. /\ Alone(p, t) /\ StoreType /\ TypeOK /\ LinkInv /\ p \in Parties /\ t \in Threads
        /\ \A q \in Parties : PeerKey(q)
        /\ \A k \in skipped[p] \ Ahead(d) : Past(row[p], k)
        /\ open[p] \/ skipped[p] = {}
        /\ Idle \in Call /\ Idle.op = "idle"
    BY LinkedIs
  <1>2. /\ d.op = "plaintext" /\ Enter(p, t, Idle)
        /\ delivered' = [delivered EXCEPT ![p] = @ \cup {d.mail}]
        /\ UNCHANGED <<open, row, skipped, gen, sent, net>>
    BY DEF StorePlaintext
  <1>3. /\ delivered'[p] = delivered[p] \cup {d.mail}
        /\ \A q \in Parties \ {p} : delivered'[q] = delivered[q]
    BY <1>1, <1>2 DEF TypeOK
  <1>4. /\ Ahead(d) = {} /\ Ahead(Idle) = {} /\ OnWay(d) = {d.mail} /\ OnWay(Idle) = {}
        /\ ~Unopened(d) /\ ~Unopened(Idle)
    BY <1>1, <1>2 DEF Ahead, OnWay, Unopened, Reading
  <1>5. LinkInv'
    <2>1. Reads(p, Idle)' /\ \A q \in Parties : PeerKey(q)'
      BY <1>1, <1>2 DEF Reads, Reading, PeerKey
    <2>. QED  BY <1>1, <1>2, <1>4, <2>1, LinkKept
  <1>6. /\ OpenMap' = [OpenMap EXCEPT ![p] = open'[p] /\ ~Unopened(Idle)]
        /\ SkippedMap' = [SkippedMap EXCEPT ![p] = skipped'[p] \ Ahead(Idle)]
        /\ DeliveredMap' = [DeliveredMap EXCEPT ![p] = delivered'[p] \cup OnWay(Idle)]
        /\ OpenMap[p] <=> open[p] /\ ~Unopened(d)
        /\ SkippedMap[p] = skipped[p] \ Ahead(d)
        /\ DeliveredMap[p] = delivered[p] \cup OnWay(d)
    BY <1>1, <1>2, <1>3, MapsMove
  <1>7. DeliveredMap' = DeliveredMap
    <2>1. delivered'[p] \cup {} = delivered[p] \cup {d.mail}
      BY <1>3
    <2>. QED  BY <1>1, <1>4, <1>6, <2>1, MapsAsTheyAre
  <1>8. SkippedMap' = SkippedMap
    BY <1>1, <1>2, <1>4, <1>6, MapsAsTheyAre
  <1>9. OpenMap' = OpenMap
    BY <1>2, <1>4, <1>6 DEF OpenMap
  <1>. QED  BY <1>2, <1>5, <1>7, <1>8, <1>9, MapsToStutter

LEMMA LinkNext ==
    ASSUME StoreType, StoreInv, faults = {}, ~raced', LinkInv, [StoreNext]_storeVars
    PROVE  LinkInv' /\ [Calls!Next]_Calls!vars
  <1>1. RatchetInv /\ AllHold /\ OneReader
    BY HistoryKept DEF StoreInv
  <1>2. CASE StoreInitiate
    BY <1>1, <1>2, InitiateLink
  <1>3. CASE UNCHANGED storeVars
    <2>1. UNCHANGED <<open, row, skipped, gen, sent, net, delivered, call>>
      BY <1>3 DEF storeVars, vars
    <2>2. \A p \in Parties : /\ Opening(p)' = Opening(p) /\ Inserting(p)' = Inserting(p)
                             /\ OnItsWay(p)' = OnItsWay(p)
      BY <2>1, OneCallKept
    <2>3. OpenMap' = OpenMap /\ SkippedMap' = SkippedMap /\ DeliveredMap' = DeliveredMap
      BY <2>1, <2>2 DEF OpenMap, SkippedMap, DeliveredMap
    <2>4. LinkInv'
      BY <2>1, <2>2 DEF LinkInv, PeerKey, KeysPast, Reads, StoredKeys
    <2>. QED  BY <2>1, <2>3, <2>4, MapsToStutter
  <1>4. \A p \in Parties, t \in Threads : Alone(p, t) => Linked(p, t)
    BY <1>1 DEF Linked
  <1>5. ASSUME NEW p \in Parties, NEW t \in Threads,
               BeginEncrypt(p, t) \/ EndEncrypt(p, t) \/ EncryptFails(p, t)
        PROVE  LinkInv' /\ [Calls!Next]_Calls!vars
    BY <1>1, <1>5, EncryptStepsLink
  <1>6. ASSUME NEW p \in Parties, NEW t \in Threads, NEW m \in net, BeginDecrypt(p, t, m)
        PROVE  LinkInv' /\ [Calls!Next]_Calls!vars
    <2>1. Alone(p, t)
      BY <1>6, IsAlone DEF BeginDecrypt
    <2>. QED  BY <1>4, <1>6, <2>1, BeginDecryptLink
  <1>7. ASSUME NEW p \in Parties, NEW t \in Threads,
               \/ DecryptFails(p, t) \/ DeleteKey(p, t) \/ InsertKey(p, t)
               \/ SaveRow(p, t) \/ StorePlaintext(p, t)
        PROVE  LinkInv' /\ [Calls!Next]_Calls!vars
    <2>1. call[p][t].op \in Reading \cup {"plaintext"}
      BY <1>7 DEF DecryptFails, DeleteKey, InsertKey, SaveRow, StorePlaintext, Reading
    <2>2. Alone(p, t)
      BY <1>1, <2>1 DEF OneReader
    <2>. QED
      BY <1>4, <1>7, <2>2, DecryptFailsLink, DeleteKeyLink, InsertKeyLink, SaveRowLink,
         StorePlaintextLink
  <1>8. ASSUME NEW p \in Parties, Crash(p) \/ Export(p) \/ Restore(p) PROVE FALSE
    BY <1>8 DEF Crash, Export, Restore, StoreInv
  <1>. QED  BY <1>2, <1>3, <1>5, <1>6, <1>7, <1>8, ThreadsAre DEF StoreNext

\* Undisturbed, and until a row is written under another call's copy of it or
\* two decryptions of an account meet, the statements of a call (findSkippedKey,
\* deleteSkippedKey, insertSkippedKey, saveSession, the plaintext) are as good as
\* one step of the session, whatever other calls begin and end between them.
THEOREM ImplementsOneStepCalls == StoreSpec => ImplementsCalls
  <1>. DEFINE Undisturbed == faults = {} /\ ~raced => LinkInv
  <1>1. StoreInit => Undisturbed
    BY LinkInit
  <1>2. StoreType /\ StoreInv /\ Undisturbed /\ [StoreNext]_storeVars => Undisturbed'
    BY LinkNext, HistoryKept
  <1>3. StoreType /\ StoreInv /\ Undisturbed /\ [StoreNext]_storeVars
        => (faults = {} /\ ~raced' => [Calls!Next]_Calls!vars)
    BY LinkNext, HistoryKept
  <1>. HIDE DEF Undisturbed
  <1>. QED
    BY <1>1, <1>2, <1>3, MapsToInit, StoreTypeAlways, CallsOnTheRow, PTL
       DEF StoreSpec, ImplementsCalls
=============================================================================
