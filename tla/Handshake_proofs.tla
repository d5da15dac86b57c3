--------------------------- MODULE Handshake_proofs ---------------------------
(***************************************************************************)
(* Proofs about how a 1:1 conversation comes to life, for batches of any   *)
(* size, any number of messages, copies, misses and crashes.               *)
(***************************************************************************)
EXTENDS Handshake, FiniteSetTheorems, TLAPS

Kinds == {"bundle", "reply", "init", "msg"}
KeyNames == {"identity", "prekey"}
RowStates == {"new", "first", "done", "gone"}
AnyMail == [from : Parties, kind : Kinds, id : Nat, root : Nat]
BoxRow == [mail : AnyMail, tries : 0 .. MaxTries, state : RowStates]
Job ==
    {Idle} \cup [step : {"show", "answer", "initiate", "post", "store"}, row : Nat]

HandshakeType ==
    /\ ui \in {"none", "saved", "done"}
    /\ us \in [Parties -> Nat]
    /\ keys \in [Parties -> SUBSET KeyNames]
    /\ pinned \in [Parties -> SUBSET KeyNames]
    /\ eks \in Nat /\ posts \in Nat
    /\ root \in [Parties -> Nat]
    /\ out \subseteq AnyMail
    /\ box \in [Parties -> Seq(BoxRow)]
    /\ batch \in [Parties -> Seq(Nat)]
    /\ job \in [Parties -> Job]
    /\ opened \in [Parties -> SUBSET AnyMail]
    /\ read \in [Parties -> SUBSET AnyMail]
    /\ lost \in [Parties -> SUBSET AnyMail]
    /\ faults \in [dup : Nat, miss : Nat, crash : Nat]

Mails(p) == {box[p][i].mail : i \in DOMAIN box[p]}
Queued == out \cup UNION {Mails(p) : p \in Parties}

\* Rows stay where they are: what a batch or a job names is in the mailbox.
RowsInv ==
    \A p \in Parties :
        /\ \A k \in DOMAIN batch[p] : batch[p][k] \in DOMAIN box[p]
        /\ job[p] # Idle => job[p].row \in DOMAIN box[p]

\* What was ever queued has a number and a root that were given out.
NamesInv ==
    /\ \A m \in Queued : m.id \in 1 .. posts /\ m.root \in 0 .. eks
    /\ \A p \in Parties : root[p] \in 0 .. eks

\* Bundles and inits are the initiator's, replies the responder's; who has the
\* reply can be answered; what is sealed is sealed in the initiator's session.
MailInv(m) ==
    /\ m.kind \in {"bundle", "init"} => m.from = Initiator
    /\ m.kind = "reply" => m.from = Responder /\ MadePrekey(Responder)
    /\ m.kind \in {"init", "msg"} => m.root = root[Initiator] /\ m.root # NoRoot

MailsInv ==
    /\ \A m \in Queued : MailInv(m)
    /\ \A p \in Parties : \A m \in Mails(p) : m.from = Peer(p)

\* What a party is at says how far the handshake is.
JobInv(p) ==
    /\ job[p].step \in {"show", "answer"} => p = Responder
    /\ job[p].step \in {"initiate", "post"} => p = Initiator
    /\ job[p].step \in {"answer", "initiate", "post"} => MadePrekey(Responder)
    /\ job[p].step = "post" => HasSession(Initiator)

SessionsInv ==
    /\ root[Responder] \in {NoRoot, root[Initiator]}
    /\ HasSession(Initiator) => MadePrekey(Responder)
    /\ \A p \in Parties : JobInv(p)

\* A mail whose key is used and whose plaintext is not stored is at hand, or
\* something came between the two.
OpenedInv ==
    \A p \in Parties :
        /\ job[p].step = "store" => box[p][job[p].row].mail \in opened[p]
        /\ read[p] \subseteq opened[p] /\ opened[p] \subseteq Mails(p)
        /\ lost[p] \subseteq Mails(p)
        /\ \A m \in opened[p] \ read[p] :
              \/ job[p].step = "store" /\ box[p][job[p].row].mail = m
              \/ faults.crash > 0
              \/ Moved(p, m)

\* What is left of a batch has its inits first.
InitsFirst(p) ==
    \A j, k \in DOMAIN batch[p] :
        j < k /\ box[p][batch[p][k]].mail.kind = "init"
            => box[p][batch[p][j]].mail.kind = "init"

BatchInv == \A p \in Parties : InitsFirst(p)

HandshakeInv ==
    /\ HandshakeType /\ RowsInv
    /\ NamesInv /\ MailsInv /\ SessionsInv
    /\ OpenedInv /\ BatchInv
-----------------------------------------------------------------------------
(* Lemmas about sequences and rows *)

LEMMA RowEdited ==
    ASSUME NEW S, NEW q \in Seq(S), NEW i \in DOMAIN q, NEW e \in S
    PROVE  /\ [q EXCEPT ![i] = e] \in Seq(S)
           /\ DOMAIN [q EXCEPT ![i] = e] = DOMAIN q
           /\ [q EXCEPT ![i] = e][i] = e
           /\ \A j \in DOMAIN q : j # i => [q EXCEPT ![i] = e][j] = q[j]
  OBVIOUS

LEMMA RowAdded ==
    ASSUME NEW S, NEW q \in Seq(S), NEW e \in S
    PROVE  /\ Append(q, e) \in Seq(S)
           /\ DOMAIN Append(q, e) = DOMAIN q \cup {Len(q) + 1}
           /\ Append(q, e)[Len(q) + 1] = e
           /\ \A j \in DOMAIN q : Append(q, e)[j] = q[j]
  OBVIOUS

LEMMA ConcatIs ==
    ASSUME NEW S, NEW s \in Seq(S), NEW t \in Seq(S)
    PROVE  /\ s \o t \in Seq(S) /\ Len(s \o t) = Len(s) + Len(t)
           /\ \A k \in 1 .. Len(s) + Len(t) :
                 (s \o t)[k] = IF k <= Len(s) THEN s[k] ELSE t[k - Len(s)]
  OBVIOUS

LEMMA TailIs ==
    ASSUME NEW S, NEW q \in Seq(S), q # <<>>
    PROVE  /\ Tail(q) \in Seq(S) /\ Head(q) = q[1] /\ 1 \in DOMAIN q
           /\ q[1] \in S
           /\ \A k \in DOMAIN Tail(q) : k + 1 \in DOMAIN q /\ Tail(q)[k] = q[k + 1]
  OBVIOUS

LEMMA PartiesAre ==
    /\ Initiator \in Parties /\ Responder \in Parties /\ Initiator # Responder
    /\ \A p \in Parties : /\ p = Initiator \/ p = Responder
                          /\ Peer(p) \in Parties /\ Peer(p) # p /\ Peer(Peer(p)) = p
    /\ Peer(Initiator) = Responder /\ Peer(Responder) = Initiator
  BY PartiesAssumption DEF Parties, Peer

LEMMA JobIs ==
    /\ Idle \in Job /\ Idle.step = "idle"
    /\ \A j \in Job :
          /\ j.step \in {"idle", "show", "answer", "initiate", "post", "store"}
          /\ j # Idle => j.row \in Nat /\ j.step # "idle"
  BY DEF Job, Idle

LEMMA JobSteps ==
    ASSUME NEW j \in Job, j # Idle,
           NEW step \in {"show", "answer", "initiate", "post", "store"}
    PROVE  LET e == [j EXCEPT !.step = step]
           IN  e \in Job /\ e # Idle /\ e.step = step /\ e.row = j.row
  <1>. DEFINE e == [j EXCEPT !.step = step]
  <1>1. j \in [step : {"show", "answer", "initiate", "post", "store"}, row : Nat]
    BY DEF Job
  <1>2. /\ e \in [step : {"show", "answer", "initiate", "post", "store"}, row : Nat]
        /\ e.step = step /\ e.row = j.row
    BY <1>1
  <1>. HIDE DEF e
  <1>3. e # Idle
    BY <1>2 DEF Idle
  <1>. QED  BY <1>2, <1>3 DEF Job, e

LEMMA RowIs ==
    ASSUME NEW e \in BoxRow
    PROVE  /\ e.mail \in AnyMail /\ e.tries \in 0 .. MaxTries /\ e.state \in RowStates
           /\ Gone(e) \in BoxRow /\ Gone(e).mail = e.mail /\ Gone(e).state = "gone"
           /\ Renamed(e) \in BoxRow /\ Renamed(e).mail = e.mail
           /\ Finished(e) \in BoxRow /\ Finished(e).mail = e.mail
           /\ e.state = "gone" => Finished(e).state = "gone"
           /\ e.tries < MaxTries =>
                 /\ Missed(e) \in BoxRow /\ Missed(e).mail = e.mail
                 /\ Missed(e).state = e.state
  BY LimitsAssumption DEF BoxRow, RowStates, Gone, Renamed, Finished, Missed

LEMMA NewRowIs ==
    ASSUME NEW m \in AnyMail
    PROVE  NewRow(m) \in BoxRow /\ NewRow(m).mail = m
  BY LimitsAssumption DEF NewRow, BoxRow, RowStates
-----------------------------------------------------------------------------
(* What each operation does to the mailboxes *)

\* The rows of q stay in q2: each has its mail, and none that is gone is back.
RowsStay(q, q2) ==
    /\ q2 \in Seq(BoxRow)
    /\ \A i \in DOMAIN q :
          /\ i \in DOMAIN q2 /\ q2[i].mail = q[i].mail
          /\ q[i].state = "gone" => q2[i].state = "gone"

MailsOf(q) == {q[i].mail : i \in DOMAIN q}

LEMMA StaysItself == \A q \in Seq(BoxRow) : RowsStay(q, q)
  BY DEF RowsStay

LEMMA StaysOn ==
    ASSUME NEW q, NEW r, NEW s, RowsStay(q, r), RowsStay(r, s)
    PROVE  RowsStay(q, s)
  BY DEF RowsStay

LEMMA RowsAddedIs ==
    ASSUME NEW q \in Seq(BoxRow), NEW m \in AnyMail, NEW twice \in BOOLEAN
    PROVE  /\ RowsStay(q, RowsAdded(q, m, twice))
           /\ MailsOf(RowsAdded(q, m, twice)) \subseteq MailsOf(q) \cup {m}
  <1>. DEFINE e == NewRow(m)
              t == IF twice THEN <<e, e>> ELSE <<e>>
              q2 == q \o t
  <1>0. e \in BoxRow /\ e.mail = m
    BY NewRowIs
  <1>. HIDE DEF e
  <1>1. t \in Seq(BoxRow) /\ \A k \in DOMAIN t : t[k] = e
    BY <1>0
  <1>. HIDE DEF t
  <1>3. /\ q2 \in Seq(BoxRow) /\ Len(q2) = Len(q) + Len(t)
        /\ \A k \in 1 .. Len(q) + Len(t) :
              q2[k] = IF k <= Len(q) THEN q[k] ELSE t[k - Len(q)]
    BY <1>1, ConcatIs
  <1>2. q2 = RowsAdded(q, m, twice)
    BY DEF RowsAdded, t, e
  <1>. HIDE DEF q2
  <1>4. \A k \in DOMAIN q2 : IF k <= Len(q) THEN k \in DOMAIN q /\ q2[k] = q[k]
                                            ELSE q2[k] = e
    BY <1>1, <1>3
  <1>5. \A k \in DOMAIN q : k \in DOMAIN q2 /\ q2[k] = q[k]
    BY <1>1, <1>3
  <1>6. RowsStay(q, q2) /\ MailsOf(q2) \subseteq MailsOf(q) \cup {m}
    BY <1>0, <1>3, <1>4, <1>5 DEF RowsStay, MailsOf
  <1>. QED  BY <1>2, <1>6

LEMMA EditedRow ==
    ASSUME NEW q \in Seq(BoxRow), NEW i \in DOMAIN q, NEW e \in BoxRow,
           e.mail = q[i].mail, q[i].state = "gone" => e.state = "gone"
    PROVE  LET q2 == [q EXCEPT ![i] = e]
           IN  /\ RowsStay(q, q2) /\ MailsOf(q2) = MailsOf(q)
               /\ DOMAIN q2 = DOMAIN q /\ q2[i] = e
  <1>. DEFINE q2 == [q EXCEPT ![i] = e]
  <1>1. /\ q2 \in Seq(BoxRow) /\ DOMAIN q2 = DOMAIN q /\ q2[i] = e
        /\ \A j \in DOMAIN q : j # i => q2[j] = q[j]
    BY RowEdited
  <1>. HIDE DEF q2
  <1>2. RowsStay(q, q2) /\ MailsOf(q2) = MailsOf(q)
    BY <1>1 DEF RowsStay, MailsOf
  <1>. QED  BY <1>1, <1>2 DEF q2

LEMMA RowDoneIs ==
    ASSUME NEW q \in Seq(BoxRow), NEW i \in DOMAIN q
    PROVE  RowsStay(q, RowDone(q, i)) /\ MailsOf(RowDone(q, i)) = MailsOf(q)
  <1>1. /\ Finished(q[i]) \in BoxRow /\ Finished(q[i]).mail = q[i].mail
        /\ q[i].state = "gone" => Finished(q[i]).state = "gone"
    <2>1. q[i] \in BoxRow
      OBVIOUS
    <2>. QED  BY <2>1, RowIs
  <1>. QED  BY <1>1, EditedRow DEF RowDone

LEMMA RowMovedIs ==
    ASSUME NEW q \in Seq(BoxRow), NEW i \in DOMAIN q
    PROVE  RowsStay(q, RowMoved(q, i)) /\ MailsOf(RowMoved(q, i)) = MailsOf(q)
  <1>. DEFINE d == Gone(q[i])
              e == Renamed(q[i])
              r == [q EXCEPT ![i] = d]
              q2 == Append(r, e)
  <1>1. /\ d \in BoxRow /\ d.mail = q[i].mail /\ d.state = "gone"
        /\ e \in BoxRow /\ e.mail = q[i].mail
    <2>1. q[i] \in BoxRow
      OBVIOUS
    <2>. QED  BY <2>1, RowIs
  <1>. HIDE DEF d, e
  <1>2. RowsStay(q, r) /\ MailsOf(r) = MailsOf(q)
    BY <1>1, EditedRow
  <1>3. q2 = RowMoved(q, i)
    BY DEF RowMoved, d, e
  <1>. HIDE DEF r
  <1>4. r \in Seq(BoxRow)
    BY <1>2 DEF RowsStay
  <1>5. /\ q2 \in Seq(BoxRow) /\ DOMAIN q2 = DOMAIN r \cup {Len(r) + 1}
        /\ q2[Len(r) + 1] = e /\ \A j \in DOMAIN r : q2[j] = r[j]
    BY <1>1, <1>4, RowAdded
  <1>. HIDE DEF q2
  <1>6. RowsStay(r, q2)
    BY <1>5 DEF RowsStay
  <1>7. MailsOf(q2) = MailsOf(r) \cup {e.mail}
    BY <1>5 DEF MailsOf
  <1>8. e.mail \in MailsOf(q)
    BY <1>1 DEF MailsOf
  <1>. QED  BY <1>2, <1>3, <1>6, <1>7, <1>8, StaysOn

LEMMA RowsMissedIs ==
    ASSUME NEW q \in Seq(BoxRow), NEW missed,
           \A i \in missed \cap DOMAIN q : q[i].tries < MaxTries
    PROVE  RowsStay(q, RowsMissed(q, missed)) /\ MailsOf(RowsMissed(q, missed)) = MailsOf(q)
  <1>. DEFINE q2 == RowsMissed(q, missed)
  <1>1. ASSUME NEW i \in DOMAIN q
        PROVE  q2[i] \in BoxRow /\ q2[i].mail = q[i].mail /\ q2[i].state = q[i].state
    <2>1. q[i] \in BoxRow
      OBVIOUS
    <2>. QED  BY <2>1, RowIs DEF RowsMissed
  <1>2. DOMAIN q2 = DOMAIN q /\ DOMAIN q = 1 .. Len(q) /\ Len(q) \in Nat
    BY DEF RowsMissed
  <1>3. q2 \in [1 .. Len(q) -> BoxRow]
    BY <1>1, <1>2 DEF RowsMissed
  <1>. HIDE DEF q2
  <1>4. q2 \in Seq(BoxRow)
    BY <1>2, <1>3
  <1>5. RowsStay(q, q2) /\ MailsOf(q2) = MailsOf(q)
    BY <1>1, <1>2, <1>4 DEF RowsStay, MailsOf
  <1>. QED  BY <1>5 DEF q2

BoxStays ==
    /\ box' \in [Parties -> Seq(BoxRow)]
    /\ \A p \in Parties :
          /\ RowsStay(box[p], box'[p])
          /\ \A m \in MailsOf(box'[p]) :
                m \in MailsOf(box[p]) \/ (m \in out /\ m.from = Peer(p))

LEMMA BoxAsItWas == HandshakeType /\ box' = box => BoxStays
  BY StaysItself DEF HandshakeType, BoxStays

\* Only p's mailbox is touched.
LEMMA BoxChanged ==
    ASSUME HandshakeType, NEW p \in Parties, NEW q2,
           box' = [box EXCEPT ![p] = q2], RowsStay(box[p], q2),
           \A m \in MailsOf(q2) : m \in MailsOf(box[p]) \/ (m \in out /\ m.from = Peer(p))
    PROVE  BoxStays
  <1>1. box \in [Parties -> Seq(BoxRow)] /\ q2 \in Seq(BoxRow)
    BY DEF HandshakeType, RowsStay
  <1>2. /\ box' \in [Parties -> Seq(BoxRow)]
        /\ \A q \in Parties : box'[q] = IF q = p THEN q2 ELSE box[q]
    BY <1>1
  <1>3. \A q \in Parties : RowsStay(box[q], box[q])
    BY <1>1, StaysItself
  <1>. QED  BY <1>2, <1>3 DEF BoxStays

LEMMA DoneStays ==
    ASSUME HandshakeType, NEW p \in Parties, NEW i \in DOMAIN box[p], Done(p, i)
    PROVE  BoxStays
  <1>1. box[p] \in Seq(BoxRow)
    BY DEF HandshakeType
  <1>2. RowsStay(box[p], RowDone(box[p], i)) /\ MailsOf(RowDone(box[p], i)) = MailsOf(box[p])
    BY <1>1, RowDoneIs
  <1>3. box' = [box EXCEPT ![p] = RowDone(box[p], i)]
    BY DEF Done
  <1>. QED  BY <1>2, <1>3, BoxChanged

LEMMA ArriveStays ==
    ASSUME HandshakeType, NEW m \in out, NEW twice \in BOOLEAN, Arrive(m, twice)
    PROVE  BoxStays
  <1>. DEFINE p == Peer(m.from)
              q2 == RowsAdded(box[p], m, twice)
  <1>1. m \in AnyMail /\ m.from \in Parties /\ p \in Parties /\ m.from = Peer(p)
    BY PartiesAre DEF HandshakeType, AnyMail
  <1>2. box' = [box EXCEPT ![p] = q2]
    BY DEF Arrive
  <1>. HIDE DEF p
  <1>3. box[p] \in Seq(BoxRow)
    BY <1>1 DEF HandshakeType
  <1>4. RowsStay(box[p], q2) /\ MailsOf(q2) \subseteq MailsOf(box[p]) \cup {m}
    BY <1>1, <1>3, RowsAddedIs
  <1>. HIDE DEF q2
  <1>. QED  BY <1>1, <1>2, <1>4, BoxChanged

LEMMA ArriveAgainStays ==
    ASSUME HandshakeType, NEW p \in Parties, NEW i \in DOMAIN box[p], ArriveAgain(p, i)
    PROVE  BoxStays
  <1>1. box[p] \in Seq(BoxRow)
    BY DEF HandshakeType
  <1>2. RowsStay(box[p], RowMoved(box[p], i)) /\ MailsOf(RowMoved(box[p], i)) = MailsOf(box[p])
    BY <1>1, RowMovedIs
  <1>3. box' = [box EXCEPT ![p] = RowMoved(box[p], i)]
    BY DEF ArriveAgain
  <1>. QED  BY ONLY HandshakeType, p \in Parties, <1>2, <1>3, BoxChanged

LEMMA FetchStays ==
    ASSUME HandshakeType, NEW p \in Parties, NEW missed, FetchBatch(p, missed)
    PROVE  BoxStays
  <1>1. box[p] \in Seq(BoxRow)
    BY DEF HandshakeType
  <1>2. \A i \in missed \cap DOMAIN box[p] : box[p][i].tries < MaxTries
    BY DEF FetchBatch, FirstPending, Pending
  <1>3. /\ RowsStay(box[p], RowsMissed(box[p], missed))
        /\ MailsOf(RowsMissed(box[p], missed)) = MailsOf(box[p])
    BY <1>1, <1>2, RowsMissedIs
  <1>4. box' = [box EXCEPT ![p] = RowsMissed(box[p], missed)]
    BY DEF FetchBatch
  <1>. QED  BY ONLY HandshakeType, p \in Parties, <1>3, <1>4, BoxChanged

\* The row a party turns to, and the one a call is about, is in the mailbox.
LEMMA HeadIs ==
    ASSUME HandshakeType, RowsInv, NEW p \in Parties, batch[p] # <<>>
    PROVE  /\ Head(batch[p]) \in DOMAIN box[p] /\ Head(batch[p]) \in Nat
           /\ Head(batch[p]) = batch[p][1] /\ 1 \in DOMAIN batch[p]
           /\ Tail(batch[p]) \in Seq(Nat)
           /\ \A k \in DOMAIN Tail(batch[p]) :
                 k + 1 \in DOMAIN batch[p] /\ Tail(batch[p])[k] = batch[p][k + 1]
           /\ HeadMail(p) \in MailsOf(box[p])
  <1>1. batch[p] \in Seq(Nat)
    BY DEF HandshakeType
  <1>. QED  BY <1>1, TailIs DEF RowsInv, HeadMail, MailsOf

LEMMA BoxStep ==
    ASSUME HandshakeType, RowsInv, [Next]_vars
    PROVE  BoxStays
  <1>1. ASSUME NEW p \in Parties,
               \/ TakeBundle(p) \/ GiveUp(p) \/ StoreOpened(p)
               \/ \E missed \in SUBSET FirstPending(p) : FetchBatch(p, missed)
               \/ \E i \in DOMAIN box[p] : ArriveAgain(p, i)
        PROVE  BoxStays
    <2>1. CASE TakeBundle(p) \/ GiveUp(p)
      <3>1. Done(p, Head(batch[p])) /\ batch[p] # <<>>
        BY <2>1 DEF TakeBundle, GiveUp, Takes
      <3>. QED  BY <3>1, HeadIs, DoneStays
    <2>2. CASE StoreOpened(p)
      <3>1. Done(p, job[p].row) /\ job[p] # Idle
        BY <2>2 DEF StoreOpened, Idle
      <3>. QED  BY <3>1, DoneStays DEF RowsInv
    <2>. QED  BY <1>1, <2>1, <2>2, FetchStays, ArriveAgainStays
  <1>2. ASSUME NEW m \in out, Arrive(m, FALSE) \/ Arrive(m, TRUE)
        PROVE  BoxStays
    BY <1>2, ArriveStays
  <1>3. ASSUME \/ Create \/ PostBundle \/ UNCHANGED vars
               \/ \E p \in Parties :
                     \/ Send(p) \/ Crash(p) \/ ShowConversation(p) \/ Answer(p)
                     \/ Initiate(p) \/ PostInit(p) \/ AlreadyInitiated(p)
                     \/ OpenSealed(p)
        PROVE  BoxStays
    <2>1. box' = box
      BY <1>3 DEF Create, PostBundle, vars, Send, Crash, ShowConversation, Answer,
                  Initiate, PostInit, AlreadyInitiated, OpenSealed
    <2>. QED  BY <2>1, BoxAsItWas
  <1>. QED  BY <1>1, <1>2, <1>3 DEF Next, Deliver, Download
-----------------------------------------------------------------------------
(* What each operation does to the batches *)

BatchOk(p) ==
    /\ \A k \in DOMAIN batch[p] : batch[p][k] \in DOMAIN box[p]
    /\ InitsFirst(p)

LEMMA MailStays ==
    ASSUME BoxStays, NEW p \in Parties, NEW i \in DOMAIN box[p]
    PROVE  i \in DOMAIN box'[p] /\ box'[p][i].mail = box[p][i].mail
  BY DEF BoxStays, RowsStay

\* A batch whose rows are those of the old one, in their order.
LEMMA BatchKept ==
    ASSUME HandshakeType, BoxStays, NEW p \in Parties, BatchOk(p),
           \/ batch'[p] \in {<<>>, batch[p]}
           \/ batch[p] # <<>> /\ batch'[p] = Tail(batch[p])
    PROVE  BatchOk(p)' /\ batch'[p] \in Seq(Nat)
  <1>1. batch[p] \in Seq(Nat)
    BY DEF HandshakeType
  <1>2. ASSUME batch'[p] = batch[p] PROVE BatchOk(p)'
    BY <1>2, MailStays DEF BatchOk, InitsFirst
  <1>3. ASSUME batch'[p] = <<>> PROVE BatchOk(p)' /\ batch'[p] \in Seq(Nat)
    BY <1>3 DEF BatchOk, InitsFirst
  <1>4. ASSUME batch[p] # <<>>, batch'[p] = Tail(batch[p])
        PROVE  BatchOk(p)' /\ batch'[p] \in Seq(Nat)
    <2>1. /\ Tail(batch[p]) \in Seq(Nat)
          /\ \A k \in DOMAIN Tail(batch[p]) :
                k \in Nat /\ k + 1 \in DOMAIN batch[p] /\ Tail(batch[p])[k] = batch[p][k + 1]
      BY <1>1, <1>4, TailIs
    <2>3. \A k \in DOMAIN batch'[p] :
             k \in Nat /\ k + 1 \in DOMAIN batch[p] /\ batch'[p][k] = batch[p][k + 1]
      BY <1>4, <2>1
    <2>4. ASSUME NEW j \in DOMAIN batch'[p], NEW k \in DOMAIN batch'[p], j < k,
                 box[p][batch[p][k + 1]].mail.kind = "init"
          PROVE  box[p][batch[p][j + 1]].mail.kind = "init"
      <3>1. j + 1 \in DOMAIN batch[p] /\ k + 1 \in DOMAIN batch[p] /\ j + 1 < k + 1
        BY <2>3, <2>4
      <3>. QED  BY ONLY <3>1, <2>4, BatchOk(p) DEF BatchOk, InitsFirst
    <2>5. \A k \in DOMAIN batch'[p] :
             /\ batch'[p][k] \in DOMAIN box'[p]
             /\ box'[p][batch'[p][k]].mail = box[p][batch[p][k + 1]].mail
      BY <2>3, MailStays DEF BatchOk
    <2>. QED  BY <1>4, <2>1, <2>4, <2>5 DEF BatchOk, InitsFirst
  <1>. QED  BY <1>1, <1>2, <1>3, <1>4

LEMMA PendingAre ==
    ASSUME HandshakeType, NEW p \in Parties
    PROVE  /\ FirstPending(p) \subseteq DOMAIN box[p]
           /\ FirstPending(p) \subseteq Nat
           /\ \A S \in SUBSET FirstPending(p) : Cardinality(S) \in Nat
  <1>1. /\ FirstPending(p) \subseteq DOMAIN box[p]
        /\ DOMAIN box[p] = 1 .. Len(box[p]) /\ Len(box[p]) \in Nat
    BY DEF FirstPending, Pending, HandshakeType
  <1>2. IsFiniteSet(DOMAIN box[p])
    BY <1>1, FS_Interval
  <1>. QED  BY <1>1, <1>2, FS_Subset, FS_CardinalityType

\* A new batch is in order.
LEMMA BatchFetched ==
    ASSUME HandshakeType, BoxStays, NEW p \in Parties, NEW missed, FetchBatch(p, missed)
    PROVE  /\ BatchOk(p)' /\ batch'[p] \in Seq(Nat)
           /\ \A q \in Parties \ {p} : batch'[q] = batch[q]
           /\ batch' \in [Parties -> Seq(Nat)]
  <1>. PICK S : S = FirstPending(p) \ missed
    OBVIOUS
  <1>1. PICK order \in Ordered(p, S) : batch' = [batch EXCEPT ![p] = order]
    BY DEF FetchBatch
  <1>. PICK n : n = Cardinality(S)
    OBVIOUS
  <1>2. S \subseteq DOMAIN box[p] /\ S \subseteq Nat /\ n \in Nat
    BY PendingAre
  <1>3. order \in [1 .. n -> S]
    BY DEF Ordered
  <1>4. order \in Seq(Nat) /\ DOMAIN order = 1 .. n
    <2>1. order \in [1 .. n -> Nat]
      BY <1>2, <1>3
    <2>. QED  BY ONLY <1>2, <2>1
  <1>5. ASSUME NEW j \in 1 .. n, NEW k \in 1 .. n, j < k,
               box[p][order[k]].mail.kind = "init"
        PROVE  box[p][order[j]].mail.kind = "init"
    <2>1. Class(p, order[j]) < Class(p, order[k]) \/ Class(p, order[j]) = Class(p, order[k])
      BY <1>4, <1>5 DEF Ordered
    <2>. QED  BY <1>5, <2>1 DEF Class, Kind
  <1>6. \A k \in 1 .. n : order[k] \in DOMAIN box[p]
    BY <1>2, <1>3
  <1>7. \A k \in 1 .. n : /\ order[k] \in DOMAIN box'[p]
                          /\ box'[p][order[k]].mail = box[p][order[k]].mail
    BY <1>6, MailStays
  <1>8. batch'[p] = order /\ \A q \in Parties \ {p} : batch'[q] = batch[q]
    BY <1>1 DEF HandshakeType
  <1>9. batch' \in [Parties -> Seq(Nat)]
    BY <1>1, <1>4 DEF HandshakeType
  <1>10. BatchOk(p)'
    BY <1>4, <1>5, <1>7, <1>8 DEF BatchOk, InitsFirst
  <1>. QED  BY <1>4, <1>8, <1>9, <1>10

LEMMA BatchStep ==
    ASSUME HandshakeType, RowsInv, BatchInv, [Next]_vars
    PROVE  batch' \in [Parties -> Seq(Nat)] /\ \A p \in Parties : BatchOk(p)'
  <1>0. BoxStays /\ \A p \in Parties : BatchOk(p)
    BY BoxStep DEF BatchOk, RowsInv, BatchInv
  <1>1. ASSUME NEW p \in Parties, NEW missed, FetchBatch(p, missed)
        PROVE  batch' \in [Parties -> Seq(Nat)] /\ \A q \in Parties : BatchOk(q)'
    BY <1>0, <1>1, BatchFetched, BatchKept
  <1>2. ASSUME NEW p \in Parties, NEW rows,
               batch' = [batch EXCEPT ![p] = rows],
               rows = <<>> \/ (batch[p] # <<>> /\ rows = Tail(batch[p]))
        PROVE  batch' \in [Parties -> Seq(Nat)] /\ \A q \in Parties : BatchOk(q)'
    <2>1. \A q \in Parties : batch'[q] = IF q = p THEN rows ELSE batch[q]
      BY <1>2 DEF HandshakeType
    <2>2. \A q \in Parties : BatchOk(q)' /\ batch'[q] \in Seq(Nat)
      BY <1>0, <1>2, <2>1, BatchKept
    <2>3. rows \in Seq(Nat)
      BY <2>1, <2>2
    <2>4. batch' \in [Parties -> Seq(Nat)]
      BY <1>2, <2>3 DEF HandshakeType
    <2>. QED  BY <2>2, <2>4
  <1>3. ASSUME batch' = batch
        PROVE  batch' \in [Parties -> Seq(Nat)] /\ \A q \in Parties : BatchOk(q)'
    BY <1>0, <1>3, BatchKept DEF HandshakeType
  <1>4. ASSUME NEW p \in Parties, TakeBundle(p) \/ OpenSealed(p) \/ GiveUp(p) \/ Crash(p)
        PROVE  batch' \in [Parties -> Seq(Nat)] /\ \A q \in Parties : BatchOk(q)'
    <2>1. \/ batch[p] # <<>> /\ batch' = [batch EXCEPT ![p] = Tail(batch[p])]
          \/ batch' = [batch EXCEPT ![p] = <<>>]
      BY <1>4 DEF TakeBundle, OpenSealed, GiveUp, Crash, Takes
    <2>. QED  BY <2>1, <1>2
  <1>5. ASSUME \/ Create \/ PostBundle \/ UNCHANGED vars
               \/ \E m \in out : Arrive(m, FALSE) \/ Arrive(m, TRUE)
               \/ \E p \in Parties :
                     \/ Send(p) \/ ShowConversation(p) \/ Answer(p)
                     \/ Initiate(p) \/ PostInit(p) \/ AlreadyInitiated(p)
                     \/ StoreOpened(p)
                     \/ \E i \in DOMAIN box[p] : ArriveAgain(p, i)
        PROVE  batch' = batch
    BY <1>5 DEF Create, PostBundle, vars, Arrive, Send, ShowConversation, Answer,
                Initiate, PostInit, AlreadyInitiated, StoreOpened, ArriveAgain
  <1>. QED  BY <1>1, <1>3, <1>4, <1>5 DEF Next, Deliver, Download
-----------------------------------------------------------------------------
(* What each operation does to the tables *)

\* Keys are made and never taken away.
LEMMA KeysStep ==
    ASSUME HandshakeType, [Next]_vars
    PROVE  /\ us' \in [Parties -> Nat]
           /\ keys' \in [Parties -> SUBSET KeyNames]
           /\ pinned' \in [Parties -> SUBSET KeyNames]
           /\ \A p \in Parties : keys[p] \subseteq keys'[p]
  <1>1. /\ us \in [Parties -> Nat] /\ keys \in [Parties -> SUBSET KeyNames]
        /\ pinned \in [Parties -> SUBSET KeyNames]
    BY DEF HandshakeType
  <1>2. ASSUME NEW p \in Parties, keys' \in {keys, MakeBundle(p)}
        PROVE  keys' \in [Parties -> SUBSET KeyNames] /\ \A q \in Parties : keys[q] \subseteq keys'[q]
    <2>. DEFINE own == EnsureIdentity(p)
    <2>1. own \in [Parties -> SUBSET KeyNames] /\ \A q \in Parties : keys[q] \subseteq own[q]
      BY <1>1 DEF EnsureIdentity, UpsertIdentity, KeyNames
    <2>2. MakeBundle(p) \in {own, [own EXCEPT ![p] = @ \cup {"prekey"}]}
      BY DEF MakeBundle, EnsurePrekey, InsertPrekey, own
    <2>. HIDE DEF own
    <2>3. MakeBundle(p) \in [Parties -> SUBSET KeyNames] /\ \A q \in Parties : keys[q] \subseteq MakeBundle(p)[q]
      BY <2>1, <2>2 DEF KeyNames
    <2>. QED  BY <1>1, <1>2, <2>3
  <1>3. ASSUME NEW p \in Parties, NEW m, pinned' \in {pinned, StorePeer(p), PinnedBy(p, m)}
        PROVE  pinned' \in [Parties -> SUBSET KeyNames]
    <2>1. PinPeer(p) \in [Parties -> SUBSET KeyNames]
      BY <1>1 DEF PinPeer, KeyNames
    <2>2. StorePeer(p) \in [Parties -> SUBSET KeyNames]
      BY <2>1 DEF StorePeer, UpsertPeerPrekey, KeyNames
    <2>. QED  BY <1>1, <1>3, <2>1, <2>2 DEF PinnedBy
  <1>4. ASSUME NEW p \in Parties, us' \in {us, RowWanted(p), [us EXCEPT ![p] = 1]}
        PROVE  us' \in [Parties -> Nat]
    BY <1>1, <1>4 DEF RowWanted
  <1>5. ASSUME keys' = keys, us' = us, pinned' = pinned
        PROVE  /\ us' \in [Parties -> Nat] /\ keys' \in [Parties -> SUBSET KeyNames]
               /\ pinned' \in [Parties -> SUBSET KeyNames]
               /\ \A p \in Parties : keys[p] \subseteq keys'[p]
    BY <1>1, <1>5
  <1>6. ASSUME Create
        PROVE  /\ us' \in [Parties -> Nat] /\ keys' \in [Parties -> SUBSET KeyNames]
               /\ pinned' \in [Parties -> SUBSET KeyNames]
               /\ \A p \in Parties : keys[p] \subseteq keys'[p]
    <2>1. /\ keys' = MakeBundle(Initiator) /\ us' = [us EXCEPT ![Initiator] = 1]
          /\ pinned' = pinned
      BY <1>6 DEF Create
    <2>. QED  BY <1>1, <1>2, <1>4, <2>1, PartiesAre
  <1>7. ASSUME NEW p \in Parties,
               TakeBundle(p) \/ ShowConversation(p) \/ OpenSealed(p) \/ StoreOpened(p)
        PROVE  /\ us' \in [Parties -> Nat] /\ keys' \in [Parties -> SUBSET KeyNames]
               /\ pinned' \in [Parties -> SUBSET KeyNames]
               /\ \A q \in Parties : keys[q] \subseteq keys'[q]
    <2>1. keys' \in {keys, MakeBundle(p)}
      BY <1>7 DEF TakeBundle, ShowConversation, OpenSealed, StoreOpened
    <2>2. us' \in {us, RowWanted(p)}
      BY <1>7 DEF TakeBundle, ShowConversation, OpenSealed, StoreOpened
    <2>3. \E m : pinned' \in {pinned, StorePeer(p), PinnedBy(p, m)}
      BY <1>7 DEF TakeBundle, ShowConversation, OpenSealed, StoreOpened
    <2>. QED  BY <1>2, <1>3, <1>4, <2>1, <2>2, <2>3
  <1>8. ASSUME \/ PostBundle \/ UNCHANGED vars
               \/ \E m \in out : Arrive(m, FALSE) \/ Arrive(m, TRUE)
               \/ \E p \in Parties :
                     \/ Send(p) \/ Answer(p) \/ Initiate(p) \/ PostInit(p)
                     \/ AlreadyInitiated(p) \/ GiveUp(p) \/ Crash(p)
                     \/ \E missed \in SUBSET FirstPending(p) : FetchBatch(p, missed)
                     \/ \E i \in DOMAIN box[p] : ArriveAgain(p, i)
        PROVE  keys' = keys /\ us' = us /\ pinned' = pinned
    BY <1>8 DEF PostBundle, vars, tables, Arrive, Send, Answer, Initiate, PostInit,
                AlreadyInitiated, GiveUp, Crash, FetchBatch, ArriveAgain
  <1>. QED  BY <1>5, <1>6, <1>7, <1>8 DEF Next, Deliver, Download

LEMMA Prekeys ==
    ASSUME HandshakeType, [Next]_vars, NEW p \in Parties
    PROVE  /\ MadePrekey(p) => MadePrekey(p)'
           /\ ShowConversation(p) => MadePrekey(p)'
  <1>1. MadePrekey(p) => MadePrekey(p)'
    BY KeysStep DEF MadePrekey, HasPrekey
  <1>2. ASSUME ShowConversation(p) PROVE "prekey" \in keys'[p]
    <2>. DEFINE own == EnsureIdentity(p)
    <2>1. own \in [Parties -> SUBSET KeyNames] /\ "identity" \in own[p]
      BY DEF HandshakeType, EnsureIdentity, HasIdentity, UpsertIdentity, KeyNames
    <2>2. keys' = EnsurePrekey(own, p)
      BY <1>2 DEF ShowConversation, MakeBundle
    <2>. HIDE DEF own
    <2>. QED  BY <2>1, <2>2 DEF EnsurePrekey, HasPrekey, HasIdentity, InsertPrekey
  <1>. QED  BY <1>1, <1>2 DEF MadePrekey, HasPrekey

\* Who posts what: TaskRepo::insert of each task.
LEMMA Posted ==
    ASSUME HandshakeType, SessionsInv, [Next]_vars
    PROVE  \/ out' \subseteq out /\ posts' = posts
           \/ /\ posts' = posts + 1 /\ root' = root /\ eks' = eks /\ keys' = keys
              /\ \E m \in AnyMail :
                    /\ out' = out \cup {m}
                    /\ m.id = posts + 1 /\ m.root = root[m.from] /\ MailInv(m)
  <1>1. ASSUME NEW p \in Parties, NEW kind \in Kinds, Post(p, kind), UNCHANGED tables,
               \/ kind = "bundle" /\ p = Initiator
               \/ kind = "msg" /\ root[p] # NoRoot
               \/ kind = "reply" /\ p = Responder /\ MadePrekey(Responder)
               \/ kind = "init" /\ p = Initiator /\ root[p] # NoRoot
        PROVE  /\ posts' = posts + 1 /\ root' = root /\ eks' = eks /\ keys' = keys
               /\ \E m \in AnyMail :
                     /\ out' = out \cup {m}
                     /\ m.id = posts + 1 /\ m.root = root[m.from] /\ MailInv(m)
    <2>. DEFINE m == [from |-> p, kind |-> kind, id |-> posts + 1, root |-> root[p]]
    <2>1. /\ posts \in Nat /\ root[p] \in Nat /\ posts' = posts + 1
          /\ out' = out \cup {m} /\ root' = root /\ eks' = eks /\ keys' = keys
      BY <1>1 DEF Post, HandshakeType, tables
    <2>2. /\ m \in AnyMail /\ m.from = p /\ m.kind = kind /\ m.id = posts + 1
          /\ m.root = root[p]
      BY <2>1 DEF AnyMail
    <2>3. root[p] # NoRoot => root[p] = root[Initiator]
      BY PartiesAre DEF SessionsInv
    <2>. HIDE DEF m
    <2>4. MailInv(m)
      BY <1>1, <2>2, <2>3 DEF MailInv
    <2>. QED  BY <2>1, <2>2, <2>4
  <1>2. CASE PostBundle
    BY <1>1, <1>2, PartiesAre DEF PostBundle, Kinds
  <1>3. ASSUME NEW p \in Parties, Send(p)
        PROVE  /\ posts' = posts + 1 /\ root' = root /\ eks' = eks /\ keys' = keys
               /\ \E m \in AnyMail :
                     /\ out' = out \cup {m}
                     /\ m.id = posts + 1 /\ m.root = root[m.from] /\ MailInv(m)
    BY <1>1, <1>3 DEF Send, Ready, ActiveSession, HasSession, Kinds
  <1>4. ASSUME NEW p \in Parties, Answer(p) \/ PostInit(p)
        PROVE  /\ posts' = posts + 1 /\ root' = root /\ eks' = eks /\ keys' = keys
               /\ \E m \in AnyMail :
                     /\ out' = out \cup {m}
                     /\ m.id = posts + 1 /\ m.root = root[m.from] /\ MailInv(m)
    BY <1>1, <1>4 DEF Answer, PostInit, SessionsInv, JobInv, HasSession, Kinds
  <1>5. ASSUME \/ Create \/ UNCHANGED vars
               \/ \E m \in out : Arrive(m, FALSE) \/ Arrive(m, TRUE)
               \/ \E p \in Parties :
                     \/ ShowConversation(p) \/ Initiate(p) \/ AlreadyInitiated(p)
                     \/ TakeBundle(p) \/ OpenSealed(p) \/ StoreOpened(p) \/ GiveUp(p)
                     \/ Crash(p)
                     \/ \E missed \in SUBSET FirstPending(p) : FetchBatch(p, missed)
                     \/ \E i \in DOMAIN box[p] : ArriveAgain(p, i)
        PROVE  out' \subseteq out /\ posts' = posts
    BY <1>5 DEF Create, vars, Arrive, ShowConversation, Initiate, AlreadyInitiated,
                TakeBundle, OpenSealed, StoreOpened, GiveUp, Crash, FetchBatch, ArriveAgain
  <1>. QED  BY <1>2, <1>3, <1>4, <1>5 DEF Next, Deliver, Download

\* What the party's head mail is.
LEMMA HeadMailIs ==
    ASSUME HandshakeInv, NEW p \in Parties, batch[p] # <<>>
    PROVE  /\ HeadMail(p) \in AnyMail /\ HeadMail(p) \in Mails(p) /\ HeadMail(p) \in Queued
           /\ HeadMail(p).from = Peer(p) /\ MailInv(HeadMail(p))
           /\ Kind(p, Head(batch[p])) = HeadMail(p).kind
  <1>1. Head(batch[p]) \in DOMAIN box[p] /\ HeadMail(p) \in Mails(p)
    BY HeadIs DEF HandshakeInv, Mails, MailsOf
  <1>2. box[p] \in Seq(BoxRow)
    BY DEF HandshakeInv, HandshakeType
  <1>3. HeadMail(p) \in AnyMail
    <2>1. box[p][Head(batch[p])] \in BoxRow
      BY <1>1, <1>2
    <2>. QED  BY <2>1, RowIs DEF HeadMail
  <1>. QED  BY <1>1, <1>3 DEF HandshakeInv, MailsInv, Queued, Kind, HeadMail

\* The initiator's root is made once; the responder's is the initiator's.
LEMMA RootStep ==
    ASSUME HandshakeInv, [Next]_vars
    PROVE  /\ \/ root' = root /\ eks' = eks
              \/ /\ root[Initiator] = NoRoot /\ eks' = eks + 1
                 /\ root' = [root EXCEPT ![Initiator] = eks + 1]
                 /\ \E p \in Parties : Initiate(p)
              \/ /\ root[Responder] = NoRoot /\ eks' = eks
                 /\ root' = [root EXCEPT ![Responder] = root[Initiator]]
           /\ \A p \in Parties : Initiate(p) => root'[Initiator] # NoRoot
  <1>0. eks \in Nat /\ root \in [Parties -> Nat]
    BY DEF HandshakeInv, HandshakeType
  <1>1. ASSUME NEW p \in Parties, Initiate(p)
        PROVE  /\ root[Initiator] = NoRoot /\ eks' = eks + 1
               /\ root' = [root EXCEPT ![Initiator] = eks + 1]
               /\ root'[Initiator] # NoRoot
    <2>1. /\ job[p].step = "initiate" /\ root[p] = NoRoot /\ eks' = eks + 1
          /\ root' = [root EXCEPT ![p] = eks + 1]
      BY <1>1 DEF Initiate, X3dhInitiate, HasSession
    <2>2. p = Initiator
      BY <2>1 DEF HandshakeInv, SessionsInv, JobInv
    <2>. QED  BY <1>0, <2>1, <2>2, PartiesAre DEF NoRoot
  <1>2. ASSUME NEW p \in Parties, OpenSealed(p)
        PROVE  \/ root' = root /\ eks' = eks
               \/ /\ root[Responder] = NoRoot /\ eks' = eks
                  /\ root' = [root EXCEPT ![Responder] = root[Initiator]]
    <2>. DEFINE m == HeadMail(p)
    <2>1. /\ Opens(p, m) /\ eks' = eks /\ batch[p] # <<>>
          /\ root' = root \/ (root[p] = NoRoot /\ root' = [root EXCEPT ![p] = m.root])
      BY <1>2 DEF OpenSealed, Takes, HasSession, X3dhRespond
    <2>2. m.from = Peer(p) /\ MailInv(m) /\ Kind(p, Head(batch[p])) = m.kind
      BY <2>1, HeadMailIs
    <2>3. m.kind \in {"init", "msg"}
      BY <1>2, <2>2 DEF OpenSealed, Takes
    <2>. HIDE DEF m
    <2>4. m.root = root[Initiator] /\ m.root # NoRoot
      BY <2>2, <2>3 DEF MailInv
    <2>5. ASSUME root[p] = NoRoot PROVE p = Responder
      <3>1. m.kind = "init"
        BY <2>1, <2>4, <2>5 DEF Opens
      <3>. QED  BY <2>2, <3>1, PartiesAre DEF MailInv
    <2>. QED  BY <2>1, <2>4, <2>5
  <1>3. ASSUME \/ Create \/ PostBundle \/ UNCHANGED vars
               \/ \E m \in out : Arrive(m, FALSE) \/ Arrive(m, TRUE)
               \/ \E p \in Parties :
                     \/ Send(p) \/ ShowConversation(p) \/ Answer(p) \/ PostInit(p)
                     \/ AlreadyInitiated(p) \/ TakeBundle(p) \/ StoreOpened(p)
                     \/ GiveUp(p) \/ Crash(p)
                     \/ \E missed \in SUBSET FirstPending(p) : FetchBatch(p, missed)
                     \/ \E i \in DOMAIN box[p] : ArriveAgain(p, i)
        PROVE  root' = root /\ eks' = eks
    BY <1>3 DEF Create, PostBundle, vars, tables, Arrive, Send, ShowConversation, Answer,
                PostInit, AlreadyInitiated, TakeBundle, StoreOpened, GiveUp, Crash,
                FetchBatch, ArriveAgain
  <1>4. \/ root' = root /\ eks' = eks
        \/ /\ root[Initiator] = NoRoot /\ eks' = eks + 1
           /\ root' = [root EXCEPT ![Initiator] = eks + 1]
           /\ \E p \in Parties : Initiate(p)
        \/ /\ root[Responder] = NoRoot /\ eks' = eks
           /\ root' = [root EXCEPT ![Responder] = root[Initiator]]
    BY <1>1, <1>2, <1>3 DEF Next, Deliver, Download
  <1>. QED  BY <1>1, <1>4
-----------------------------------------------------------------------------
(* What each operation does to the jobs *)

\* A job is finished, begun on the head of the batch, taken a step further, or
\* left alone.
LEMMA JobStep ==
    ASSUME HandshakeInv, [Next]_vars
    PROVE  /\ job' \in [Parties -> Job]
           /\ \A p \in Parties :
                 \/ job'[p] = job[p]
                 \/ job'[p] = Idle /\ (Crash(p) \/ StoreOpened(p) \/ job[p].step # "store")
                 \/ /\ batch[p] # <<>> /\ job[p] = Idle /\ job'[p] # Idle
                    /\ job'[p].row = Head(batch[p])
                    /\ \/ /\ TakeBundle(p)
                          /\ job'[p].step = IF Kind(p, Head(batch[p])) = "bundle"
                                            THEN "show" ELSE "initiate"
                       \/ OpenSealed(p) /\ job'[p].step = "store"
                 \/ /\ job[p] # Idle /\ job[p].step # "store" /\ job'[p] # Idle
                    /\ job'[p].row = job[p].row
                    /\ \/ ShowConversation(p) /\ job'[p].step = "answer"
                       \/ Initiate(p) /\ job'[p].step = "post"
  <1>. DEFINE Is(p) ==
                 \/ job'[p] = job[p]
                 \/ job'[p] = Idle /\ (Crash(p) \/ StoreOpened(p) \/ job[p].step # "store")
                 \/ /\ batch[p] # <<>> /\ job[p] = Idle /\ job'[p] # Idle
                    /\ job'[p].row = Head(batch[p])
                    /\ \/ /\ TakeBundle(p)
                          /\ job'[p].step = IF Kind(p, Head(batch[p])) = "bundle"
                                            THEN "show" ELSE "initiate"
                       \/ OpenSealed(p) /\ job'[p].step = "store"
                 \/ /\ job[p] # Idle /\ job[p].step # "store" /\ job'[p] # Idle
                    /\ job'[p].row = job[p].row
                    /\ \/ ShowConversation(p) /\ job'[p].step = "answer"
                       \/ Initiate(p) /\ job'[p].step = "post"
  <1>0. job \in [Parties -> Job]
    BY DEF HandshakeInv, HandshakeType
  <1>1. ASSUME NEW p \in Parties, NEW e \in Job, job' = [job EXCEPT ![p] = e],
               job'[p] = e => Is(p)
        PROVE  job' \in [Parties -> Job] /\ \A q \in Parties : Is(q)
    <2>1. job' \in [Parties -> Job] /\ job'[p] = e /\ \A q \in Parties \ {p} : job'[q] = job[q]
      BY <1>0, <1>1
    <2>2. \A q \in Parties \ {p} : Is(q)
      BY <2>1
    <2>. QED  BY <1>1, <2>1, <2>2
  <1>2. ASSUME NEW p \in Parties,
               \/ Answer(p) \/ PostInit(p) \/ AlreadyInitiated(p) \/ Crash(p)
               \/ StoreOpened(p)
        PROVE  job' \in [Parties -> Job] /\ \A q \in Parties : Is(q)
    <2>1. job' = [job EXCEPT ![p] = Idle]
      BY <1>2 DEF Answer, PostInit, AlreadyInitiated, Crash, StoreOpened, Finish
    <2>2. Crash(p) \/ StoreOpened(p) \/ job[p].step # "store"
      BY <1>2 DEF Answer, PostInit, AlreadyInitiated
    <2>. QED  BY <1>1, <2>1, <2>2, JobIs
  <1>3. ASSUME NEW p \in Parties, TakeBundle(p) \/ OpenSealed(p)
        PROVE  job' \in [Parties -> Job] /\ \A q \in Parties : Is(q)
    <2>. DEFINE s == IF Kind(p, Head(batch[p])) = "bundle" THEN "show" ELSE "initiate"
                e == [step |-> IF TakeBundle(p) THEN s ELSE "store", row |-> Head(batch[p])]
    <2>1. batch[p] # <<>> /\ job[p] = Idle
      BY <1>3 DEF TakeBundle, OpenSealed, Takes
    <2>2. \E step \in {s, "store"} :
             /\ job' = [job EXCEPT ![p] = [step |-> step, row |-> Head(batch[p])]]
             /\ \/ TakeBundle(p) /\ step = s
                \/ OpenSealed(p) /\ step = "store"
      BY <1>3 DEF TakeBundle, OpenSealed, Continue
    <2>3. PICK step \in {s, "store"} :
             /\ job' = [job EXCEPT ![p] = [step |-> step, row |-> Head(batch[p])]]
             /\ \/ TakeBundle(p) /\ step = s
                \/ OpenSealed(p) /\ step = "store"
      BY <2>2
    <2>. DEFINE d == [step |-> step, row |-> Head(batch[p])]
    <2>4. Head(batch[p]) \in Nat
      BY <2>1, HeadIs DEF HandshakeInv
    <2>5. step \in {"show", "initiate", "store"}
      BY <2>3
    <2>6. d \in Job /\ d # Idle /\ d.step = step /\ d.row = Head(batch[p])
      BY <2>4, <2>5 DEF Job, Idle
    <2>7. job' = [job EXCEPT ![p] = d]
      BY <2>3
    <2>. HIDE DEF d
    <2>8. job'[p] = d => Is(p)
      BY <2>1, <2>3, <2>6
    <2>. QED  BY <1>1, <2>6, <2>7, <2>8
  <1>4. ASSUME NEW p \in Parties, ShowConversation(p) \/ Initiate(p)
        PROVE  job' \in [Parties -> Job] /\ \A q \in Parties : Is(q)
    <2>1. /\ job[p] \in Job /\ job[p] # Idle /\ job[p].step # "store"
          /\ \E step \in {"answer", "post"} :
                /\ job' = [job EXCEPT ![p] = [job[p] EXCEPT !.step = step]]
                /\ \/ ShowConversation(p) /\ step = "answer"
                   \/ Initiate(p) /\ step = "post"
      BY <1>0, <1>4, JobIs DEF ShowConversation, Initiate
    <2>2. PICK step \in {"answer", "post"} :
             /\ job' = [job EXCEPT ![p] = [job[p] EXCEPT !.step = step]]
             /\ \/ ShowConversation(p) /\ step = "answer"
                \/ Initiate(p) /\ step = "post"
      BY <2>1
    <2>. DEFINE d == [job[p] EXCEPT !.step = step]
    <2>3. d \in Job /\ d # Idle /\ d.step = step /\ d.row = job[p].row
      <3>1. /\ job[p] \in Job /\ job[p] # Idle
            /\ step \in {"show", "answer", "initiate", "post", "store"}
        BY <2>1, <2>2
      <3>. QED  BY ONLY <3>1, JobSteps
    <2>4. job' = [job EXCEPT ![p] = d]
      BY <2>2
    <2>. HIDE DEF d
    <2>5. job'[p] = d => Is(p)
      BY <2>1, <2>2, <2>3
    <2>. QED  BY <1>1, <2>3, <2>4, <2>5
  <1>5. ASSUME job' = job
        PROVE  job' \in [Parties -> Job] /\ \A q \in Parties : Is(q)
    BY <1>0, <1>5
  <1>6. ASSUME \/ Create \/ PostBundle \/ UNCHANGED vars
               \/ \E m \in out : Arrive(m, FALSE) \/ Arrive(m, TRUE)
               \/ \E p \in Parties :
                     \/ Send(p) \/ GiveUp(p)
                     \/ \E missed \in SUBSET FirstPending(p) : FetchBatch(p, missed)
                     \/ \E i \in DOMAIN box[p] : ArriveAgain(p, i)
        PROVE  job' = job
    BY <1>6 DEF Create, PostBundle, vars, Arrive, Send, GiveUp, FetchBatch, ArriveAgain
  <1>. HIDE DEF Is
  <1>7. job' \in [Parties -> Job] /\ \A q \in Parties : Is(q)
    BY <1>2, <1>3, <1>4, <1>5, <1>6 DEF Next, Deliver, Download
  <1>. QED  BY <1>7 DEF Is
-----------------------------------------------------------------------------
(* The invariant *)

LEMMA InitInv ==
    ASSUME Init
    PROVE  HandshakeInv
  <1>1. HandshakeType
    <2>1. <<>> \in Seq(BoxRow) /\ <<>> \in Seq(Nat)
      OBVIOUS
    <2>. QED  BY <2>1, JobIs DEF Init, HandshakeType, NoRoot
  <1>2. \A p \in Parties : /\ box[p] = <<>> /\ batch[p] = <<>> /\ job[p] = Idle
                           /\ root[p] = NoRoot /\ opened[p] = {} /\ read[p] = {}
                           /\ lost[p] = {} /\ Mails(p) = {}
    BY DEF Init, Mails
  <1>3. Queued = {}
    BY <1>2 DEF Init, Queued
  <1>4. RowsInv /\ BatchInv
    BY <1>2 DEF RowsInv, BatchInv, InitsFirst
  <1>5. NamesInv /\ MailsInv
    BY <1>2, <1>3 DEF NamesInv, MailsInv, NoRoot, Init
  <1>6. SessionsInv
    BY <1>2, JobIs, PartiesAre DEF SessionsInv, JobInv, HasSession
  <1>7. OpenedInv
    BY <1>2, JobIs DEF OpenedInv
  <1>. QED  BY <1>1, <1>4, <1>5, <1>6, <1>7 DEF HandshakeInv

\* Mail that is queued was queued, or is the mail this step posts.
LEMMA QueuedStep ==
    ASSUME HandshakeInv, [Next]_vars
    PROVE  /\ out' \subseteq AnyMail /\ posts' \in Nat /\ posts <= posts'
           /\ \A m \in Queued' :
                 \/ m \in Queued
                 \/ /\ m.id = posts' /\ m.root = root[m.from] /\ m.from \in Parties
                    /\ MailInv(m) /\ posts' = posts + 1
           /\ \A p \in Parties : \A m \in MailsOf(box'[p]) : m.from = Peer(p)
  <1>1. BoxStays
    BY BoxStep DEF HandshakeInv
  <1>2. \A p \in Parties : Mails(p) = MailsOf(box[p])
    BY DEF Mails, MailsOf
  <1>3. \A p \in Parties : Mails(p)' = MailsOf(box'[p])
    BY DEF Mails, MailsOf
  <1>4. \A m \in Queued' : m \in Queued \/ m \in out'
    BY <1>1, <1>2, <1>3 DEF BoxStays, Queued
  <1>5. posts \in Nat /\ out \subseteq AnyMail /\ out \subseteq Queued
    BY DEF HandshakeInv, HandshakeType, Queued
  <1>6. \A p \in Parties : \A m \in MailsOf(box'[p]) : m.from = Peer(p)
    BY <1>1, <1>2 DEF BoxStays, HandshakeInv, MailsInv
  <1>7. CASE out' \subseteq out /\ posts' = posts
    BY <1>4, <1>5, <1>6, <1>7
  <1>8. CASE /\ posts' = posts + 1
             /\ \E m \in AnyMail :
                   /\ out' = out \cup {m}
                   /\ m.id = posts + 1 /\ m.root = root[m.from] /\ MailInv(m)
    <2>1. PICK m \in AnyMail : /\ out' = out \cup {m}
                               /\ m.id = posts + 1 /\ m.root = root[m.from] /\ MailInv(m)
      BY <1>8
    <2>2. m.from \in Parties
      BY DEF AnyMail
    <2>. QED  BY <1>4, <1>5, <1>6, <1>8, <2>1, <2>2
  <1>. QED  BY <1>7, <1>8, Posted DEF HandshakeInv

\* Plaintext and keys: what is opened, read and given up.
LEMMA ReadStep ==
    ASSUME HandshakeInv, [Next]_vars
    PROVE  /\ opened' \in [Parties -> SUBSET AnyMail] /\ read' \in [Parties -> SUBSET AnyMail]
           /\ lost' \in [Parties -> SUBSET AnyMail]
           /\ \A p \in Parties :
                 /\ \/ opened'[p] = opened[p]
                    \/ /\ OpenSealed(p) /\ batch[p] # <<>>
                       /\ opened'[p] = opened[p] \cup {HeadMail(p)}
                 /\ \/ read'[p] = read[p]
                    \/ /\ StoreOpened(p)
                       /\ read'[p] = read[p] \cup {box[p][job[p].row].mail}
                 /\ \/ lost'[p] = lost[p]
                    \/ /\ GiveUp(p) /\ batch[p] # <<>>
                       /\ lost'[p] = lost[p] \cup ({HeadMail(p)} \ read[p])
                 /\ StoreOpened(p) =>
                       \/ box[p][job[p].row].state = "gone"
                       \/ box[p][job[p].row].mail \in read'[p]
  <1>0. /\ opened \in [Parties -> SUBSET AnyMail] /\ read \in [Parties -> SUBSET AnyMail]
        /\ lost \in [Parties -> SUBSET AnyMail]
    BY DEF HandshakeInv, HandshakeType
  <1>1. ASSUME NEW p \in Parties, OpenSealed(p)
        PROVE  /\ opened' \in [Parties -> SUBSET AnyMail] /\ read' = read /\ lost' = lost
               /\ \A q \in Parties : \/ opened'[q] = opened[q]
                                     \/ /\ OpenSealed(q) /\ batch[q] # <<>>
                                        /\ opened'[q] = opened[q] \cup {HeadMail(q)}
    <2>1. /\ opened' = [opened EXCEPT ![p] = opened[p] \cup {HeadMail(p)}]
          /\ batch[p] # <<>> /\ read' = read /\ lost' = lost
      BY <1>1 DEF OpenSealed, Takes, KeyUsed
    <2>2. HeadMail(p) \in AnyMail
      BY <2>1, HeadMailIs
    <2>. QED  BY <1>0, <1>1, <2>1, <2>2
  <1>2. ASSUME NEW p \in Parties, StoreOpened(p)
        PROVE  /\ read' \in [Parties -> SUBSET AnyMail] /\ opened' = opened /\ lost' = lost
               /\ \A q \in Parties : \/ read'[q] = read[q]
                                     \/ /\ StoreOpened(q)
                                        /\ read'[q] = read[q] \cup {box[q][job[q].row].mail}
               /\ \/ box[p][job[p].row].state = "gone"
                  \/ box[p][job[p].row].mail \in read'[p]
    <2>1. /\ \/ read' = read /\ box[p][job[p].row].state = "gone"
             \/ read' = [read EXCEPT ![p] = read[p] \cup {box[p][job[p].row].mail}]
          /\ opened' = opened /\ lost' = lost /\ job[p] # Idle
      BY <1>2, JobIs DEF StoreOpened
    <2>2. box[p][job[p].row].mail \in AnyMail
      <3>1. box[p] \in Seq(BoxRow) /\ job[p].row \in DOMAIN box[p]
        BY <2>1 DEF HandshakeInv, HandshakeType, RowsInv
      <3>2. box[p][job[p].row] \in BoxRow
        BY <3>1
      <3>. QED  BY <3>2, RowIs
    <2>. QED  BY <1>0, <1>2, <2>1, <2>2
  <1>3. ASSUME NEW p \in Parties, GiveUp(p)
        PROVE  /\ lost' \in [Parties -> SUBSET AnyMail] /\ opened' = opened /\ read' = read
               /\ \A q \in Parties : \/ lost'[q] = lost[q]
                                     \/ /\ GiveUp(q) /\ batch[q] # <<>>
                                        /\ lost'[q] = lost[q] \cup ({HeadMail(q)} \ read[q])
    <2>1. /\ lost' = [lost EXCEPT ![p] = lost[p] \cup ({HeadMail(p)} \ read[p])]
          /\ batch[p] # <<>> /\ read' = read /\ opened' = opened
      BY <1>3 DEF GiveUp, Takes
    <2>2. HeadMail(p) \in AnyMail
      BY <2>1, HeadMailIs
    <2>. QED  BY <1>0, <1>3, <2>1, <2>2
  <1>4. ASSUME \/ Create \/ PostBundle \/ UNCHANGED vars
               \/ \E m \in out : Arrive(m, FALSE) \/ Arrive(m, TRUE)
               \/ \E p \in Parties :
                     \/ Send(p) \/ ShowConversation(p) \/ Answer(p) \/ PostInit(p)
                     \/ Initiate(p) \/ AlreadyInitiated(p) \/ TakeBundle(p) \/ Crash(p)
                     \/ \E missed \in SUBSET FirstPending(p) : FetchBatch(p, missed)
                     \/ \E i \in DOMAIN box[p] : ArriveAgain(p, i)
        PROVE  opened' = opened /\ read' = read /\ lost' = lost
    BY <1>4 DEF Create, PostBundle, vars, tables, Arrive, Send, ShowConversation, Answer,
                PostInit, Initiate, AlreadyInitiated, TakeBundle, Crash,
                FetchBatch, ArriveAgain
  <1>5. ASSUME NEW p \in Parties, StoreOpened(p)
        PROVE  \/ box[p][job[p].row].state = "gone"
               \/ box[p][job[p].row].mail \in read'[p]
    BY <1>2, <1>5
  <1>6. \/ \E p \in Parties : OpenSealed(p) \/ StoreOpened(p) \/ GiveUp(p)
        \/ opened' = opened /\ read' = read /\ lost' = lost
    BY <1>4 DEF Next, Deliver, Download
  <1>. QED  BY <1>0, <1>1, <1>2, <1>3, <1>5, <1>6

LEMMA FaultStep ==
    ASSUME HandshakeInv, [Next]_vars
    PROVE  /\ faults' \in [dup : Nat, miss : Nat, crash : Nat]
           /\ faults.crash > 0 => faults'.crash > 0
           /\ \A p \in Parties : Crash(p) => faults'.crash > 0
  <1>. DEFINE F == [dup : Nat, miss : Nat, crash : Nat]
  <1>0. faults \in F
    BY DEF HandshakeInv, HandshakeType
  <1>1. ASSUME NEW d \in {0, 1}, faults' = [faults EXCEPT !.dup = faults.dup + d]
        PROVE  faults' \in F /\ faults'.crash = faults.crash
    BY <1>0, <1>1
  <1>2. ASSUME NEW p \in Parties, NEW missed \in SUBSET FirstPending(p), FetchBatch(p, missed)
        PROVE  faults' \in F /\ faults'.crash = faults.crash
    <2>1. Cardinality(missed) \in Nat
      BY PendingAre DEF HandshakeInv
    <2>2. faults' = [faults EXCEPT !.miss = faults.miss + Cardinality(missed)]
      BY <1>2 DEF FetchBatch
    <2>. QED  BY <1>0, <2>1, <2>2
  <1>3. ASSUME NEW p \in Parties, Crash(p)
        PROVE  faults' \in F /\ faults'.crash > 0
    <2>1. faults' = [faults EXCEPT !.crash = faults.crash + 1]
      BY <1>3 DEF Crash
    <2>. QED  BY <1>0, <2>1
  <1>4. ASSUME NEW m \in out, NEW twice \in BOOLEAN, Arrive(m, twice)
        PROVE  faults' \in F /\ faults'.crash = faults.crash
    <2>1. faults' \in {faults, [faults EXCEPT !.dup = faults.dup + 1]}
      BY <1>4 DEF Arrive
    <2>. QED  BY <1>0, <2>1
  <1>5. ASSUME NEW p \in Parties, NEW i, ArriveAgain(p, i)
        PROVE  faults' \in F /\ faults'.crash = faults.crash
    BY <1>0, <1>5 DEF ArriveAgain
  <1>6. ASSUME \/ Create \/ PostBundle \/ UNCHANGED vars
               \/ \E p \in Parties :
                     \/ Send(p) \/ ShowConversation(p) \/ Answer(p) \/ PostInit(p)
                     \/ Initiate(p) \/ AlreadyInitiated(p) \/ TakeBundle(p)
                     \/ OpenSealed(p) \/ StoreOpened(p) \/ GiveUp(p)
        PROVE  faults' = faults
    BY <1>6 DEF Create, PostBundle, vars, Send, ShowConversation, Answer, PostInit,
                Initiate, AlreadyInitiated, TakeBundle, OpenSealed, StoreOpened, GiveUp
  <1>. HIDE DEF F
  <1>7. faults' \in F /\ (faults.crash > 0 => faults'.crash > 0)
    BY <1>0, <1>2, <1>3, <1>4, <1>5, <1>6 DEF Next, Deliver, Download
  <1>. QED  BY <1>3, <1>7 DEF F

LEMMA TypeStep ==
    ASSUME HandshakeInv, [Next]_vars
    PROVE  HandshakeType'
  <1>1. ui' \in {"none", "saved", "done"}
    <2>1. ASSUME NEW p \in Parties, Download(p) PROVE ui' = ui
      BY <2>1 DEF Download, FetchBatch, TakeBundle, ShowConversation, Answer, Initiate,
                  PostInit, AlreadyInitiated, OpenSealed, StoreOpened, GiveUp
    <2>2. ASSUME NEW p \in Parties,
                 Send(p) \/ Crash(p) \/ \E i \in DOMAIN box[p] : ArriveAgain(p, i)
          PROVE  ui' \in {ui, "done"}
      BY <2>2 DEF Send, Crash, ArriveAgain
    <2>3. ASSUME \/ Create \/ PostBundle \/ UNCHANGED vars
                 \/ \E m \in out : Arrive(m, FALSE) \/ Arrive(m, TRUE)
          PROVE  ui' \in {ui, "saved", "done"}
      BY <2>3 DEF Create, PostBundle, vars, Arrive
    <2>4. ui' \in {ui, "saved", "done"}
      BY <2>1, <2>2, <2>3 DEF Next, Deliver
    <2>. QED  BY <2>4 DEF HandshakeInv, HandshakeType
  <1>2. /\ us' \in [Parties -> Nat] /\ keys' \in [Parties -> SUBSET KeyNames]
        /\ pinned' \in [Parties -> SUBSET KeyNames]
    BY KeysStep DEF HandshakeInv
  <1>3. eks' \in Nat /\ root' \in [Parties -> Nat]
    <2>1. eks \in Nat /\ root \in [Parties -> Nat]
      BY DEF HandshakeInv, HandshakeType
    <2>2. CASE root' = root /\ eks' = eks
      BY <2>1, <2>2
    <2>3. CASE eks' = eks + 1 /\ root' = [root EXCEPT ![Initiator] = eks + 1]
      <3>1. eks + 1 \in Nat
        BY <2>1
      <3>2. root' \in [Parties -> Nat]
        BY ONLY <2>1, <2>3, <3>1
      <3>. QED  BY <2>3, <3>1, <3>2
    <2>4. CASE eks' = eks /\ root' = [root EXCEPT ![Responder] = root[Initiator]]
      BY <2>1, <2>4, PartiesAre
    <2>. QED  BY <2>2, <2>3, <2>4, RootStep
  <1>4. posts' \in Nat /\ out' \subseteq AnyMail
    BY QueuedStep
  <1>5. box' \in [Parties -> Seq(BoxRow)]
    BY BoxStep DEF BoxStays, HandshakeInv
  <1>6. batch' \in [Parties -> Seq(Nat)]
    BY BatchStep DEF HandshakeInv
  <1>7. job' \in [Parties -> Job]
    BY JobStep
  <1>8. /\ opened' \in [Parties -> SUBSET AnyMail] /\ read' \in [Parties -> SUBSET AnyMail]
        /\ lost' \in [Parties -> SUBSET AnyMail]
    BY ReadStep
  <1>9. faults' \in [dup : Nat, miss : Nat, crash : Nat]
    BY FaultStep DEF HandshakeInv
  <1>. QED  BY <1>1, <1>2, <1>3, <1>4, <1>5, <1>6, <1>7, <1>8, <1>9 DEF HandshakeType

LEMMA NamesStep ==
    ASSUME HandshakeInv, [Next]_vars
    PROVE  NamesInv'
  <1>1. /\ eks \in Nat /\ posts \in Nat /\ root \in [Parties -> Nat]
        /\ \A m \in Queued : m.id \in 1 .. posts /\ m.root \in 0 .. eks
        /\ \A p \in Parties : root[p] \in 0 .. eks
    BY DEF HandshakeInv, HandshakeType, NamesInv
  <1>2. eks' \in Nat /\ eks <= eks' /\ \A p \in Parties : root'[p] \in 0 .. eks'
    BY <1>1, RootStep, PartiesAre
  <1>3. \A m \in Queued' : m.id \in 1 .. posts' /\ m.root \in 0 .. eks'
    BY <1>1, <1>2, QueuedStep
  <1>. QED  BY <1>2, <1>3 DEF NamesInv

LEMMA MailsStep ==
    ASSUME HandshakeInv, [Next]_vars
    PROVE  MailsInv'
  <1>1. ASSUME NEW m, MailInv(m)
        PROVE  MailInv(m)'
    <2>1. MadePrekey(Responder) => MadePrekey(Responder)'
      BY Prekeys, PartiesAre DEF HandshakeInv
    <2>2. root[Initiator] # NoRoot => root'[Initiator] = root[Initiator]
      BY RootStep, PartiesAre DEF HandshakeInv, HandshakeType
    <2>. QED  BY <1>1, <2>1, <2>2 DEF MailInv
  <1>2. \A m \in Queued' : MailInv(m)
    BY QueuedStep DEF HandshakeInv, MailsInv
  <1>3. \A p \in Parties : Mails(p)' = MailsOf(box'[p])
    BY DEF Mails, MailsOf
  <1>. QED  BY <1>1, <1>2, <1>3, QueuedStep DEF MailsInv

LEMMA SessionsStep ==
    ASSUME HandshakeInv, [Next]_vars
    PROVE  SessionsInv'
  <1>0. root \in [Parties -> Nat] /\ eks \in Nat
    BY DEF HandshakeInv, HandshakeType
  <1>1. root'[Responder] \in {NoRoot, root'[Initiator]}
    BY <1>0, RootStep, PartiesAre DEF HandshakeInv, SessionsInv
  <1>2. MadePrekey(Responder) => MadePrekey(Responder)'
    BY Prekeys, PartiesAre DEF HandshakeInv
  <1>3. HasSession(Initiator) => HasSession(Initiator)'
    BY <1>0, RootStep, PartiesAre DEF HasSession
  <1>4. ASSUME NEW p \in Parties PROVE JobInv(p)'
    <2>1. JobInv(p)
      BY DEF HandshakeInv, SessionsInv
    <2>2. CASE job'[p] = job[p]
      BY <1>2, <1>3, <2>1, <2>2 DEF JobInv
    <2>3. CASE job'[p].step \in {"idle", "store"}
      BY <2>3 DEF JobInv
    <2>4. CASE /\ TakeBundle(p) /\ batch[p] # <<>>
               /\ job'[p].step = IF Kind(p, Head(batch[p])) = "bundle"
                                 THEN "show" ELSE "initiate"
      <3>1. /\ HeadMail(p).kind \in {"bundle", "reply"} /\ HeadMail(p).from = Peer(p)
            /\ MailInv(HeadMail(p)) /\ Kind(p, Head(batch[p])) = HeadMail(p).kind
        BY <2>4, HeadMailIs DEF TakeBundle, Takes
      <3>2. CASE HeadMail(p).kind = "bundle"
        <4>1. job'[p].step = "show" /\ p = Responder
          BY <2>4, <3>1, <3>2, PartiesAre DEF MailInv
        <4>. QED  BY <4>1 DEF JobInv
      <3>3. CASE HeadMail(p).kind = "reply"
        <4>1. job'[p].step = "initiate" /\ p = Initiator /\ MadePrekey(Responder)
          BY <2>4, <3>1, <3>3, PartiesAre DEF MailInv
        <4>. QED  BY <1>2, <4>1 DEF JobInv
      <3>. QED  BY <3>1, <3>2, <3>3
    <2>5. CASE ShowConversation(p) /\ job'[p].step = "answer"
      <3>1. p = Responder
        BY <2>1, <2>5 DEF ShowConversation, JobInv
      <3>2. MadePrekey(Responder)'
        BY <2>5, <3>1, Prekeys DEF HandshakeInv
      <3>. QED  BY <2>5, <3>1, <3>2 DEF JobInv
    <2>6. CASE Initiate(p) /\ job'[p].step = "post"
      <3>1. p = Initiator /\ MadePrekey(Responder)
        BY <2>1, <2>6 DEF Initiate, JobInv
      <3>2. root'[Initiator] # NoRoot
        BY <2>6, RootStep
      <3>. QED  BY <1>2, <2>6, <3>1, <3>2 DEF JobInv, HasSession
    <2>. QED  BY <2>2, <2>3, <2>4, <2>5, <2>6, JobStep, JobIs
  <1>5. HasSession(Initiator)' => MadePrekey(Responder)'
    <2>1. CASE root'[Initiator] = root[Initiator]
      BY <1>2, <2>1 DEF HandshakeInv, SessionsInv, HasSession
    <2>2. root'[Initiator] = root[Initiator] \/ \E p \in Parties : Initiate(p)
      BY <1>0, RootStep, PartiesAre
    <2>3. ASSUME NEW p \in Parties, Initiate(p) PROVE MadePrekey(Responder)
      BY <2>3 DEF Initiate, HandshakeInv, SessionsInv, JobInv
    <2>. QED  BY <1>2, <2>1, <2>2, <2>3
  <1>. QED  BY <1>1, <1>4, <1>5 DEF SessionsInv

\* A row that has moved stays moved.
LEMMA MovedStays ==
    ASSUME HandshakeInv, BoxStays, NEW p \in Parties, NEW m
    PROVE  /\ Moved(p, m) => Moved(p, m)'
           /\ \A i \in DOMAIN box[p] :
                 box[p][i].mail = m /\ box[p][i].state = "gone" => Moved(p, m)'
  <1>1. \A i \in DOMAIN box[p] :
           /\ i \in DOMAIN box'[p] /\ box'[p][i].mail = box[p][i].mail
           /\ box[p][i].state = "gone" => box'[p][i].state = "gone"
    BY DEF BoxStays, RowsStay
  <1>2. \A i \in DOMAIN box'[p] :
           box'[p][i].mail = m /\ box'[p][i].state = "gone" => Moved(p, m)'
    BY DEF Moved, ToSet
  <1>3. Moved(p, m) => \E i \in DOMAIN box[p] : box[p][i].mail = m /\ box[p][i].state = "gone"
    BY DEF Moved, ToSet
  <1>. QED  BY <1>1, <1>2, <1>3

LEMMA OpenedStep ==
    ASSUME HandshakeInv, [Next]_vars
    PROVE  OpenedInv'
  <1>0. BoxStays
    BY BoxStep DEF HandshakeInv
  <1>1. ASSUME NEW p \in Parties
        PROVE  /\ job'[p].step = "store" => box'[p][job'[p].row].mail \in opened'[p]
               /\ read'[p] \subseteq opened'[p] /\ opened'[p] \subseteq Mails(p)'
               /\ lost'[p] \subseteq Mails(p)'
               /\ \A m \in opened'[p] \ read'[p] :
                     \/ job'[p].step = "store" /\ box'[p][job'[p].row].mail = m
                     \/ faults'.crash > 0
                     \/ Moved(p, m)'
    <2>1. /\ job[p].step = "store" => box[p][job[p].row].mail \in opened[p]
          /\ read[p] \subseteq opened[p] /\ opened[p] \subseteq Mails(p)
          /\ lost[p] \subseteq Mails(p)
          /\ \A m \in opened[p] \ read[p] :
                \/ job[p].step = "store" /\ box[p][job[p].row].mail = m
                \/ faults.crash > 0
                \/ Moved(p, m)
      BY DEF HandshakeInv, OpenedInv
    <2>2. job[p].step = "store" =>
             /\ job[p].row \in DOMAIN box[p]
             /\ box'[p][job[p].row].mail = box[p][job[p].row].mail
      BY <1>0, MailStays, JobIs DEF HandshakeInv, RowsInv
    <2>3. Mails(p) \subseteq Mails(p)'
      BY <1>0, MailStays DEF Mails
    <2>4. batch[p] # <<>> =>
             /\ HeadMail(p) \in Mails(p)
             /\ box'[p][Head(batch[p])].mail = HeadMail(p)
      BY <1>0, HeadIs, HeadMailIs, MailStays DEF HandshakeInv, HeadMail
    <2>5. opened[p] \subseteq opened'[p] /\ read[p] \subseteq read'[p]
      BY ReadStep
    <2>6. /\ read'[p] \subseteq opened'[p] /\ opened'[p] \subseteq Mails(p)'
          /\ lost'[p] \subseteq Mails(p)'
      <3>1. StoreOpened(p) => job[p].step = "store"
        BY DEF StoreOpened
      <3>. QED  BY <2>1, <2>3, <2>4, <2>5, <3>1, ReadStep
    <2>7. job'[p].step = "store" =>
             \/ job'[p] = job[p]
             \/ /\ OpenSealed(p) /\ batch[p] # <<>> /\ job'[p].row = Head(batch[p])
                /\ opened'[p] = opened[p] \cup {HeadMail(p)}
      <3>1. OpenSealed(p) => opened'[p] = opened[p] \cup {HeadMail(p)}
        BY DEF OpenSealed, KeyUsed, HandshakeInv, HandshakeType
      <3>. QED  BY <3>1, JobStep, JobIs
    <2>8. job'[p].step = "store" => box'[p][job'[p].row].mail \in opened'[p]
      BY <2>1, <2>2, <2>4, <2>5, <2>7
    <2>9. ASSUME NEW m \in opened'[p] \ read'[p]
          PROVE  \/ job'[p].step = "store" /\ box'[p][job'[p].row].mail = m
                 \/ faults'.crash > 0
                 \/ Moved(p, m)'
      <3>1. CASE m \notin opened[p]
        <4>1. OpenSealed(p) /\ batch[p] # <<>> /\ m = HeadMail(p)
          BY <2>9, <3>1, ReadStep
        <4>2. job'[p].step = "store" /\ job'[p].row = Head(batch[p])
          BY <4>1 DEF OpenSealed, Continue, HandshakeInv, HandshakeType
        <4>. QED  BY <2>4, <4>1, <4>2
      <3>2. CASE m \in opened[p] /\ job[p].step = "store" /\ box[p][job[p].row].mail = m
        <4>1. CASE job'[p] = job[p]
          BY <2>2, <3>2, <4>1
        <4>2. CASE Crash(p)
          BY <4>2, FaultStep
        <4>3. CASE StoreOpened(p)
          <5>1. box[p][job[p].row].state = "gone"
            BY <2>9, <3>2, <4>3, ReadStep
          <5>. QED  BY <1>0, <2>2, <3>2, <5>1, MovedStays
        <4>. QED  BY <3>2, <4>1, <4>2, <4>3, JobStep, JobIs
      <3>3. CASE m \in opened[p] /\ faults.crash > 0
        BY <3>3, FaultStep
      <3>4. CASE m \in opened[p] /\ Moved(p, m)
        BY <1>0, <3>4, MovedStays
      <3>. QED  BY <2>1, <2>5, <2>9, <3>1, <3>2, <3>3, <3>4
    <2>. QED  BY <2>6, <2>8, <2>9
  <1>. QED  BY <1>1 DEF OpenedInv

LEMMA RowsStep ==
    ASSUME HandshakeInv, [Next]_vars
    PROVE  RowsInv' /\ BatchInv'
  <1>0. BoxStays
    BY BoxStep DEF HandshakeInv
  <1>1. ASSUME NEW p \in Parties, job'[p] # Idle
        PROVE  job'[p].row \in DOMAIN box'[p]
    <2>1. \/ job[p] # Idle /\ job'[p].row = job[p].row
          \/ batch[p] # <<>> /\ job'[p].row = Head(batch[p])
      BY <1>1, JobStep
    <2>2. job'[p].row \in DOMAIN box[p]
      BY <2>1, HeadIs DEF HandshakeInv, RowsInv
    <2>. QED  BY <1>0, <2>2, MailStays
  <1>2. \A p \in Parties : BatchOk(p)'
    BY BatchStep DEF HandshakeInv
  <1>3. \A p \in Parties : /\ \A k \in DOMAIN batch'[p] : batch'[p][k] \in DOMAIN box'[p]
                           /\ InitsFirst(p)'
    BY <1>2 DEF BatchOk
  <1>. QED  BY <1>1, <1>3 DEF RowsInv, BatchInv

LEMMA InvStep == HandshakeInv /\ [Next]_vars => HandshakeInv'
  <1>. SUFFICES ASSUME HandshakeInv, [Next]_vars
                PROVE  HandshakeInv'
    OBVIOUS
  <1>. QED  BY TypeStep, RowsStep, NamesStep, MailsStep, SessionsStep, OpenedStep
            DEF HandshakeInv

\* What every step of the handshake keeps: rows are named by batches and jobs
\* that are theirs, every queued mail belongs to the one session of the
\* initiator, the responder has no session or that one, and a mail whose key is
\* used is read, about to be read, or something came between.
THEOREM HandshakeInvariant == Spec => []HandshakeInv
  <1>. QED  BY InitInv, InvStep, PTL DEF Spec

\* The tables of both sides keep their shape, and what is read was opened.
THEOREM TypeCorrect == Spec => []TypeOK
  <1>1. ASSUME HandshakeInv PROVE TypeOK
    <2>1. /\ \A m \in Queued : m \in AnyMail => m \in Mail
          /\ root \in [Parties -> 0 .. eks]
      BY <1>1 DEF HandshakeInv, HandshakeType, NamesInv, Mail, AnyMail, Kinds
    <2>2. out \subseteq Mail
      BY <1>1, <2>1 DEF HandshakeInv, HandshakeType, Queued
    <2>3. ASSUME NEW p \in Parties
          PROVE  /\ box[p] \in Seq([mail : Mail, tries : 0 .. MaxTries,
                                    state : {"new", "first", "done", "gone"}])
                 /\ Mails(p) \subseteq Mail
      <3>. DEFINE R == [mail : Mail, tries : 0 .. MaxTries,
                        state : {"new", "first", "done", "gone"}]
      <3>1. box[p] \in Seq(BoxRow) /\ Mails(p) \subseteq Queued
        BY <1>1 DEF HandshakeInv, HandshakeType, Queued
      <3>2. \A i \in DOMAIN box[p] : box[p][i] \in BoxRow /\ box[p][i].mail \in Queued
        BY <3>1 DEF Mails
      <3>3. \A i \in DOMAIN box[p] : box[p][i] \in R /\ box[p][i].mail \in Mail
        BY <2>1, <3>2, RowIs DEF BoxRow, RowStates
      <3>. HIDE DEF R
      <3>4. box[p] \in Seq(R)
        BY <3>1, <3>3
      <3>5. Mails(p) \subseteq Mail
        BY <3>3 DEF Mails
      <3>. QED  BY <3>4, <3>5 DEF R
    <2>4. ASSUME NEW p \in Parties
          PROVE  /\ ToSet(batch[p]) \subseteq DOMAIN box[p]
                 /\ job[p].step \in {"idle", "show", "answer", "initiate", "post", "store"}
                 /\ opened[p] \cup lost[p] \subseteq Mail
                 /\ read[p] \subseteq opened[p]
      BY <1>1, <2>3, JobIs DEF HandshakeInv, HandshakeType, RowsInv, OpenedInv, ToSet
    <2>5. /\ ui \in {"none", "saved", "done"} /\ us \in [Parties -> Nat]
          /\ {keys, pinned} \subseteq [Parties -> SUBSET {"identity", "prekey"}]
          /\ eks \in Nat /\ posts \in Nat
      BY <1>1 DEF HandshakeInv, HandshakeType, KeyNames
    <2>. QED  BY <2>1, <2>2, <2>3, <2>4, <2>5 DEF TypeOK
  <1>. QED  BY <1>1, HandshakeInvariant, PTL

\* Copies of bundles, replies and inits never start a second session: both
\* sides hold the same X3DH root.
THEOREM OneRoot == Spec => []RootsAgree
  <1>1. ASSUME HandshakeInv PROVE RootsAgree
    BY <1>1 DEF RootsAgree, HandshakeInv, SessionsInv, MailsInv, MailInv, Queued
  <1>. QED  BY <1>1, HandshakeInvariant, PTL

\* A mail is given up only when it overtook its SESSION_INIT by a whole batch,
\* or a crash or a copy came between its key and its plaintext.
LEMMA GivenUpEarly ==
    ASSUME HandshakeInv, NEW p \in Parties, GiveUp(p), HeadMail(p) \notin read[p]
    PROVE  LET m == HeadMail(p)
           IN  \/ m \in opened[p] /\ (faults.crash > 0 \/ Moved(p, m))
               \/ /\ p = Responder /\ root[p] = NoRoot
                  /\ \A i \in ToSet(batch[p]) : Kind(p, i) # "init"
  <1>. DEFINE m == HeadMail(p)
  <1>1. /\ batch[p] # <<>> /\ job[p] = Idle /\ ~Opens(p, m)
        /\ Kind(p, Head(batch[p])) \in {"init", "msg"}
    BY DEF GiveUp, Takes
  <1>2. /\ m.from = Peer(p) /\ MailInv(m)
        /\ Kind(p, Head(batch[p])) = m.kind
    BY <1>1, HeadMailIs
  <1>. HIDE DEF m
  <1>3. m.root = root[Initiator] /\ m.root # NoRoot /\ m.kind \in {"init", "msg"}
    BY <1>1, <1>2 DEF MailInv
  <1>4. /\ root[Responder] \in {NoRoot, root[Initiator]}
        /\ HasSession(Initiator) => MadePrekey(Responder)
    BY DEF HandshakeInv, SessionsInv
  <1>5. CASE m \in opened[p]
    <2>1. m \in opened[p] \ read[p]
      BY <1>5 DEF m
    <2>2. job[p].step # "store"
      BY <1>1, JobIs
    <2>. QED  BY <2>1, <2>2 DEF HandshakeInv, OpenedInv, m
  <1>6. CASE m \notin opened[p]
    <2>1. m.kind = "msg"
      <3>1. ASSUME m.kind = "init" PROVE FALSE
        <4>1. p = Responder
          BY <1>2, <3>1, PartiesAre DEF MailInv
        <4>. QED  BY <1>1, <1>3, <1>4, <1>6, <3>1, <4>1 DEF Opens, HasSession
      <3>. QED  BY <1>3, <3>1
    <2>2. root[p] # m.root
      BY <1>1, <1>6, <2>1 DEF Opens
    <2>3. p = Responder /\ root[p] = NoRoot
      BY <1>3, <1>4, <2>2, PartiesAre
    <2>4. ASSUME NEW k \in DOMAIN batch[p], Kind(p, batch[p][k]) = "init" PROVE FALSE
      <3>1. 1 \in DOMAIN batch[p] /\ Head(batch[p]) = batch[p][1] /\ batch[p] \in Seq(Nat)
        BY <1>1, HeadIs DEF HandshakeInv, HandshakeType
      <3>2. k = 1 \/ 1 < k
        BY <3>1
      <3>3. Kind(p, batch[p][1]) = "init"
        BY <2>4, <3>1, <3>2 DEF HandshakeInv, BatchInv, InitsFirst, Kind
      <3>. QED  BY <1>2, <2>1, <3>1, <3>3
    <2>5. \A i \in ToSet(batch[p]) : Kind(p, i) # "init"
      BY <2>4 DEF ToSet
    <2>. QED  BY <2>3, <2>5
  <1>. QED  BY <1>5, <1>6 DEF m

\* A mail that never opens overtook its SESSION_INIT by a whole batch, at the
\* responder; or a crash, or a copy that moved its row, came between its key
\* and its plaintext.
THEOREM EarlyMailOnly == Spec => OnlyEarlyMailLost
  <1>. DEFINE Early(p, m) ==
                 \/ m \in opened[p] /\ (faults.crash > 0 \/ Moved(p, m))
                 \/ /\ p = Responder /\ root[p] = NoRoot
                    /\ \A i \in ToSet(batch[p]) : Kind(p, i) # "init"
  <1>1. ASSUME HandshakeInv, [Next]_vars, NEW p \in Parties, NEW m \in lost'[p] \ lost[p]
        PROVE  Early(p, m)
    <2>1. GiveUp(p) /\ m = HeadMail(p) /\ m \notin read[p]
      BY <1>1, ReadStep
    <2>. QED  BY <1>1, <2>1, GivenUpEarly
  <1>2. HandshakeInv /\ [Next]_vars =>
           [\A p \in Parties : \A m \in lost'[p] \ lost[p] : Early(p, m)]_vars
    BY <1>1
  <1>. QED  BY <1>2, HandshakeInvariant, PTL DEF Spec, OnlyEarlyMailLost, Early
=============================================================================
