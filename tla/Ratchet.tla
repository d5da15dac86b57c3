------------------------------- MODULE Ratchet -------------------------------
(***************************************************************************)
(* The pure part of the Double Ratchet in email/signal/signal_protocol.cpp:*)
(* key derivation, the two halves of a DH ratchet step and the             *)
(* bookkeeping of skipped message keys, as operators on one ratchet row    *)
(* (SignalSessionRecord, the row of table signal_session).                 *)
(*                                                                         *)
(* Keys are symbolic.  A public key is its owner and the generation of the *)
(* pair.  A root key is the sequence of DH outputs mixed in since X3DH, a  *)
(* chain key is the root it was derived with and the number of KDF_MK      *)
(* steps taken; the message key KDF_MK gives for a chain key is identified *)
(* by that chain key.  Two keys are equal exactly when they were derived   *)
(* the same way, which is all the protocol's properties tell apart.        *)
(***************************************************************************)
EXTENDS Integers, Sequences

CONSTANT MaxSkip    \* kMaxSkip: the longest gap skip_message_keys bridges

ASSUME MaxSkipAssumption == MaxSkip \in Nat

Pub(p, g) == [owner |-> p, gen |-> g]

\* The empty dh_peer_pub of a responder that has not heard from the initiator.
NoPub(p) == Pub(p, 0)

\* dh_compute_shared_secret: own private key with the peer's public key, the
\* same value on both sides.
Dh(a, b) == {a, b}

\* The empty chain key; every derived chain has a non-empty root.
NoChain == [root |-> <<>>, n |-> 0]

\* kdf_rk_ck: the new root; the chain key it comes with.
KdfRoot(root, dh) == Append(root, dh)
KdfChain(root) == [root |-> root, n |-> 0]

\* kdf_mk: the message key is named by the chain key it is drawn from.
MessageKey(ck) == ck
NextChain(ck) == [ck EXCEPT !.n = @ + 1]
-----------------------------------------------------------------------------
(* dr_initialize *)

InitiatorRow(self, spk) ==
    LET root == KdfRoot(<<>>, Dh(self, spk))
    IN  [root |-> root, sendCk |-> KdfChain(root), recvCk |-> NoChain,
         sendN |-> 0, recvN |-> 0, prevSendN |-> 0,
         dhSelf |-> self, dhPeer |-> spk]

ResponderRow(spk, peer) ==
    [root |-> <<>>, sendCk |-> NoChain, recvCk |-> NoChain,
     sendN |-> 0, recvN |-> 0, prevSendN |-> 0,
     dhSelf |-> spk, dhPeer |-> NoPub(peer)]
-----------------------------------------------------------------------------
(* dr_encrypt *)

\* Plausible bug: a DH step on every message, not only on a new turn.
SendStepAlways(r, fresh) ==
    LET root == KdfRoot(r.root, Dh(fresh, r.dhPeer))
    IN  [r EXCEPT !.root = root, !.sendCk = KdfChain(root), !.dhSelf = fresh]

\* The sending half of the DH step, taken lazily: only when there is no
\* sending chain, with a fresh key pair.
SendStep(r, fresh) ==
    IF r.sendCk # NoChain THEN r
    ELSE LET root == KdfRoot(r.root, Dh(fresh, r.dhPeer))
         IN  [r EXCEPT !.root = root, !.sendCk = KdfChain(root),
                       !.dhSelf = fresh]

UsesFresh(r) == r.sendCk = NoChain

\* The DH of a send step needs a key from the peer (an empty one fails).
CanSend(r) == UsesFresh(r) => r.dhPeer.gen > 0

\* Plausible bug: the advanced chain key is not written back.
AfterSendSameChain(r, fresh) ==
    LET s == SendStep(r, fresh) IN [s EXCEPT !.sendN = @ + 1]

AfterSend(r, fresh) ==
    LET s == SendStep(r, fresh)
    IN  [s EXCEPT !.sendCk = NextChain(@), !.sendN = @ + 1]

\* Header and ciphertext of the message dr_encrypt produces.
Envelope(r, fresh) ==
    LET s == SendStep(r, fresh)
    IN  [dh |-> s.dhSelf, n |-> s.sendN, pn |-> s.prevSendN,
         mk |-> MessageKey(s.sendCk)]
-----------------------------------------------------------------------------
(* skip_message_keys: chain ck stands at index n; keys up to until are kept *)

CanSkip(ck, n, until) == ck = NoChain \/ until - n <= MaxSkip

SkippedKeys(ck, n, until, dh) ==
    IF ck = NoChain THEN {}
    ELSE {[dh |-> dh, n |-> i, mk |-> [ck EXCEPT !.n = @ + (i - n)]] :
             i \in n .. (until - 1)}

SkipTo(ck, n, until) ==
    IF ck = NoChain \/ until <= n THEN ck ELSE [ck EXCEPT !.n = @ + (until - n)]

IndexAfter(ck, n, until) == IF ck = NoChain \/ until <= n THEN n ELSE until
-----------------------------------------------------------------------------
(* dr_decrypt, steps 2 to 4 (no stored key fits) *)

NewRatchetKey(r, m) == m.dh # r.dhPeer

\* The receiving half of the DH step.
RecvStep(r, m) ==
    IF ~NewRatchetKey(r, m) THEN r
    ELSE LET root == KdfRoot(r.root, Dh(r.dhSelf, m.dh))
         IN  [r EXCEPT !.root = root, !.recvCk = KdfChain(root), !.recvN = 0,
                       !.prevSendN = r.sendN, !.sendN = 0, !.sendCk = NoChain,
                       !.dhPeer = m.dh]

\* Both skips stay within kMaxSkip: the old chain up to pn (only on a new
\* ratchet key), the current chain up to n.
WithinSkip(r, m) ==
    LET s == RecvStep(r, m)
    IN  /\ NewRatchetKey(r, m) => CanSkip(r.recvCk, r.recvN, m.pn)
        /\ CanSkip(s.recvCk, s.recvN, m.n)

\* Plausible bug: keys still outstanding on the old chain are dropped.
KeptKeysNewChainOnly(r, m) ==
    LET s == RecvStep(r, m) IN SkippedKeys(s.recvCk, s.recvN, m.n, s.dhPeer)

KeptKeys(r, m) ==
    LET s == RecvStep(r, m)
    IN  SkippedKeys(s.recvCk, s.recvN, m.n, s.dhPeer)
        \cup (IF NewRatchetKey(r, m)
              THEN SkippedKeys(r.recvCk, r.recvN, m.pn, r.dhPeer) ELSE {})

\* The message key the receiving chain yields for m, right or wrong.
ChainKeyFor(r, m) ==
    LET s == RecvStep(r, m) IN MessageKey(SkipTo(s.recvCk, s.recvN, m.n))

AfterRecv(r, m) ==
    LET s == RecvStep(r, m)
    IN  [s EXCEPT !.recvCk = NextChain(SkipTo(s.recvCk, s.recvN, m.n)),
                  !.recvN = IndexAfter(s.recvCk, s.recvN, m.n) + 1]

\* The chain authenticates m: AEAD succeeds exactly with the key m was sealed
\* with (the whole envelope is associated data, so headers are not altered).
ChainOpens(r, m) == WithinSkip(r, m) /\ ChainKeyFor(r, m) = m.mk
=============================================================================
