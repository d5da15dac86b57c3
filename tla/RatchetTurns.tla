---------------------------- MODULE RatchetTurns ----------------------------
(***************************************************************************)
(* What the DH ratchet of a 1:1 session promises, seen as root-key epochs: *)
(* the parties lead in turns, the initiator first, and the other follows   *)
(* before the next turn.  So one party is at most one epoch ahead and no   *)
(* epoch is ever skipped.  DoubleRatchet implements this.                  *)
(***************************************************************************)
EXTENDS Integers

CONSTANTS Initiator, Responder

VARIABLE epoch      \* epoch[p]: ratchet steps mixed into p's root key

Side(p) == IF p = Initiator THEN Responder ELSE Initiator

MyTurn(p) == epoch[p] % 2 = (IF p = Initiator THEN 0 ELSE 1)

Init == epoch = [p \in {Initiator, Responder} |-> 0]

\* The sending half of a DH step.
Lead(p) ==
    /\ epoch[p] = epoch[Side(p)]
    /\ MyTurn(p)
    /\ epoch' = [epoch EXCEPT ![p] = @ + 1]

\* The receiving half.
Follow(p) ==
    /\ epoch[p] + 1 = epoch[Side(p)]
    /\ epoch' = [epoch EXCEPT ![p] = @ + 1]

Next == \E p \in {Initiator, Responder} : Lead(p) \/ Follow(p)

Spec == Init /\ [][Next]_epoch
=============================================================================
