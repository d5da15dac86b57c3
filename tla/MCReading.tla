------------------------------ MODULE MCReading ------------------------------
(***************************************************************************)
(* What two parties read of each other, in two behaviours that share no    *)
(* state: the lists of their messages (Conversation), and the way of one   *)
(* text to both screens (Wire).  A behaviour is of one; the other stands   *)
(* still.                                                                  *)
(***************************************************************************)
EXTENDS Conversation

CONSTANTS Forms, Texts, Mishaps, MaxMishaps
VARIABLES of, form, text, sender, copy, mail, stage, got, mishaps

wire == <<form, text, sender, copy, mail, stage, got, mishaps>>

W == INSTANCE Wire
     WITH Faults <- Mishaps, MaxFaults <- MaxMishaps, at <- sender, faults <- mishaps

ASSUME WireAssumption == W!ConstantsFit

One(set) == CHOOSE e \in set : TRUE

Starting ==
    \/ of = "conversation" /\ Init /\ W!Init /\ form = One(Forms) /\ text = One(Texts)
    \/ /\ of = "wire" /\ W!Init
       /\ Init /\ kind = One({k \in [Party -> AllKinds] : Range(k) \in Kinds})
       /\ \A p \in Party : rows[p] # <<>>

OneMoves ==
    \/ of = "conversation" /\ Next /\ UNCHANGED <<of, wire>>
    \/ of = "wire" /\ W!Next /\ UNCHANGED <<of, vars>>

Fairness ==
    /\ \A p \in Party : WF_vars(of = "conversation" /\ Work(p) /\ UNCHANGED <<of, wire>>)
    /\ WF_wire(of = "wire" /\ W!Sending /\ UNCHANGED <<of, vars>>)
    /\ WF_wire(of = "wire" /\ W!Receiving /\ UNCHANGED <<of, vars>>)

Behaviours == Starting /\ [][OneMoves]_<<of, vars, wire>> /\ Fairness

\* The property of Wire, which says what it states.
BothShowIt == W!BothShowIt
=============================================================================
