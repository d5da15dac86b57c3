------------------------------ MODULE MCOutbox ------------------------------
(* Instances of Outbox: the owner and two mailmen.                         *)
EXTENDS Outbox

CONSTANTS m1, m2

TwoMailmen == <<m1, m2>>
OneMailman == <<m1>>
=============================================================================
