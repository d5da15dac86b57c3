----------------------------- MODULE MCMlsGroup -----------------------------
(***************************************************************************)
(* MlsGroup for TLC: the bounds of each run.  Nothing tells one account    *)
(* the owner may invite from another, so states that differ in their names *)
(* only are one; the liveness run uses no symmetry.                        *)
(***************************************************************************)
EXTENDS MlsGroup, TLC

CONSTANTS a, b      \* two of the members

Bounds == [members |-> Member, calls |-> 0, sends |-> 0, crashes |-> 0,
           overlap |-> FALSE, reinvites |-> FALSE]
Busy == [Bounds EXCEPT !.members = {a, b}, !.calls = 2]

\* Three accounts; two with a message and a restart; two with calls that meet,
\* of the roster only or one and a message.
GroupLimits == {[Bounds EXCEPT !.calls = 2],
                [Busy EXCEPT !.sends = 1, !.crashes = 1],
                [Busy EXCEPT !.overlap = TRUE, !.reinvites = TRUE],
                [Busy EXCEPT !.overlap = TRUE, !.calls = 1, !.sends = 1]}
MeetingLimits == {[Bounds EXCEPT !.calls = 1, !.overlap = TRUE]}
ResendLimits == {[Bounds EXCEPT !.sends = 2, !.crashes = 1]}
CallLimits == {[Bounds EXCEPT !.calls = 2]}

MemberSymmetry == Permutations(Member)
=============================================================================
