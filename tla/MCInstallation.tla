--------------------------- MODULE MCInstallation ---------------------------
(***************************************************************************)
(* An installation, in two behaviours that share no state: its keys and    *)
(* secrets (Accounts), and the tables of its database from one release to  *)
(* the next (Profile).  A behaviour is of one; the other stands still.     *)
(***************************************************************************)
EXTENDS Accounts

CONSTANTS Starts, Histories, FailIn, MaxRow, MaxEvents
VARIABLES of, tables, pc, at, stale, missed, undropped, files, archive, staged, kept,
          used, may, mishaps, events

profile == <<tables, pc, at, stale, missed, undropped, files, archive, staged, kept,
             used, may, mishaps, events>>

P == INSTANCE Profile
     WITH Scenarios <- Histories, db <- tables, disk <- files, faults <- mishaps

ASSUME ProfileAssumption == P!ConstantsFit

One(set) == CHOOSE e \in set : TRUE

Starting ==
    \/ /\ of = "accounts" /\ Init
       /\ P!Init /\ may = One(Histories) /\ tables = P!Found("none")
    \/ /\ of = "profile" /\ P!Init
       /\ Init /\ platform = One(Platforms) /\ scenario = One(Scenarios)
       /\ \A a \in Accounts : vault.of[a] = 1

OneMoves ==
    \/ of = "accounts" /\ Next /\ UNCHANGED <<of, profile>>
    \/ of = "profile" /\ P!Next /\ UNCHANGED <<of, vars>>

Behaviours == Starting /\ [][OneMoves]_<<of, vars, profile>>

\* The properties of Profile, which says what they state.
LayoutComplete == P!LayoutComplete
NoIdTwice == P!NoIdTwice
=============================================================================
