----------------------------- MODULE Supervisor -----------------------------
(***************************************************************************)
(* The supervisor isolate and the child isolates of an Outlook account     *)
(* (email_background_service.dart), and the tokens the children's          *)
(* delegates ask Microsoft for (libemail/email_opt_outlook_impl.cpp,       *)
(* email_handler_c.cpp).                                                   *)
(*                                                                         *)
(* The supervisor scans the configuration, keeps the refresh token it      *)
(* started an account's children with, one child a role, and restarts them.*)
(* A child that is killed inside a native call lives until the call        *)
(* returns.  A grant is one authorization by the user; refresh tokens that *)
(* were rotated are of the same grant.  A call to Graph takes less time    *)
(* than the margin of the token's expiry, which is the unit of time here.  *)
(* Spawning an isolate and its first message are one step.                 *)
(*                                                                         *)
(* The INBOX child waits for mail inside native calls and, as long as they *)
(* succeed, awaits nothing that takes time: its event loop does not turn,  *)
(* and neither messages nor timers reach it.  Only killing it does.        *)
(***************************************************************************)
EXTENDS Naturals, FiniteSets

CONSTANTS
    Roles,          \* what an account has a child for, of AllRoles
    Scenarios,      \* sets of what may happen, see AllEvents
    Life,           \* how long a Graph token lives, in margins
    MaxIsolates,    \* bound: isolates of one role
    MaxGrants,      \* bound: authorizations
    MaxFaults       \* bound: what happens of AllEvents, but for the user's

AllRoles == {"INBOX", "Download", "SendTask"}

AllEvents == {
    "edit",         \* the user authorizes the account anew
    "delete",       \* or deletes it
    "rescan",       \* a scan at once, for a configuration that was saved
    "pause",        \* a backup or a restore begins
    "die",          \* a child ends with an error
    "spawn",        \* a child cannot be started
    "wedge",        \* a child does not answer when the app comes back
    "orphan",       \* the supervisor ends with an error
    "revoke",       \* Microsoft no longer honours a grant
    "time",         \* time passes
    "others" }      \* there are other accounts

ASSUME RolesAssumption == Roles \subseteq AllRoles
ASSUME ScenariosAssumption == Scenarios \subseteq SUBSET AllEvents
ASSUME LifeAssumption == Life \in Nat \ {0, 1}
ASSUME BoundsAssumption ==
    MaxIsolates \in Nat /\ MaxGrants \in Nat /\ MaxFaults \in Nat

VARIABLES
    scenario,       \* of this behaviour
    conf,           \* the grant saved for the account, 0 without an account
    granted,        \* how often the user has authorized it
    revoked,        \* grants that are not honoured
    sup,            \* what the supervisor does, and its maps
    iso,            \* iso[r]: the isolates of role r
    timers,         \* timers[r]: children to start again in five seconds
    faults,
    mishaps         \* history: what has gone wrong, of AllMishaps

vars == <<scenario, conf, granted, revoked, sup, iso, timers, faults, mishaps>>
user == <<scenario, conf, granted, revoked>>

\* What the supervisor does not make up for.
AllMishaps == {
    "unheard",      \* a child was stopped while it was being spawned
    "outdated",     \* the health check restarted one child of an account that
                    \* had been authorized anew, or deleted, since its last scan
    "belated",      \* a timer started a child with another grant than the entry's
    "unstarted",    \* a child could not be spawned
    "orphaned" }    \* the supervisor ended

Isolates == 1 .. MaxIsolates
NoIsolate == [is |-> "none"]

\* An isolate, and the delegate its configIndex names: the grant, and whether
\* it has an access token and for how long its Graph token is good.
Child(d) == [is |-> "spawning", told |-> "no", orphan |-> FALSE, late |-> FALSE,
             delegate |-> d]
EmptyDelegate == [grant |-> 0, access |-> FALSE, graph |-> 0]
NewDelegate(g) == [EmptyDelegate EXCEPT !.grant = g]

NoMaps ==
    [entry |-> 0, known |-> [r \in Roles |-> 0],
     alive |-> [r \in Roles |-> FALSE]]
Supervising(state, maps) == [state |-> state, maps |-> maps]

Init ==
    /\ scenario \in Scenarios
    /\ conf = 1 /\ granted = 1 /\ revoked = {}
    /\ sup = Supervising("running", NoMaps)
    /\ iso = [r \in Roles |-> [i \in Isolates |-> NoIsolate]]
    /\ timers = [r \in Roles |-> {}]
    /\ faults = 0 /\ mishaps = {}

Event(e) == e \in scenario /\ faults < MaxFaults /\ faults' = faults + 1
Running == sup.state = "running"

\* The mishap e, if it is one.
Mishap(e, happens) == {m \in {e} : happens}
-----------------------------------------------------------------------------
(* What the supervisor's handlers do to its maps m and the isolates s *)

Free(s, r) == {i \in Isolates : s[r][i].is = "none"}
Room == \A r \in Roles : Free(iso, r) # {}

\* The number of an isolate that is to be spawned.
Fresh(s, r) == CHOOSE i \in Free(s, r) : TRUE

\* A child is killed: at once, or when the native call it is in returns.
Killed(c) ==
    IF c.is = "busy" THEN [c EXCEPT !.told = "killed"]
    ELSE [c EXCEPT !.is = "gone"]

\* stopChild, of the roles rs: an isolate that is not known yet is not stopped.
Stop(w, rs) ==
    [m |-> [w.m EXCEPT !.known = [r \in Roles |-> IF r \in rs THEN 0 ELSE @[r]],
                       !.alive = [r \in Roles |-> r \notin rs /\ @[r]]],
     s |-> [r \in Roles |-> [i \in Isolates |->
               IF r \in rs /\ w.m.alive[r] /\ w.m.known[r] = i
               THEN Killed(w.s[r][i]) ELSE w.s[r][i]]]]

\* startChild, of the roles rs, with delegate d.
StartChildren(w, rs, d) ==
    LET new == {r \in rs : ~w.m.alive[r]} IN
    [m |-> [w.m EXCEPT !.alive = [r \in Roles |-> r \in new \/ @[r]]],
     s |-> [r \in Roles |-> [i \in Isolates |->
               IF r \in new /\ i = Fresh(w.s, r) THEN Child(d) ELSE w.s[r][i]]]]

\* Plausible bug: children that are restarted keep the account's entry.
ChangedKeepsEntry(w) ==
    IF w.m.entry \notin {0, conf} THEN Stop(w, Roles) ELSE w

\* Credentials that changed: the entry goes, so that the account is new again.
Changed(w) ==
    IF w.m.entry \notin {0, conf}
    THEN LET stopped == Stop(w, Roles) IN [stopped EXCEPT !.m.entry = 0]
    ELSE w

New(w) ==
    IF w.m.entry # 0 THEN w
    ELSE LET started == StartChildren(w, Roles, NewDelegate(conf))
         IN [started EXCEPT !.m.entry = conf]

\* scanConfigAndStart; without any account all children are stopped, those of
\* an account that is gone if it has an entry.
Scanned(w) ==
    IF conf # 0 THEN New(Changed(w))
    ELSE IF w.m.entry = 0 /\ "others" \in scenario THEN w
    ELSE LET stopped == Stop(w, Roles) IN [stopped EXCEPT !.m.entry = 0]

\* Whether a scan stops children, and whether one of them is being spawned:
\* stopChild then has no isolate to kill, and forgets that there will be one.
Stops(w) ==
    IF conf # 0 THEN w.m.entry \notin {0, conf}
    ELSE w.m.entry # 0 \/ "others" \notin scenario
Unheard(rs) == \E r \in rs, i \in Isolates : iso[r][i].is = "spawning"

Now == [m |-> sup.maps, s |-> iso]
Becomes(state, w) == sup' = Supervising(state, w.m) /\ iso' = w.s
-----------------------------------------------------------------------------
(* The user, and Microsoft *)

\* exchange_code_for_token: the tokens a code is exchanged for.
Exchanged(g) == [NewDelegate(g) EXCEPT !.access = TRUE]

\* authority() of a new delegate: there is nothing to refresh, so the user is
\* asked in the browser and the code is that of one more grant.
Consented == Exchanged(granted + 1)

\* The dialog saves the refresh token of the delegate with the account.
Authorize ==
    /\ "edit" \in scenario /\ granted < MaxGrants
    /\ granted' = Consented.grant
    /\ conf' = Consented.grant
    /\ UNCHANGED <<scenario, revoked, sup, iso, timers, faults, mishaps>>

DeleteAccount ==
    /\ "delete" \in scenario /\ conf # 0
    /\ conf' = 0
    /\ UNCHANGED <<scenario, granted, revoked, sup, iso, timers, faults, mishaps>>

Revoke ==
    /\ Event("revoke") /\ conf \notin revoked \cup {0}
    /\ revoked' = revoked \cup {conf}
    /\ UNCHANGED <<scenario, conf, granted, sup, iso, timers, mishaps>>
-----------------------------------------------------------------------------
(* The supervisor *)

ScanNow ==
    /\ Running /\ Room
    /\ Becomes("running", Scanned(Now))
    /\ mishaps' = mishaps \cup Mishap("unheard", Stops(Now) /\ Unheard(Roles))
    /\ UNCHANGED <<user, timers>>

\* Every five seconds.
Scan == ScanNow /\ Scanned(Now) # Now /\ UNCHANGED faults

Rescan == Event("rescan") /\ ScanNow

\* The isolate is there, and its port: it is told to start, or to stop.
Spawned(r, i) ==
    /\ iso[r][i].is = "spawning"
    /\ sup' = [sup EXCEPT !.maps.known[r] = i, !.maps.alive[r] = TRUE]
    /\ iso' = [iso EXCEPT ![r][i].is = IF Running THEN "idle" ELSE "gone"]
    /\ UNCHANGED <<user, timers, faults, mishaps>>

SpawnFails(r, i) ==
    /\ Event("spawn") /\ iso[r][i].is = "spawning"
    /\ sup' = [sup EXCEPT !.maps.alive[r] = FALSE]
    /\ iso' = [iso EXCEPT ![r][i] = NoIsolate]
    /\ mishaps' = mishaps \cup {"unstarted"}
    /\ UNCHANGED <<user, timers>>

\* Plausible bug: the exit of a child that was replaced counts as well.
UnexpectedOfRole(r, i) == sup.maps.known[r] \in Isolates

\* stopChild forgets an isolate before it kills it.
Unexpected(r, i) == sup.maps.known[r] = i

\* onExit
Exited(r, i) ==
    /\ iso[r][i].is = "gone" /\ ~iso[r][i].orphan
    /\ iso' = [iso EXCEPT ![r][i] = NoIsolate]
    /\ IF Unexpected(r, i)
       THEN /\ sup' = [sup EXCEPT !.maps.known[r] = 0, !.maps.alive[r] = FALSE]
            /\ timers' = IF Running
                         THEN [timers EXCEPT ![r] = @ \cup {iso[r][i].delegate}]
                         ELSE timers
       ELSE UNCHANGED <<sup, timers>>
    /\ UNCHANGED <<user, faults, mishaps>>

\* Five seconds later, with the delegate it had.
Respawn(r) ==
    /\ Room
    /\ \E d \in timers[r] :
          /\ timers' = [timers EXCEPT ![r] = @ \ {d}]
          /\ Becomes(sup.state,
                     IF Running THEN StartChildren(Now, {r}, d) ELSE Now)
          /\ mishaps' = mishaps \cup
                Mishap("belated", /\ Running /\ ~sup.maps.alive[r]
                                  /\ d.grant # sup.maps.entry)
    /\ UNCHANGED <<user, faults>>

\* healthcheck: a child without an answer for 75 seconds is stopped and the
\* account's entry removed; the scan that follows starts what is missing.
Healthcheck(r) ==
    /\ Event("wedge") /\ Running /\ Room
    /\ sup.maps.known[r] # 0 /\ iso[r][sup.maps.known[r]].is = "busy"
    /\ LET stopped == [Stop(Now, {r}) EXCEPT !.m.entry = 0] IN
       /\ Becomes("running", Scanned(stopped))
       /\ mishaps' = mishaps
             \cup Mishap("unheard", Unheard(IF Stops(stopped) THEN Roles ELSE {r}))
             \cup Mishap("outdated", sup.maps.entry \notin {0, conf})
    /\ UNCHANGED <<user, timers>>

\* The children whose ports are known are told to stop.
Pause ==
    /\ Event("pause") /\ Running
    /\ sup' = [sup EXCEPT !.state = "draining"]
    /\ iso' = [r \in Roles |-> [i \in Isolates |->
                  IF sup.maps.known[r] = i /\ iso[r][i].told = "no"
                  THEN [iso[r][i] EXCEPT !.told = "asked"]
                  ELSE iso[r][i]]]
    /\ UNCHANGED <<user, timers, mishaps>>

\* Plausible bug: the drain is given up and nothing done about who is left.
SurvivorsLeft == iso

SurvivorsKilled ==
    [r \in Roles |-> [i \in Isolates |->
        IF sup.maps.alive[r] /\ sup.maps.known[r] = i
        THEN Killed(iso[r][i]) ELSE iso[r][i]]]

\* All have exited, or forty seconds have passed: spawning takes less.
Paused ==
    /\ sup.state = "draining"
    /\ \A r \in Roles, i \in Isolates : iso[r][i].is # "spawning"
    /\ iso' = SurvivorsKilled
    /\ sup' = Supervising("paused", NoMaps)
    /\ UNCHANGED <<user, timers, faults, mishaps>>

Resume ==
    /\ sup.state = "paused" /\ Room
    /\ Becomes("running", Scanned(Now))
    /\ UNCHANGED <<user, timers, faults, mishaps>>

\* The supervisor is gone and its children are alone; those not up yet will
\* never be told to start.
SupervisorDies ==
    /\ Event("orphan") /\ Running
    /\ sup' = Supervising("dead", NoMaps)
    /\ iso' = [r \in Roles |-> [i \in Isolates |->
                  IF iso[r][i].is \in {"idle", "busy"}
                  THEN [iso[r][i] EXCEPT !.orphan = TRUE] ELSE NoIsolate]]
    /\ timers' = [r \in Roles |-> {}]
    /\ mishaps' = mishaps \cup {"orphaned"}
    /\ UNCHANGED user

\* The watchdog of the main isolate.
Restart ==
    /\ sup.state = "dead" /\ Room
    /\ Becomes("running", Scanned(Now))
    /\ UNCHANGED <<user, timers, faults, mishaps>>
-----------------------------------------------------------------------------
(* The children *)

\* Its loop ends with an exception.
Dies(r, i) ==
    /\ Event("die") /\ iso[r][i].is = "idle"
    /\ iso' = [iso EXCEPT ![r][i].is = "gone"]
    /\ UNCHANGED <<user, sup, timers, mishaps>>

Honoured(d) == d.grant \notin revoked

\* refresh_token, refresh_graph_token
WithAccess(d) == [d EXCEPT !.access = TRUE]
WithGraph(d) == [d EXCEPT !.graph = Life]

\* Plausible bug: a token that has just not expired is sent with.
GoodForSendingUnlessExpired(d) == d.graph > 0

\* It is good for more than a margin.
GoodForSending(d) == d.graph > 1

\* refresh_token and refresh_graph_token
ReadyToSend(d) ==
    LET a == IF d.access THEN d ELSE WithAccess(d)
    IN IF GoodForSending(a) THEN a ELSE WithGraph(a)

\* ensure_graph_token
ReadyToRead(d) == IF d.graph > 0 THEN d ELSE WithGraph(d)

\* What a call begins with; it ends there if a refresh is refused.
Ready(r, d) == IF r = "SendTask" THEN ReadyToSend(d) ELSE ReadyToRead(d)
Refused(r, d) == Ready(r, d) # d /\ ~Honoured(d)

\* Between two calls it waits for a timer, the INBOX child only after a call
\* that failed.
Hears(r, i) ==
    /\ iso[r][i].is = "idle"
    /\ r = "INBOX" => Refused(r, iso[r][i].delegate)

Begin(r, i) ==
    LET c == iso[r][i] IN
    /\ c.is = "idle" /\ ~(c.told = "asked" /\ Hears(r, i))
    /\ ~Refused(r, c.delegate)
    /\ iso' = [iso EXCEPT ![r][i].is = "busy",
                          ![r][i].delegate = Ready(r, c.delegate)]
    /\ UNCHANGED <<user, sup, timers, faults, mishaps>>

\* A child that was killed meanwhile is gone.
End(r, i) ==
    LET c == iso[r][i] IN
    /\ c.is = "busy"
    /\ iso' = [iso EXCEPT ![r][i] =
                  [c EXCEPT !.is = IF c.told = "killed" THEN "gone" ELSE "idle",
                            !.late = FALSE]]
    /\ UNCHANGED <<user, sup, timers, faults, mishaps>>

\* 'stop'
Leaves(r, i) ==
    /\ Hears(r, i) /\ iso[r][i].told = "asked"
    /\ iso' = [iso EXCEPT ![r][i].is = "gone"]
    /\ UNCHANGED <<user, sup, timers, faults, mishaps>>

\* No message for sixty seconds.
OrphanExits(r, i) ==
    /\ Hears(r, i) /\ iso[r][i].orphan
    /\ iso' = [iso EXCEPT ![r][i] = NoIsolate]
    /\ UNCHANGED <<user, sup, timers, faults, mishaps>>

Older(d) == [d EXCEPT !.graph = IF @ = 0 THEN 0 ELSE @ - 1]

Tick ==
    /\ "time" \in scenario
    /\ \A r \in Roles, i \in Isolates : iso[r][i].is = "busy" => ~iso[r][i].late
    /\ iso' = [r \in Roles |-> [i \in Isolates |->
                  IF iso[r][i].is = "none" THEN NoIsolate
                  ELSE [iso[r][i] EXCEPT !.delegate = Older(@),
                                         !.late = iso[r][i].is = "busy"]]]
    /\ timers' = [r \in Roles |-> {Older(d) : d \in timers[r]}]
    /\ <<iso', timers'>> # <<iso, timers>>
    /\ UNCHANGED <<user, sup, faults, mishaps>>

Next ==
    \/ Authorize \/ DeleteAccount \/ Revoke
    \/ Scan \/ Rescan \/ Pause \/ Paused \/ Resume \/ SupervisorDies \/ Restart
    \/ \E r \in Roles : Respawn(r) \/ Healthcheck(r)
    \/ \E r \in Roles, i \in Isolates :
          \/ Spawned(r, i) \/ SpawnFails(r, i) \/ Exited(r, i)
          \/ Dies(r, i) \/ Leaves(r, i) \/ OrphanExits(r, i)
          \/ Begin(r, i) \/ End(r, i)
    \/ Tick

\* Timers fire, isolates come up and are reported gone, native calls return
\* (all have time-outs), and a backup page resumes what it paused.
Fairness ==
    /\ WF_vars(Scan) /\ WF_vars(Paused) /\ WF_vars(Resume) /\ WF_vars(Restart)
    /\ \A r \in Roles :
          /\ WF_vars(Respawn(r))
          /\ \A i \in Isolates :
                /\ WF_vars(Spawned(r, i)) /\ WF_vars(Exited(r, i))
                /\ WF_vars(End(r, i)) /\ WF_vars(Leaves(r, i))
                /\ SF_vars(OrphanExits(r, i))

Spec == Init /\ [][Next]_vars
FairSpec == Spec /\ Fairness
-----------------------------------------------------------------------------
(* Properties *)

Delegate == [grant : Nat, access : BOOLEAN, graph : Nat]
Slot == {NoIsolate}
        \cup [is : {"spawning", "idle", "busy", "gone"},
              told : {"no", "asked", "killed"}, orphan : BOOLEAN, late : BOOLEAN,
              delegate : Delegate]
Maps == [entry : Nat, known : [Roles -> {0} \cup Isolates],
         alive : [Roles -> BOOLEAN]]

\* The shapes of the maps, the isolates and what is scheduled.
TypeOK ==
    /\ scenario \in Scenarios
    /\ conf \in Nat /\ granted \in Nat /\ revoked \subseteq Nat /\ faults \in Nat
    /\ sup \in [state : {"running", "draining", "paused", "dead"}, maps : Maps]
    /\ iso \in [Roles -> [Isolates -> Slot]]
    /\ timers \in [Roles -> SUBSET Delegate]
    /\ mishaps \subseteq AllMishaps

Working(r) == {i \in Isolates : iso[r][i].is \in {"idle", "busy"}}
Obeying(r) ==
    {i \in Working(r) : iso[r][i].told # "killed" /\ ~iso[r][i].orphan}

\* A role has one child that goes on: any other is in its last native call, or
\* was left behind by a supervisor that died (startChild, onExit).  Not so once
\* a scan stopped a child that was being spawned: stopChild forgets that it is
\* there, startChild starts one more, and nothing ends the first.
OneChild ==
    "unheard" \notin mishaps => \A r \in Roles : Cardinality(Obeying(r)) <= 1

\* While a backup or a restore has the supervisor paused, no child works: what
\* it waits for is at most a native call it gave up on (pause).  Again but for
\* a child that was stopped while it was being spawned, which nobody tells.
PausedIsQuiet ==
    sup.state = "paused" /\ "unheard" \notin mishaps =>
        \A r \in Roles : Obeying(r) = {}

\* No mail is posted with a Graph token that has expired, though time passes
\* between the look at it and the request (refresh_graph_token).
SendFresh ==
    \A r \in Roles \cap {"SendTask"}, i \in Isolates :
        iso[r][i].is = "busy" => iso[r][i].delegate.graph > 0

\* Every role has its child, with the grant that is saved, and no other.
Settled ==
    \A r \in Roles :
        IF conf = 0 THEN Working(r) = {}
        ELSE \E i \in Isolates : /\ Working(r) = {i} /\ Obeying(r) = {i}
                                 /\ iso[r][i].told = "no"
                                 /\ iso[r][i].delegate.grant = conf

\* Whatever the user authorizes, and whichever children end, wedge or are
\* paused, in the end they work with the grant that is saved, each role with
\* one (scanConfigAndStart: "keeping the entry would permanently suppress
\* respawn"), unless one of AllMishaps happened: a child that was stopped while
\* it was being spawned stays beside the next; a health check that restarts one
\* child after the account was authorized anew enters the new grant and hides
\* from the next scan that the others have the old one; a timer starts a child
\* of an account that is gone; a child that could not be spawned is not tried
\* again; and the INBOX child of a supervisor that ended stays.
AlwaysSettles == <>[]Settled
Settles == <>(mishaps # {}) \/ AlwaysSettles

\* Not so: no two isolates of a role are in native calls.
NeverTwo ==
    \A r \in Roles : Cardinality({i \in Isolates : iso[r][i].is = "busy"}) <= 1

\* Not so: nothing is read with a Graph token that has expired.
ReadFresh ==
    \A r \in Roles, i \in Isolates :
        iso[r][i].is = "busy" => iso[r][i].delegate.graph > 0
=============================================================================
