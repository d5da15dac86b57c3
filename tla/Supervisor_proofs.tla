-------------------------- MODULE Supervisor_proofs --------------------------
(***************************************************************************)
(* Theorems about the supervisor and the children of an account, for any   *)
(* number of isolates, authorizations and events.                          *)
(***************************************************************************)
EXTENDS Supervisor, FiniteSetTheorems, TLAPS

\* An isolate that goes on: it was not killed, and has its supervisor.
Obeys(c) == c.is \in {"idle", "busy"} /\ c.told # "killed" /\ ~c.orphan

\* One that is being spawned was not told anything yet, a call is late only
\* once begun, and what SendTask began with lasts.
Fit(r, c) ==
    /\ c.is = "spawning" => c.told # "killed" /\ ~c.orphan
    /\ c.is \in {"spawning", "idle"} => ~c.late
    /\ r = "SendTask" /\ c.is = "busy" =>
          c.delegate.graph > (IF c.late THEN 0 ELSE 1)

\* The maps m name isolates of s that were not killed.
Sound(m, s) ==
    \A r \in Roles :
        /\ \A i \in Isolates : Fit(r, s[r][i])
        /\ m.known[r] # 0 =>
              LET c == s[r][m.known[r]]
              IN  c.is \in {"idle", "busy", "gone"} /\ c.told # "killed" /\ ~c.orphan

\* They name whatever goes on, and one isolate a role is spawned at a time.
SingleOf(m, s, r) ==
    /\ m.known[r] # 0 => m.alive[r]
    /\ \A i \in Isolates :
          /\ Obeys(s[r][i]) => m.known[r] = i
          /\ s[r][i].is = "spawning" =>
                /\ m.alive[r] /\ m.known[r] = 0
                /\ \A j \in Isolates : s[r][j].is = "spawning" => j = i

Single(m, s) == \A r \in Roles : SingleOf(m, s, r)

Idling == \A r \in Roles : sup.maps.known[r] = 0 /\ ~sup.maps.alive[r]

NoneSpawning(s, rs) == \A r \in rs, i \in Isolates : s[r][i].is # "spawning"

\* The maps are complete until a child is stopped while it is being spawned.
ChildrenInv == "unheard" \notin mishaps => Single(sup.maps, iso)

\* Nothing is spawned, and nothing known, while the supervisor is paused or gone.
RestInv ==
    sup.state \in {"paused", "dead"} => Idling /\ NoneSpawning(iso, Roles)

SupervisorInv == RestInv /\ ChildrenInv
-----------------------------------------------------------------------------
(* What the handlers make of maps and isolates *)

World == [m : Maps, s : [Roles -> [Isolates -> Slot]]]

LEMMA SlotIs ==
    /\ NoIsolate \in Slot /\ NoIsolate.is = "none"
    /\ \A c \in Slot : c.is = "none" <=> c = NoIsolate
    /\ \A c \in Slot : c.is # "none" =>
          /\ c.is \in {"spawning", "idle", "busy", "gone"}
          /\ c.told \in {"no", "asked", "killed"} /\ c.orphan \in BOOLEAN
          /\ c.late \in BOOLEAN /\ c.delegate \in Delegate
    /\ \A d \in Delegate : /\ Child(d) \in Slot /\ Child(d).is = "spawning"
                           /\ Child(d).told = "no" /\ ~Child(d).orphan
                           /\ ~Child(d).late
  BY DEF Slot, NoIsolate, Child

LEMMA KilledIs ==
    ASSUME NEW c \in Slot, c.is # "none"
    PROVE  /\ Killed(c) \in Slot /\ ~Obeys(Killed(c))
           /\ Killed(c).is \in {"busy", "gone"}
           /\ \A r \in Roles : Fit(r, c) => Fit(r, Killed(c))
  <1>1. CASE c.is = "busy"
    <2>1. Killed(c) = [c EXCEPT !.told = "killed"]
      BY <1>1 DEF Killed
    <2>2. /\ Killed(c) \in Slot /\ Killed(c).is = "busy" /\ Killed(c).told = "killed"
          /\ Killed(c).late = c.late /\ Killed(c).delegate = c.delegate
      BY <1>1, <2>1, SlotIs DEF Slot
    <2>. QED  BY <1>1, <2>2 DEF Obeys, Fit
  <1>2. CASE c.is # "busy"
    <2>1. Killed(c) = [c EXCEPT !.is = "gone"]
      BY <1>2 DEF Killed
    <2>2. Killed(c) \in Slot /\ Killed(c).is = "gone"
      BY <2>1, SlotIs DEF Slot
    <2>. QED  BY <2>2 DEF Obeys, Fit
  <1>. QED  BY <1>1, <1>2

LEMMA StopIs ==
    ASSUME NEW w \in World, NEW rs \in SUBSET Roles, Sound(w.m, w.s)
    PROVE  LET v == Stop(w, rs) IN
           /\ v \in World /\ v.m.entry = w.m.entry
           /\ \A r \in Roles :
                 /\ v.m.known[r] = IF r \in rs THEN 0 ELSE w.m.known[r]
                 /\ v.m.alive[r] <=> r \notin rs /\ w.m.alive[r]
                 /\ \A i \in Isolates :
                       IF r \in rs /\ w.m.alive[r] /\ w.m.known[r] = i
                       THEN w.s[r][i].is # "none" /\ v.s[r][i] = Killed(w.s[r][i])
                       ELSE v.s[r][i] = w.s[r][i]
  <1>. DEFINE known == [r \in Roles |-> IF r \in rs THEN 0 ELSE w.m.known[r]]
              alive == [r \in Roles |-> r \notin rs /\ w.m.alive[r]]
              s == [r \in Roles |-> [i \in Isolates |->
                       IF r \in rs /\ w.m.alive[r] /\ w.m.known[r] = i
                       THEN Killed(w.s[r][i]) ELSE w.s[r][i]]]
              m == [w.m EXCEPT !.known = known, !.alive = alive]
  <1>1. w.m \in Maps /\ w.s \in [Roles -> [Isolates -> Slot]]
    BY DEF World
  <1>2. m \in Maps /\ m.entry = w.m.entry /\ m.known = known /\ m.alive = alive
    <2>1. known \in [Roles -> {0} \cup Isolates] /\ alive \in [Roles -> BOOLEAN]
      BY <1>1 DEF Maps
    <2>. HIDE DEF known, alive
    <2>. QED  BY <1>1, <2>1 DEF Maps
  <1>3. Stop(w, rs) = [m |-> m, s |-> s]
    BY DEF Stop
  <1>4. ASSUME NEW r \in Roles, NEW i \in Isolates, w.m.known[r] = i
        PROVE  w.s[r][i].is # "none"
    BY <1>4 DEF Sound, Isolates
  <1>5. s \in [Roles -> [Isolates -> Slot]]
    BY <1>1, <1>4, KilledIs
  <1>6. /\ Stop(w, rs).m = m /\ Stop(w, rs).s = s /\ Stop(w, rs) \in World
    <2>. HIDE DEF m, s
    <2>. QED  BY <1>2, <1>3, <1>5 DEF World
  <1>. DEFINE v == Stop(w, rs)
  <1>7. /\ v \in World /\ v.m.entry = w.m.entry
        /\ v.m.known = known /\ v.m.alive = alive /\ v.s = s
    BY <1>2, <1>6
  <1>. HIDE DEF v
  <1>8. \A r \in Roles : /\ v.m.known[r] = IF r \in rs THEN 0 ELSE w.m.known[r]
                         /\ v.m.alive[r] <=> r \notin rs /\ w.m.alive[r]
    BY <1>7
  <1>9. \A r \in Roles, i \in Isolates :
           IF r \in rs /\ w.m.alive[r] /\ w.m.known[r] = i
           THEN w.s[r][i].is # "none" /\ v.s[r][i] = Killed(w.s[r][i])
           ELSE v.s[r][i] = w.s[r][i]
    BY <1>4, <1>7
  <1>. QED  BY <1>7, <1>8, <1>9 DEF v

LEMMA StopKeeps ==
    ASSUME NEW w \in World, NEW rs \in SUBSET Roles, Sound(w.m, w.s)
    PROVE  LET v == Stop(w, rs) IN
           /\ v \in World /\ Sound(v.m, v.s) /\ v.m.entry = w.m.entry
           /\ \A r \in Roles : Free(v.s, r) = Free(w.s, r)
           /\ Single(w.m, w.s) /\ NoneSpawning(w.s, rs) => Single(v.m, v.s)
           /\ NoneSpawning(w.s, Roles) => NoneSpawning(v.s, Roles)
  <1>. DEFINE v == Stop(w, rs)
  <1>1. /\ v \in World /\ v.m.entry = w.m.entry
        /\ \A r \in Roles :
              /\ v.m.known[r] = IF r \in rs THEN 0 ELSE w.m.known[r]
              /\ v.m.alive[r] <=> r \notin rs /\ w.m.alive[r]
              /\ \A i \in Isolates :
                    IF r \in rs /\ w.m.alive[r] /\ w.m.known[r] = i
                    THEN w.s[r][i].is # "none" /\ v.s[r][i] = Killed(w.s[r][i])
                    ELSE v.s[r][i] = w.s[r][i]
    BY StopIs
  <1>. HIDE DEF v
  <1>2. \A r \in Roles, i \in Isolates : w.s[r][i] \in Slot
    BY DEF World
  <1>3. ASSUME NEW r \in Roles, NEW i \in Isolates
        PROVE  /\ Fit(r, v.s[r][i])
               /\ v.s[r][i].is = "none" <=> w.s[r][i].is = "none"
               /\ v.s[r][i].is = "spawning" =>
                     v.s[r][i] = w.s[r][i]
               /\ Obeys(v.s[r][i]) =>
                     /\ v.s[r][i] = w.s[r][i]
                     /\ ~(r \in rs /\ w.m.alive[r] /\ w.m.known[r] = i)
    BY <1>1, <1>2, KilledIs DEF Sound
  <1>4. Sound(v.m, v.s)
    <2>. SUFFICES ASSUME NEW r \in Roles, v.m.known[r] # 0
                  PROVE  LET c == v.s[r][v.m.known[r]] IN
                         c.is \in {"idle", "busy", "gone"} /\ c.told # "killed" /\ ~c.orphan
      BY <1>3 DEF Sound
    <2>1. r \notin rs /\ v.m.known[r] = w.m.known[r]
      BY <1>1
    <2>2. w.m.known[r] \in Isolates
      BY <2>1 DEF World, Maps
    <2>3. v.s[r][v.m.known[r]] = w.s[r][w.m.known[r]]
      BY <1>1, <2>1, <2>2
    <2>. QED  BY <2>1, <2>3 DEF Sound
  <1>5. \A r \in Roles : Free(v.s, r) = Free(w.s, r)
    BY <1>3 DEF Free
  <1>6. ASSUME Single(w.m, w.s), NoneSpawning(w.s, rs)
        PROVE  Single(v.m, v.s)
    <2>. SUFFICES ASSUME NEW r \in Roles PROVE SingleOf(v.m, v.s, r)
      BY DEF Single
    <2>1. CASE r \in rs
      <3>1. \A i \in Isolates : w.s[r][i].is # "spawning"
        BY <1>6, <2>1 DEF NoneSpawning
      <3>2. \A i \in Isolates : ~Obeys(v.s[r][i])
        BY <1>3, <1>6, <2>1 DEF Single, Isolates, SingleOf
      <3>. QED  BY <1>1, <1>3, <2>1, <3>1, <3>2 DEF SingleOf
    <2>2. CASE r \notin rs
      BY <1>1, <1>6, <2>2 DEF Single, SingleOf
    <2>. QED  BY <2>1, <2>2
  <1>7. NoneSpawning(w.s, Roles) => NoneSpawning(v.s, Roles)
    BY <1>3 DEF NoneSpawning
  <1>. QED  BY <1>1, <1>4, <1>5, <1>6, <1>7 DEF v

LEMMA EntryIs ==
    ASSUME NEW v \in World, NEW e \in Nat
    PROVE  LET u == [v EXCEPT !.m.entry = e] IN
           /\ u \in World /\ u.m.entry = e /\ u.m.known = v.m.known
           /\ u.m.alive = v.m.alive /\ u.s = v.s
  <1>. DEFINE m == [v.m EXCEPT !.entry = e]
  <1>1. v.m \in Maps /\ v = [m |-> v.m, s |-> v.s]
    BY DEF World
  <1>2. m \in Maps /\ m.entry = e /\ m.known = v.m.known /\ m.alive = v.m.alive
    BY <1>1 DEF Maps
  <1>3. [v EXCEPT !.m.entry = e] = [v EXCEPT !.m = m]
    OBVIOUS
  <1>. HIDE DEF m
  <1>4. [v EXCEPT !.m = m] \in World
    BY <1>2 DEF World
  <1>5. [v EXCEPT !.m = m].m = m /\ [v EXCEPT !.m = m].s = v.s
    BY <1>2 DEF World
  <1>. QED  BY <1>2, <1>3, <1>4, <1>5

LEMMA EntryKeeps ==
    ASSUME NEW v \in World, NEW e \in Nat, Sound(v.m, v.s)
    PROVE  LET u == [v EXCEPT !.m.entry = e] IN
           /\ u \in World /\ u.m.entry = e /\ u.s = v.s /\ Sound(u.m, u.s)
           /\ Single(v.m, v.s) => Single(u.m, u.s)
  <1>. DEFINE u == [v EXCEPT !.m.entry = e]
  <1>1. /\ u \in World /\ u.m.entry = e /\ u.m.known = v.m.known
        /\ u.m.alive = v.m.alive /\ u.s = v.s
    BY EntryIs
  <1>. HIDE DEF u
  <1>2. Sound(u.m, u.s)
    BY <1>1 DEF Sound
  <1>3. Single(v.m, v.s) => Single(u.m, u.s)
    BY <1>1 DEF Single, SingleOf
  <1>. QED  BY <1>1, <1>2, <1>3 DEF u

LEMMA StartIs ==
    ASSUME NEW w \in World, NEW rs \in SUBSET Roles, NEW d \in Delegate
    PROVE  LET v == StartChildren(w, rs, d) IN
           /\ v \in World /\ v.m.entry = w.m.entry /\ v.m.known = w.m.known
           /\ \A r \in Roles :
                 /\ v.m.alive[r] <=> r \in rs \/ w.m.alive[r]
                 /\ \A i \in Isolates :
                       IF r \in rs /\ ~w.m.alive[r] /\ i = Fresh(w.s, r)
                       THEN v.s[r][i] = Child(d) ELSE v.s[r][i] = w.s[r][i]
  <1>. DEFINE new == {r \in rs : ~w.m.alive[r]}
              alive == [r \in Roles |-> r \in new \/ w.m.alive[r]]
              s == [r \in Roles |-> [i \in Isolates |->
                       IF r \in new /\ i = Fresh(w.s, r) THEN Child(d) ELSE w.s[r][i]]]
              m == [w.m EXCEPT !.alive = alive]
              v == StartChildren(w, rs, d)
  <1>1. w.m \in Maps /\ w.s \in [Roles -> [Isolates -> Slot]]
    BY DEF World
  <1>2. m \in Maps /\ m.entry = w.m.entry /\ m.known = w.m.known /\ m.alive = alive
    <2>1. alive \in [Roles -> BOOLEAN]
      BY <1>1 DEF Maps
    <2>. HIDE DEF alive
    <2>. QED  BY <1>1, <2>1 DEF Maps
  <1>3. v = [m |-> m, s |-> s]
    BY DEF StartChildren
  <1>4. s \in [Roles -> [Isolates -> Slot]]
    BY <1>1, SlotIs
  <1>5. v.m = m /\ v.s = s /\ v \in World
    <2>. HIDE DEF m, s, v
    <2>. QED  BY <1>2, <1>3, <1>4 DEF World
  <1>. HIDE DEF m, v
  <1>6. /\ v.m.entry = w.m.entry /\ v.m.known = w.m.known
        /\ \A r \in Roles : v.m.alive[r] <=> r \in rs \/ w.m.alive[r]
    BY <1>2, <1>5
  <1>7. \A r \in Roles, i \in Isolates :
           IF r \in rs /\ ~w.m.alive[r] /\ i = Fresh(w.s, r)
           THEN v.s[r][i] = Child(d) ELSE v.s[r][i] = w.s[r][i]
    BY <1>5
  <1>. QED  BY <1>5, <1>6, <1>7 DEF v

LEMMA StartKeeps ==
    ASSUME NEW w \in World, NEW rs \in SUBSET Roles, NEW d \in Delegate,
           Sound(w.m, w.s), \A r \in Roles : Free(w.s, r) # {}
    PROVE  LET v == StartChildren(w, rs, d) IN
           /\ v \in World /\ Sound(v.m, v.s) /\ v.m.entry = w.m.entry
           /\ Single(w.m, w.s) => Single(v.m, v.s)
  <1>. DEFINE v == StartChildren(w, rs, d)
  <1>1. /\ v \in World /\ v.m.entry = w.m.entry /\ v.m.known = w.m.known
        /\ \A r \in Roles :
              /\ v.m.alive[r] <=> r \in rs \/ w.m.alive[r]
              /\ \A i \in Isolates :
                    IF r \in rs /\ ~w.m.alive[r] /\ i = Fresh(w.s, r)
                    THEN v.s[r][i] = Child(d) ELSE v.s[r][i] = w.s[r][i]
    BY ONLY w \in World, rs \in SUBSET Roles, d \in Delegate, StartIs
  <1>. HIDE DEF v
  <1>2. \A r \in Roles : Fresh(w.s, r) \in Isolates /\ w.s[r][Fresh(w.s, r)].is = "none"
    BY DEF Fresh, Free
  <1>3. /\ Child(d).is = "spawning" /\ ~Obeys(Child(d))
        /\ \A r \in Roles : Fit(r, Child(d))
    BY SlotIs DEF Obeys, Fit
  <1>4. Sound(v.m, v.s)
    <2>1. \A r \in Roles, i \in Isolates : Fit(r, v.s[r][i])
      BY <1>1, <1>3 DEF Sound
    <2>2. ASSUME NEW r \in Roles, v.m.known[r] # 0
          PROVE  LET c == v.s[r][v.m.known[r]] IN
                 c.is \in {"idle", "busy", "gone"} /\ c.told # "killed" /\ ~c.orphan
      <3>1. w.m.known[r] \in Isolates /\ v.m.known[r] = w.m.known[r]
        BY <1>1, <2>2 DEF World, Maps
      <3>2. w.s[r][w.m.known[r]].is \in {"idle", "busy", "gone"}
        BY <2>2, <3>1 DEF Sound
      <3>3. v.s[r][v.m.known[r]] = w.s[r][w.m.known[r]]
        BY <1>1, <1>2, <3>1, <3>2
      <3>. QED  BY <2>2, <3>1, <3>3 DEF Sound
    <2>. QED  BY <2>1, <2>2 DEF Sound
  <1>5. ASSUME Single(w.m, w.s)
        PROVE  Single(v.m, v.s)
    <2>. SUFFICES ASSUME NEW r \in Roles PROVE SingleOf(v.m, v.s, r)
      BY DEF Single
    <2>1. CASE r \in rs /\ ~w.m.alive[r]
      <3>1. w.m.known[r] = 0 /\ \A i \in Isolates : w.s[r][i].is # "spawning"
        BY <1>5, <2>1 DEF Single, SingleOf
      <3>2. \A i \in Isolates : ~Obeys(w.s[r][i])
        BY <1>5, <3>1 DEF Single, Isolates, SingleOf
      <3>. QED  BY <1>1, <1>3, <2>1, <3>1, <3>2 DEF SingleOf
    <2>2. CASE ~(r \in rs /\ ~w.m.alive[r])
      <3>1. \A i \in Isolates : v.s[r][i] = w.s[r][i]
        BY <1>1, <2>2
      <3>2. v.m.alive[r] <=> w.m.alive[r]
        BY <1>1, <2>2
      <3>. QED  BY <1>1, <1>5, <3>1, <3>2 DEF Single, SingleOf
    <2>. QED  BY <2>1, <2>2
  <1>. QED  BY <1>1, <1>4, <1>5 DEF v

LEMMA NewIs ==
    ASSUME NEW w \in World, conf \in Nat, Sound(w.m, w.s),
           \A r \in Roles : Free(w.s, r) # {}
    PROVE  /\ New(w) \in World /\ Sound(New(w).m, New(w).s)
           /\ Single(w.m, w.s) => Single(New(w).m, New(w).s)
  <1>. DEFINE v == StartChildren(w, Roles, NewDelegate(conf))
  <1>1. NewDelegate(conf) \in Delegate
    BY DEF NewDelegate, EmptyDelegate, Delegate
  <1>2. /\ v \in World /\ Sound(v.m, v.s) /\ v.m.entry = w.m.entry
        /\ Single(w.m, w.s) => Single(v.m, v.s)
    BY <1>1, StartKeeps
  <1>. HIDE DEF v
  <1>3. CASE w.m.entry # 0
    BY <1>3 DEF New
  <1>4. CASE w.m.entry = 0
    <2>. DEFINE u == [v EXCEPT !.m.entry = conf]
    <2>1. New(w) = u
      BY <1>4 DEF New, v
    <2>2. /\ u \in World /\ u.m.entry = conf /\ Sound(u.m, u.s)
          /\ Single(v.m, v.s) => Single(u.m, u.s)
      BY <1>2, EntryKeeps
    <2>. HIDE DEF u
    <2>. QED  BY <1>2, <2>1, <2>2
  <1>. QED  BY <1>3, <1>4

LEMMA ScannedIs ==
    ASSUME NEW w \in World, conf \in Nat, Sound(w.m, w.s),
           \A r \in Roles : Free(w.s, r) # {}
    PROVE  /\ Scanned(w) \in World /\ Sound(Scanned(w).m, Scanned(w).s)
           /\ Single(w.m, w.s) /\ (Stops(w) => NoneSpawning(w.s, Roles)) =>
                 Single(Scanned(w).m, Scanned(w).s)
  <1>. DEFINE v == Stop(w, Roles)
              u == [v EXCEPT !.m.entry = 0]
  <1>1. /\ v \in World /\ Sound(v.m, v.s)
        /\ \A r \in Roles : Free(v.s, r) = Free(w.s, r)
        /\ Single(w.m, w.s) /\ NoneSpawning(w.s, Roles) => Single(v.m, v.s)
    BY StopKeeps
  <1>. HIDE DEF v
  <1>2. /\ u \in World /\ Sound(u.m, u.s) /\ u.s = v.s
        /\ Single(v.m, v.s) => Single(u.m, u.s)
    BY <1>1, EntryKeeps
  <1>3. Changed(w) = IF w.m.entry \notin {0, conf} THEN u ELSE w
    BY DEF Changed, v
  <1>. HIDE DEF u
  <1>4. \A r \in Roles : Free(u.s, r) # {}
    BY <1>1, <1>2 DEF Free
  <1>5. CASE conf # 0 /\ w.m.entry \notin {0, conf}
    <2>1. Scanned(w) = New(u)
      BY <1>3, <1>5 DEF Scanned
    <2>2. /\ New(u) \in World /\ Sound(New(u).m, New(u).s)
          /\ Single(u.m, u.s) => Single(New(u).m, New(u).s)
      BY <1>2, <1>4, NewIs
    <2>. QED  BY <1>1, <1>2, <1>5, <2>1, <2>2 DEF Stops
  <1>6. CASE conf # 0 /\ w.m.entry \in {0, conf}
    <2>1. Scanned(w) = New(w)
      BY <1>3, <1>6 DEF Scanned
    <2>. QED  BY <1>6, <2>1, NewIs
  <1>7. CASE conf = 0
    <2>1. Scanned(w) = IF Stops(w) THEN u ELSE w
      BY <1>7 DEF Scanned, Stops, u, v
    <2>2. Single(w.m, w.s) /\ NoneSpawning(w.s, Roles) => Single(u.m, u.s)
      BY <1>1, <1>2
    <2>. QED  BY <1>2, <1>7, <2>1, <2>2
  <1>. QED  BY <1>5, <1>6, <1>7
-----------------------------------------------------------------------------
(* The invariants are kept *)

SoundInv == Sound(sup.maps, iso)

LEMMA DelegateIs ==
    ASSUME NEW d \in Delegate
    PROVE  /\ \A r \in Roles : Ready(r, d) \in Delegate
           /\ \A r \in Roles : r = "SendTask" => Ready(r, d).graph > 1
           /\ Older(d) \in Delegate
           /\ Older(d).graph = IF d.graph = 0 THEN 0 ELSE d.graph - 1
  <1>. USE DEF Delegate
  <1>1. Life \in Nat /\ Life > 1
    BY LifeAssumption
  <1>2. \A e \in Delegate : WithAccess(e) \in Delegate /\ WithGraph(e) \in Delegate
                            /\ WithGraph(e).graph = Life
    BY <1>1 DEF WithAccess, WithGraph
  <1>3. ReadyToRead(d) \in Delegate
    BY <1>2 DEF ReadyToRead
  <1>4. ReadyToSend(d) \in Delegate /\ ReadyToSend(d).graph > 1
    <2>. DEFINE a == IF d.access THEN d ELSE WithAccess(d)
    <2>1. a \in Delegate
      BY <1>2
    <2>2. ReadyToSend(d) = IF GoodForSending(a) THEN a ELSE WithGraph(a)
      BY DEF ReadyToSend
    <2>. HIDE DEF a
    <2>. QED  BY <1>1, <1>2, <2>1, <2>2 DEF GoodForSending
  <1>5. Older(d) \in Delegate /\ Older(d).graph = IF d.graph = 0 THEN 0 ELSE d.graph - 1
    BY DEF Older
  <1>. QED  BY <1>3, <1>4, <1>5 DEF Ready

LEMMA NowIs ==
    ASSUME TypeOK, SoundInv
    PROVE  Now \in World /\ Now.m = sup.maps /\ Now.s = iso /\ Sound(Now.m, Now.s)
  <1>1. sup.maps \in Maps /\ iso \in [Roles -> [Isolates -> Slot]]
    BY DEF TypeOK
  <1>. QED  BY <1>1 DEF Now, World, SoundInv

\* The supervisor's handlers make a world of another.
LEMMA BecomesIs ==
    ASSUME NEW state \in {"running", "draining", "paused", "dead"}, NEW v \in World,
           Becomes(state, v)
    PROVE  /\ sup' \in [state : {"running", "draining", "paused", "dead"}, maps : Maps]
           /\ iso' \in [Roles -> [Isolates -> Slot]]
           /\ sup'.state = state /\ sup'.maps = v.m /\ iso' = v.s
           /\ Sound(v.m, v.s) => SoundInv'
           /\ Single(v.m, v.s) => Single(sup.maps, iso)'
  <1>1. v.m \in Maps /\ v.s \in [Roles -> [Isolates -> Slot]]
    BY DEF World
  <1>2. sup'.state = state /\ sup'.maps = v.m /\ iso' = v.s
    BY DEF Becomes, Supervising
  <1>3. sup' \in [state : {"running", "draining", "paused", "dead"}, maps : Maps]
    BY <1>1 DEF Becomes, Supervising
  <1>4. iso' \in [Roles -> [Isolates -> Slot]]
    BY <1>1, <1>2
  <1>5. Sound(v.m, v.s) => SoundInv'
    BY <1>2 DEF SoundInv
  <1>6. Single(v.m, v.s) => Single(sup.maps, iso)'
    BY <1>2
  <1>. QED  BY <1>2, <1>3, <1>4, <1>5, <1>6

LEMMA UserSteps ==
    ASSUME TypeOK, SoundInv, Authorize \/ DeleteAccount \/ Revoke
    PROVE  TypeOK' /\ SoundInv' /\ (SupervisorInv => SupervisorInv')
  <1>1. /\ UNCHANGED <<scenario, sup, iso, timers, mishaps>>
        /\ conf' \in Nat /\ granted' \in Nat /\ revoked' \subseteq Nat /\ faults' \in Nat
    BY DEF TypeOK, Authorize, DeleteAccount, Revoke, Event, Consented, Exchanged,
           NewDelegate, EmptyDelegate
  <1>2. TypeOK'
    BY <1>1 DEF TypeOK
  <1>3. SoundInv'
    BY <1>1 DEF SoundInv
  <1>4. SupervisorInv => SupervisorInv'
    BY <1>1 DEF SupervisorInv, RestInv, ChildrenInv, Idling
  <1>. QED  BY <1>2, <1>3, <1>4

LEMMA ScanSteps ==
    ASSUME TypeOK, SoundInv, Scan \/ Rescan \/ Resume \/ Restart
    PROVE  TypeOK' /\ SoundInv' /\ (SupervisorInv => SupervisorInv')
  <1>. DEFINE v == Scanned(Now)
  <1>1. /\ Room /\ Becomes("running", v) /\ UNCHANGED <<user, timers>>
        /\ faults' \in Nat /\ mishaps' \in SUBSET AllMishaps
        /\ "unheard" \notin mishaps' =>
              /\ "unheard" \notin mishaps
              /\ \/ sup.state \in {"paused", "dead"}
                 \/ Stops(Now) => ~Unheard(Roles)
    <2>1. CASE Scan \/ Rescan
      <3>1. /\ ScanNow /\ faults' \in Nat /\ mishaps \in SUBSET AllMishaps
        BY <2>1 DEF Scan, Rescan, Event, TypeOK
      <3>2. mishaps' = mishaps \cup Mishap("unheard", Stops(Now) /\ Unheard(Roles))
        BY <3>1 DEF ScanNow
      <3>3. /\ mishaps' \in SUBSET AllMishaps
            /\ "unheard" \notin mishaps' =>
                  "unheard" \notin mishaps /\ ~(Stops(Now) /\ Unheard(Roles))
        BY <3>1, <3>2 DEF Mishap, AllMishaps
      <3>. QED  BY <3>1, <3>3 DEF ScanNow
    <2>2. CASE Resume \/ Restart
      BY <2>2 DEF Resume, Restart, TypeOK
    <2>. QED  BY <2>1, <2>2
  <1>2. conf \in Nat /\ \A r \in Roles : Free(iso, r) # {}
    BY <1>1 DEF Room, TypeOK
  <1>3. /\ v \in World /\ Sound(v.m, v.s)
        /\ Single(sup.maps, iso) /\ (Stops(Now) => NoneSpawning(iso, Roles)) =>
              Single(v.m, v.s)
    BY <1>2, NowIs, ScannedIs
  <1>. HIDE DEF v
  <1>4. /\ sup' \in [state : {"running", "draining", "paused", "dead"}, maps : Maps]
        /\ iso' \in [Roles -> [Isolates -> Slot]]
        /\ sup'.state = "running" /\ sup'.maps = v.m
        /\ SoundInv' /\ (Single(v.m, v.s) => Single(sup.maps, iso)')
    BY <1>1, <1>3, BecomesIs
  <1>5. TypeOK'
    BY <1>1, <1>4 DEF TypeOK, user
  <1>6. ASSUME SupervisorInv, "unheard" \notin mishaps' PROVE Single(sup.maps, iso)'
    <2>1. Stops(Now) => NoneSpawning(iso, Roles)
      <3>1. ~Unheard(Roles) => NoneSpawning(iso, Roles)
        BY DEF Unheard, NoneSpawning
      <3>. QED  BY <1>1, <1>6, <3>1 DEF SupervisorInv, RestInv
    <2>. QED  BY <1>1, <1>3, <1>4, <1>6, <2>1 DEF SupervisorInv, ChildrenInv
  <1>7. SupervisorInv => SupervisorInv'
    BY <1>4, <1>6 DEF SupervisorInv, RestInv, ChildrenInv
  <1>. QED  BY <1>4, <1>5, <1>7

LEMMA RespawnStep ==
    ASSUME TypeOK, SoundInv, NEW r \in Roles, Respawn(r)
    PROVE  TypeOK' /\ SoundInv' /\ (SupervisorInv => SupervisorInv')
  <1>1. PICK d \in timers[r] :
           /\ timers' = [timers EXCEPT ![r] = @ \ {d}]
           /\ Becomes(sup.state, IF Running THEN StartChildren(Now, {r}, d) ELSE Now)
           /\ mishaps' \in {mishaps, mishaps \cup {"belated"}}
    BY DEF Respawn, Mishap
  <1>2. /\ d \in Delegate /\ timers' \in [Roles -> SUBSET Delegate]
        /\ sup.state \in {"running", "draining", "paused", "dead"}
        /\ UNCHANGED <<user, faults>> /\ mishaps' \subseteq AllMishaps
        /\ \A q \in Roles : Free(iso, q) # {}
    BY <1>1 DEF TypeOK, Respawn, Room, AllMishaps
  <1>. DEFINE started == StartChildren(Now, {r}, d)
              v == IF Running THEN started ELSE Now
  <1>3. /\ started \in World /\ Sound(started.m, started.s)
        /\ started.m.entry = sup.maps.entry
        /\ Single(sup.maps, iso) => Single(started.m, started.s)
    BY <1>2, NowIs, StartKeeps
  <1>. HIDE DEF started
  <1>4. /\ v \in World /\ Sound(v.m, v.s) /\ v.m.entry = sup.maps.entry
        /\ Single(sup.maps, iso) => Single(v.m, v.s)
        /\ sup.state # "running" => v.m = sup.maps /\ v.s = iso
    BY <1>3, NowIs DEF Running
  <1>5. Becomes(sup.state, v)
    BY <1>1 DEF started
  <1>. HIDE DEF v
  <1>6. /\ sup' \in [state : {"running", "draining", "paused", "dead"}, maps : Maps]
        /\ iso' \in [Roles -> [Isolates -> Slot]]
        /\ sup'.state = sup.state /\ sup'.maps = v.m /\ iso' = v.s
        /\ SoundInv' /\ (Single(v.m, v.s) => Single(sup.maps, iso)')
    BY <1>2, <1>4, <1>5, BecomesIs
  <1>7. TypeOK'
    BY <1>2, <1>6 DEF TypeOK, user
  <1>8. RestInv => RestInv'
    BY <1>4, <1>6 DEF RestInv, Idling
  <1>9. ChildrenInv => ChildrenInv'
    BY <1>1, <1>4, <1>6 DEF ChildrenInv
  <1>. QED  BY <1>6, <1>7, <1>8, <1>9 DEF SupervisorInv

LEMMA HealthcheckStep ==
    ASSUME TypeOK, SoundInv, NEW r \in Roles, Healthcheck(r)
    PROVE  TypeOK' /\ SoundInv' /\ (SupervisorInv => SupervisorInv')
  <1>. DEFINE stopped == Stop(Now, {r})
              u == [stopped EXCEPT !.m.entry = 0]
              v == Scanned(u)
  <1>1. /\ Becomes("running", v) /\ UNCHANGED <<user, timers>> /\ faults' \in Nat
        /\ mishaps' \in SUBSET AllMishaps
        /\ "unheard" \notin mishaps' =>
              /\ "unheard" \notin mishaps
              /\ ~Unheard(IF Stops(u) THEN Roles ELSE {r})
        /\ conf \in Nat /\ \A q \in Roles : Free(iso, q) # {}
    BY DEF Healthcheck, Event, TypeOK, Room, Mishap, AllMishaps
  <1>2. /\ stopped \in World /\ Sound(stopped.m, stopped.s)
        /\ \A q \in Roles : Free(stopped.s, q) = Free(iso, q)
        /\ Single(sup.maps, iso) /\ NoneSpawning(iso, {r}) =>
              Single(stopped.m, stopped.s)
        /\ NoneSpawning(iso, Roles) => NoneSpawning(stopped.s, Roles)
    BY NowIs, StopKeeps
  <1>. HIDE DEF stopped
  <1>3. /\ u \in World /\ u.s = stopped.s /\ Sound(u.m, u.s)
        /\ Single(stopped.m, stopped.s) => Single(u.m, u.s)
    BY <1>2, EntryKeeps
  <1>. HIDE DEF u
  <1>4. \A q \in Roles : Free(u.s, q) # {}
    BY <1>1, <1>2, <1>3
  <1>5. /\ v \in World /\ Sound(v.m, v.s)
        /\ Single(u.m, u.s) /\ (Stops(u) => NoneSpawning(u.s, Roles)) =>
              Single(v.m, v.s)
    BY <1>1, <1>3, <1>4, ScannedIs
  <1>. HIDE DEF v
  <1>6. /\ sup' \in [state : {"running", "draining", "paused", "dead"}, maps : Maps]
        /\ iso' \in [Roles -> [Isolates -> Slot]]
        /\ sup'.state = "running" /\ sup'.maps = v.m
        /\ SoundInv' /\ (Single(v.m, v.s) => Single(sup.maps, iso)')
    BY <1>1, <1>5, BecomesIs
  <1>7. TypeOK'
    BY <1>1, <1>6 DEF TypeOK, user
  <1>8. ASSUME SupervisorInv, "unheard" \notin mishaps' PROVE Single(sup.maps, iso)'
    <2>1. \A rs \in SUBSET Roles : ~Unheard(rs) => NoneSpawning(iso, rs)
      BY DEF Unheard, NoneSpawning
    <2>2. NoneSpawning(iso, {r}) /\ (Stops(u) => NoneSpawning(iso, Roles))
      BY <1>1, <1>8, <2>1 DEF NoneSpawning
    <2>. QED  BY <1>1, <1>2, <1>3, <1>5, <1>6, <1>8, <2>2 DEF SupervisorInv, ChildrenInv
  <1>9. SupervisorInv => SupervisorInv'
    BY <1>6, <1>8 DEF SupervisorInv, RestInv, ChildrenInv
  <1>. QED  BY <1>6, <1>7, <1>9

\* What an isolate may become while the maps stay as they are.
Kept(b, c) ==
    /\ c.is = "spawning" => b.is = "spawning"
    /\ Obeys(c) => Obeys(b)
    /\ b.is \in {"idle", "busy", "gone"} /\ b.told # "killed" /\ ~b.orphan =>
          c.is \in {"idle", "busy", "gone"} /\ c.told # "killed" /\ ~c.orphan

LEMMA ChildrenKeep ==
    ASSUME TypeOK, SoundInv, sup'.maps = sup.maps, UNCHANGED mishaps,
           sup'.state \in {sup.state, "draining"},
           \A r \in Roles, i \in Isolates :
              Fit(r, iso'[r][i]) /\ Kept(iso[r][i], iso'[r][i])
    PROVE  SoundInv' /\ (SupervisorInv => SupervisorInv')
  <1>1. SoundInv'
    <2>1. \A r \in Roles : sup.maps.known[r] # 0 => sup.maps.known[r] \in Isolates
      BY DEF TypeOK, Maps
    <2>. QED  BY <2>1 DEF SoundInv, Sound, Kept
  <1>2. Single(sup.maps, iso) => Single(sup.maps, iso)'
    BY DEF Single, Kept, SingleOf
  <1>3. RestInv => RestInv'
    BY DEF RestInv, Idling, NoneSpawning, Kept
  <1>. QED  BY <1>1, <1>2, <1>3 DEF SupervisorInv, ChildrenInv

\* A step of one isolate.
LEMMA OneIsolate ==
    ASSUME TypeOK, NEW r \in Roles, NEW i \in Isolates, NEW c \in Slot,
           iso' = [iso EXCEPT ![r][i] = c]
    PROVE  /\ iso' \in [Roles -> [Isolates -> Slot]]
           /\ \A q \in Roles, j \in Isolates :
                 iso'[q][j] = IF q = r /\ j = i THEN c ELSE iso[q][j]
  BY DEF TypeOK

LEMMA OneIsolateKeeps ==
    ASSUME TypeOK, SoundInv, NEW r \in Roles, NEW i \in Isolates, NEW c \in Slot,
           iso' = [iso EXCEPT ![r][i] = c], UNCHANGED <<user, sup, timers, mishaps>>,
           faults' \in Nat, Fit(r, c), Kept(iso[r][i], c)
    PROVE  TypeOK' /\ SoundInv' /\ (SupervisorInv => SupervisorInv')
  <1>1. /\ iso' \in [Roles -> [Isolates -> Slot]]
        /\ \A q \in Roles, j \in Isolates :
              iso'[q][j] = IF q = r /\ j = i THEN c ELSE iso[q][j]
    BY OneIsolate
  <1>2. TypeOK'
    BY <1>1 DEF TypeOK, user
  <1>3. \A q \in Roles, j \in Isolates :
           Fit(q, iso'[q][j]) /\ Kept(iso[q][j], iso'[q][j])
    <2>. TAKE q \in Roles, j \in Isolates
    <2>1. Fit(q, iso[q][j]) /\ Kept(iso[q][j], iso[q][j])
      BY DEF SoundInv, Sound, Kept
    <2>. QED  BY <1>1, <2>1
  <1>4. sup'.maps = sup.maps /\ UNCHANGED mishaps /\ sup'.state = sup.state
    BY DEF user
  <1>. QED  BY <1>2, <1>3, <1>4, ChildrenKeep

LEMMA ChildSteps ==
    ASSUME TypeOK, SoundInv, NEW r \in Roles, NEW i \in Isolates,
           Dies(r, i) \/ Leaves(r, i) \/ OrphanExits(r, i) \/ Begin(r, i) \/ End(r, i)
    PROVE  TypeOK' /\ SoundInv' /\ (SupervisorInv => SupervisorInv')
  <1>. DEFINE b == iso[r][i]
  <1>1. b \in Slot /\ Fit(r, b)
    BY DEF TypeOK, SoundInv, Sound
  <1>2. CASE Dies(r, i) \/ Leaves(r, i)
    <2>. DEFINE c == [b EXCEPT !.is = "gone"]
    <2>1. /\ iso' = [iso EXCEPT ![r][i] = c] /\ b.is = "idle"
          /\ UNCHANGED <<user, sup, timers, mishaps>> /\ faults' \in Nat
      BY <1>2 DEF Dies, Leaves, Hears, Event, TypeOK
    <2>2. c \in Slot /\ c.is = "gone" /\ c.told = b.told /\ c.orphan = b.orphan
      BY <1>1, <2>1, SlotIs DEF Slot
    <2>. HIDE DEF c
    <2>3. Fit(r, c) /\ Kept(b, c)
      BY <2>1, <2>2 DEF Fit, Kept, Obeys
    <2>. QED  BY <2>1, <2>2, <2>3, OneIsolateKeeps
  <1>3. CASE OrphanExits(r, i)
    <2>1. /\ iso' = [iso EXCEPT ![r][i] = NoIsolate] /\ b.orphan
          /\ UNCHANGED <<user, sup, timers, mishaps>> /\ faults' \in Nat
      BY <1>3 DEF OrphanExits, TypeOK
    <2>2. Fit(r, NoIsolate) /\ Kept(b, NoIsolate)
      BY <2>1, SlotIs DEF Fit, Kept, Obeys
    <2>. QED  BY <2>1, <2>2, SlotIs, OneIsolateKeeps
  <1>4. CASE Begin(r, i)
    <2>. DEFINE d == Ready(r, b.delegate)
                c == [[b EXCEPT !.is = "busy"] EXCEPT !.delegate = d]
    <2>1. /\ iso' = [iso EXCEPT ![r][i] = c] /\ b.is = "idle"
          /\ UNCHANGED <<user, sup, timers, mishaps>> /\ faults' \in Nat
      BY <1>4 DEF Begin, TypeOK
    <2>2. d \in Delegate /\ (r = "SendTask" => d.graph > 1) /\ ~b.late
      BY <1>1, <2>1, SlotIs, DelegateIs DEF Fit
    <2>. HIDE DEF d
    <2>3. /\ c \in Slot /\ c.is = "busy" /\ c.told = b.told /\ c.orphan = b.orphan
          /\ ~c.late /\ c.delegate = d
      BY <1>1, <2>1, <2>2, SlotIs DEF Slot
    <2>. HIDE DEF c
    <2>4. Fit(r, c) /\ Kept(b, c)
      BY <2>1, <2>2, <2>3 DEF Fit, Kept, Obeys
    <2>. QED  BY <2>1, <2>3, <2>4, OneIsolateKeeps
  <1>5. CASE End(r, i)
    <2>. DEFINE k == IF b.told = "killed" THEN "gone" ELSE "idle"
                c == [b EXCEPT !.is = k, !.late = FALSE]
    <2>1. /\ iso' = [iso EXCEPT ![r][i] = c] /\ b.is = "busy"
          /\ UNCHANGED <<user, sup, timers, mishaps>> /\ faults' \in Nat
      BY <1>5 DEF End, TypeOK
    <2>2. /\ c \in Slot /\ c.is = k /\ c.told = b.told /\ c.orphan = b.orphan
          /\ ~c.late
      BY <1>1, <2>1, SlotIs DEF Slot
    <2>. HIDE DEF c
    <2>3. Fit(r, c) /\ Kept(b, c)
      BY <2>1, <2>2 DEF Fit, Kept, Obeys
    <2>. QED  BY <2>1, <2>2, <2>3, OneIsolateKeeps
  <1>. QED  BY <1>2, <1>3, <1>4, <1>5

LEMMA PauseStep ==
    ASSUME TypeOK, SoundInv, Pause
    PROVE  TypeOK' /\ SoundInv' /\ (SupervisorInv => SupervisorInv')
  <1>1. /\ sup' = [sup EXCEPT !.state = "draining"] /\ UNCHANGED <<user, timers, mishaps>>
        /\ faults' \in Nat
    BY DEF Pause, Event, TypeOK
  <1>2. /\ sup' \in [state : {"running", "draining", "paused", "dead"}, maps : Maps]
        /\ sup'.state = "draining" /\ sup'.maps = sup.maps
    BY <1>1 DEF TypeOK
  <1>3. \A r \in Roles, i \in Isolates :
           /\ iso[r][i] \in Slot /\ Fit(r, iso[r][i])
           /\ sup.maps.known[r] = i => iso[r][i].is # "none"
    <2>1. \A i \in Isolates : i # 0
      BY DEF Isolates
    <2>. QED  BY <2>1 DEF TypeOK, SoundInv, Sound
  <1>4. \A r \in Roles, i \in Isolates :
           iso'[r][i] = IF sup.maps.known[r] = i /\ iso[r][i].told = "no"
                        THEN [iso[r][i] EXCEPT !.told = "asked"] ELSE iso[r][i]
    BY DEF Pause
  <1>5. ASSUME NEW r \in Roles, NEW i \in Isolates
        PROVE  /\ iso'[r][i] \in Slot
               /\ Fit(r, iso'[r][i]) /\ Kept(iso[r][i], iso'[r][i])
    <2>. DEFINE b == iso[r][i]
                c == [b EXCEPT !.told = "asked"]
    <2>1. ASSUME sup.maps.known[r] = i, b.told = "no"
          PROVE  /\ c \in Slot /\ c.is = b.is /\ c.told = "asked"
                 /\ c.orphan = b.orphan /\ c.late = b.late /\ c.delegate = b.delegate
      BY <1>3, <2>1, SlotIs DEF Slot
    <2>. HIDE DEF c
    <2>2. ASSUME sup.maps.known[r] = i, b.told = "no"
          PROVE  c \in Slot /\ Fit(r, c) /\ Kept(b, c)
      BY <1>3, <2>1, <2>2 DEF Fit, Kept, Obeys
    <2>3. b \in Slot /\ Fit(r, b) /\ Kept(b, b)
      BY <1>3 DEF Kept
    <2>4. iso'[r][i] = IF sup.maps.known[r] = i /\ b.told = "no" THEN c ELSE b
      BY <1>4 DEF c
    <2>. QED  BY <2>2, <2>3, <2>4
  <1>6. iso' \in [Roles -> [Isolates -> Slot]]
    <2>1. iso' = [r \in Roles |-> [i \in Isolates |-> iso'[r][i]]]
      BY DEF Pause
    <2>. QED  BY <1>5, <2>1
  <1>7. TypeOK'
    BY <1>1, <1>2, <1>6 DEF TypeOK, user
  <1>. QED  BY <1>1, <1>2, <1>5, <1>7, ChildrenKeep DEF user

LEMMA TickStep ==
    ASSUME TypeOK, SoundInv, Tick
    PROVE  TypeOK' /\ SoundInv' /\ (SupervisorInv => SupervisorInv')
  <1>1. /\ UNCHANGED <<user, sup, faults, mishaps>>
        /\ timers' = [r \in Roles |-> {Older(d) : d \in timers[r]}]
        /\ \A r \in Roles, i \in Isolates : iso[r][i].is = "busy" => ~iso[r][i].late
    BY DEF Tick
  <1>2. timers' \in [Roles -> SUBSET Delegate]
    BY <1>1, DelegateIs DEF TypeOK
  <1>3. \A r \in Roles, i \in Isolates :
           iso'[r][i] = IF iso[r][i].is = "none" THEN NoIsolate
                        ELSE [iso[r][i] EXCEPT !.delegate = Older(@),
                                               !.late = iso[r][i].is = "busy"]
    BY DEF Tick
  <1>4. ASSUME NEW r \in Roles, NEW i \in Isolates
        PROVE  /\ iso'[r][i] \in Slot
               /\ Fit(r, iso'[r][i]) /\ Kept(iso[r][i], iso'[r][i])
    <2>. DEFINE b == iso[r][i]
                d == Older(b.delegate)
                l == b.is = "busy"
                c == [b EXCEPT !.delegate = d, !.late = l]
    <2>0. b \in Slot /\ Fit(r, b)
      BY DEF TypeOK, SoundInv, Sound
    <2>1. iso'[r][i] = IF b.is = "none" THEN NoIsolate ELSE c
      BY ONLY <1>3, r \in Roles, i \in Isolates
    <2>2. CASE b.is = "none"
      BY <2>0, <2>1, <2>2, SlotIs DEF Fit, Kept, Obeys
    <2>3. CASE b.is # "none"
      <3>1. b.delegate \in Delegate
        BY <2>0, <2>3, SlotIs
      <3>2. /\ d \in Delegate /\ l \in BOOLEAN
            /\ d.graph = IF b.delegate.graph = 0 THEN 0 ELSE b.delegate.graph - 1
        BY <3>1, DelegateIs
      <3>3. r = "SendTask" /\ b.is = "busy" => d.graph > 0
        BY <1>1, <2>0, <3>1, <3>2 DEF Fit, Delegate
      <3>. HIDE DEF d
      <3>4. /\ c \in Slot /\ c.is = b.is /\ c.told = b.told /\ c.orphan = b.orphan
            /\ c.delegate = d /\ c.late = l
        BY <2>0, <2>3, <3>2, SlotIs DEF Slot
      <3>. HIDE DEF c
      <3>5. Fit(r, c)
        BY <2>0, <3>3, <3>4 DEF Fit
      <3>6. Kept(b, c)
        BY <3>4 DEF Kept, Obeys
      <3>. QED  BY <2>1, <2>3, <3>4, <3>5, <3>6
    <2>. QED  BY <2>2, <2>3
  <1>5. iso' \in [Roles -> [Isolates -> Slot]]
    <2>1. iso' = [r \in Roles |-> [i \in Isolates |-> iso'[r][i]]]
      BY DEF Tick
    <2>. QED  BY <1>4, <2>1
  <1>6. TypeOK'
    BY <1>1, <1>2, <1>5 DEF TypeOK, user
  <1>. QED  BY <1>1, <1>4, <1>6, ChildrenKeep DEF user

LEMMA NoMapsIs ==
    /\ NoMaps \in Maps /\ NoMaps.entry = 0
    /\ \A r \in Roles : NoMaps.known[r] = 0 /\ ~NoMaps.alive[r]
  BY DEF NoMaps, Maps

LEMMA PausedStep ==
    ASSUME TypeOK, SoundInv, Paused
    PROVE  TypeOK' /\ SoundInv' /\ (SupervisorInv => SupervisorInv')
  <1>1. /\ sup' = Supervising("paused", NoMaps) /\ iso' = SurvivorsKilled
        /\ UNCHANGED <<user, timers, faults, mishaps>>
        /\ \A r \in Roles, i \in Isolates : iso[r][i].is # "spawning"
    BY DEF Paused
  <1>2. /\ sup' \in [state : {"running", "draining", "paused", "dead"}, maps : Maps]
        /\ sup'.maps = NoMaps
    BY <1>1, NoMapsIs DEF Supervising
  <1>3. \A r \in Roles, i \in Isolates :
           /\ iso[r][i] \in Slot /\ Fit(r, iso[r][i])
           /\ sup.maps.known[r] = i => iso[r][i].is # "none"
    <2>1. \A i \in Isolates : i # 0
      BY DEF Isolates
    <2>. QED  BY <2>1 DEF TypeOK, SoundInv, Sound
  <1>4. \A r \in Roles, i \in Isolates :
           iso'[r][i] = IF sup.maps.alive[r] /\ sup.maps.known[r] = i
                        THEN Killed(iso[r][i]) ELSE iso[r][i]
    BY <1>1 DEF SurvivorsKilled
  <1>5. ASSUME NEW r \in Roles, NEW i \in Isolates
        PROVE  /\ iso'[r][i] \in Slot /\ Fit(r, iso'[r][i])
               /\ iso'[r][i].is # "spawning"
               /\ Obeys(iso'[r][i]) =>
                     /\ Obeys(iso[r][i])
                     /\ ~(sup.maps.alive[r] /\ sup.maps.known[r] = i)
    BY <1>1, <1>3, <1>4, KilledIs
  <1>6. iso' \in [Roles -> [Isolates -> Slot]]
    <2>1. iso' = [r \in Roles |-> [i \in Isolates |-> iso'[r][i]]]
      BY <1>1 DEF SurvivorsKilled
    <2>. QED  BY <1>5, <2>1
  <1>7. TypeOK'
    BY <1>1, <1>2, <1>6 DEF TypeOK, user
  <1>8. SoundInv'
    BY <1>2, <1>5, NoMapsIs DEF SoundInv, Sound
  <1>9. RestInv'
    BY <1>2, <1>5, NoMapsIs DEF RestInv, Idling, NoneSpawning
  <1>10. ASSUME Single(sup.maps, iso) PROVE Single(sup.maps, iso)'
    <2>1. \A r \in Roles, i \in Isolates : ~Obeys(iso'[r][i])
      <3>1. \A r \in Roles, i \in Isolates : Obeys(iso[r][i]) =>
               sup.maps.alive[r] /\ sup.maps.known[r] = i
        <4>1. \A i \in Isolates : i # 0
          BY DEF Isolates
        <4>. QED  BY <1>10, <4>1 DEF Single, SingleOf
      <3>. QED  BY <1>5, <3>1
    <2>. QED  BY <1>2, <1>5, <2>1, NoMapsIs DEF Single, SingleOf
  <1>. QED  BY <1>1, <1>7, <1>8, <1>9, <1>10 DEF SupervisorInv, ChildrenInv

LEMMA SupervisorDiesStep ==
    ASSUME TypeOK, SoundInv, SupervisorDies
    PROVE  TypeOK' /\ SoundInv' /\ (SupervisorInv => SupervisorInv')
  <1>1. /\ sup' = Supervising("dead", NoMaps) /\ UNCHANGED user /\ faults' \in Nat
        /\ timers' \in [Roles -> SUBSET Delegate] /\ mishaps' \subseteq AllMishaps
    BY DEF SupervisorDies, Event, TypeOK, AllMishaps
  <1>2. /\ sup' \in [state : {"running", "draining", "paused", "dead"}, maps : Maps]
        /\ sup'.maps = NoMaps
    BY <1>1, NoMapsIs DEF Supervising
  <1>3. \A r \in Roles, i \in Isolates :
           iso'[r][i] = IF iso[r][i].is \in {"idle", "busy"}
                        THEN [iso[r][i] EXCEPT !.orphan = TRUE] ELSE NoIsolate
    BY DEF SupervisorDies
  <1>4. ASSUME NEW r \in Roles, NEW i \in Isolates
        PROVE  /\ iso'[r][i] \in Slot /\ Fit(r, iso'[r][i])
               /\ iso'[r][i].is # "spawning" /\ ~Obeys(iso'[r][i])
    <2>. DEFINE b == iso[r][i]
                c == [b EXCEPT !.orphan = TRUE]
    <2>1. b \in Slot /\ Fit(r, b)
      BY DEF TypeOK, SoundInv, Sound
    <2>2. iso'[r][i] = IF b.is \in {"idle", "busy"} THEN c ELSE NoIsolate
      BY ONLY <1>3, r \in Roles, i \in Isolates
    <2>3. CASE b.is \in {"idle", "busy"}
      <3>1. /\ c \in Slot /\ c.is = b.is /\ c.orphan /\ c.late = b.late
            /\ c.delegate = b.delegate
        BY <2>1, <2>3, SlotIs DEF Slot
      <3>. HIDE DEF c
      <3>. QED  BY <2>1, <2>2, <2>3, <3>1 DEF Fit, Obeys
    <2>4. CASE b.is \notin {"idle", "busy"}
      BY <2>2, <2>4, SlotIs DEF Fit, Obeys
    <2>. QED  BY <2>3, <2>4
  <1>5. iso' \in [Roles -> [Isolates -> Slot]]
    <2>1. iso' = [r \in Roles |-> [i \in Isolates |-> iso'[r][i]]]
      BY DEF SupervisorDies
    <2>. QED  BY <1>4, <2>1
  <1>6. TypeOK'
    BY <1>1, <1>2, <1>5 DEF TypeOK, user
  <1>7. SoundInv'
    BY <1>2, <1>4, NoMapsIs DEF SoundInv, Sound
  <1>8. Single(sup.maps, iso)'
    BY <1>2, <1>4, NoMapsIs DEF Single, SingleOf
  <1>9. RestInv'
    BY <1>2, <1>4, NoMapsIs DEF RestInv, Idling, NoneSpawning
  <1>. QED  BY <1>6, <1>7, <1>8, <1>9 DEF SupervisorInv, ChildrenInv

LEMMA SpawnedStep ==
    ASSUME TypeOK, SoundInv, NEW r \in Roles, NEW i \in Isolates, Spawned(r, i)
    PROVE  TypeOK' /\ SoundInv' /\ (SupervisorInv => SupervisorInv')
  <1>. DEFINE b == iso[r][i]
              k == IF Running THEN "idle" ELSE "gone"
              c == [b EXCEPT !.is = k]
              known == [sup.maps.known EXCEPT ![r] = i]
              alive == [sup.maps.alive EXCEPT ![r] = TRUE]
  <1>1. /\ b.is = "spawning" /\ iso' = [iso EXCEPT ![r][i] = c]
        /\ sup' = [sup EXCEPT !.maps.known[r] = i, !.maps.alive[r] = TRUE]
        /\ UNCHANGED <<user, timers, faults, mishaps>>
    BY DEF Spawned, TypeOK
  <1>2. b \in Slot /\ Fit(r, b)
    BY DEF TypeOK, SoundInv, Sound
  <1>3. c \in Slot /\ c.is = k /\ c.told = b.told /\ c.orphan = b.orphan /\ c.late = b.late
    BY <1>1, <1>2, SlotIs DEF Slot
  <1>4. /\ sup' \in [state : {"running", "draining", "paused", "dead"}, maps : Maps]
        /\ sup'.state = sup.state /\ sup'.maps.entry = sup.maps.entry
        /\ sup'.maps.known = known /\ sup'.maps.alive = alive
    BY <1>1 DEF TypeOK, Maps
  <1>5. /\ iso' \in [Roles -> [Isolates -> Slot]]
        /\ \A q \in Roles, j \in Isolates :
              iso'[q][j] = IF q = r /\ j = i THEN c ELSE iso[q][j]
    BY <1>1, <1>3, OneIsolate
  <1>6. \A q \in Roles :
           /\ sup'.maps.known[q] = IF q = r THEN i ELSE sup.maps.known[q]
           /\ sup'.maps.alive[q] <=> q = r \/ sup.maps.alive[q]
    BY <1>4 DEF TypeOK, Maps
  <1>7. c.is \in {"idle", "gone"} /\ c.told # "killed" /\ ~c.orphan /\ Fit(r, c)
    BY <1>1, <1>2, <1>3 DEF Fit
  <1>. HIDE DEF c
  <1>8. TypeOK'
    BY <1>1, <1>4, <1>5 DEF TypeOK, user
  <1>9. SoundInv'
    <2>1. \A q \in Roles, j \in Isolates : Fit(q, iso'[q][j])
      BY <1>5, <1>7 DEF SoundInv, Sound
    <2>2. ASSUME NEW q \in Roles, sup'.maps.known[q] # 0
          PROVE  LET e == iso'[q][sup'.maps.known[q]] IN
                 e.is \in {"idle", "busy", "gone"} /\ e.told # "killed" /\ ~e.orphan
      <3>1. CASE q = r
        BY <1>5, <1>6, <1>7, <3>1
      <3>2. CASE q # r
        <4>1. sup'.maps.known[q] = sup.maps.known[q] /\ sup.maps.known[q] \in Isolates
          BY <1>6, <2>2, <3>2 DEF TypeOK, Maps
        <4>2. iso'[q][sup'.maps.known[q]] = iso[q][sup.maps.known[q]]
          BY <1>5, <3>2, <4>1
        <4>. QED  BY <2>2, <4>1, <4>2 DEF SoundInv, Sound
      <3>. QED  BY <3>1, <3>2
    <2>. QED  BY <2>1, <2>2 DEF SoundInv, Sound
  <1>10. RestInv => RestInv'
    BY <1>1, <1>4 DEF RestInv, NoneSpawning
  <1>11. ASSUME Single(sup.maps, iso) PROVE Single(sup.maps, iso)'
    <2>1. /\ sup.maps.known[r] = 0 /\ sup.maps.alive[r]
          /\ \A j \in Isolates : iso[r][j].is = "spawning" => j = i
          /\ \A j \in Isolates : ~Obeys(iso[r][j])
      BY <1>1, <1>11 DEF Single, Isolates, SingleOf
    <2>. SUFFICES ASSUME NEW q \in Roles PROVE SingleOf(sup.maps, iso, q)'
      BY DEF Single
    <2>2. CASE q = r
      BY <1>5, <1>6, <1>7, <2>1, <2>2 DEF SingleOf
    <2>3. CASE q # r
      <3>1. /\ sup'.maps.known[q] = sup.maps.known[q]
            /\ sup'.maps.alive[q] <=> sup.maps.alive[q]
            /\ \A j \in Isolates : iso'[q][j] = iso[q][j]
        BY <1>5, <1>6, <2>3
      <3>2. SingleOf(sup.maps, iso, q)
        BY <1>11 DEF Single
      <3>. QED  BY <3>1, <3>2 DEF SingleOf
    <2>. QED  BY <2>2, <2>3
  <1>. QED  BY <1>1, <1>8, <1>9, <1>10, <1>11 DEF SupervisorInv, ChildrenInv

LEMMA SpawnFailsStep ==
    ASSUME TypeOK, SoundInv, NEW r \in Roles, NEW i \in Isolates, SpawnFails(r, i)
    PROVE  TypeOK' /\ SoundInv' /\ (SupervisorInv => SupervisorInv')
  <1>1. /\ iso[r][i].is = "spawning" /\ iso' = [iso EXCEPT ![r][i] = NoIsolate]
        /\ sup' = [sup EXCEPT !.maps.alive[r] = FALSE]
        /\ UNCHANGED <<user, timers>> /\ faults' \in Nat
        /\ mishaps' = mishaps \cup {"unstarted"} /\ mishaps' \subseteq AllMishaps
    BY DEF SpawnFails, Event, TypeOK, AllMishaps
  <1>2. /\ sup' \in [state : {"running", "draining", "paused", "dead"}, maps : Maps]
        /\ sup'.state = sup.state /\ sup'.maps.entry = sup.maps.entry
        /\ sup'.maps.known = sup.maps.known
        /\ \A q \in Roles : sup'.maps.alive[q] <=> q # r /\ sup.maps.alive[q]
    BY <1>1 DEF TypeOK, Maps
  <1>3. /\ iso' \in [Roles -> [Isolates -> Slot]]
        /\ \A q \in Roles, j \in Isolates :
              iso'[q][j] = IF q = r /\ j = i THEN NoIsolate ELSE iso[q][j]
    <2>1. NoIsolate \in Slot
      BY SlotIs
    <2>2. iso' = [iso EXCEPT ![r][i] = NoIsolate]
      BY <1>1
    <2>. QED  BY ONLY TypeOK, r \in Roles, i \in Isolates, <2>1, <2>2, OneIsolate
  <1>4. /\ \A q \in Roles : Fit(q, NoIsolate)
        /\ ~Obeys(NoIsolate) /\ NoIsolate.is # "spawning"
    BY SlotIs DEF Fit, Obeys
  <1>5. TypeOK'
    BY <1>1, <1>2, <1>3 DEF TypeOK, user
  <1>6. SoundInv'
    <2>1. \A q \in Roles, j \in Isolates : Fit(q, iso'[q][j])
      BY <1>3, <1>4 DEF SoundInv, Sound
    <2>2. ASSUME NEW q \in Roles, sup.maps.known[q] # 0
          PROVE  LET e == iso'[q][sup.maps.known[q]] IN
                 e.is \in {"idle", "busy", "gone"} /\ e.told # "killed" /\ ~e.orphan
      <3>1. /\ sup.maps.known[q] \in Isolates
            /\ LET e == iso[q][sup.maps.known[q]] IN
               e.is \in {"idle", "busy", "gone"} /\ e.told # "killed" /\ ~e.orphan
        BY <2>2 DEF TypeOK, Maps, SoundInv, Sound
      <3>2. iso'[q][sup.maps.known[q]] = iso[q][sup.maps.known[q]]
        <4>1. ~(q = r /\ sup.maps.known[q] = i)
          BY <1>1, <3>1
        <4>. QED  BY <1>3, <3>1, <4>1
      <3>. QED  BY <3>1, <3>2
    <2>. QED  BY <1>2, <2>1, <2>2 DEF SoundInv, Sound
  <1>7. RestInv => RestInv'
    BY <1>1, <1>2 DEF RestInv, NoneSpawning
  <1>8. ASSUME Single(sup.maps, iso) PROVE Single(sup.maps, iso)'
    <2>1. /\ sup.maps.known[r] = 0
          /\ \A j \in Isolates : iso[r][j].is = "spawning" => j = i
      BY <1>1, <1>8 DEF Single, SingleOf
    <2>. SUFFICES ASSUME NEW q \in Roles PROVE SingleOf(sup.maps, iso, q)'
      BY DEF Single
    <2>2. SingleOf(sup.maps, iso, q)
      BY <1>8 DEF Single
    <2>3. CASE q = r
      BY <1>2, <1>3, <1>4, <2>1, <2>2, <2>3 DEF SingleOf
    <2>4. CASE q # r
      <3>1. /\ sup'.maps.known[q] = sup.maps.known[q]
            /\ sup'.maps.alive[q] <=> sup.maps.alive[q]
            /\ \A j \in Isolates : iso'[q][j] = iso[q][j]
        BY <1>2, <1>3, <2>4
      <3>. QED  BY <2>2, <3>1 DEF SingleOf
    <2>. QED  BY <2>3, <2>4
  <1>. QED  BY <1>1, <1>5, <1>6, <1>7, <1>8 DEF SupervisorInv, ChildrenInv

LEMMA ExitedStep ==
    ASSUME TypeOK, SoundInv, NEW r \in Roles, NEW i \in Isolates, Exited(r, i)
    PROVE  TypeOK' /\ SoundInv' /\ (SupervisorInv => SupervisorInv')
  <1>1. /\ iso[r][i].is = "gone" /\ iso' = [iso EXCEPT ![r][i] = NoIsolate]
        /\ UNCHANGED <<user, faults, mishaps>> /\ i # 0
    BY DEF Exited, Isolates
  <1>2. /\ iso' \in [Roles -> [Isolates -> Slot]]
        /\ \A q \in Roles, j \in Isolates :
              iso'[q][j] = IF q = r /\ j = i THEN NoIsolate ELSE iso[q][j]
    BY <1>1, SlotIs, OneIsolate
  <1>3. /\ \A q \in Roles : Fit(q, NoIsolate)
        /\ ~Obeys(NoIsolate) /\ NoIsolate.is # "spawning"
    BY SlotIs DEF Fit, Obeys
  <1>4. timers' \in [Roles -> SUBSET Delegate]
    <2>1. iso[r][i].delegate \in Delegate
      BY <1>1, SlotIs DEF TypeOK
    <2>2. \/ timers' = timers
          \/ timers' = [timers EXCEPT ![r] = @ \cup {iso[r][i].delegate}]
      BY DEF Exited
    <2>. QED  BY <2>1, <2>2 DEF TypeOK
  <1>5. /\ sup' \in [state : {"running", "draining", "paused", "dead"}, maps : Maps]
        /\ sup'.state = sup.state /\ sup'.maps.entry = sup.maps.entry
        /\ \A q \in Roles :
              IF q = r /\ sup.maps.known[r] = i
              THEN sup'.maps.known[q] = 0 /\ ~sup'.maps.alive[q]
              ELSE /\ sup'.maps.known[q] = sup.maps.known[q]
                   /\ sup'.maps.alive[q] = sup.maps.alive[q]
    <2>1. CASE sup.maps.known[r] = i
      <3>1. sup' = [sup EXCEPT !.maps.known[r] = 0, !.maps.alive[r] = FALSE]
        BY <2>1 DEF Exited, Unexpected
      <3>. QED  BY <2>1, <3>1 DEF TypeOK, Maps
    <2>2. CASE sup.maps.known[r] # i
      <3>1. sup' = sup
        BY <2>2 DEF Exited, Unexpected
      <3>. QED  BY <2>2, <3>1 DEF TypeOK
    <2>. QED  BY <2>1, <2>2
  <1>6. TypeOK'
    BY <1>1, <1>2, <1>4, <1>5 DEF TypeOK, user
  <1>7. SoundInv'
    <2>1. \A q \in Roles, j \in Isolates : Fit(q, iso'[q][j])
      BY <1>2, <1>3 DEF SoundInv, Sound
    <2>2. ASSUME NEW q \in Roles, sup'.maps.known[q] # 0
          PROVE  LET e == iso'[q][sup'.maps.known[q]] IN
                 e.is \in {"idle", "busy", "gone"} /\ e.told # "killed" /\ ~e.orphan
      <3>1. /\ sup'.maps.known[q] = sup.maps.known[q] /\ sup.maps.known[q] \in Isolates
            /\ ~(q = r /\ sup.maps.known[q] = i)
        BY <1>5, <2>2 DEF TypeOK, Maps
      <3>2. iso'[q][sup'.maps.known[q]] = iso[q][sup.maps.known[q]]
        BY <1>2, <3>1
      <3>. QED  BY <2>2, <3>1, <3>2 DEF SoundInv, Sound
    <2>. QED  BY <2>1, <2>2 DEF SoundInv, Sound
  <1>8. RestInv => RestInv'
    BY <1>1, <1>2, <1>3, <1>5 DEF RestInv, Idling, NoneSpawning
  <1>9. ASSUME Single(sup.maps, iso) PROVE Single(sup.maps, iso)'
    <2>. SUFFICES ASSUME NEW q \in Roles PROVE SingleOf(sup.maps, iso, q)'
      BY DEF Single
    <2>1. CASE q = r /\ sup.maps.known[r] = i
      <3>1. \A j \in Isolates : /\ iso[r][j].is # "spawning"
                                /\ j # i => ~Obeys(iso[r][j])
        BY <1>1, <1>9, <2>1 DEF Single, SingleOf
      <3>. QED  BY <1>2, <1>3, <1>5, <2>1, <3>1 DEF SingleOf
    <2>2. CASE ~(q = r /\ sup.maps.known[r] = i)
      <3>1. sup'.maps.known[q] = sup.maps.known[q] /\ sup'.maps.alive[q] = sup.maps.alive[q]
        BY <1>5, <2>2
      <3>. QED  BY <1>2, <1>3, <1>9, <3>1 DEF Single, SingleOf
    <2>. QED  BY <2>1, <2>2
  <1>. QED  BY <1>1, <1>6, <1>7, <1>8, <1>9 DEF SupervisorInv, ChildrenInv

LEMMA InitIs == Init => TypeOK /\ SoundInv /\ SupervisorInv
  <1>. SUFFICES ASSUME Init PROVE TypeOK /\ SoundInv /\ SupervisorInv
    OBVIOUS
  <1>1. /\ sup.state = "running" /\ sup.maps = NoMaps /\ conf = 1
        /\ sup \in [state : {"running", "draining", "paused", "dead"}, maps : Maps]
    BY NoMapsIs DEF Init, Supervising
  <1>2. /\ iso \in [Roles -> [Isolates -> Slot]]
        /\ \A r \in Roles, i \in Isolates : iso[r][i] = NoIsolate
    BY SlotIs DEF Init
  <1>3. /\ \A r \in Roles : Fit(r, NoIsolate)
        /\ ~Obeys(NoIsolate) /\ NoIsolate.is # "spawning"
    BY SlotIs DEF Fit, Obeys
  <1>4. TypeOK
    BY <1>1, <1>2 DEF Init, TypeOK
  <1>5. SoundInv
    BY <1>1, <1>2, <1>3, NoMapsIs DEF SoundInv, Sound
  <1>6. Single(sup.maps, iso)
    BY <1>1, <1>2, <1>3, NoMapsIs DEF Single, SingleOf
  <1>. QED  BY <1>1, <1>4, <1>5, <1>6 DEF SupervisorInv, RestInv, ChildrenInv

LEMMA StepKeeps ==
    ASSUME TypeOK, SoundInv, [Next]_vars
    PROVE  TypeOK' /\ SoundInv' /\ (SupervisorInv => SupervisorInv')
  <1>1. CASE Authorize \/ DeleteAccount \/ Revoke
    BY <1>1, UserSteps
  <1>2. CASE Scan \/ Rescan \/ Resume \/ Restart
    BY <1>2, ScanSteps
  <1>3. CASE Pause
    BY <1>3, PauseStep
  <1>4. CASE Paused
    BY <1>4, PausedStep
  <1>5. CASE SupervisorDies
    BY <1>5, SupervisorDiesStep
  <1>6. ASSUME NEW r \in Roles, Respawn(r) \/ Healthcheck(r)
        PROVE  TypeOK' /\ SoundInv' /\ (SupervisorInv => SupervisorInv')
    BY <1>6, RespawnStep, HealthcheckStep
  <1>7. ASSUME NEW r \in Roles, NEW i \in Isolates,
               Spawned(r, i) \/ SpawnFails(r, i) \/ Exited(r, i)
        PROVE  TypeOK' /\ SoundInv' /\ (SupervisorInv => SupervisorInv')
    BY <1>7, SpawnedStep, SpawnFailsStep, ExitedStep
  <1>8. ASSUME NEW r \in Roles, NEW i \in Isolates,
               \/ Dies(r, i) \/ Leaves(r, i) \/ OrphanExits(r, i)
               \/ Begin(r, i) \/ End(r, i)
        PROVE  TypeOK' /\ SoundInv' /\ (SupervisorInv => SupervisorInv')
    BY <1>8, ChildSteps
  <1>9. CASE Tick
    BY <1>9, TickStep
  <1>10. CASE UNCHANGED vars
    BY <1>10 DEF vars, TypeOK, SoundInv, SupervisorInv, RestInv, ChildrenInv, Idling
  <1>. QED
    BY <1>1, <1>2, <1>3, <1>4, <1>5, <1>6, <1>7, <1>8, <1>9, <1>10 DEF Next
-----------------------------------------------------------------------------
(* The theorems *)

\* The maps, the isolates and what is scheduled keep their shapes through every
\* scan, restart, pause and death.
THEOREM TypeCorrect == Spec => []TypeOK
  <1>1. Init => TypeOK /\ SoundInv
    BY InitIs
  <1>2. TypeOK /\ SoundInv /\ [Next]_vars => TypeOK' /\ SoundInv'
    BY StepKeeps
  <1>. QED  BY <1>1, <1>2, PTL DEF Spec

\* The supervisor's maps never name an isolate that is not there, is still being
\* spawned, was killed or belongs to a supervisor that died (stopChild, onExit).
THEOREM MapsSound == Spec => []SoundInv
  <1>1. Init => TypeOK /\ SoundInv
    BY InitIs
  <1>2. TypeOK /\ SoundInv /\ [Next]_vars => TypeOK' /\ SoundInv'
    BY StepKeeps
  <1>. QED  BY <1>1, <1>2, PTL DEF Spec

\* The token a mail is posted with was good for more than a margin when the call
\* began, and a call takes no more (refresh_graph_token).
THEOREM SendsFresh == Spec => []SendFresh
  <1>1. TypeOK /\ SoundInv => SendFresh
    <2>. SUFFICES ASSUME TypeOK, SoundInv, NEW r \in Roles, r = "SendTask",
                         NEW i \in Isolates, iso[r][i].is = "busy"
                  PROVE  iso[r][i].delegate.graph > 0
      BY DEF SendFresh
    <2>1. iso[r][i].delegate.graph \in Nat
      BY SlotIs DEF TypeOK, Delegate
    <2>2. iso[r][i].delegate.graph > IF iso[r][i].late THEN 0 ELSE 1
      BY DEF SoundInv, Sound, Fit
    <2>. QED  BY <2>1, <2>2
  <1>. QED  BY <1>1, TypeCorrect, MapsSound, PTL

\* Until a scan stops a child that is being spawned, the maps name whatever goes
\* on, and nothing is spawned beside it; and while the supervisor is paused or
\* gone nothing is spawned at all (startChild, stopChild, onExit).
THEOREM MapsComplete == Spec => []SupervisorInv
  <1>1. Init => SupervisorInv
    BY InitIs
  <1>2. TypeOK /\ SoundInv /\ SupervisorInv /\ [Next]_vars => SupervisorInv'
    BY StepKeeps
  <1>. QED  BY <1>1, <1>2, TypeCorrect, MapsSound, PTL DEF Spec

LEMMA WhoObeys == \A r \in Roles : Obeying(r) = {i \in Isolates : Obeys(iso[r][i])}
  BY DEF Obeying, Working, Obeys

\* A role has at most one child that goes on, whichever children end, wedge, are
\* killed or left behind, and whatever the user authorizes, until a scan stops a
\* child that is being spawned.
THEOREM OneChildARole == Spec => []OneChild
  <1>1. SupervisorInv => OneChild
    <2>. SUFFICES ASSUME Single(sup.maps, iso), NEW r \in Roles
                  PROVE  Cardinality(Obeying(r)) <= 1
      BY DEF OneChild, SupervisorInv, ChildrenInv
    <2>1. Obeying(r) \subseteq {sup.maps.known[r]}
      BY WhoObeys DEF Single, SingleOf
    <2>2. Obeying(r) = {} \/ Obeying(r) = {sup.maps.known[r]}
      BY <2>1
    <2>3. Cardinality(Obeying(r)) \in {0, 1}
      <3>1. CASE Obeying(r) = {}
        BY <3>1, FS_EmptySet
      <3>2. CASE Obeying(r) = {sup.maps.known[r]}
        BY <3>2, FS_Singleton
      <3>. QED  BY <2>2, <3>1, <3>2
    <2>. QED  BY <2>3
  <1>. QED  BY <1>1, MapsComplete, PTL

\* And while the supervisor is paused no child goes on.
THEOREM PausedQuiet == Spec => []PausedIsQuiet
  <1>1. SupervisorInv => PausedIsQuiet
    <2>. SUFFICES ASSUME Idling, Single(sup.maps, iso), NEW r \in Roles
                  PROVE  Obeying(r) = {}
      BY DEF PausedIsQuiet, SupervisorInv, RestInv, ChildrenInv
    <2>1. \A i \in Isolates : Obeys(iso[r][i]) => i = 0
      BY DEF Single, Idling, SingleOf
    <2>2. 0 \notin Isolates
      BY DEF Isolates
    <2>. QED  BY <2>1, <2>2, WhoObeys
  <1>. QED  BY <1>1, MapsComplete, PTL
=============================================================================
