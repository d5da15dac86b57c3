------------------------ MODULE FileTransfer_proofs ------------------------
(***************************************************************************)
(* Theorems about the transfer of files: for any number of files and       *)
(* chunks, and all faults of the model together.                           *)
(***************************************************************************)
EXTENDS FileTransfer, FiniteSetTheorems, TLAPS

\* Either side has a database of its own.
Apart == "one" \notin scenario

Metas == [kind : {"meta"}, files : Seq(Files) \ {<<>>}, of : [Files -> Nat]]
Trucks == [kind : {"truck"}, f : Files, i : Chunks, v : Nat]
Messages == Metas \cup Trucks
Tasks == Messages \cup [kind : {"envelope"}, plaintext : Messages]
Checks == [kind : {"check"}, f : Files]
Rows == [in : BOOLEAN, md5 : Nat, sent : Nat, status : Nat]
Splits ==
    [at : {"idle", "prepare", "chunks"}, files : Seq(Files), done : Nat,
     of : [Files -> Nat], zipped : BOOLEAN]

\* The shapes of the tables, the tasks and the mail.
TypeOK ==
    /\ source \in [Files -> Nat]
    /\ split \in Splits /\ (split.at # "idle" => split.files # <<>>)
    /\ queue \in Seq(Tasks)
    /\ marking \in {0} \cup Files
    /\ out \in SUBSET (Files \X Chunks)
    /\ inbox \in Seq(Messages)
    /\ reading \in {<<>>} \cup {<<m>> : m \in Messages \cup Checks}
    /\ row \in [Sides -> [Files -> Rows]]
    /\ chunk \in [Files -> [Chunks -> [in : BOOLEAN, v : Nat]]]

\* What is on its way: in the outbox, in the inbox, being read.
OnItsWay ==
    {Plain(queue[k]) : k \in DOMAIN queue} \cup {inbox[k] : k \in DOMAIN inbox}
        \cup {reading[k] : k \in DOMAIN reading}

TruckOf(m, f, i) == m.kind = "truck" /\ m.f = f /\ m.i = i

\* Nothing of chunk i of file f was ever queued.
Unseen(f, i) ==
    /\ \A m \in OnItsWay : ~TruckOf(m, f, i)
    /\ <<f, i>> \notin out
    /\ ~chunk[f][i].in

\* Where the sender is: file split.files[AtFile], chunk AtChunk.
AtFile == (split.done \div Total) + 1
AtChunk == (split.done % Total) + 1

Registered(k) ==
    LET f == split.files[k]
    IN  row["sender"][f].in /\ row["sender"][f].md5 = split.of[f]

\* A split registers files that were not, each once, and then queues chunks.
SplitInv ==
    /\ split.at # "idle" =>
          \A j, k \in DOMAIN split.files : split.files[j] = split.files[k] => j = k
    /\ split.at = "prepare" =>
          \A k \in DOMAIN split.files :
              IF k <= split.done THEN Registered(k)
                                 ELSE ~row["sender"][split.files[k]].in
    /\ split.at = "chunks" => \A k \in DOMAIN split.files : Registered(k)

\* No chunk is queued before its file is registered, and none before the split
\* has come to it.
UnseenInv ==
    /\ \A f \in Files : ~row["sender"][f].in => \A i \in Chunks : Unseen(f, i)
    /\ split.at = "prepare" =>
          \A k \in DOMAIN split.files : \A i \in Chunks : Unseen(split.files[k], i)
    /\ split.at = "chunks" =>
          \A k \in DOMAIN split.files : \A i \in Chunks :
              k > AtFile \/ (k = AtFile /\ i >= AtChunk) => Unseen(split.files[k], i)

\* So each is in the outbox once at most,
QueuedOnce ==
    \A j, k \in DOMAIN queue : \A f \in Files : \A i \in Chunks :
        TruckOf(Plain(queue[j]), f, i) /\ TruckOf(Plain(queue[k]), f, i) => j = k

\* all copies of it are the same, and a description says what was registered.
CopyInv ==
    /\ \A m, n \in OnItsWay :
          m.kind = "truck" /\ n.kind = "truck" /\ m.f = n.f /\ m.i = n.i => m.v = n.v
    /\ \A m \in OnItsWay :
          m.kind = "truck" /\ chunk[m.f][m.i].in => chunk[m.f][m.i].v = m.v
    /\ \A m \in OnItsWay : m.kind = "meta" =>
          \A k \in DOMAIN m.files :
              /\ row["sender"][m.files[k]].in
              /\ row["sender"][m.files[k]].md5 = m.of[m.files[k]]
    /\ \A m \in OnItsWay : m.kind = "check" => row["receiver"][m.f].in

ReceivedInv ==
    \A f \in Files :
        LET r == row["receiver"][f]
        IN  /\ r.in => row["sender"][f].in /\ r.md5 = row["sender"][f].md5
            /\ r.status = 1 =>
                  r.in /\ \A i \in Chunks : chunk[f][i].in /\ chunk[f][i].v = r.md5

\* The chunks that are out and not in the outbox any more.
Gone(f) ==
    {i \in Chunks : /\ <<f, i>> \in out
                    /\ \A k \in DOMAIN queue : ~TruckOf(Plain(queue[k]), f, i)}

\* No more chunks are counted as sent.
SentInv ==
    \A f \in Files :
        LET r == row["sender"][f]
        IN  /\ r.sent + (IF marking = f THEN 1 ELSE 0) <= Cardinality(Gone(f))
            /\ r.status = 1 => r.sent >= Total

Consistent ==
    SplitInv /\ UnseenInv /\ QueuedOnce /\ CopyInv /\ ReceivedInv /\ SentInv

TransferInv == Apart => Consistent
-----------------------------------------------------------------------------
(* Sequences and sets *)

LEMMA ChunksAre ==
    /\ Files \subseteq Nat \ {0} /\ Chunks \subseteq Nat \ {0}
    /\ IsFiniteSet(Chunks) /\ Cardinality(Chunks) = Total
    /\ 1 \in Chunks /\ Total \in Chunks
  BY TotalAssumption, BoundsAssumption, FS_Interval DEF Files, Chunks

LEMMA DivMod ==
    ASSUME NEW d \in Nat, NEW n \in Nat \ {0}
    PROVE  /\ d \div n \in Nat /\ d % n \in 0 .. n - 1
           /\ 0 \div n = 0 /\ 0 % n = 0
           /\ (d % n) + 1 < n => (d + 1) \div n = d \div n /\ (d + 1) % n = (d % n) + 1
           /\ (d % n) + 1 = n => (d + 1) \div n = (d \div n) + 1 /\ (d + 1) % n = 0
           /\ \A m \in Nat : d < n * m => d \div n < m
  OBVIOUS

LEMMA PlainIs ==
    /\ \A t \in Tasks : Plain(t) \in Messages
    /\ \A m \in Messages : AsTask(m) \in Tasks /\ Plain(AsTask(m)) = m
  BY DEF Plain, AsTask, Envelope, Tasks, Messages, Metas, Trucks

LEMMA SomeReading ==
    ASSUME TypeOK, reading # <<>>
    PROVE  /\ reading = <<Mail>> /\ Mail \in Messages \cup Checks /\ Mail \in OnItsWay
           /\ Mail.kind = "meta" => Mail \in Metas
           /\ Mail.kind = "truck" => Mail \in Trucks
           /\ Mail.kind = "check" => Mail \in Checks
  <1>1. PICK m \in Messages \cup Checks : reading = <<m>>
    BY DEF TypeOK
  <1>2. Mail = m /\ 1 \in DOMAIN reading
    BY <1>1 DEF Mail
  <1>3. Mail \in OnItsWay
    BY <1>2 DEF OnItsWay, Mail
  <1>. QED  BY <1>1, <1>2, <1>3 DEF Messages, Metas, Trucks, Checks

LEMMA ConcatIs ==
    ASSUME NEW S, NEW s \in Seq(S), NEW t \in Seq(S)
    PROVE  /\ s \o t \in Seq(S) /\ Len(s \o t) = Len(s) + Len(t)
           /\ \A k \in 1 .. Len(s) + Len(t) :
                 (s \o t)[k] = IF k <= Len(s) THEN s[k] ELSE t[k - Len(s)]
  OBVIOUS

\* Each entry of the postponed queue is an entry of the queue, and each once.
LEMMA PostponedIs ==
    ASSUME NEW S, queue \in Seq(S), queue # <<>>, NEW b \in 0 .. Len(queue) - 1
    PROVE  LET p == Postponed(b)
               From(k) == IF k <= b THEN k + 1 ELSE IF k = b + 1 THEN 1 ELSE k
           IN  /\ p \in Seq(S) /\ Len(p) = Len(queue)
               /\ \A k \in 1 .. Len(queue) : p[k] = queue[From(k)]
  <1>. DEFINE t == Tail(queue)
              l == SubSeq(t, 1, b)
              r == SubSeq(t, b + 1, Len(t))
  <1>1. /\ t \in Seq(S) /\ Len(t) = Len(queue) - 1 /\ Len(queue) \in Nat \ {0}
        /\ \A k \in 1 .. Len(t) : t[k] = queue[k + 1]
        /\ Head(queue) = queue[1] /\ Head(queue) \in S
    OBVIOUS
  <1>. HIDE DEF t
  <1>2. /\ l \in Seq(S) /\ Len(l) = b /\ \A k \in 1 .. b : l[k] = t[k]
    BY <1>1
  <1>3. /\ r \in Seq(S) /\ Len(r) = Len(t) - b /\ \A k \in 1 .. Len(t) - b : r[k] = t[b + k]
    BY <1>1
  <1>4. Postponed(b) = l \o <<Head(queue)>> \o r
    <2>1. (b + 1) - 1 = b
      OBVIOUS
    <2>2. Postponed(b) = SubSeq(t, 1, (b + 1) - 1) \o <<Head(queue)>> \o r
      BY DEF Postponed, InsertAt, t
    <2>. QED  BY <2>1, <2>2
  <1>. HIDE DEF l, r
  <1>5. /\ l \o <<Head(queue)>> \in Seq(S) /\ Len(l \o <<Head(queue)>>) = b + 1
        /\ \A k \in 1 .. b + 1 :
              (l \o <<Head(queue)>>)[k] = IF k <= b THEN l[k] ELSE Head(queue)
    BY <1>1, <1>2
  <1>. DEFINE h == l \o <<Head(queue)>>
  <1>. HIDE DEF h
  <1>6. /\ h \o r \in Seq(S) /\ Len(h \o r) = Len(queue)
        /\ \A k \in 1 .. Len(queue) : (h \o r)[k] = IF k <= b + 1 THEN h[k] ELSE r[k - (b + 1)]
    <2>1. h \in Seq(S) /\ Len(h) = b + 1 /\ r \in Seq(S)
      BY <1>3, <1>5 DEF h
    <2>2. /\ h \o r \in Seq(S) /\ Len(h \o r) = Len(h) + Len(r)
          /\ \A k \in 1 .. Len(h) + Len(r) :
                (h \o r)[k] = IF k <= Len(h) THEN h[k] ELSE r[k - Len(h)]
      BY ONLY <2>1, ConcatIs
    <2>3. Len(h) + Len(r) = Len(queue)
      BY <1>1, <1>3, <2>1
    <2>. QED  BY ONLY <2>1, <2>2, <2>3
  <1>7. \A k \in 1 .. Len(queue) :
           (h \o r)[k] = queue[IF k <= b THEN k + 1 ELSE IF k = b + 1 THEN 1 ELSE k]
    <2>. SUFFICES ASSUME NEW k \in 1 .. Len(queue)
                  PROVE  (h \o r)[k]
                            = queue[IF k <= b THEN k + 1 ELSE IF k = b + 1 THEN 1 ELSE k]
      OBVIOUS
    <2>1. CASE k <= b
      <3>1. (h \o r)[k] = h[k] /\ h[k] = l[k] /\ l[k] = t[k] /\ t[k] = queue[k + 1]
        BY <1>1, <1>2, <1>5, <1>6, <2>1 DEF h
      <3>. QED  BY <2>1, <3>1
    <2>2. CASE k = b + 1
      <3>1. (h \o r)[k] = h[k] /\ h[k] = Head(queue)
        BY <1>5, <1>6, <2>2 DEF h
      <3>. QED  BY <1>1, <2>2, <3>1
    <2>3. CASE k > b + 1
      <3>. DEFINE j == k - (b + 1)
      <3>1. j \in 1 .. Len(t) - b /\ b + j \in 1 .. Len(t) /\ (b + j) + 1 = k
        BY <1>1, <2>3
      <3>2. (h \o r)[k] = r[j]
        BY <1>6, <2>3
      <3>. HIDE DEF j
      <3>3. r[j] = t[b + j] /\ t[b + j] = queue[(b + j) + 1]
        BY <1>1, <1>3, <3>1
      <3>. QED  BY <2>3, <3>1, <3>2, <3>3
    <2>4. k <= b \/ k = b + 1 \/ k > b + 1
      BY <1>1
    <2>. QED  BY <2>1, <2>2, <2>3, <2>4
  <1>. QED  BY <1>4, <1>6, <1>7 DEF h

LEMMA TailIs ==
    ASSUME NEW S, NEW s \in Seq(S), s # <<>>, Len(s) # 1
    PROVE  /\ Tail(s) \in Seq(S) \ {<<>>}
           /\ \A j \in DOMAIN Tail(s) : j + 1 \in DOMAIN s /\ Tail(s)[j] = s[j + 1]
  <1>1. Len(s) \in Nat /\ Len(s) # 0 /\ DOMAIN s = 1 .. Len(s)
    OBVIOUS
  <1>2. Tail(s) \in Seq(S) /\ Len(Tail(s)) = Len(s) - 1
    BY <1>1
  <1>3. \A t \in Seq(S) : DOMAIN t = 1 .. Len(t) /\ (t = <<>> => Len(t) = 0)
    OBVIOUS
  <1>4. Len(s) - 1 # 0
    BY <1>1
  <1>5. Tail(s) # <<>> /\ DOMAIN Tail(s) = 1 .. Len(s) - 1
    BY <1>2, <1>3, <1>4
  <1>6. \A j \in 1 .. Len(s) - 1 : j + 1 \in 1 .. Len(s) /\ Tail(s)[j] = s[j + 1]
    BY <1>1
  <1>. QED  BY <1>1, <1>2, <1>5, <1>6

LEMMA RemovedIs ==
    ASSUME NEW S, NEW s \in Seq(S), NEW i \in DOMAIN s
    PROVE  /\ RemoveAt(s, i) \in Seq(S)
           /\ \A k \in DOMAIN RemoveAt(s, i) : \E j \in DOMAIN s : RemoveAt(s, i)[k] = s[j]
  <1>. DEFINE l == SubSeq(s, 1, i - 1)
              r == SubSeq(s, i + 1, Len(s))
  <1>1. i \in 1 .. Len(s) /\ Len(s) \in Nat
    OBVIOUS
  <1>2. l \in Seq(S) /\ Len(l) = i - 1 /\ \A k \in 1 .. i - 1 : l[k] = s[k]
    BY <1>1
  <1>3. /\ r \in Seq(S) /\ Len(r) = Len(s) - i
        /\ \A k \in 1 .. Len(s) - i : r[k] = s[i + k]
    BY <1>1
  <1>4. RemoveAt(s, i) = l \o r
    BY DEF RemoveAt
  <1>. HIDE DEF l, r
  <1>5. /\ l \o r \in Seq(S) /\ Len(l \o r) = Len(s) - 1
        /\ \A k \in 1 .. Len(s) - 1 :
              (l \o r)[k] = IF k <= i - 1 THEN l[k] ELSE r[k - (i - 1)]
    <2>1. l \in Seq(S) /\ r \in Seq(S) /\ Len(l) = i - 1
      BY <1>2, <1>3
    <2>2. /\ l \o r \in Seq(S) /\ Len(l \o r) = Len(l) + Len(r)
          /\ \A k \in 1 .. Len(l) + Len(r) :
                (l \o r)[k] = IF k <= Len(l) THEN l[k] ELSE r[k - Len(l)]
      BY ONLY <2>1, ConcatIs
    <2>3. Len(l) + Len(r) = Len(s) - 1
      BY <1>1, <1>2, <1>3
    <2>. QED  BY ONLY <2>1, <2>2, <2>3
  <1>6. \A k \in 1 .. Len(s) - 1 : \E j \in 1 .. Len(s) : (l \o r)[k] = s[j]
    <2>. SUFFICES ASSUME NEW k \in 1 .. Len(s) - 1
                  PROVE  \E j \in 1 .. Len(s) : (l \o r)[k] = s[j]
      OBVIOUS
    <2>1. CASE k <= i - 1
      BY <1>1, <1>2, <1>5, <2>1
    <2>2. CASE k > i - 1
      <3>. DEFINE j == k - (i - 1)
      <3>1. j \in 1 .. Len(s) - i /\ i + j \in 1 .. Len(s)
        BY <1>1, <2>2
      <3>2. (l \o r)[k] = r[j]
        BY <1>1, <1>5, <2>2
      <3>. HIDE DEF j
      <3>. QED  BY <1>3, <3>1, <3>2
    <2>3. k <= i - 1 \/ k > i - 1
      BY <1>1
    <2>. QED  BY <2>1, <2>2, <2>3
  <1>7. DOMAIN (l \o r) = 1 .. Len(s) - 1 /\ DOMAIN s = 1 .. Len(s)
    BY <1>1, <1>5
  <1>. HIDE DEF l, r
  <1>8. RemoveAt(s, i) \in Seq(S)
    BY <1>4, <1>5
  <1>9. \A k \in DOMAIN RemoveAt(s, i) : \E j \in DOMAIN s : RemoveAt(s, i)[k] = s[j]
    BY <1>4, <1>6, <1>7
  <1>. QED  BY <1>8, <1>9
-----------------------------------------------------------------------------
(* Shapes *)

LEMMA SetRowIs ==
    ASSUME TypeOK, NEW side \in Sides, NEW f \in Files, NEW r \in Rows, SetRow(side, f, r)
    PROVE  /\ row' \in [Sides -> [Files -> Rows]]
           /\ Apart => \A s \in Sides, g \in Files :
                          row'[s][g] = IF s = side /\ g = f THEN r ELSE row[s][g]
  <1>1. Table(side) \in Sides /\ (Apart => Table(side) = side)
    BY DEF Table, Sides, Apart
  <1>. QED  BY <1>1 DEF SetRow, TypeOK

LEMMA RowIs ==
    ASSUME TypeOK, NEW side \in Sides, NEW f \in Files
    PROVE  /\ Row(side, f) \in Rows
           /\ Apart => Row(side, f) = row[side][f]
  BY DEF Row, Table, Sides, Apart, TypeOK

LEMMA NewRowType == \A v \in Nat : NewRow(v) \in Rows
  BY DEF NewRow, Rows

LEMMA MarkedType == \A r \in Rows : Marked(r) \in Rows
  <1>. SUFFICES ASSUME NEW r \in Rows PROVE Marked(r) \in Rows
    OBVIOUS
  <1>. DEFINE n == r.sent + 1
              st == IF r.sent + 1 >= Total THEN 1 ELSE r.status
  <1>1. n \in Nat /\ st \in Nat
    BY DEF Rows
  <1>2. Marked(r) = [r EXCEPT !.sent = n, !.status = st]
    BY DEF Marked
  <1>. HIDE DEF n, st
  <1>. QED  BY <1>1, <1>2 DEF Rows

LEMMA CheckedType == \A f \in Files : \A r \in Rows : Checked(r, f) \in Rows
  BY DEF Checked, Rows

LEMMA NoSplitIs ==
    NoSplit \in Splits /\ NoSplit.at = "idle"
  BY DEF NoSplit, Splits

LEMMA InitType == Init => TypeOK
  <1>. SUFFICES ASSUME Init PROVE TypeOK
    OBVIOUS
  <1>1. source \in [Files -> Nat] /\ split \in Splits /\ split.at = "idle"
    BY NoSplitIs DEF Init
  <1>2. /\ queue \in Seq(Tasks) /\ inbox \in Seq(Messages) /\ out = {} /\ marking = 0
        /\ reading = <<>>
    BY DEF Init
  <1>3. row \in [Sides -> [Files -> Rows]]
    BY DEF Init, Rows
  <1>4. chunk \in [Files -> [Chunks -> [in : BOOLEAN, v : Nat]]]
    BY DEF Init
  <1>. QED  BY <1>1, <1>2, <1>3, <1>4 DEF TypeOK

\* What the steps of a split do to it.
LEMMA BeginSplitIs ==
    ASSUME TypeOK, BeginSplit
    PROVE  /\ split' \in Splits /\ split'.at = "prepare" /\ split'.files # <<>>
           /\ split'.done = 0
           /\ \A k \in DOMAIN split'.files : ~row["sender"][split'.files[k]].in
           /\ \A j, k \in DOMAIN split'.files :
                 split'.files[j] = split'.files[k] => j = k
  <1>1. PICK first, last \in Files, zipped \in BOOLEAN :
           /\ \A f \in Files : row["sender"][f].in <=> f < first
           /\ first <= last
           /\ split' = [NoSplit EXCEPT !.at = "prepare", !.zipped = zipped,
                                       !.files = [k \in 1 .. last - first + 1 |-> first + k - 1]]
    BY DEF BeginSplit
  <1>. DEFINE n == last - first + 1
              fs == [k \in 1 .. last - first + 1 |-> first + k - 1]
  <1>2. first \in Nat \ {0} /\ last \in Nat \ {0} /\ last <= MaxFiles /\ n \in Nat \ {0}
    BY <1>1, BoundsAssumption DEF Files
  <1>3. \A k \in 1 .. n : first + k - 1 \in Files
    BY <1>2, BoundsAssumption DEF Files
  <1>4. fs \in Seq(Files) /\ DOMAIN fs = 1 .. n /\ \A k \in 1 .. n : fs[k] = first + k - 1
    BY <1>2, <1>3
  <1>5. fs # <<>>
    BY <1>2, <1>4
  <1>. HIDE DEF n, fs
  <1>6. split' = [at |-> "prepare", files |-> fs, done |-> 0, of |-> [f \in Files |-> 0],
                  zipped |-> zipped]
    BY <1>1 DEF NoSplit, fs
  <1>7. split' \in Splits
    BY <1>4, <1>6 DEF Splits
  <1>8. \A k \in 1 .. n : ~row["sender"][fs[k]].in
    <2>. SUFFICES ASSUME NEW k \in 1 .. n PROVE ~row["sender"][fs[k]].in
      OBVIOUS
    <2>1. fs[k] \in Files /\ ~(fs[k] < first)
      BY <1>2, <1>3, <1>4 DEF n
    <2>. QED  BY <1>1, <2>1
  <1>9. \A j, k \in 1 .. n : fs[j] = fs[k] => j = k
    BY <1>2, <1>4
  <1>. QED  BY <1>4, <1>5, <1>6, <1>7, <1>8, <1>9

LEMMA PrepareIs ==
    ASSUME TypeOK, Prepare
    PROVE  LET k == split.done + 1
               f == split.files[k]
           IN  /\ k \in DOMAIN split.files /\ f \in Files
               /\ split.at = "prepare" /\ split'.at = "prepare"
               /\ split' \in Splits /\ split'.files = split.files
               /\ split'.done = k
               /\ split'.of[f] = source[f]
               /\ \A g \in Files \ {f} : split'.of[g] = split.of[g]
               /\ SetRow("sender", f, NewRow(source[f]))
  <1>. DEFINE k == split.done + 1
              f == split.files[k]
              of == [split.of EXCEPT ![f] = source[f]]
  <1>1. split \in Splits /\ source \in [Files -> Nat]
    BY DEF TypeOK
  <1>2. k \in DOMAIN split.files
    BY <1>1 DEF Prepare, Splits
  <1>3. f \in Files /\ source[f] \in Nat
    BY <1>1, <1>2 DEF Splits
  <1>4. split.at = "prepare" /\ SetRow("sender", f, NewRow(source[f]))
    BY DEF Prepare
  <1>5. split' = [split EXCEPT !.done = k, !.of = of]
    BY <1>1 DEF Prepare, Splits
  <1>6. of \in [Files -> Nat] /\ of[f] = source[f] /\ \A g \in Files \ {f} : of[g] = split.of[g]
    BY <1>1, <1>3 DEF Splits
  <1>7. k \in Nat
    BY <1>1 DEF Splits
  <1>. HIDE DEF k, of
  <1>8. /\ split' \in Splits /\ split'.at = split.at /\ split'.files = split.files
        /\ split'.done = k /\ split'.of = of
    BY <1>1, <1>5, <1>6, <1>7 DEF Splits
  <1>. QED  BY <1>2, <1>3, <1>4, <1>6, <1>8 DEF k

LEMMA SplittingIs ==
    ASSUME TypeOK
    PROVE  /\ Splitting \in Splits /\ Splitting.at = "chunks"
           /\ Splitting.files = split.files /\ Splitting.of = split.of /\ Splitting.done = 0
  BY DEF TypeOK, Splitting, Splits

\* A task queued, or not.
LEMMA QueueTaskIs ==
    ASSUME TypeOK, NEW task \in Tasks, queue' \in {queue, Append(queue, task)}
    PROVE  queue' \in Seq(Tasks)
  <1>1. queue \in Seq(Tasks)
    BY DEF TypeOK
  <1>. QED  BY <1>1

LEMMA MetaIs ==
    ASSUME TypeOK, Prepared
    PROVE  /\ Meta(split.files, split.of) \in Metas
           /\ Meta(split.files, split.of).kind = "meta"
           /\ AsTask(Meta(split.files, split.of)) \in Tasks
           /\ Plain(AsTask(Meta(split.files, split.of))) = Meta(split.files, split.of)
  <1>1. split.files \in Seq(Files) \ {<<>>} /\ split.of \in [Files -> Nat]
    BY DEF TypeOK, Prepared, Splits
  <1>2. Meta(split.files, split.of) \in Metas /\ Meta(split.files, split.of).kind = "meta"
    BY <1>1 DEF Meta, Metas
  <1>. QED  BY <1>2, PlainIs DEF Messages

\* The chunk the split comes to, of value v if it is queued.
LEMMA NextChunkIs ==
    ASSUME TypeOK, NextChunk
    PROVE  /\ AtFile \in DOMAIN split.files /\ AtChunk \in Chunks
           /\ split.files[AtFile] \in Files
           /\ split.at = "chunks" /\ split'.at = "chunks" /\ split' \in Splits
           /\ split'.files = split.files /\ split'.of = split.of
           /\ split'.done = split.done + 1
           /\ \E v \in Nat :
                 /\ Truck(split.files[AtFile], AtChunk, v) \in Trucks
                 /\ queue' \in {queue, Append(queue, AsTask(Truck(split.files[AtFile], AtChunk, v)))}
  <1>1. /\ split \in Splits /\ split.at = "chunks" /\ split.done \in Nat
        /\ split.done < Total * Len(split.files)
        /\ ChunkOf(split.files[AtFile], AtChunk)
        /\ split' = [split EXCEPT !.done = @ + 1]
    BY DEF TypeOK, NextChunk, Splits, AtFile, AtChunk
  <1>2. Len(split.files) \in Nat /\ split.files \in Seq(Files)
    BY <1>1 DEF Splits
  <1>3. /\ split.done \div Total \in Nat /\ split.done \div Total < Len(split.files)
        /\ split.done % Total \in 0 .. Total - 1
    BY <1>1, <1>2, DivMod, TotalAssumption
  <1>4. AtFile \in DOMAIN split.files /\ AtChunk \in Chunks
    BY <1>2, <1>3, TotalAssumption DEF AtFile, AtChunk, Chunks
  <1>5. split.files[AtFile] \in Files
    BY <1>2, <1>4
  <1>6. /\ split'.at = "chunks" /\ split' \in Splits /\ split'.files = split.files
        /\ split'.of = split.of /\ split'.done = split.done + 1
    <2>. DEFINE d == split.done + 1
    <2>1. d \in Nat /\ split' = [split EXCEPT !.done = d]
      BY <1>1
    <2>. HIDE DEF d
    <2>2. /\ split'.at = "chunks" /\ split' \in Splits /\ split'.files = split.files
          /\ split'.of = split.of /\ split'.done = d
      BY <1>1, <2>1 DEF Splits
    <2>. QED  BY <2>2 DEF d
  <1>7. ReadChunk(split.files[AtFile]) \in Nat
    BY <1>1, <1>5 DEF ReadChunk, TypeOK, Splits
  <1>8. \A v \in Nat : Truck(split.files[AtFile], AtChunk, v) \in Trucks
    BY <1>4, <1>5 DEF Truck, Trucks
  <1>9. \E v \in Nat :
           queue' \in {queue, Append(queue, AsTask(Truck(split.files[AtFile], AtChunk, v)))}
    BY <1>1, <1>7 DEF ChunkOf, QueueTask
  <1>. QED  BY <1>1, <1>4, <1>5, <1>6, <1>8, <1>9

\* A mail goes out.
LEMMA DeliverIs ==
    ASSUME TypeOK, NEW mail \in Messages, Deliver(mail)
    PROVE  /\ out' \in SUBSET (Files \X Chunks) /\ inbox' \in Seq(Messages)
           /\ \A f \in Files : \A i \in Chunks :
                 <<f, i>> \in out' <=> <<f, i>> \in out \/ TruckOf(mail, f, i)
           /\ DOMAIN inbox' = DOMAIN inbox \cup {Len(inbox) + 1}
           /\ \A k \in DOMAIN inbox : inbox'[k] = inbox[k]
           /\ inbox'[Len(inbox) + 1] = mail
  <1>1. mail.kind = "truck" => mail \in Trucks
    BY DEF Messages, Metas
  <1>2. out' = Accepted(mail) /\ inbox' = Append(inbox, mail)
    BY DEF Deliver
  <1>3. out' \in SUBSET (Files \X Chunks)
    BY <1>1, <1>2 DEF Accepted, TypeOK, Trucks
  <1>4. \A f \in Files : \A i \in Chunks :
           <<f, i>> \in out' <=> <<f, i>> \in out \/ TruckOf(mail, f, i)
    BY <1>1, <1>2 DEF Accepted, TruckOf
  <1>5. inbox \in Seq(Messages)
    BY DEF TypeOK
  <1>. QED  BY <1>2, <1>3, <1>4, <1>5

LEMMA HeadIs ==
    ASSUME TypeOK, queue # <<>>
    PROVE  /\ Head(queue) = queue[1] /\ 1 \in DOMAIN queue
           /\ Head(queue) \in Tasks /\ Plain(Head(queue)) \in Messages
           /\ Plain(Head(queue)) \in OnItsWay
           /\ FileOf(Head(queue)) \in {0} \cup Files
           /\ FileOf(Head(queue)) # 0 =>
                 \E i \in Chunks : TruckOf(Plain(Head(queue)), FileOf(Head(queue)), i)
  <1>1. Head(queue) = queue[1] /\ 1 \in DOMAIN queue /\ Head(queue) \in Tasks
    BY DEF TypeOK
  <1>2. Plain(Head(queue)) \in Messages
    BY <1>1, PlainIs
  <1>3. Plain(Head(queue)).kind = "truck" => Plain(Head(queue)) \in Trucks
    BY <1>2 DEF Messages, Metas
  <1>4. Plain(Head(queue)) \in OnItsWay
    BY <1>1 DEF OnItsWay
  <1>5. Plain(Head(queue)).kind = "truck" =>
           Plain(Head(queue)).f \in Files /\ Plain(Head(queue)).i \in Chunks
    BY <1>3 DEF Trucks
  <1>. QED  BY <1>1, <1>2, <1>4, <1>5 DEF FileOf, TruckOf

LEMMA OpenIs ==
    ASSUME TypeOK, OpenNext
    PROVE  /\ inbox' \in Seq(Messages)
           /\ reading' \in {<<>>} \cup {<<m>> : m \in Messages \cup Checks}
           /\ \A k \in DOMAIN inbox' : \E j \in DOMAIN inbox : inbox'[k] = inbox[j]
           /\ \A k \in DOMAIN reading' : \E j \in DOMAIN inbox : reading'[k] = inbox[j]
  <1>1. PICK i \in DOMAIN inbox : reading' = <<inbox[i]>> /\ inbox' = RemoveAt(inbox, i)
    BY DEF OpenNext
  <1>2. inbox \in Seq(Messages)
    BY DEF TypeOK
  <1>3. inbox[i] \in Messages
    BY <1>2
  <1>4. /\ inbox' \in Seq(Messages)
        /\ \A k \in DOMAIN inbox' : \E j \in DOMAIN inbox : inbox'[k] = inbox[j]
    BY <1>1, <1>2, RemovedIs
  <1>. QED  BY <1>1, <1>3, <1>4

\* Reading a description goes on to the next file of it.
LEMMA NextFileIs ==
    ASSUME TypeOK, reading # <<>>, Mail.kind = "meta", reading' = NextFile
    PROVE  /\ reading' \in {<<>>} \cup {<<m>> : m \in Messages \cup Checks}
           /\ Head(Mail.files) \in Files /\ Mail.of \in [Files -> Nat]
           /\ 1 \in DOMAIN Mail.files /\ Head(Mail.files) = Mail.files[1]
           /\ \A k \in DOMAIN reading' :
                 /\ reading'[k].kind = "meta" /\ reading'[k].of = Mail.of
                 /\ \A j \in DOMAIN reading'[k].files :
                       \E l \in DOMAIN Mail.files : reading'[k].files[j] = Mail.files[l]
  <1>. DEFINE fs == Mail.files
  <1>1. Mail \in Metas
    BY SomeReading
  <1>2. fs \in Seq(Files) \ {<<>>} /\ Mail.of \in [Files -> Nat]
    BY <1>1 DEF Metas
  <1>. HIDE DEF fs
  <1>3. Head(fs) \in Files /\ 1 \in DOMAIN fs /\ Head(fs) = fs[1]
    BY <1>2
  <1>4. CASE Len(fs) = 1
    BY <1>2, <1>3, <1>4 DEF NextFile, fs
  <1>5. CASE Len(fs) # 1
    <2>. DEFINE rest == Tail(fs)
                m == [Mail EXCEPT !.files = rest]
    <2>1. /\ rest \in Seq(Files) \ {<<>>}
          /\ \A j \in DOMAIN rest : j + 1 \in DOMAIN fs /\ rest[j] = fs[j + 1]
      BY <1>2, <1>5, TailIs
    <2>. HIDE DEF rest
    <2>2. m \in Metas /\ m.kind = "meta" /\ m.of = Mail.of /\ m.files = rest
      BY <1>1, <2>1 DEF Metas
    <2>3. reading' = <<m>>
      BY <1>5 DEF NextFile, fs, rest
    <2>. HIDE DEF m
    <2>4. DOMAIN reading' = {1} /\ reading'[1] = m
      BY <2>3
    <2>5. \A j \in DOMAIN m.files : \E l \in DOMAIN fs : m.files[j] = fs[l]
      BY <2>1, <2>2
    <2>. QED  BY <1>2, <1>3, <2>2, <2>3, <2>4, <2>5 DEF Messages, fs
  <1>. QED  BY <1>4, <1>5

LEMMA ReadingType ==
    \A m \in Messages \cup Checks :
        <<m>> \in {<<>>} \cup {<<n>> : n \in Messages \cup Checks}
  OBVIOUS

LEMMA SplitStepsType ==
    ASSUME TypeOK,
           \/ BeginSplit \/ Prepare \/ QueueMeta \/ GroupQueueMeta \/ NextChunk
           \/ SplitEnds \/ UserEdits \/ CrashSender
    PROVE  TypeOK'
  <1>1. CASE BeginSplit
    BY <1>1, BeginSplitIs DEF BeginSplit, TypeOK
  <1>2. CASE Prepare
    <2>. DEFINE f == split.files[split.done + 1]
    <2>1. /\ split' \in Splits /\ split'.files = split.files /\ split.at = "prepare"
          /\ f \in Files /\ SetRow("sender", f, NewRow(source[f]))
      BY <1>2, PrepareIs
    <2>. HIDE DEF f
    <2>2. NewRow(source[f]) \in Rows /\ "sender" \in Sides
      BY <2>1, NewRowType DEF TypeOK, Sides
    <2>3. row' \in [Sides -> [Files -> Rows]]
      BY <2>1, <2>2, SetRowIs
    <2>4. UNCHANGED <<source, queue, marking, out, inbox, reading, chunk>>
      BY <1>2 DEF Prepare
    <2>5. split'.files # <<>>
      BY <2>1 DEF TypeOK
    <2>. QED  BY <2>1, <2>3, <2>4, <2>5 DEF TypeOK
  <1>3. CASE QueueMeta \/ GroupQueueMeta
    <2>. DEFINE task == AsTask(Meta(split.files, split.of))
    <2>1. /\ Prepared /\ split' \in {Splitting, NoSplit}
          /\ queue' \in {queue, Append(queue, task)}
          /\ UNCHANGED <<source, marking, out, inbox, reading, row, chunk>>
      BY <1>3 DEF QueueMeta, GroupQueueMeta, QueueTask
    <2>2. queue' \in Seq(Tasks)
      BY <2>1, MetaIs, QueueTaskIs
    <2>3. split.files # <<>>
      BY <2>1 DEF Prepared, TypeOK
    <2>4. split' \in Splits /\ (split'.at # "idle" => split'.files # <<>>)
      BY <2>1, <2>3, SplittingIs, NoSplitIs
    <2>. QED  BY <2>1, <2>2, <2>4 DEF TypeOK
  <1>4. CASE NextChunk
    <2>1. PICK v \in Nat :
             /\ Truck(split.files[AtFile], AtChunk, v) \in Trucks
             /\ queue' \in {queue, Append(queue, AsTask(Truck(split.files[AtFile], AtChunk, v)))}
      BY <1>4, NextChunkIs
    <2>2. queue' \in Seq(Tasks)
      BY <2>1, PlainIs, QueueTaskIs DEF Messages
    <2>3. split' \in Splits /\ split'.files = split.files /\ split.at = "chunks"
      BY <1>4, NextChunkIs
    <2>4. UNCHANGED <<source, marking, out, inbox, reading, row, chunk>>
      BY <1>4 DEF NextChunk
    <2>. QED  BY <2>2, <2>3, <2>4 DEF TypeOK
  <1>5. CASE SplitEnds
    BY <1>5, NoSplitIs DEF SplitEnds, TypeOK
  <1>6. CASE UserEdits
    <2>1. PICK f \in Files : source' = [source EXCEPT ![f] = @ + 1]
      BY <1>6 DEF UserEdits
    <2>2. source' \in [Files -> Nat]
      BY <2>1 DEF TypeOK
    <2>. QED  BY <1>6, <2>2 DEF UserEdits, TypeOK
  <1>7. CASE CrashSender
    BY <1>7, NoSplitIs DEF CrashSender, TypeOK
  <1>. QED  BY <1>1, <1>2, <1>3, <1>4, <1>5, <1>6, <1>7

LEMMA SendStepsType ==
    ASSUME TypeOK, SendTask \/ SendTaskFails \/ MarkChunkSent
    PROVE  TypeOK'
  <1>1. CASE SendTask
    <2>1. queue # <<>> /\ queue' = Tail(queue) /\ marking' = FileOf(Head(queue))
          /\ Deliver(Plain(Head(queue)))
      BY <1>1 DEF SendTask
    <2>2. queue' \in Seq(Tasks)
      BY <2>1 DEF TypeOK
    <2>3. marking' \in {0} \cup Files /\ Plain(Head(queue)) \in Messages
      BY <2>1, HeadIs
    <2>4. out' \in SUBSET (Files \X Chunks) /\ inbox' \in Seq(Messages)
      BY <2>1, <2>3, DeliverIs
    <2>5. UNCHANGED <<source, split, reading, row, chunk>>
      BY <1>1 DEF SendTask
    <2>. QED  BY <2>2, <2>3, <2>4, <2>5 DEF TypeOK
  <1>2. CASE SendTaskFails
    <2>1. PICK b \in 0 .. Len(queue) - 1 : queue' = Postponed(b)
      BY <1>2 DEF SendTaskFails
    <2>2. queue # <<>> /\ queue \in Seq(Tasks)
      BY <1>2 DEF SendTaskFails, TypeOK
    <2>3. queue' \in Seq(Tasks)
      BY <2>1, <2>2, PostponedIs
    <2>4. out' \in SUBSET (Files \X Chunks) /\ inbox' \in Seq(Messages)
      <3>1. CASE UNCHANGED <<out, inbox>>
        BY <3>1 DEF TypeOK
      <3>2. CASE Deliver(Plain(Head(queue)))
        BY <2>2, <3>2, HeadIs, DeliverIs
      <3>. QED  BY <1>2, <3>1, <3>2 DEF SendTaskFails
    <2>5. UNCHANGED <<source, split, marking, reading, row, chunk>>
      BY <1>2 DEF SendTaskFails
    <2>. QED  BY <2>3, <2>4, <2>5 DEF TypeOK
  <1>3. CASE MarkChunkSent
    <2>1. /\ marking \in Files /\ marking' = 0
          /\ SetRow("sender", marking, Marked(Row("sender", marking)))
      BY <1>3 DEF MarkChunkSent, TypeOK
    <2>2. Marked(Row("sender", marking)) \in Rows /\ "sender" \in Sides
      BY <2>1, RowIs, MarkedType DEF Sides
    <2>3. row' \in [Sides -> [Files -> Rows]]
      BY <2>1, <2>2, SetRowIs
    <2>4. UNCHANGED <<source, split, queue, out, inbox, reading, chunk>>
      BY <1>3 DEF MarkChunkSent
    <2>. QED  BY <2>1, <2>3, <2>4 DEF TypeOK
  <1>. QED  BY <1>1, <1>2, <1>3

LEMMA ReadStepsType ==
    ASSUME TypeOK,
           OpenNext \/ ReceiveFile \/ ReceiveTruck \/ Check \/ Save \/ CrashReceiver
    PROVE  TypeOK'
  <1>0. "receiver" \in Sides
    BY DEF Sides
  <1>1. CASE OpenNext
    BY <1>1, OpenIs DEF OpenNext, TypeOK
  <1>2. CASE ReceiveFile
    <2>1. reading # <<>> /\ Mail.kind = "meta" /\ reading' = NextFile
          /\ (row' = row \/ SetRow("receiver", Head(Mail.files), NewRow(Mail.of[Head(Mail.files)])))
          /\ UNCHANGED <<source, split, queue, marking, out, inbox, chunk>>
      BY <1>2 DEF ReceiveFile
    <2>2. /\ reading' \in {<<>>} \cup {<<m>> : m \in Messages \cup Checks}
          /\ Head(Mail.files) \in Files /\ Mail.of[Head(Mail.files)] \in Nat
      BY <2>1, NextFileIs
    <2>3. NewRow(Mail.of[Head(Mail.files)]) \in Rows
      BY <2>2, NewRowType
    <2>4. row' \in [Sides -> [Files -> Rows]]
      BY <1>0, <2>1, <2>2, <2>3, SetRowIs DEF TypeOK
    <2>. QED  BY <2>1, <2>2, <2>4 DEF TypeOK
  <1>3. CASE ReceiveTruck
    <2>1. /\ Mail \in Trucks
          /\ chunk' = [chunk EXCEPT ![Mail.f][Mail.i] = [in |-> TRUE, v |-> Mail.v]]
          /\ reading' \in {<<>>, <<[kind |-> "check", f |-> Mail.f]>>}
          /\ UNCHANGED <<source, split, queue, marking, out, inbox, row>>
      BY <1>3, SomeReading DEF ReceiveTruck, Upsert
    <2>2. Mail.f \in Files /\ Mail.i \in Chunks /\ Mail.v \in Nat
      BY <2>1 DEF Trucks
    <2>3. [in |-> TRUE, v |-> Mail.v] \in [in : BOOLEAN, v : Nat]
      BY <2>2
    <2>4. chunk' \in [Files -> [Chunks -> [in : BOOLEAN, v : Nat]]]
      BY <2>1, <2>2, <2>3 DEF TypeOK
    <2>5. [kind |-> "check", f |-> Mail.f] \in Checks
      BY <2>2 DEF Checks
    <2>6. reading' \in {<<>>} \cup {<<m>> : m \in Messages \cup Checks}
      BY <2>1, <2>5, ReadingType
    <2>. QED  BY <2>1, <2>4, <2>6 DEF TypeOK
  <1>4. CASE Check
    <2>1. Mail \in Checks /\ SetRow("receiver", Mail.f, Checked(Row("receiver", Mail.f), Mail.f))
      BY <1>4, SomeReading DEF Check
    <2>2. Mail.f \in Files
      BY <2>1 DEF Checks
    <2>3. Checked(Row("receiver", Mail.f), Mail.f) \in Rows
      BY <1>0, <2>2, RowIs, CheckedType
    <2>4. row' \in [Sides -> [Files -> Rows]]
      BY <1>0, <2>1, <2>2, <2>3, SetRowIs
    <2>. QED  BY <1>4, <2>4 DEF Check, TypeOK
  <1>5. CASE Save
    <2>1. PICK f \in Files : SetRow("receiver", f, Checked(Row("receiver", f), f))
      BY <1>5 DEF Save
    <2>2. Checked(Row("receiver", f), f) \in Rows
      BY <1>0, <2>1, RowIs, CheckedType
    <2>3. row' \in [Sides -> [Files -> Rows]]
      BY <1>0, <2>1, <2>2, SetRowIs
    <2>. QED  BY <1>5, <2>3 DEF Save, TypeOK
  <1>6. CASE CrashReceiver
    BY <1>6 DEF CrashReceiver, TypeOK
  <1>. QED  BY <1>1, <1>2, <1>3, <1>4, <1>5, <1>6

\* The steps, as the handlers that do them.
LEMMA NextIs ==
    ASSUME Next
    PROVE  \/ BeginSplit \/ Prepare \/ QueueMeta \/ GroupQueueMeta \/ NextChunk
           \/ SplitEnds \/ UserEdits \/ CrashSender
           \/ SendTask \/ SendTaskFails \/ MarkChunkSent
           \/ OpenNext \/ ReceiveFile \/ ReceiveTruck \/ Check \/ Save \/ CrashReceiver
  BY DEF Next, Sending, Receiving, Begin, GroupBegin, QueueChunk, GroupQueueChunk, Open,
         GroupOpen

\* Tasks, mail and the tables of both sides keep their shape, for any number of
\* files, chunks and faults of every kind.
THEOREM TypeCorrect == Spec => []TypeOK
  <1>1. TypeOK /\ [Next]_vars => TypeOK'
    <2>. SUFFICES ASSUME TypeOK, [Next]_vars PROVE TypeOK'
      OBVIOUS
    <2>1. CASE Next
      BY <2>1, NextIs, SplitStepsType, SendStepsType, ReadStepsType
    <2>2. CASE UNCHANGED vars
      BY <2>2 DEF vars, TypeOK
    <2>. QED  BY <2>1, <2>2
  <1>. QED  BY <1>1, InitType, PTL DEF Spec
-----------------------------------------------------------------------------
(* What keeps each part of the invariant *)

SameFiles ==
    \A f \in Files : /\ row'["sender"][f].in = row["sender"][f].in
                     /\ row'["sender"][f].md5 = row["sender"][f].md5

\* A mail that disturbs nothing.
Harmless(m) ==
    \/ m.kind = "check" /\ m.f \in Files /\ row'["receiver"][m.f].in
    \/ /\ m.kind = "meta"
       /\ \A k \in DOMAIN m.files : /\ m.files[k] \in Files
                                    /\ row["sender"][m.files[k]].in
                                    /\ row["sender"][m.files[k]].md5 = m.of[m.files[k]]

NothingNew == \A m \in OnItsWay' : m \in OnItsWay \/ Harmless(m)

\* Only what is on its way arrives.
OnlyFromWay ==
    \A f \in Files : \A i \in Chunks :
        /\ <<f, i>> \in out' =>
              <<f, i>> \in out \/ \E m \in OnItsWay : TruckOf(m, f, i)
        /\ chunk'[f][i].in =>
              chunk[f][i].in \/ \E m \in OnItsWay : TruckOf(m, f, i)

LEMMA WayType ==
    ASSUME TypeOK
    PROVE  /\ OnItsWay \subseteq Messages \cup Checks
           /\ \A m \in OnItsWay :
                 /\ m.kind = "truck" => m \in Trucks /\ m.f \in Files /\ m.i \in Chunks
                 /\ m.kind = "meta" => m \in Metas /\ \A k \in DOMAIN m.files : m.files[k] \in Files
                 /\ m.kind = "check" => m \in Checks /\ m.f \in Files
  <1>1. \A k \in DOMAIN queue : Plain(queue[k]) \in Messages
    BY PlainIs DEF TypeOK
  <1>2. \A k \in DOMAIN inbox : inbox[k] \in Messages
    BY DEF TypeOK
  <1>3. \A k \in DOMAIN reading : reading[k] \in Messages \cup Checks
    BY DEF TypeOK
  <1>4. OnItsWay \subseteq Messages \cup Checks
    BY <1>1, <1>2, <1>3 DEF OnItsWay
  <1>5. \A m \in Messages \cup Checks :
           /\ m.kind = "truck" => m \in Trucks /\ m.f \in Files /\ m.i \in Chunks
           /\ m.kind = "meta" => m \in Metas /\ m.files \in Seq(Files)
           /\ m.kind = "check" => m \in Checks /\ m.f \in Files
    BY DEF Messages, Metas, Trucks, Checks
  <1>6. \A s \in Seq(Files) : \A k \in DOMAIN s : s[k] \in Files
    OBVIOUS
  <1>. QED  BY <1>4, <1>5, <1>6

LEMMA WaySame == UNCHANGED <<queue, inbox, reading>> => OnItsWay' = OnItsWay
  BY DEF OnItsWay

LEMMA SplitFiles ==
    ASSUME TypeOK
    PROVE  \A k \in DOMAIN split.files : k \in Nat /\ split.files[k] \in Files
  <1>1. split.files \in Seq(Files)
    BY DEF TypeOK, Splits
  <1>. QED  BY <1>1

LEMMA SplitKept ==
    ASSUME TypeOK, SplitInv, SameFiles, split' = split \/ split'.at = "idle"
    PROVE  SplitInv'
  BY SplitFiles DEF SplitInv, SameFiles, Registered

LEMMA UnseenStays ==
    ASSUME NothingNew, OnlyFromWay, NEW f \in Files, NEW i \in Chunks, Unseen(f, i)
    PROVE  Unseen(f, i)'
  BY DEF NothingNew, Harmless, OnlyFromWay, Unseen, TruckOf

LEMMA UnseenKept ==
    ASSUME TypeOK, UnseenInv, SameFiles, NothingNew, OnlyFromWay,
           split' = split \/ split'.at = "idle"
    PROVE  UnseenInv'
  <1>1. \A f \in Files : \A i \in Chunks : Unseen(f, i) => Unseen(f, i)'
    BY UnseenStays
  <1>2. \A f \in Files : ~row'["sender"][f].in => \A i \in Chunks : Unseen(f, i)'
    BY <1>1 DEF UnseenInv, SameFiles
  <1>3. CASE split' = split
    <2>1. split'.at = "prepare" =>
             \A k \in DOMAIN split'.files : \A i \in Chunks : Unseen(split.files[k], i)'
      BY <1>1, <1>3, SplitFiles DEF UnseenInv
    <2>2. AtFile' = AtFile /\ AtChunk' = AtChunk
      BY <1>3 DEF AtFile, AtChunk
    <2>3. split'.at = "chunks" =>
             \A k \in DOMAIN split'.files : \A i \in Chunks :
                 k > AtFile \/ (k = AtFile /\ i >= AtChunk) => Unseen(split.files[k], i)'
      BY <1>1, <1>3, SplitFiles DEF UnseenInv
    <2>. QED  BY <1>2, <1>3, <2>1, <2>2, <2>3 DEF UnseenInv
  <1>4. CASE split'.at = "idle"
    BY <1>2, <1>4 DEF UnseenInv
  <1>. QED  BY <1>3, <1>4

LEMMA CopyKept ==
    ASSUME TypeOK, CopyInv, SameFiles, NothingNew, chunk' = chunk,
           \A f \in Files : row["receiver"][f].in => row'["receiver"][f].in
    PROVE  CopyInv'
  <1>1. \A m \in OnItsWay' : m.kind = "truck" => m \in OnItsWay
    BY DEF NothingNew, Harmless
  <1>2. \A m, n \in OnItsWay' :
           m.kind = "truck" /\ n.kind = "truck" /\ m.f = n.f /\ m.i = n.i => m.v = n.v
    BY <1>1 DEF CopyInv
  <1>3. \A m \in OnItsWay' :
           m.kind = "truck" /\ chunk'[m.f][m.i].in => chunk'[m.f][m.i].v = m.v
    BY <1>1 DEF CopyInv
  <1>4. \A m \in OnItsWay' : m.kind = "meta" =>
           \A k \in DOMAIN m.files :
               /\ row'["sender"][m.files[k]].in
               /\ row'["sender"][m.files[k]].md5 = m.of[m.files[k]]
    BY WayType DEF NothingNew, Harmless, CopyInv, SameFiles
  <1>5. \A m \in OnItsWay' : m.kind = "check" => row'["receiver"][m.f].in
    BY WayType DEF NothingNew, Harmless, CopyInv
  <1>. QED  BY <1>2, <1>3, <1>4, <1>5 DEF CopyInv

LEMMA ReceivedKept ==
    ASSUME ReceivedInv, SameFiles, chunk' = chunk,
           \A f \in Files : row'["receiver"][f] = row["receiver"][f]
    PROVE  ReceivedInv'
  BY DEF ReceivedInv, SameFiles

LEMMA GoneIs ==
    ASSUME NEW f
    PROVE  /\ Gone(f) \subseteq Chunks /\ IsFiniteSet(Gone(f))
           /\ Cardinality(Gone(f)) \in Nat /\ Cardinality(Gone(f)) <= Total
  <1>1. Gone(f) \subseteq Chunks
    BY DEF Gone
  <1>. QED  BY <1>1, ChunksAre, FS_Subset, FS_CardinalityType

LEMMA GoneGrows ==
    ASSUME NEW f, Gone(f) \subseteq Gone(f)'
    PROVE  /\ Cardinality(Gone(f)) <= Cardinality(Gone(f))'
           /\ Cardinality(Gone(f))' \in Nat
  <1>1. IsFiniteSet(Gone(f)')
    <2>1. Gone(f)' \subseteq Chunks
      BY DEF Gone
    <2>. QED  BY <2>1, ChunksAre, FS_Subset
  <1>2. \A S, T : IsFiniteSet(T) /\ S \subseteq T => Cardinality(S) <= Cardinality(T)
    BY FS_Subset
  <1>3. \A T : IsFiniteSet(T) => Cardinality(T) \in Nat
    BY FS_CardinalityType
  <1>. QED  BY <1>1, <1>2, <1>3

LEMMA SentKept ==
    ASSUME TypeOK, SentInv, marking' = marking \/ marking' = 0,
           \A f \in Files : Gone(f) \subseteq Gone(f)',
           \A f \in Files : /\ row'["sender"][f].sent = row["sender"][f].sent
                            /\ row'["sender"][f].status = row["sender"][f].status
    PROVE  SentInv'
  <1>. SUFFICES ASSUME NEW f \in Files
                PROVE  /\ row'["sender"][f].sent + (IF marking' = f THEN 1 ELSE 0)
                              <= Cardinality(Gone(f))'
                       /\ row'["sender"][f].status = 1 => row'["sender"][f].sent >= Total
    BY DEF SentInv
  <1>1. /\ row["sender"][f].sent \in Nat
        /\ row["sender"][f].sent + (IF marking = f THEN 1 ELSE 0) <= Cardinality(Gone(f))
        /\ row["sender"][f].status = 1 => row["sender"][f].sent >= Total
    BY DEF SentInv, TypeOK, Sides, Rows
  <1>2. f # 0
    BY ChunksAre
  <1>3. /\ Cardinality(Gone(f)) \in Nat /\ Cardinality(Gone(f))' \in Nat
        /\ Cardinality(Gone(f)) <= Cardinality(Gone(f))'
    BY GoneIs, GoneGrows
  <1>. QED  BY <1>1, <1>2, <1>3
-----------------------------------------------------------------------------
(* The steps of a split *)

LEMMA RowsSame ==
    ASSUME row' = row
    PROVE  SameFiles
  BY DEF SameFiles

LEMMA WayUntouched ==
    ASSUME UNCHANGED <<queue, inbox, reading, out, chunk>>
    PROVE  NothingNew /\ OnlyFromWay /\ \A f \in Files : Gone(f)' = Gone(f)
  BY WaySame DEF NothingNew, OnlyFromWay, Gone

LEMMA BeginSplitStep ==
    ASSUME TypeOK, Consistent, BeginSplit
    PROVE  Consistent'
  <1>1. /\ split'.at = "prepare" /\ split'.done = 0 /\ split' \in Splits
        /\ \A k \in DOMAIN split'.files : ~row["sender"][split'.files[k]].in
        /\ \A j, k \in DOMAIN split'.files : split'.files[j] = split'.files[k] => j = k
    BY BeginSplitIs
  <1>2. UNCHANGED <<queue, marking, out, inbox, reading, row, chunk>>
    BY DEF BeginSplit
  <1>3. SplitInv'
    <2>1. \A k \in DOMAIN split'.files : ~(k <= split'.done)
      BY <1>1 DEF Splits
    <2>. QED  BY <1>1, <1>2, <2>1 DEF SplitInv
  <1>4. UnseenInv'
    <2>1. \A k \in DOMAIN split'.files : split'.files[k] \in Files
      BY <1>1 DEF Splits
    <2>2. \A f \in Files : \A i \in Chunks : Unseen(f, i) => Unseen(f, i)'
      BY <1>2, WayUntouched, UnseenStays
    <2>3. \A f \in Files : ~row["sender"][f].in => \A i \in Chunks : Unseen(f, i)'
      BY <2>2 DEF Consistent, UnseenInv
    <2>. QED  BY <1>1, <1>2, <2>1, <2>3 DEF UnseenInv
  <1>5. QueuedOnce' /\ CopyInv' /\ ReceivedInv' /\ SentInv'
    BY <1>2, RowsSame, WayUntouched, CopyKept, ReceivedKept, SentKept
       DEF Consistent, QueuedOnce
  <1>. QED  BY <1>3, <1>4, <1>5 DEF Consistent

LEMMA PrepareStep ==
    ASSUME TypeOK, Apart, Consistent, Prepare
    PROVE  Consistent'
  <1>. DEFINE n == split.done + 1
              f == split.files[split.done + 1]
  <1>1. /\ n \in DOMAIN split.files /\ f \in Files /\ n \in Nat
        /\ split.at = "prepare" /\ split'.at = "prepare"
        /\ split'.files = split.files /\ split'.done = n
        /\ split'.of[f] = source[f]
        /\ \A g \in Files \ {f} : split'.of[g] = split.of[g]
        /\ SetRow("sender", f, NewRow(source[f])) /\ source[f] \in Nat
        /\ split.done \in Nat
    BY PrepareIs DEF TypeOK, Splits
  <1>2. UNCHANGED <<queue, marking, out, inbox, reading, chunk>>
    BY DEF Prepare
  <1>3. f = split.files[n]
    OBVIOUS
  <1>4. ~row["sender"][f].in
    <2>1. ~(n <= split.done)
      BY <1>1
    <2>. QED  BY <1>1, <2>1 DEF Consistent, SplitInv
  <1>5. /\ row'["sender"][f].in /\ row'["sender"][f].md5 = source[f]
        /\ row'["sender"][f].sent = 0 /\ row'["sender"][f].status = 0
        /\ \A s \in Sides, g \in Files :
              s # "sender" \/ g # f => row'[s][g] = row[s][g]
    <2>1. NewRow(source[f]) \in Rows /\ "sender" \in Sides
      BY <1>1, NewRowType DEF Sides
    <2>2. \A s \in Sides, g \in Files :
             row'[s][g] = IF s = "sender" /\ g = f THEN NewRow(source[f]) ELSE row[s][g]
      BY <1>1, <2>1, SetRowIs
    <2>. QED  BY <1>1, <2>1, <2>2 DEF NewRow
  <1>6. split.done + 1 = n
    OBVIOUS
  <1>. HIDE DEF f, n
  <1>7. /\ \A g \in Files \ {f} : row'["sender"][g] = row["sender"][g]
        /\ \A g \in Files : row'["receiver"][g] = row["receiver"][g]
    BY <1>5 DEF Sides
  <1>8. SplitInv'
    <2>1. \A j, k \in DOMAIN split.files : split.files[j] = split.files[k] => j = k
      BY <1>1 DEF Consistent, SplitInv
    <2>2. ASSUME NEW k \in DOMAIN split.files
          PROVE  IF k <= n THEN Registered(k)' ELSE ~row'["sender"][split.files[k]].in
      <3>1. split.files[k] \in Files /\ k \in Nat
        BY SplitFiles DEF TypeOK, Splits
      <3>2. CASE k = n
        BY <1>1, <1>3, <1>5, <3>1, <3>2 DEF Registered
      <3>3. CASE k # n
        <4>1. split.files[k] # f /\ (k <= n <=> k <= split.done)
          BY <1>1, <1>3, <1>6, <2>1, <3>1, <3>3
        <4>2. IF k <= split.done THEN Registered(k) ELSE ~row["sender"][split.files[k]].in
          BY <1>1 DEF Consistent, SplitInv
        <4>. QED  BY <1>1, <1>7, <3>1, <4>1, <4>2 DEF Registered
      <3>. QED  BY <3>2, <3>3
    <2>. QED  BY <1>1, <2>1, <2>2 DEF SplitInv
  <1>9. UnseenInv'
    <2>1. \A g \in Files : \A i \in Chunks : Unseen(g, i) => Unseen(g, i)'
      BY <1>2, WayUntouched, UnseenStays
    <2>2. \A g \in Files : ~row'["sender"][g].in => \A i \in Chunks : Unseen(g, i)'
      BY <1>5, <1>7, <2>1 DEF Consistent, UnseenInv
    <2>3. \A k \in DOMAIN split.files : \A i \in Chunks : Unseen(split.files[k], i)'
      BY <1>1, <2>1, SplitFiles DEF Consistent, UnseenInv
    <2>. QED  BY <1>1, <2>2, <2>3 DEF UnseenInv
  <1>10. QueuedOnce'
    BY <1>2 DEF Consistent, QueuedOnce
  <1>11. CopyInv'
    <2>1. OnItsWay' = OnItsWay
      BY <1>2, WaySame
    <2>2. \A m \in OnItsWay : m.kind = "meta" =>
             \A k \in DOMAIN m.files : m.files[k] \in Files \ {f}
      BY <1>4, WayType DEF Consistent, CopyInv
    <2>3. \A m \in OnItsWay : m.kind = "meta" =>
             \A k \in DOMAIN m.files :
                 /\ row'["sender"][m.files[k]].in
                 /\ row'["sender"][m.files[k]].md5 = m.of[m.files[k]]
      BY <1>7, <2>2 DEF Consistent, CopyInv
    <2>4. \A m \in OnItsWay : m.kind = "check" => row'["receiver"][m.f].in
      BY <1>7, WayType DEF Consistent, CopyInv
    <2>. QED  BY <1>2, <2>1, <2>3, <2>4 DEF Consistent, CopyInv
  <1>12. ReceivedInv'
    BY <1>2, <1>4, <1>7 DEF Consistent, ReceivedInv
  <1>13. SentInv'
    <2>1. \A g \in Files : Gone(g)' = Gone(g)
      BY <1>2, WayUntouched
    <2>2. ASSUME NEW g \in Files
          PROVE  /\ row'["sender"][g].sent + (IF marking' = g THEN 1 ELSE 0)
                        <= Cardinality(Gone(g))
                 /\ row'["sender"][g].status = 1 => row'["sender"][g].sent >= Total
      <3>1. /\ row["sender"][g].sent + (IF marking = g THEN 1 ELSE 0) <= Cardinality(Gone(g))
            /\ row["sender"][g].status = 1 => row["sender"][g].sent >= Total
            /\ row["sender"][g].sent \in Nat /\ Cardinality(Gone(g)) \in Nat
        BY GoneIs DEF Consistent, SentInv, TypeOK, Sides, Rows
      <3>. QED  BY <1>2, <1>5, <1>7, <3>1
    <2>. QED  BY <2>1, <2>2 DEF SentInv
  <1>. QED  BY <1>8, <1>9, <1>10, <1>11, <1>12, <1>13 DEF Consistent

\* A task appended: its mail is on its way, too.
LEMMA AppendIs ==
    ASSUME TypeOK, NEW task \in Tasks, queue' = Append(queue, task),
           UNCHANGED <<inbox, reading>>
    PROVE  /\ OnItsWay' = OnItsWay \cup {Plain(task)}
           /\ DOMAIN queue' = DOMAIN queue \cup {Len(queue) + 1}
           /\ Len(queue) + 1 \notin DOMAIN queue
           /\ \A k \in DOMAIN queue : queue'[k] = queue[k]
           /\ queue'[Len(queue) + 1] = task
  <1>1. queue \in Seq(Tasks)
    BY DEF TypeOK
  <1>2. /\ DOMAIN queue' = DOMAIN queue \cup {Len(queue) + 1}
        /\ Len(queue) + 1 \notin DOMAIN queue
        /\ \A k \in DOMAIN queue : queue'[k] = queue[k]
        /\ queue'[Len(queue) + 1] = task
    BY <1>1
  <1>3. {Plain(queue'[k]) : k \in DOMAIN queue'}
           = {Plain(queue[k]) : k \in DOMAIN queue} \cup {Plain(task)}
    BY <1>2
  <1>4. \A t : Plain(t)' = Plain(t)
    BY DEF Plain
  <1>. QED  BY <1>2, <1>3 DEF OnItsWay

LEMMA QueueMetaStep ==
    ASSUME TypeOK, Consistent, QueueMeta \/ GroupQueueMeta
    PROVE  Consistent'
  <1>. DEFINE m == Meta(split.files, split.of)
  <1>1. /\ Prepared /\ split' \in {Splitting, NoSplit}
        /\ queue' \in {queue, Append(queue, AsTask(m))}
        /\ UNCHANGED <<marking, out, inbox, reading, row, chunk>>
    BY DEF QueueMeta, GroupQueueMeta, QueueTask
  <1>2. /\ m.kind = "meta" /\ m \in Metas /\ AsTask(m) \in Tasks /\ Plain(AsTask(m)) = m
        /\ m.files = split.files /\ m.of = split.of
    BY <1>1, MetaIs DEF Meta
  <1>. HIDE DEF m
  <1>3. split.at = "prepare" /\ \A k \in DOMAIN split.files : Registered(k)
    <2>1. \A k \in DOMAIN split.files : k <= Len(split.files)
      BY DEF TypeOK, Splits
    <2>. QED  BY <1>1, <2>1 DEF Prepared, Consistent, SplitInv
  <1>4. Harmless(m)
    BY <1>2, <1>3, SplitFiles DEF Harmless, Registered
  <1>5. NothingNew /\ OnlyFromWay
    <2>1. CASE queue' = queue
      BY <1>1, <2>1, WayUntouched
    <2>2. CASE queue' = Append(queue, AsTask(m))
      <3>1. OnItsWay' = OnItsWay \cup {m}
        BY <1>1, <1>2, <2>2, AppendIs
      <3>. QED  BY <1>1, <1>4, <3>1 DEF NothingNew, OnlyFromWay
    <2>. QED  BY <1>1, <2>1, <2>2
  <1>6. SplitInv'
    <2>1. CASE split' = Splitting
      BY <1>1, <1>3, <2>1, SplittingIs DEF Consistent, SplitInv, Registered
    <2>2. CASE split' = NoSplit
      BY <2>2, NoSplitIs DEF SplitInv
    <2>. QED  BY <1>1, <2>1, <2>2
  <1>7. UnseenInv'
    <2>1. \A f \in Files : \A i \in Chunks : Unseen(f, i) => Unseen(f, i)'
      BY <1>5, UnseenStays
    <2>2. \A f \in Files : ~row'["sender"][f].in => \A i \in Chunks : Unseen(f, i)'
      BY <1>1, <2>1 DEF Consistent, UnseenInv
    <2>3. \A k \in DOMAIN split.files : \A f \in Files :
             f = split.files[k] => \A i \in Chunks : Unseen(f, i)'
      BY <1>3, <2>1 DEF Consistent, UnseenInv
    <2>4. CASE split' = Splitting
      BY <2>2, <2>3, <2>4, SplittingIs, SplitFiles DEF UnseenInv
    <2>5. CASE split' = NoSplit
      BY <2>2, <2>5, NoSplitIs DEF UnseenInv
    <2>. QED  BY <1>1, <2>4, <2>5
  <1>8. QueuedOnce' /\ \A f \in Files : Gone(f) \subseteq Gone(f)'
    <2>1. CASE queue' = queue
      BY <1>1, <2>1, WayUntouched DEF Consistent, QueuedOnce
    <2>2. CASE queue' = Append(queue, AsTask(m))
      <3>1. \A k \in DOMAIN queue' : \A f, i :
               TruckOf(Plain(queue'[k]), f, i) => k \in DOMAIN queue /\ queue'[k] = queue[k]
        BY <1>1, <1>2, <2>2, AppendIs DEF TruckOf
      <3>2. QueuedOnce'
        BY <3>1 DEF Consistent, QueuedOnce
      <3>3. \A f \in Files : Gone(f) \subseteq Gone(f)'
        BY <1>1, <3>1 DEF Gone
      <3>. QED  BY <3>2, <3>3
    <2>. QED  BY <1>1, <2>1, <2>2
  <1>9. CopyInv' /\ ReceivedInv' /\ SentInv'
    BY <1>1, <1>5, <1>8, RowsSame, CopyKept, ReceivedKept, SentKept DEF Consistent
  <1>. QED  BY <1>6, <1>7, <1>8, <1>9 DEF Consistent

LEMMA NextChunkStep ==
    ASSUME TypeOK, Consistent, NextChunk
    PROVE  Consistent'
  <1>. DEFINE l == AtFile
              j == AtChunk
              f == split.files[AtFile]
  <1>1. /\ l \in DOMAIN split.files /\ j \in Chunks /\ f \in Files
        /\ split.at = "chunks" /\ split'.at = "chunks"
        /\ split'.files = split.files /\ split'.of = split.of
        /\ split'.done = split.done + 1
    BY NextChunkIs
  <1>2. PICK v \in Nat :
           /\ Truck(f, j, v) \in Trucks
           /\ queue' \in {queue, Append(queue, AsTask(Truck(f, j, v)))}
    BY NextChunkIs
  <1>3. UNCHANGED <<marking, out, inbox, reading, row, chunk>>
    BY DEF NextChunk
  <1>. DEFINE m == Truck(f, j, v)
  <1>4. /\ m.kind = "truck" /\ m.f = f /\ m.i = j /\ m.v = v
        /\ AsTask(m) \in Tasks /\ Plain(AsTask(m)) = m
    BY <1>2, PlainIs DEF Truck, Messages
  <1>5. f = split.files[l]
    OBVIOUS
  <1>6. Unseen(f, j)
    <2>1. l = AtFile /\ j >= AtChunk
      BY <1>1, ChunksAre
    <2>. QED  BY <1>1, <2>1 DEF Consistent, UnseenInv
  <1>7. \A k \in DOMAIN split.files : \A i \in Chunks :
           k > l \/ (k = l /\ i >= j) => Unseen(split.files[k], i)
    BY <1>1 DEF Consistent, UnseenInv
  <1>8. \A k \in DOMAIN split.files : \A i \in Chunks :
           k > AtFile' \/ (k = AtFile' /\ i >= AtChunk') =>
              k > l \/ (k = l /\ i > j)
    <2>. DEFINE d == split.done
    <2>1. d \in Nat /\ d \div Total \in Nat /\ d % Total \in 0 .. Total - 1
      BY DivMod, TotalAssumption DEF TypeOK, Splits
    <2>2. l = (d \div Total) + 1 /\ j = (d % Total) + 1
      BY DEF AtFile, AtChunk
    <2>3. AtFile' = ((d + 1) \div Total) + 1 /\ AtChunk' = ((d + 1) % Total) + 1
      BY <1>1 DEF AtFile, AtChunk
    <2>. HIDE DEF l, j, d
    <2>4. CASE j < Total
      <3>1. (d + 1) \div Total = d \div Total /\ (d + 1) % Total = (d % Total) + 1
        BY <2>1, <2>2, <2>4, DivMod, TotalAssumption
      <3>2. AtFile' = l /\ AtChunk' = j + 1
        BY <2>2, <2>3, <3>1
      <3>. QED  BY <1>1, <3>2, ChunksAre
    <2>5. CASE j = Total
      <3>0. (d % Total) + 1 = Total
        BY <2>2, <2>5
      <3>1. (d + 1) \div Total = (d \div Total) + 1
        BY <2>1, <3>0, DivMod, TotalAssumption
      <3>2. AtFile' = l + 1
        BY <2>1, <2>2, <2>3, <3>1
      <3>3. l \in Nat /\ \A k \in DOMAIN split.files : k \in Nat
        BY <1>1, SplitFiles
      <3>. QED  BY <3>2, <3>3
    <2>6. j < Total \/ j = Total
      BY <1>1, TotalAssumption DEF Chunks
    <2>. QED  BY <2>4, <2>5, <2>6
  <1>. HIDE DEF l, j, f, m
  <1>9. row["sender"][f].in /\ l \in Nat /\ j \in Nat
    <2>1. l \in Nat /\ j \in Nat
      BY <1>1, ChunksAre, SplitFiles
    <2>2. Registered(l)
      BY <1>1 DEF Consistent, SplitInv
    <2>. QED  BY <1>5, <2>1, <2>2 DEF Registered
  <1>10. \/ OnItsWay' = OnItsWay /\ queue' = queue
         \/ /\ OnItsWay' = OnItsWay \cup {m}
            /\ DOMAIN queue' = DOMAIN queue \cup {Len(queue) + 1}
            /\ \A k \in DOMAIN queue : queue'[k] = queue[k]
            /\ Plain(queue'[Len(queue) + 1]) = m
    BY <1>2, <1>3, <1>4, WaySame, AppendIs DEF m
  <1>11. \A k \in DOMAIN queue : Plain(queue[k]) \in OnItsWay
    BY DEF OnItsWay
  <1>12. \A n \in OnItsWay : ~TruckOf(n, f, j)
    BY <1>6 DEF Unseen
  <1>13. \A g \in Files : \A i \in Chunks :
            Unseen(g, i) /\ (g # f \/ i # j) => Unseen(g, i)'
    BY <1>3, <1>4, <1>10 DEF Unseen, TruckOf
  <1>14. SplitInv'
    BY <1>1, <1>3 DEF Consistent, SplitInv, Registered
  <1>15. UnseenInv'
    <2>1. \A g \in Files : ~row'["sender"][g].in => \A i \in Chunks : Unseen(g, i)'
      BY <1>3, <1>9, <1>13 DEF Consistent, UnseenInv
    <2>2. ASSUME NEW k \in DOMAIN split'.files, NEW i \in Chunks,
                 k > AtFile' \/ (k = AtFile' /\ i >= AtChunk'), NEW g, g = split.files[k]
          PROVE  Unseen(g, i)'
      <3>1. k \in DOMAIN split.files /\ g \in Files /\ k \in Nat /\ i \in Nat
        BY <1>1, <2>2, SplitFiles, ChunksAre DEF TypeOK, Splits
      <3>2. k > l \/ (k = l /\ i > j)
        BY <1>8, <2>2, <3>1
      <3>3. Unseen(g, i)
        BY <1>7, <1>9, <2>2, <3>1, <3>2
      <3>4. g # f \/ i # j
        <4>1. k # l => g # f
          BY <1>1, <1>5, <2>2, <3>1 DEF Consistent, SplitInv
        <4>. QED  BY <1>9, <3>1, <3>2, <4>1
      <3>. QED  BY <1>13, <3>1, <3>3, <3>4
    <2>3. split'.files = split.files /\ split'.at = "chunks"
      BY <1>1
    <2>. QED  BY <2>1, <2>2, <2>3 DEF UnseenInv
  <1>16. QueuedOnce'
    BY <1>4, <1>10, <1>11, <1>12 DEF Consistent, QueuedOnce, TruckOf
  <1>17. CopyInv'
    <2>1. \A x, y \in OnItsWay' :
             x.kind = "truck" /\ y.kind = "truck" /\ x.f = y.f /\ x.i = y.i => x.v = y.v
      BY <1>4, <1>10, <1>12 DEF Consistent, CopyInv, TruckOf
    <2>2. \A x \in OnItsWay' :
             x.kind = "truck" /\ chunk'[x.f][x.i].in => chunk'[x.f][x.i].v = x.v
      BY <1>3, <1>4, <1>6, <1>10 DEF Consistent, CopyInv, Unseen
    <2>3. \A x \in OnItsWay' : x.kind # "truck" => x \in OnItsWay
      BY <1>4, <1>10
    <2>. QED  BY <1>3, <2>1, <2>2, <2>3 DEF Consistent, CopyInv
  <1>18. \A g \in Files : Gone(g) \subseteq Gone(g)'
    BY <1>3, <1>4, <1>6, <1>10 DEF Gone, Unseen, TruckOf
  <1>19. ReceivedInv' /\ SentInv'
    BY <1>3, <1>18, RowsSame, ReceivedKept, SentKept DEF Consistent
  <1>. QED  BY <1>14, <1>15, <1>16, <1>17, <1>19 DEF Consistent

\* The split is over, or cut off; the source is edited.
LEMMA SplitEndsStep ==
    ASSUME TypeOK, Consistent, SplitEnds \/ UserEdits \/ CrashSender
    PROVE  Consistent'
  <1>1. /\ split' = split \/ split'.at = "idle"
        /\ marking' = marking \/ marking' = 0
        /\ UNCHANGED <<queue, out, inbox, reading, row, chunk>>
    BY NoSplitIs DEF SplitEnds, UserEdits, CrashSender
  <1>2. SameFiles /\ NothingNew /\ OnlyFromWay /\ \A f \in Files : Gone(f)' = Gone(f)
    BY <1>1, RowsSame, WayUntouched
  <1>3. SplitInv' /\ UnseenInv'
    BY <1>1, <1>2, SplitKept, UnseenKept DEF Consistent
  <1>4. QueuedOnce' /\ CopyInv' /\ ReceivedInv' /\ SentInv'
    BY <1>1, <1>2, CopyKept, ReceivedKept, SentKept DEF Consistent, QueuedOnce
  <1>. QED  BY <1>3, <1>4 DEF Consistent

LEMMA InitConsistent == Init => Consistent
  <1>. SUFFICES ASSUME Init PROVE Consistent
    OBVIOUS
  <1>1. /\ split.at = "idle" /\ queue = <<>> /\ inbox = <<>> /\ reading = <<>> /\ out = {}
        /\ marking = 0
        /\ \A s \in Sides, f \in Files :
              row[s][f] = [in |-> FALSE, md5 |-> 0, sent |-> 0, status |-> 0]
        /\ \A f \in Files : \A i \in Chunks : ~chunk[f][i].in
    BY NoSplitIs DEF Init
  <1>2. OnItsWay = {}
    BY <1>1 DEF OnItsWay
  <1>3. SplitInv /\ UnseenInv /\ QueuedOnce /\ CopyInv
    BY <1>1, <1>2 DEF SplitInv, UnseenInv, QueuedOnce, CopyInv, Unseen
  <1>4. ReceivedInv
    BY <1>1 DEF ReceivedInv, Sides
  <1>5. SentInv
    <2>1. \A f \in Files : /\ row["sender"][f].sent = 0 /\ row["sender"][f].status = 0
                           /\ f # 0 /\ Cardinality(Gone(f)) \in Nat
      BY <1>1, GoneIs, ChunksAre DEF Sides
    <2>. QED  BY <1>1, <2>1 DEF SentInv
  <1>. QED  BY <1>3, <1>4, <1>5 DEF Consistent
-----------------------------------------------------------------------------
(* The steps of the outbox *)

\* The task at the head is gone, the others follow.
LEMMA TailQueueIs ==
    ASSUME TypeOK, queue # <<>>, queue' = Tail(queue)
    PROVE  /\ \A k \in DOMAIN queue' :
                 k + 1 \in DOMAIN queue /\ k + 1 # 1 /\ queue'[k] = queue[k + 1]
           /\ \A j, k \in DOMAIN queue' : j + 1 = k + 1 => j = k
  <1>1. /\ queue \in Seq(Tasks) /\ Len(queue) \in Nat \ {0} /\ DOMAIN queue = 1 .. Len(queue)
        /\ queue' \in Seq(Tasks) /\ Len(queue') = Len(queue) - 1
        /\ DOMAIN queue' = 1 .. Len(queue) - 1
    BY DEF TypeOK
  <1>2. \A k \in 1 .. Len(queue) - 1 : queue'[k] = queue[k + 1]
    BY <1>1
  <1>3. \A k \in 1 .. Len(queue) - 1 : k \in Nat /\ k + 1 \in 1 .. Len(queue) /\ k + 1 # 1
    BY <1>1
  <1>. QED  BY <1>1, <1>2, <1>3

LEMMA SendTaskStep ==
    ASSUME TypeOK, Consistent, SendTask
    PROVE  Consistent'
  <1>. DEFINE m == Plain(Head(queue))
  <1>1. /\ queue # <<>> /\ marking = 0 /\ queue' = Tail(queue) /\ Deliver(m)
        /\ marking' = FileOf(Head(queue))
        /\ UNCHANGED <<split, reading, row, chunk>>
    BY DEF SendTask
  <1>2. /\ m \in Messages /\ m \in OnItsWay /\ 1 \in DOMAIN queue /\ m = Plain(queue[1])
        /\ marking' # 0 => marking' \in Files /\ \E i \in Chunks : TruckOf(m, marking', i)
    BY <1>1, HeadIs
  <1>. HIDE DEF m
  <1>3. /\ \A f \in Files : \A i \in Chunks :
              <<f, i>> \in out' <=> <<f, i>> \in out \/ TruckOf(m, f, i)
        /\ \A k \in DOMAIN inbox' : inbox'[k] = m \/ (k \in DOMAIN inbox /\ inbox'[k] = inbox[k])
    BY <1>1, <1>2, DeliverIs
  <1>4. /\ \A k \in DOMAIN queue' :
              k + 1 \in DOMAIN queue /\ k + 1 # 1 /\ queue'[k] = queue[k + 1]
        /\ \A j, k \in DOMAIN queue' : j + 1 = k + 1 => j = k
    BY <1>1, TailQueueIs
  <1>5. OnItsWay' \subseteq OnItsWay
    <2>1. \A k \in DOMAIN queue' : Plain(queue'[k]) \in OnItsWay
      BY <1>4 DEF OnItsWay
    <2>2. \A k \in DOMAIN inbox' : inbox'[k] \in OnItsWay
      BY <1>2, <1>3 DEF OnItsWay
    <2>3. \A k \in DOMAIN reading' : reading'[k] \in OnItsWay
      BY <1>1 DEF OnItsWay
    <2>. QED  BY <2>1, <2>2, <2>3 DEF OnItsWay, Plain
  <1>6. NothingNew /\ OnlyFromWay /\ SameFiles
    BY <1>1, <1>2, <1>3, <1>5, RowsSame DEF NothingNew, OnlyFromWay
  <1>7. SplitInv' /\ UnseenInv' /\ CopyInv' /\ ReceivedInv'
    BY <1>1, <1>6, SplitKept, UnseenKept, CopyKept, ReceivedKept DEF Consistent
  <1>8. QueuedOnce'
    BY <1>4 DEF Consistent, QueuedOnce
  <1>9. \A f \in Files : Gone(f) \subseteq Gone(f)'
    BY <1>3, <1>4 DEF Gone
  <1>10. CASE marking' = 0
    BY <1>1, <1>7, <1>8, <1>9, <1>10, SentKept DEF Consistent
  <1>11. CASE marking' # 0
    <2>1. PICK f \in Files, i \in Chunks : f = marking' /\ TruckOf(m, f, i)
      BY <1>2, <1>11
    <2>2. i \notin Gone(f)
      BY <1>2, <2>1 DEF Gone
    <2>3. i \in Gone(f)'
      <3>1. \A k \in DOMAIN queue' : ~TruckOf(Plain(queue'[k]), f, i)
        BY <1>2, <1>4, <2>1 DEF Consistent, QueuedOnce
      <3>. QED  BY <1>3, <2>1, <3>1 DEF Gone
    <2>4. Cardinality(Gone(f)) + 1 <= Cardinality(Gone(f))'
      <3>1. PICK S, T : S = Gone(f) /\ T = Gone(f)'
        OBVIOUS
      <3>2. IsFiniteSet(T)
        <4>1. T \subseteq Chunks
          BY <3>1 DEF Gone
        <4>. QED  BY <4>1, ChunksAre, FS_Subset
      <3>3. S \cup {i} \subseteq T /\ i \notin S
        BY <1>9, <2>2, <2>3, <3>1
      <3>4. IsFiniteSet(S) /\ Cardinality(S) \in Nat
        BY <3>1, GoneIs
      <3>5. Cardinality(S \cup {i}) = Cardinality(S) + 1
        BY <3>3, <3>4, FS_AddElement
      <3>6. Cardinality(S \cup {i}) <= Cardinality(T)
        BY <3>2, <3>3, FS_Subset
      <3>. QED  BY <3>1, <3>5, <3>6
    <2>5. SentInv'
      <3>. SUFFICES ASSUME NEW g \in Files
                    PROVE  /\ row'["sender"][g].sent + (IF marking' = g THEN 1 ELSE 0)
                                  <= Cardinality(Gone(g))'
                           /\ row'["sender"][g].status = 1 => row'["sender"][g].sent >= Total
        BY DEF SentInv
      <3>1. row["sender"][g].sent \in Nat /\ g # 0
        BY ChunksAre DEF TypeOK, Sides, Rows
      <3>2. /\ row["sender"][g].sent + (IF marking = g THEN 1 ELSE 0)
                  <= Cardinality(Gone(g))
            /\ row["sender"][g].status = 1 => row["sender"][g].sent >= Total
        BY DEF Consistent, SentInv
      <3>3. /\ Cardinality(Gone(g)) \in Nat /\ Cardinality(Gone(g))' \in Nat
            /\ Cardinality(Gone(g)) <= Cardinality(Gone(g))'
        BY <1>9, GoneIs, GoneGrows
      <3>4. row["sender"][g].sent <= Cardinality(Gone(g)) /\ row' = row
        BY <1>1, <3>1, <3>2
      <3>. QED  BY <2>1, <2>4, <3>1, <3>2, <3>3, <3>4
    <2>. QED  BY <1>7, <1>8, <2>5 DEF Consistent
  <1>. QED  BY <1>10, <1>11

LEMMA PostponedQueueIs ==
    ASSUME TypeOK, queue # <<>>, NEW b \in 0 .. Len(queue) - 1, queue' = Postponed(b)
    PROVE  \E from \in [DOMAIN queue' -> DOMAIN queue] :
              /\ \A k \in DOMAIN queue' : queue'[k] = queue[from[k]]
              /\ \A j, k \in DOMAIN queue' : from[j] = from[k] => j = k
  <1>. DEFINE n == Len(queue)
              from == [k \in 1 .. n |-> IF k <= b THEN k + 1 ELSE IF k = b + 1 THEN 1 ELSE k]
  <1>1. queue \in Seq(Tasks) /\ n \in Nat \ {0} /\ DOMAIN queue = 1 .. n
    BY DEF TypeOK
  <1>2. /\ queue' \in Seq(Tasks) /\ Len(queue') = n
        /\ \A k \in 1 .. n :
              queue'[k] = queue[IF k <= b THEN k + 1 ELSE IF k = b + 1 THEN 1 ELSE k]
    BY <1>1, PostponedIs
  <1>3. DOMAIN queue' = 1 .. n
    BY <1>2
  <1>4. from \in [1 .. n -> 1 .. n] /\ \A j, k \in 1 .. n : from[j] = from[k] => j = k
    BY <1>1
  <1>5. \A k \in 1 .. n : queue'[k] = queue[from[k]]
    BY <1>2
  <1>. HIDE DEF n, from
  <1>6. /\ from \in [DOMAIN queue' -> DOMAIN queue]
        /\ \A k \in DOMAIN queue' : queue'[k] = queue[from[k]]
        /\ \A j, k \in DOMAIN queue' : from[j] = from[k] => j = k
    BY <1>1, <1>3, <1>4, <1>5
  <1>. QED  BY <1>6

\* Tried again: what left may leave once more.
LEMMA SendTaskFailsStep ==
    ASSUME TypeOK, Consistent, SendTaskFails
    PROVE  Consistent'
  <1>. DEFINE m == Plain(Head(queue))
  <1>1. /\ queue # <<>> /\ UNCHANGED <<split, marking, reading, row, chunk>>
        /\ UNCHANGED <<out, inbox>> \/ Deliver(m)
    BY DEF SendTaskFails
  <1>2. m \in Messages /\ m \in OnItsWay
    BY <1>1, HeadIs
  <1>. HIDE DEF m
  <1>3. PICK from \in [DOMAIN queue' -> DOMAIN queue] :
           /\ \A k \in DOMAIN queue' : queue'[k] = queue[from[k]]
           /\ \A j, k \in DOMAIN queue' : from[j] = from[k] => j = k
    BY <1>1, PostponedQueueIs DEF SendTaskFails
  <1>4. /\ \A f \in Files : \A i \in Chunks :
              <<f, i>> \in out' => <<f, i>> \in out \/ TruckOf(m, f, i)
        /\ \A f \in Files : \A i \in Chunks : <<f, i>> \in out => <<f, i>> \in out'
        /\ \A k \in DOMAIN inbox' : inbox'[k] = m \/ (k \in DOMAIN inbox /\ inbox'[k] = inbox[k])
    <2>1. CASE UNCHANGED <<out, inbox>>
      BY <2>1
    <2>2. CASE Deliver(m)
      BY <1>2, <2>2, DeliverIs
    <2>. QED  BY <1>1, <2>1, <2>2
  <1>5. OnItsWay' \subseteq OnItsWay
    <2>1. \A k \in DOMAIN queue' : Plain(queue'[k]) \in OnItsWay
      BY <1>3 DEF OnItsWay
    <2>2. \A k \in DOMAIN inbox' : inbox'[k] \in OnItsWay
      BY <1>2, <1>4 DEF OnItsWay
    <2>3. \A k \in DOMAIN reading' : reading'[k] \in OnItsWay
      BY <1>1 DEF OnItsWay
    <2>. QED  BY <2>1, <2>2, <2>3 DEF OnItsWay, Plain
  <1>6. NothingNew /\ OnlyFromWay /\ SameFiles
    BY <1>1, <1>2, <1>4, <1>5, RowsSame DEF NothingNew, OnlyFromWay
  <1>7. SplitInv' /\ UnseenInv' /\ CopyInv' /\ ReceivedInv'
    BY <1>1, <1>6, SplitKept, UnseenKept, CopyKept, ReceivedKept DEF Consistent
  <1>8. QueuedOnce'
    BY <1>3 DEF Consistent, QueuedOnce
  <1>9. \A f \in Files : Gone(f) \subseteq Gone(f)'
    BY <1>3, <1>4 DEF Gone
  <1>10. SentInv'
    BY <1>1, <1>9, SentKept DEF Consistent
  <1>. QED  BY <1>7, <1>8, <1>10 DEF Consistent

\* A chunk that has left for good is counted.
LEMMA MarkChunkSentStep ==
    ASSUME TypeOK, Apart, Consistent, MarkChunkSent
    PROVE  Consistent'
  <1>1. PICK f \in Files :
           /\ f = marking /\ marking' = 0
           /\ SetRow("sender", f, Marked(Row("sender", f)))
    BY DEF MarkChunkSent, TypeOK
  <1>2. UNCHANGED <<split, queue, out, inbox, reading, chunk>>
    BY DEF MarkChunkSent
  <1>. DEFINE r == row["sender"][f]
              n == Marked(r)
  <1>3. r \in Rows /\ n \in Rows /\ Row("sender", f) = r /\ "sender" \in Sides
    BY RowIs, MarkedType DEF Sides
  <1>4. \A s \in Sides, g \in Files :
           row'[s][g] = IF s = "sender" /\ g = f THEN n ELSE row[s][g]
    BY <1>1, <1>3, SetRowIs
  <1>5. /\ n.in = r.in /\ n.md5 = r.md5 /\ n.sent = r.sent + 1
        /\ n.status = IF r.sent + 1 >= Total THEN 1 ELSE r.status
    BY <1>3 DEF Marked, Rows
  <1>. HIDE DEF n
  <1>6. SameFiles /\ \A g \in Files : row'["receiver"][g] = row["receiver"][g]
    BY <1>4, <1>5 DEF SameFiles, Sides
  <1>7. NothingNew /\ OnlyFromWay /\ \A g \in Files : Gone(g)' = Gone(g)
    BY <1>2, WayUntouched
  <1>8. SplitInv' /\ UnseenInv' /\ CopyInv' /\ ReceivedInv'
    BY <1>2, <1>6, <1>7, SplitKept, UnseenKept, CopyKept, ReceivedKept DEF Consistent
  <1>9. QueuedOnce'
    BY <1>2 DEF Consistent, QueuedOnce
  <1>10. SentInv'
    <2>. SUFFICES ASSUME NEW g \in Files
                  PROVE  /\ row'["sender"][g].sent + (IF marking' = g THEN 1 ELSE 0)
                                <= Cardinality(Gone(g))
                         /\ row'["sender"][g].status = 1 => row'["sender"][g].sent >= Total
      BY <1>7 DEF SentInv
    <2>1. /\ row["sender"][g].sent + (IF marking = g THEN 1 ELSE 0) <= Cardinality(Gone(g))
          /\ row["sender"][g].status = 1 => row["sender"][g].sent >= Total
      BY DEF Consistent, SentInv
    <2>2. /\ row["sender"][g].sent \in Nat /\ Cardinality(Gone(g)) \in Nat /\ g # 0
          /\ row'["sender"][g] = IF g = f THEN n ELSE row["sender"][g]
      BY <1>4, GoneIs, ChunksAre DEF TypeOK, Sides, Rows
    <2>3. CASE g = f
      BY <1>1, <1>5, <2>1, <2>2, <2>3, TotalAssumption
    <2>4. CASE g # f
      BY <1>1, <2>1, <2>2, <2>4
    <2>. QED  BY <2>3, <2>4
  <1>. QED  BY <1>8, <1>9, <1>10 DEF Consistent
-----------------------------------------------------------------------------
(* The steps of reading *)

\* A mail is opened, or lost by a crash.
LEMMA OpenStep ==
    ASSUME TypeOK, Consistent, OpenNext \/ CrashReceiver
    PROVE  Consistent'
  <1>1. UNCHANGED <<split, queue, marking, out, row, chunk>>
    BY DEF OpenNext, CrashReceiver
  <1>2. OnItsWay' \subseteq OnItsWay
    <2>1. \A k \in DOMAIN queue' : Plain(queue'[k]) \in OnItsWay
      BY <1>1 DEF OnItsWay
    <2>2. CASE OpenNext
      <3>1. /\ \A k \in DOMAIN inbox' : inbox'[k] \in OnItsWay
            /\ \A k \in DOMAIN reading' : reading'[k] \in OnItsWay
        BY <2>2, OpenIs DEF OnItsWay
      <3>. QED  BY <2>1, <3>1 DEF OnItsWay, Plain
    <2>3. CASE CrashReceiver
      <3>1. inbox' = inbox /\ reading' = <<>>
        BY <2>3 DEF CrashReceiver
      <3>2. \A k \in DOMAIN inbox' : inbox'[k] \in OnItsWay
        BY <3>1 DEF OnItsWay
      <3>. QED  BY <2>1, <3>1, <3>2 DEF OnItsWay, Plain
    <2>. QED  BY <2>2, <2>3
  <1>3. NothingNew /\ OnlyFromWay /\ SameFiles
    BY <1>1, <1>2, RowsSame DEF NothingNew, OnlyFromWay
  <1>4. \A f \in Files : Gone(f) \subseteq Gone(f)'
    BY <1>1 DEF Gone
  <1>5. SplitInv' /\ UnseenInv' /\ CopyInv' /\ ReceivedInv' /\ SentInv'
    BY <1>1, <1>3, <1>4, SplitKept, UnseenKept, CopyKept, ReceivedKept, SentKept DEF Consistent
  <1>6. QueuedOnce'
    BY <1>1 DEF Consistent, QueuedOnce
  <1>. QED  BY <1>5, <1>6 DEF Consistent

LEMMA ReceiveFileStep ==
    ASSUME TypeOK, Apart, Consistent, ReceiveFile
    PROVE  Consistent'
  <1>. DEFINE f == Head(Mail.files)
              v == Mail.of[Head(Mail.files)]
  <1>1. /\ reading # <<>> /\ Mail.kind = "meta" /\ reading' = NextFile
        /\ Row("receiver", f).in => row' = row
        /\ ~Row("receiver", f).in => SetRow("receiver", f, NewRow(v))
        /\ UNCHANGED <<split, queue, marking, out, inbox, chunk>>
    BY DEF ReceiveFile
  <1>2. Mail \in OnItsWay /\ "receiver" \in Sides
    BY <1>1, SomeReading DEF Sides
  <1>3. f \in Files /\ 1 \in DOMAIN Mail.files /\ f = Mail.files[1] /\ v \in Nat
    BY <1>1, NextFileIs
  <1>4. \A k \in DOMAIN reading' :
           /\ reading'[k].kind = "meta" /\ reading'[k].of = Mail.of
           /\ \A j \in DOMAIN reading'[k].files :
                 \E l \in DOMAIN Mail.files : reading'[k].files[j] = Mail.files[l]
    BY <1>1, NextFileIs
  <1>5. row["sender"][f].in /\ row["sender"][f].md5 = v
    BY <1>1, <1>2, <1>3 DEF Consistent, CopyInv
  <1>6. Row("receiver", f) = row["receiver"][f]
    BY <1>2, <1>3, RowIs
  <1>. HIDE DEF f, v
  <1>7. /\ \A g \in Files : row'["sender"][g] = row["sender"][g]
        /\ \A g \in Files : \/ row'["receiver"][g] = row["receiver"][g]
                            \/ g = f /\ row'["receiver"][g] = NewRow(v)
        /\ row["receiver"][f].in => row'["receiver"][f] = row["receiver"][f]
    <2>1. CASE row["receiver"][f].in
      BY <1>1, <1>6, <2>1
    <2>2. CASE ~row["receiver"][f].in
      <3>1. \A s \in Sides, g \in Files :
               row'[s][g] = IF s = "receiver" /\ g = f THEN NewRow(v) ELSE row[s][g]
        BY <1>1, <1>2, <1>3, <1>6, <2>2, NewRowType, SetRowIs
      <3>. QED  BY <2>2, <3>1 DEF Sides
    <2>. QED  BY <2>1, <2>2
  <1>8. \A g \in Files : row["receiver"][g].in => row'["receiver"][g].in
    BY <1>7 DEF NewRow
  <1>9. SameFiles
    BY <1>7 DEF SameFiles
  <1>10. NothingNew
    <2>1. \A k \in DOMAIN Mail.files :
             /\ Mail.files[k] \in Files
             /\ row["sender"][Mail.files[k]].in
             /\ row["sender"][Mail.files[k]].md5 = Mail.of[Mail.files[k]]
      BY <1>1, <1>2, WayType DEF Consistent, CopyInv
    <2>2. \A k \in DOMAIN reading' : Harmless(reading'[k])
      BY <1>4, <2>1 DEF Harmless
    <2>3. \A k \in DOMAIN queue' : Plain(queue'[k]) \in OnItsWay
      BY <1>1 DEF OnItsWay
    <2>4. \A k \in DOMAIN inbox' : inbox'[k] \in OnItsWay
      BY <1>1 DEF OnItsWay
    <2>. QED  BY <2>2, <2>3, <2>4 DEF NothingNew, OnItsWay, Plain
  <1>11. OnlyFromWay /\ \A g \in Files : Gone(g) \subseteq Gone(g)'
    BY <1>1 DEF OnlyFromWay, Gone
  <1>12. SplitInv' /\ UnseenInv' /\ CopyInv' /\ SentInv'
    BY <1>1, <1>7, <1>8, <1>9, <1>10, <1>11, SplitKept, UnseenKept, CopyKept, SentKept
       DEF Consistent
  <1>13. ReceivedInv'
    BY <1>1, <1>5, <1>7 DEF Consistent, ReceivedInv, NewRow
  <1>14. QueuedOnce'
    BY <1>1 DEF Consistent, QueuedOnce
  <1>. QED  BY <1>12, <1>13, <1>14 DEF Consistent

\* A chunk stored once more is the same.
LEMMA ReceiveTruckStep ==
    ASSUME TypeOK, Apart, Consistent, ReceiveTruck
    PROVE  Consistent'
  <1>1. /\ reading # <<>> /\ Mail.kind = "truck" /\ Upsert(Mail.f, Mail.i, Mail.v)
        /\ \/ reading' = <<>>
           \/ /\ Row("receiver", Mail.f).in
              /\ reading' = <<[kind |-> "check", f |-> Mail.f]>>
        /\ UNCHANGED <<split, queue, marking, out, inbox, row>>
    BY DEF ReceiveTruck
  <1>2. PICK m \in Trucks : m = Mail /\ m \in OnItsWay
    BY <1>1, SomeReading
  <1>3. m.f \in Files /\ m.i \in Chunks /\ m.kind = "truck" /\ TruckOf(m, m.f, m.i)
    BY <1>2 DEF Trucks, TruckOf
  <1>4. \A f \in Files : \A i \in Chunks :
           chunk'[f][i] = IF f = m.f /\ i = m.i THEN [in |-> TRUE, v |-> m.v] ELSE chunk[f][i]
    BY <1>1, <1>2, <1>3 DEF Upsert, TypeOK
  <1>5. \A k \in DOMAIN reading' :
           /\ reading'[k].kind = "check" /\ reading'[k].f \in Files
           /\ row'["receiver"][reading'[k].f].in
    <2>1. Row("receiver", m.f) = row["receiver"][m.f]
      BY <1>3, RowIs DEF Sides
    <2>. QED  BY <1>1, <1>2, <1>3, <2>1
  <1>6. NothingNew
    <2>1. \A k \in DOMAIN reading' : Harmless(reading'[k])
      BY <1>5 DEF Harmless
    <2>2. \A k \in DOMAIN queue' : Plain(queue'[k]) \in OnItsWay
      BY <1>1 DEF OnItsWay
    <2>3. \A k \in DOMAIN inbox' : inbox'[k] \in OnItsWay
      BY <1>1 DEF OnItsWay
    <2>. QED  BY <2>1, <2>2, <2>3 DEF NothingNew, OnItsWay, Plain
  <1>7. OnlyFromWay /\ SameFiles /\ \A f \in Files : Gone(f) \subseteq Gone(f)'
    BY <1>1, <1>2, <1>3, <1>4, RowsSame DEF OnlyFromWay, Gone
  <1>8. SplitInv' /\ UnseenInv' /\ SentInv'
    BY <1>1, <1>6, <1>7, SplitKept, UnseenKept, SentKept DEF Consistent
  <1>9. CopyInv'
    <2>1. \A x \in OnItsWay' : x.kind = "truck" => x \in OnItsWay
      BY <1>6 DEF NothingNew, Harmless
    <2>2. \A x, y \in OnItsWay' :
             x.kind = "truck" /\ y.kind = "truck" /\ x.f = y.f /\ x.i = y.i => x.v = y.v
      BY <2>1 DEF Consistent, CopyInv
    <2>3. ASSUME NEW x \in OnItsWay', x.kind = "truck", chunk'[x.f][x.i].in
          PROVE  chunk'[x.f][x.i].v = x.v
      <3>1. x \in OnItsWay /\ x.f \in Files /\ x.i \in Chunks
        BY <2>1, <2>3, WayType
      <3>2. CASE x.f = m.f /\ x.i = m.i
        <4>1. chunk'[x.f][x.i].v = m.v
          BY <1>4, <3>1, <3>2
        <4>2. x.v = m.v
          BY <1>2, <1>3, <2>3, <3>1, <3>2 DEF Consistent, CopyInv
        <4>. QED  BY <4>1, <4>2
      <3>3. CASE ~(x.f = m.f /\ x.i = m.i)
        BY <1>4, <2>3, <3>1, <3>3 DEF Consistent, CopyInv
      <3>. QED  BY <3>2, <3>3
    <2>4. \A x \in OnItsWay' : x.kind = "meta" =>
             \A k \in DOMAIN x.files :
                 /\ row'["sender"][x.files[k]].in
                 /\ row'["sender"][x.files[k]].md5 = x.of[x.files[k]]
      BY <1>1, <1>6 DEF NothingNew, Harmless, Consistent, CopyInv
    <2>5. \A x \in OnItsWay' : x.kind = "check" => row'["receiver"][x.f].in
      BY <1>1, <1>6 DEF NothingNew, Harmless, Consistent, CopyInv
    <2>. QED  BY <2>2, <2>3, <2>4, <2>5 DEF CopyInv
  <1>10. ReceivedInv'
    <2>. SUFFICES ASSUME NEW f \in Files, row["receiver"][f].status = 1, NEW i \in Chunks
                  PROVE  chunk'[f][i].in /\ chunk'[f][i].v = row["receiver"][f].md5
      BY <1>1 DEF Consistent, ReceivedInv
    <2>1. chunk[f][i].in /\ chunk[f][i].v = row["receiver"][f].md5
      BY DEF Consistent, ReceivedInv
    <2>2. CASE f = m.f /\ i = m.i
      <3>1. chunk[f][i].v = m.v
        BY <1>2, <1>3, <2>1, <2>2 DEF Consistent, CopyInv
      <3>. QED  BY <1>4, <2>1, <2>2, <3>1
    <2>3. CASE ~(f = m.f /\ i = m.i)
      BY <1>4, <2>1, <2>3
    <2>. QED  BY <2>2, <2>3
  <1>11. QueuedOnce'
    BY <1>1 DEF Consistent, QueuedOnce
  <1>. QED  BY <1>8, <1>9, <1>10, <1>11 DEF Consistent

LEMMA AllChunks ==
    ASSUME NEW S, S \subseteq Chunks, Cardinality(S) >= Total
    PROVE  S = Chunks
  <1>1. Cardinality(S) \in Nat
    BY ChunksAre, FS_Subset, FS_CardinalityType
  <1>2. S \in SUBSET Chunks /\ IsFiniteSet(Chunks) /\ Cardinality(Chunks) = Total
    BY ChunksAre
  <1>3. Cardinality(S) <= Cardinality(Chunks) /\ (Cardinality(Chunks) = Cardinality(S) => Chunks = S)
    BY ONLY <1>2, FS_Subset
  <1>. QED  BY <1>1, <1>2, <1>3, TotalAssumption

LEMMA CompleteIs ==
    ASSUME NEW f, Complete(f)
    PROVE  \A i \in Chunks : chunk[f][i].in
  <1>1. Stored(f) \subseteq Chunks /\ Cardinality(Stored(f)) >= Total
    BY DEF Stored, Complete
  <1>2. Stored(f) = Chunks
    BY <1>1, AllChunks
  <1>. QED  BY <1>2 DEF Stored

\* The chunks of a file in the table are looked at once more.
LEMMA CheckedStep ==
    ASSUME TypeOK, Apart, Consistent, NEW f \in Files, row["receiver"][f].in,
           SetRow("receiver", f, Checked(Row("receiver", f), f)),
           UNCHANGED <<split, queue, marking, out, inbox, chunk>>,
           reading' \in {reading, <<>>}
    PROVE  Consistent'
  <1>. DEFINE r == row["receiver"][f]
              n == Checked(r, f)
  <1>1. r \in Rows /\ n \in Rows /\ Row("receiver", f) = r /\ "receiver" \in Sides
    BY RowIs, CheckedType DEF Sides
  <1>2. \A s \in Sides, g \in Files :
           row'[s][g] = IF s = "receiver" /\ g = f THEN n ELSE row[s][g]
    BY <1>1, SetRowIs
  <1>3. n.in = r.in /\ n.md5 = r.md5
    BY <1>1 DEF Checked, Rows
  <1>4. n.status = 1 => \A i \in Chunks : chunk[f][i].in /\ chunk[f][i].v = r.md5
    <2>1. CASE Complete(f)
      <3>1. n.status = 1 => Reassembled(f, r.md5)
        BY <1>1, <2>1 DEF Checked, Rows
      <3>. QED  BY <2>1, <3>1, CompleteIs DEF Reassembled, ChunksOf
    <2>2. CASE ~Complete(f)
      BY <2>2 DEF Checked, Consistent, ReceivedInv
    <2>. QED  BY <2>1, <2>2
  <1>. HIDE DEF n
  <1>5. /\ \A g \in Files : row'["sender"][g] = row["sender"][g]
        /\ \A g \in Files : row["receiver"][g].in => row'["receiver"][g].in
    BY <1>2, <1>3 DEF Sides
  <1>6. SameFiles
    BY <1>5 DEF SameFiles
  <1>7. NothingNew
    <2>1. \A k \in DOMAIN queue' : Plain(queue'[k]) \in OnItsWay
      BY DEF OnItsWay
    <2>2. \A k \in DOMAIN inbox' : inbox'[k] \in OnItsWay
      BY DEF OnItsWay
    <2>3. \A k \in DOMAIN reading' : reading'[k] \in OnItsWay
      BY DEF OnItsWay
    <2>. QED  BY <2>1, <2>2, <2>3 DEF NothingNew, OnItsWay, Plain
  <1>8. OnlyFromWay /\ \A g \in Files : Gone(g) \subseteq Gone(g)'
    BY DEF OnlyFromWay, Gone
  <1>9. SplitInv' /\ UnseenInv' /\ CopyInv' /\ SentInv'
    BY <1>5, <1>6, <1>7, <1>8, SplitKept, UnseenKept, CopyKept, SentKept DEF Consistent
  <1>10. ReceivedInv'
    <2>1. \A g \in Files : row'["receiver"][g] = IF g = f THEN n ELSE row["receiver"][g]
      BY <1>1, <1>2
    <2>. QED  BY <1>3, <1>4, <1>5, <2>1 DEF Consistent, ReceivedInv
  <1>11. QueuedOnce'
    BY DEF Consistent, QueuedOnce
  <1>. QED  BY <1>9, <1>10, <1>11 DEF Consistent

LEMMA CheckStep ==
    ASSUME TypeOK, Apart, Consistent, Check \/ Save
    PROVE  Consistent'
  <1>1. CASE Check
    <2>1. Mail \in OnItsWay /\ Mail \in Checks /\ Mail.kind = "check"
      BY <1>1, SomeReading DEF Check
    <2>2. Mail.f \in Files /\ row["receiver"][Mail.f].in
      BY <2>1 DEF Checks, Consistent, CopyInv
    <2>3. /\ SetRow("receiver", Mail.f, Checked(Row("receiver", Mail.f), Mail.f))
          /\ UNCHANGED <<split, queue, marking, out, inbox, chunk>> /\ reading' = <<>>
      BY <1>1 DEF Check
    <2>. QED  BY <2>2, <2>3, CheckedStep
  <1>2. CASE Save
    <2>1. PICK f \in Files :
             /\ Row("receiver", f).status = 1
             /\ SetRow("receiver", f, Checked(Row("receiver", f), f))
      BY <1>2 DEF Save
    <2>2. Row("receiver", f) = row["receiver"][f]
      BY RowIs DEF Sides
    <2>3. row["receiver"][f].in
      BY <2>1, <2>2 DEF Consistent, ReceivedInv
    <2>4. UNCHANGED <<split, queue, marking, out, inbox, reading, chunk>>
      BY <1>2 DEF Save
    <2>. QED  BY <2>1, <2>3, <2>4, CheckedStep
  <1>. QED  BY <1>1, <1>2
-----------------------------------------------------------------------------
(* The theorems *)

LEMMA NextConsistent ==
    ASSUME TypeOK, Apart, Consistent, [Next]_vars
    PROVE  Consistent'
  <1>1. CASE Next
    BY <1>1, NextIs, BeginSplitStep, PrepareStep, QueueMetaStep, NextChunkStep,
       SplitEndsStep, SendTaskStep, SendTaskFailsStep, MarkChunkSentStep, OpenStep,
       ReceiveFileStep, ReceiveTruckStep, CheckStep
  <1>2. CASE UNCHANGED vars
    <2>1. UNCHANGED <<split, queue, marking, out, inbox, reading, row, chunk>>
      BY <1>2 DEF vars
    <2>2. SplitInv' /\ UnseenInv' /\ CopyInv' /\ ReceivedInv' /\ SentInv'
      BY <2>1, RowsSame, WayUntouched, SplitKept, UnseenKept, CopyKept, ReceivedKept, SentKept
         DEF Consistent
    <2>3. QueuedOnce'
      BY <2>1 DEF Consistent, QueuedOnce
    <2>. QED  BY <2>2, <2>3 DEF Consistent
  <1>. QED  BY <1>1, <1>2

LEMMA ScenarioStays == [Next]_vars => scenario' = scenario
  BY NextIs DEF BeginSplit, Prepare, QueueMeta, GroupQueueMeta, NextChunk, SplitEnds,
         UserEdits, CrashSender, SendTask, SendTaskFails, MarkChunkSent, OpenNext, ReceiveFile,
         ReceiveTruck, Check, Save, CrashReceiver, vars

\* When either side has a database of its own: the split, what is on its way and
\* the two tables agree, whatever is lost, late, sent twice, edited or cut off
\* by a crash, and in whatever order.
THEOREM TransferInvariant == Spec => []TransferInv
  <1>1. Init => TransferInv
    BY InitConsistent DEF TransferInv
  <1>2. TypeOK /\ TransferInv /\ [Next]_vars => TransferInv'
    BY NextConsistent, ScenarioStays DEF TransferInv, Apart
  <1>. QED  BY <1>1, <1>2, TypeCorrect, PTL DEF Spec

\* What either side shows as done is whole: a file shown as received has every
\* chunk, as it was described, and of one shown as sent every chunk has left.
THEOREM DoneWhole == Spec => []DoneIsWhole
  <1>1. TypeOK /\ TransferInv => DoneIsWhole
    <2>. SUFFICES ASSUME TypeOK, Apart, Consistent PROVE ShownIsWhole /\ SentIsOut
      BY DEF TransferInv, DoneIsWhole, Without, Apart
    <2>1. \A f \in Files : /\ Row("receiver", f) = row["receiver"][f]
                           /\ Row("sender", f) = row["sender"][f]
      BY RowIs DEF Sides
    <2>2. ShownIsWhole
      BY <2>1 DEF ShownIsWhole, Consistent, ReceivedInv
    <2>3. SentIsOut
      <3>. SUFFICES ASSUME NEW f \in Files, row["sender"][f].sent >= Total
                    PROVE  \A i \in Chunks : <<f, i>> \in out
        BY <2>1 DEF SentIsOut, Progress, Table, Consistent, SentInv
      <3>1. row["sender"][f].sent + (IF marking = f THEN 1 ELSE 0) <= Cardinality(Gone(f))
        BY DEF Consistent, SentInv
      <3>2. row["sender"][f].sent \in Nat /\ Cardinality(Gone(f)) \in Nat
        BY GoneIs DEF TypeOK, Sides, Rows
      <3>3. Cardinality(Gone(f)) >= Total
        BY <3>1, <3>2, TotalAssumption
      <3>4. Gone(f) = Chunks
        BY <3>3, GoneIs, AllChunks
      <3>. QED  BY <3>4 DEF Gone
    <2>. QED  BY <2>2, <2>3
  <1>. QED  BY <1>1, TypeCorrect, TransferInvariant, PTL
=============================================================================
