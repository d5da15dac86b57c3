---------------------------- MODULE Outbox_proofs ----------------------------
(***************************************************************************)
(* Proofs about the queue of outgoing mail, for any number of tasks,       *)
(* mailmen, restarts and seconds.                                          *)
(***************************************************************************)
EXTENDS Outbox, FiniteSetTheorems, TLAPS

\* What an isolate learned from the server is so: an answer "sent" is given
\* for mail that was taken.
AnswerIsTrue ==
    \A a \in Account : sender[a].at = "sent" => accepted[sender[a].id] # {}

\* While an isolate works on a normal task, there is room for its entry in the
\* log: nothing else writes it.
RoomInLog ==
    \A a \in Account :
        sender[a] # Idle /\ tasks[sender[a].id].kind # "handshake" =>
            Cardinality(Normal(a, Minute)) < PerMinute /\ Normal(a, 0) = {}

LogFinite == \A a \in Account : IsFiniteSet(log[a])

\* What is being sent was due, and what was tried is not due before the next
\* second.
TriedIsNotDue ==
    /\ \A a \in Account : sender[a] # Idle => tasks[sender[a].id].due <= now
    /\ \A a \in Account : \A s \in log[a] :
          tasks[s.id].status = "pending" => s.at < tasks[s.id].due

SendInv ==
    /\ TypeOK
    /\ OneSender
    /\ AnswerIsTrue /\ DeletedWasSent
    /\ LogFinite /\ RoomInLog /\ RateKept
    /\ TriedIsNotDue

\* Every attempt is counted: the entry an isolate makes in its log is new, so
\* that the budget is one of attempts and not of tasks.
AttemptsCounted ==
    [][\A a \in Account :
          sender[a] # Idle /\ Record(a) =>
              [id |-> sender[a].id, at |-> now] \notin log[a]]_vars
-----------------------------------------------------------------------------
(* Lemmas about rows and time *)

LEMMA RowEdited ==
    ASSUME NEW S, NEW q \in Seq(S), NEW i \in DOMAIN q, NEW e \in S
    PROVE  /\ [q EXCEPT ![i] = e] \in Seq(S)
           /\ Len([q EXCEPT ![i] = e]) = Len(q)
           /\ DOMAIN [q EXCEPT ![i] = e] = DOMAIN q
           /\ [q EXCEPT ![i] = e][i] = e
           /\ \A j \in DOMAIN q : j # i => [q EXCEPT ![i] = e][j] = q[j]
  OBVIOUS

LEMMA RowAdded ==
    ASSUME NEW S, NEW q \in Seq(S), NEW e \in S
    PROVE  /\ Append(q, e) \in Seq(S)
           /\ Len(Append(q, e)) = Len(q) + 1
           /\ DOMAIN q \subseteq DOMAIN Append(q, e)
           /\ DOMAIN Append(q, e) = DOMAIN q \cup {Len(q) + 1}
           /\ Append(q, e)[Len(q) + 1] = e
           /\ \A j \in DOMAIN q : Append(q, e)[j] = q[j]
  OBVIOUS

LEMMA IdsAreNat == tasks \in Seq(Task) => Ids = 1 .. Len(tasks) /\ Ids \subseteq Nat /\ 0 \notin Ids
  BY DEF Ids

LEMMA RetryLater ==
    ASSUME NEW k \in Nat
    PROVE  RetryAfter(k) \in Nat /\ RetryAfter(k) > 0
  BY RateAssumption DEF RetryAfter

LEMMA StageOfIdle == Idle.at \notin Stage /\ Idle.id = 0 /\ \A i, g : g \in Stage => [id |-> i, at |-> g] # Idle
  BY DEF Idle, Stage
-----------------------------------------------------------------------------
(* What each operation does to the rows of table task *)

\* The row an isolate works on is in the table.
LEMMA SendingId ==
    ASSUME TypeOK, NEW a \in Account, sender[a] # Idle
    PROVE  /\ sender[a] \in [id : Ids, at : Stage]
           /\ sender[a].id \in Ids /\ tasks[sender[a].id] \in Task
           /\ sender[a].at \in Stage
  BY DEF TypeOK, Ids

LEMMA PendingRow ==
    ASSUME TypeOK, NEW a \in Account, NEW i \in Ids, Turn(a, i)
    PROVE  /\ tasks[i] \in Task /\ i \in Nat /\ i # 0
           /\ tasks[i].account = a /\ tasks[i].status = "pending"
           /\ tasks[i].due <= now
           /\ sender[a] = Idle
  BY DEF Turn, IsHead, Pending, TypeOK, Ids

LEMMA DueLater ==
    ASSUME NEW t \in Task, NEW n \in Nat, NEW d \in Nat
    PROVE  [t EXCEPT !.retries = n, !.due = d] =
           [kind |-> t.kind, account |-> t.account, status |-> t.status,
            retries |-> n, due |-> d]
  <1>. DEFINE u == [t EXCEPT !.retries = n]
  <1>1. u = [kind |-> t.kind, account |-> t.account, status |-> t.status,
             retries |-> n, due |-> t.due]
    BY DEF Task
  <1>2. u \in Task
    BY <1>1 DEF Task
  <1>. HIDE DEF u
  <1>3. [u EXCEPT !.due = d] =
           [kind |-> u.kind, account |-> u.account, status |-> u.status,
            retries |-> u.retries, due |-> d]
    BY <1>2 DEF Task
  <1>. QED  BY <1>1, <1>3 DEF u

\* The rows after markRetryable.
LEMMA RetryRow ==
    ASSUME TypeOK, NEW a \in Account, Retry(a)
    PROVE  LET i == sender[a].id IN
           \E t \in Task :
              /\ tasks' = [tasks EXCEPT ![i] = t]
              /\ t.kind = tasks[i].kind /\ t.account = tasks[i].account
              /\ \/ t.status = "failed"
                 \/ t.status = tasks[i].status /\ t.due > now
              /\ t.status = "deleted" => tasks[i].status = "deleted"
  <1>. DEFINE i == sender[a].id
              t == tasks[i]
              u == [t EXCEPT !.status = "failed"]
              n == t.retries + 1
              d == now + RetryAfter(t.retries)
              v == [t EXCEPT !.retries = n, !.due = d]
  <1>1. sender[a] # Idle
    BY DEF Retry, Idle
  <1>2. i \in Ids /\ t \in Task
    BY <1>1, SendingId
  <1>3. RetryAfter(t.retries) \in Nat /\ RetryAfter(t.retries) > 0
    BY <1>2, RetryLater DEF Task
  <1>4. now \in Nat
    BY DEF TypeOK
  <1>5. u \in Task /\ u.kind = t.kind /\ u.account = t.account /\ u.status = "failed"
    BY <1>2 DEF Task
  <1>6. /\ v \in Task /\ v.kind = t.kind /\ v.account = t.account
        /\ v.status = t.status /\ v.due > now
    <2>1. n \in Nat /\ d \in Nat /\ d > now
      BY <1>2, <1>3, <1>4 DEF Task
    <2>. DEFINE w == [kind |-> t.kind, account |-> t.account,
                      status |-> t.status, retries |-> n, due |-> d]
    <2>2. w \in Task
      BY <1>2, <2>1 DEF Task
    <2>3. v = w
      BY <1>2, <2>1, DueLater, Zenon
    <2>4. w.kind = t.kind /\ w.account = t.account /\ w.status = t.status /\ w.due = d
      OBVIOUS
    <2>. HIDE DEF t, n, d, v, w
    <2>. QED  BY <2>1, <2>2, <2>3, <2>4
  <1>7. tasks' = [tasks EXCEPT ![i] = u] \/ tasks' = [tasks EXCEPT ![i] = v]
    BY DEF Retry
  <1>. HIDE DEF i, t, u, v
  <1>8. \E w \in Task :
            /\ tasks' = [tasks EXCEPT ![i] = w]
            /\ w.kind = t.kind /\ w.account = t.account
            /\ w.status = "failed" \/ (w.status = t.status /\ w.due > now)
            /\ w.status = "deleted" => t.status = "deleted"
    BY <1>5, <1>6, <1>7
  <1>. QED  BY <1>8 DEF i, t

\* What a handler does when it is done with a row: the row has its account and
\* kind, the log an entry more.
Finished(a, t) ==
    LET i == sender[a].id IN
    /\ sender[a] # Idle
    /\ t \in Task
    /\ t.kind = tasks[i].kind /\ t.account = tasks[i].account
    /\ t.status = "deleted" => tasks[i].status = "deleted" \/ sender[a].at = "sent"
    /\ t.status = "pending" => t.due > now
    /\ tasks' = [tasks EXCEPT ![i] = t]
    /\ Record(a)
    /\ UNCHANGED <<backoff, history, now, crashes>>

LEMMA FinishedBy ==
    ASSUME TypeOK, NEW a \in Account, Sent(a) \/ SentFails(a) \/ Retry(a)
    PROVE  \E t \in Task : Finished(a, t)
  <1>. DEFINE i == sender[a].id
  <1>1. sender[a] # Idle
    BY DEF Sent, SentFails, Retry, Idle
  <1>2. i \in Ids /\ tasks[i] \in Task
    BY <1>1, SendingId
  <1>3. CASE Sent(a)
    <2>. DEFINE t == [tasks[i] EXCEPT !.status = "deleted"]
    <2>1. /\ t \in Task /\ t.kind = tasks[i].kind
          /\ t.account = tasks[i].account /\ t.status = "deleted"
      BY <1>2 DEF Task
    <2>2. tasks' = [tasks EXCEPT ![i] = t]
      BY <1>3 DEF Sent
    <2>. HIDE DEF t
    <2>. QED  BY <1>1, <1>3, <2>1, <2>2 DEF Finished, Sent
  <1>4. CASE SentFails(a)
    <2>. DEFINE t == [tasks[i] EXCEPT !.status = "failed"]
    <2>1. /\ t \in Task /\ t.kind = tasks[i].kind
          /\ t.account = tasks[i].account /\ t.status = "failed"
      BY <1>2 DEF Task
    <2>2. tasks' = [tasks EXCEPT ![i] = t]
      BY <1>4 DEF SentFails, Failed
    <2>. HIDE DEF t
    <2>. QED  BY <1>1, <1>4, <2>1, <2>2 DEF Finished, SentFails
  <1>5. CASE Retry(a)
    <2>1. PICK t \in Task :
              /\ tasks' = [tasks EXCEPT ![i] = t]
              /\ t.kind = tasks[i].kind /\ t.account = tasks[i].account
              /\ \/ t.status = "failed"
                 \/ t.status = tasks[i].status /\ t.due > now
              /\ t.status = "deleted" => tasks[i].status = "deleted"
      BY <1>5, RetryRow
    <2>2. Record(a) /\ UNCHANGED <<backoff, history, now, crashes>>
      BY <1>5 DEF Retry
    <2>3. Finished(a, t)
      BY <1>1, <2>1, <2>2 DEF Finished
    <2>. QED  BY <2>3
  <1>. QED  BY <1>3, <1>4, <1>5

\* What a turn of the table's reader does to a row of its own: it goes to a
\* mailman, or fails.
Given(a, i, t) ==
    /\ Turn(a, i)
    /\ t \in Task /\ t.kind = tasks[i].kind /\ t.due = tasks[i].due
    /\ t.status \in {"pending", "failed"}
    /\ tasks' = [tasks EXCEPT ![i] = t]
    /\ UNCHANGED <<memory, history, now, crashes>>

LEMMA GivenBy ==
    ASSUME TypeOK, NEW a \in Account, NEW i \in Ids, HandOver(a, i) \/ SealFails(a, i)
    PROVE  \E t \in Task : Given(a, i, t)
  <1>1. Turn(a, i)
    BY DEF HandOver, SealFails
  <1>2. tasks[i] \in Task /\ tasks[i].status = "pending"
    BY <1>1, PendingRow
  <1>3. ASSUME NEW m \in Account, tasks' = Reassigned(i, m), HandOver(a, i)
        PROVE  \E t \in Task : Given(a, i, t)
    <2>. DEFINE t == [tasks[i] EXCEPT !.account = m]
    <2>1. /\ t \in Task /\ t.kind = tasks[i].kind /\ t.due = tasks[i].due
          /\ t.status = "pending"
      BY <1>2 DEF Task
    <2>2. tasks' = [tasks EXCEPT ![i] = t]
      BY <1>3 DEF Reassigned
    <2>. HIDE DEF t
    <2>3. Given(a, i, t)
      BY <1>1, <1>3, <2>1, <2>2 DEF Given, HandOver
    <2>. QED  BY <2>1, <2>3
  <1>4. CASE SealFails(a, i)
    <2>. DEFINE t == [tasks[i] EXCEPT !.status = "failed"]
    <2>1. /\ t \in Task /\ t.kind = tasks[i].kind /\ t.due = tasks[i].due
          /\ t.status = "failed"
      BY <1>2 DEF Task
    <2>2. tasks' = [tasks EXCEPT ![i] = t]
      BY <1>4 DEF SealFails, Failed
    <2>. HIDE DEF t
    <2>3. Given(a, i, t)
      BY <1>1, <1>4, <2>1, <2>2 DEF Given, SealFails
    <2>. QED  BY <2>1, <2>3
  <1>. QED  BY <1>3, <1>4 DEF HandOver

\* The server's answer, whatever it is.
Answered(a) == Accept(a) \/ Refuse(a)

LEMMA StepCases ==
    ASSUME TypeOK, [Next]_vars
    PROVE  \/ \E kind \in Kinds : Insert(kind)
           \/ \E a \in Account, i \in Ids :
                 BackOff(a, i) \/ Begin(a, i) \/ \E t \in Task : Given(a, i, t)
           \/ \E a \in Account : Answered(a) \/ \E t \in Task : Finished(a, t)
           \/ Tick \/ Restart \/ UNCHANGED vars
  BY FinishedBy, GivenBy DEF Next, Step, Answered

\* Accept and Refuse touch the sender, and Accept the history.
LEMMA AnswerIs ==
    ASSUME TypeOK, NEW a \in Account, Answered(a)
    PROVE  LET i == sender[a].id IN
           /\ sender[a] # Idle /\ i \in Ids
           /\ \E g \in Stage :
                 /\ sender' = [sender EXCEPT ![a] = [id |-> i, at |-> g]]
                 /\ \/ accepted' = [accepted EXCEPT ![i] = @ \cup {a}]
                    \/ g # "sent" /\ accepted' = accepted
           /\ UNCHANGED <<tasks, log, backoff, attempts, now, crashes>>
  <1>. DEFINE i == sender[a].id
  <1>1. sender[a] # Idle
    BY DEF Answered, Accept, Refuse, Idle
  <1>2. sender[a] \in [id : Ids, at : Stage] /\ i \in Ids
    BY <1>1, SendingId
  <1>3. \A g : [sender[a] EXCEPT !.at = g] = [id |-> i, at |-> g]
    BY <1>2
  <1>4. \A g : [sender EXCEPT ![a].at = g] = [sender EXCEPT ![a] = [id |-> i, at |-> g]]
    BY <1>3
  <1>5. CASE Accept(a)
    <2>1. PICK g \in {"sent", "error"} : sender' = [sender EXCEPT ![a].at = g]
      BY <1>5 DEF Accept
    <2>2. g \in Stage /\ sender' = [sender EXCEPT ![a] = [id |-> i, at |-> g]]
      BY <2>1, <1>4 DEF Stage
    <2>. QED  BY <1>1, <1>2, <1>5, <2>2 DEF Accept
  <1>6. CASE Refuse(a)
    <2>1. PICK g \in {"error", "permanent"} : sender' = [sender EXCEPT ![a].at = g]
      BY <1>6 DEF Refuse
    <2>2. g \in Stage /\ sender' = [sender EXCEPT ![a] = [id |-> i, at |-> g]]
      BY <2>1, <1>4 DEF Stage
    <2>. QED  BY <1>1, <1>2, <1>6, <2>1, <2>2 DEF Refuse, history
  <1>. QED  BY <1>5, <1>6 DEF Answered
-----------------------------------------------------------------------------
\* The shapes of the table, of the isolates' memory and of the history hold
\* whatever is queued, answered and restarted.
THEOREM TypeCorrect == Spec => []TypeOK
  <1>1. Init => TypeOK
    BY DEF Init, TypeOK, Ids
  <1>2. TypeOK /\ [Next]_vars => TypeOK'
    <2> SUFFICES ASSUME TypeOK, [Next]_vars
                 PROVE  TypeOK'
      OBVIOUS
    <2>. USE DEF TypeOK, Ids
    <2>1. ASSUME NEW kind \in Kinds, Insert(kind)
          PROVE  TypeOK'
      <3>. DEFINE t == [kind |-> kind, account |-> Owner, status |-> "pending",
                        retries |-> 0, due |-> 0]
      <3>1. t \in Task
        BY DEF Task, Account
      <3>2. /\ tasks' = Append(tasks, t) /\ accepted' = Append(accepted, {})
            /\ attempts' = Append(attempts, 0)
            /\ UNCHANGED <<memory, now, crashes>>
        BY <2>1 DEF Insert
      <3>. HIDE DEF t
      <3>3. tasks' \in Seq(Task) /\ DOMAIN tasks \subseteq DOMAIN tasks'
            /\ Len(tasks') = Len(tasks) + 1
        BY <3>1, <3>2, RowAdded
      <3>4. accepted' \in Seq(SUBSET Account) /\ Len(accepted') = Len(accepted) + 1
        BY <3>2, RowAdded
      <3>5. attempts' \in Seq(Nat) /\ Len(attempts') = Len(attempts) + 1
        BY <3>2, RowAdded
      <3>. QED  BY <3>2, <3>3, <3>4, <3>5 DEF memory
    <2>2. ASSUME NEW a \in Account, NEW i \in Ids, BackOff(a, i)
          PROVE  TypeOK'
      BY <2>2, RateAssumption DEF BackOff, history
    <2>3. ASSUME NEW a \in Account, NEW i \in Ids, Begin(a, i)
          PROVE  TypeOK'
      <3>1. /\ sender' = [sender EXCEPT ![a] = [id |-> i, at |-> "sending"]]
            /\ attempts' = [attempts EXCEPT ![i] = @ + 1]
            /\ UNCHANGED <<tasks, log, backoff, accepted, now, crashes>>
        BY <2>3 DEF Begin
      <3>2. attempts[i] + 1 \in Nat /\ i \in DOMAIN attempts
        OBVIOUS
      <3>3. attempts' \in Seq(Nat) /\ Len(attempts') = Len(attempts)
        BY <3>1, <3>2, RowEdited
      <3>. QED  BY <3>1, <3>3 DEF Stage
    <2>4. ASSUME NEW a \in Account, NEW i \in Ids, NEW t \in Task, Given(a, i, t)
          PROVE  TypeOK'
      <3>1. tasks' \in Seq(Task) /\ Len(tasks') = Len(tasks) /\ DOMAIN tasks' = DOMAIN tasks
        BY <2>4, RowEdited DEF Given
      <3>. QED  BY <2>4, <3>1 DEF Given, memory, history
    <2>5. ASSUME NEW a \in Account, Answered(a)
          PROVE  TypeOK'
      <3>. DEFINE i == sender[a].id
      <3>1. i \in Ids /\ UNCHANGED <<tasks, log, backoff, attempts, now, crashes>>
        BY <2>5, AnswerIs
      <3>2. PICK g \in Stage :
               /\ sender' = [sender EXCEPT ![a] = [id |-> i, at |-> g]]
               /\ \/ accepted' = [accepted EXCEPT ![i] = @ \cup {a}]
                  \/ g # "sent" /\ accepted' = accepted
        BY <2>5, AnswerIs, Zenon
      <3>3. accepted' \in Seq(SUBSET Account) /\ Len(accepted') = Len(accepted)
        <4>. DEFINE e == accepted[i] \cup {a}
        <4>1. e \in SUBSET Account /\ i \in DOMAIN accepted
          BY <3>1
        <4>2. accepted' = [accepted EXCEPT ![i] = e] \/ accepted' = accepted
          BY <3>2
        <4>3. [accepted EXCEPT ![i] = e] \in Seq(SUBSET Account)
              /\ Len([accepted EXCEPT ![i] = e]) = Len(accepted)
          <5>. HIDE DEF e, i
          <5>. QED  BY <4>1
        <4>. QED  BY <4>2, <4>3
      <3>. QED  BY <3>1, <3>2, <3>3
    <2>6. ASSUME NEW a \in Account, NEW t \in Task, Finished(a, t)
          PROVE  TypeOK'
      <3>. DEFINE i == sender[a].id
      <3>1. i \in Ids
        BY <2>6, SendingId DEF Finished
      <3>2. tasks' \in Seq(Task) /\ Len(tasks') = Len(tasks) /\ DOMAIN tasks' = DOMAIN tasks
        BY <2>6, <3>1, RowEdited DEF Finished
      <3>3. [id |-> i, at |-> now] \in Attempt /\ Recent(a, Minute) \subseteq log[a]
        BY <3>1 DEF Attempt, Recent
      <3>4. /\ log' = [log EXCEPT ![a] = Recent(a, Minute) \cup {[id |-> i, at |-> now]}]
            /\ sender' = [sender EXCEPT ![a] = Idle]
            /\ UNCHANGED <<backoff, history, now, crashes>>
        BY <2>6 DEF Finished, Record
      <3>. QED  BY <3>1, <3>2, <3>3, <3>4 DEF history
    <2>7. CASE Tick
      <3>1. now' = now + 1 /\ UNCHANGED <<tasks, memory, history, crashes>>
        BY <2>7 DEF Tick
      <3>2. \A b \in Account : \A s \in log[b] : s.at \in Nat /\ s.at <= now + 1
        BY DEF Attempt
      <3>. QED  BY <3>1, <3>2 DEF memory, history
    <2>8. CASE Restart
      BY <2>8 DEF Restart, history
    <2>9. CASE UNCHANGED vars
      BY <2>9 DEF vars, memory, history
    <2>. QED  BY <2>1, <2>2, <2>3, <2>4, <2>5, <2>6, <2>7, <2>8, <2>9, StepCases
  <1>. QED  BY <1>1, <1>2, PTL DEF Spec
-----------------------------------------------------------------------------
(* The inductive invariant *)

LEMMA InitSendInv == Init => SendInv
  <1> SUFFICES ASSUME Init PROVE SendInv
    OBVIOUS
  <1>1. TypeOK
    BY DEF Init, TypeOK, Ids
  <1>2. /\ Ids = {} /\ \A a \in Account : sender[a] = Idle /\ log[a] = {}
    BY DEF Init, Ids
  <1>3. \A a \in Account, span \in {0, Minute} : Normal(a, span) = {}
    BY <1>2 DEF Normal, Recent
  <1>4. LogFinite /\ RateKept /\ RoomInLog
    BY <1>2, <1>3, FS_EmptySet, RateAssumption DEF LogFinite, RateKept, RoomInLog
  <1>5. OneSender /\ AnswerIsTrue /\ DeletedWasSent /\ TriedIsNotDue
    BY <1>2, StageOfIdle DEF OneSender, AnswerIsTrue, DeletedWasSent, TriedIsNotDue, Idle
  <1>. QED  BY <1>1, <1>4, <1>5 DEF SendInv

\* Rows stay in the table, with their kind.
LEMMA KindsStay ==
    ASSUME TypeOK, [Next]_vars
    PROVE  \A i \in Ids : i \in Ids' /\ tasks'[i].kind = tasks[i].kind
  <1>1. ASSUME NEW kind \in Kinds, Insert(kind)
        PROVE  \A i \in Ids : i \in Ids' /\ tasks'[i].kind = tasks[i].kind
    BY <1>1 DEF Insert, Ids, TypeOK
  <1>2. ASSUME NEW a \in Account, NEW i \in Ids, NEW t \in Task, Given(a, i, t)
        PROVE  \A j \in Ids : j \in Ids' /\ tasks'[j].kind = tasks[j].kind
    BY <1>2 DEF Given, Ids, TypeOK
  <1>3. ASSUME NEW a \in Account, NEW t \in Task, Finished(a, t)
        PROVE  \A j \in Ids : j \in Ids' /\ tasks'[j].kind = tasks[j].kind
    BY <1>3 DEF Finished, Ids, TypeOK
  <1>4. ASSUME UNCHANGED tasks
        PROVE  \A j \in Ids : j \in Ids' /\ tasks'[j].kind = tasks[j].kind
    BY <1>4 DEF Ids
  <1>5. /\ \A a \in Account, i \in Ids : BackOff(a, i) \/ Begin(a, i) => UNCHANGED tasks
        /\ \A a \in Account : Answered(a) => UNCHANGED tasks
        /\ Tick \/ Restart \/ UNCHANGED vars => UNCHANGED tasks
    BY AnswerIs DEF BackOff, Begin, Tick, Restart, vars
  <1>. QED  BY <1>1, <1>2, <1>3, <1>4, <1>5, StepCases

\* What is sent, deleted and answered.
LEMMA RowsStep ==
    ASSUME SendInv, [Next]_vars
    PROVE  (OneSender /\ AnswerIsTrue /\ DeletedWasSent)'
  <1>. DEFINE RowsInv == OneSender /\ AnswerIsTrue /\ DeletedWasSent
  <1>0. TypeOK /\ RowsInv
    BY DEF SendInv
  <1>. USE DEF OneSender, AnswerIsTrue, DeletedWasSent
  <1>1. ASSUME NEW kind \in Kinds, Insert(kind)
        PROVE  RowsInv'
    <2>1. \A j \in Ids : j \in Ids' /\ tasks'[j] = tasks[j] /\ accepted'[j] = accepted[j]
      BY <1>0, <1>1 DEF Insert, Ids, TypeOK
    <2>2. \A j \in Ids' : j \in Ids \/ tasks'[j].status = "pending"
      BY <1>0, <1>1 DEF Insert, Ids, TypeOK
    <2>3. UNCHANGED sender
      BY <1>1 DEF Insert, memory
    <2>4. \A a \in Account : sender[a] = Idle \/ sender[a].id \in Ids
      BY <1>0, SendingId
    <2>5. Idle.at # "sent"
      BY DEF Idle
    <2>. QED  BY <1>0, <2>1, <2>2, <2>3, <2>4, <2>5
  <1>2. ASSUME NEW a \in Account, NEW i \in Ids, Begin(a, i)
        PROVE  RowsInv'
    <2>1. tasks[i].account = a /\ tasks[i].status = "pending"
      BY <1>0, <1>2, PendingRow DEF Begin
    <2>2. /\ sender' = [sender EXCEPT ![a] = [id |-> i, at |-> "sending"]]
          /\ UNCHANGED <<tasks, accepted>>
      BY <1>2 DEF Begin
    <2>. QED  BY <1>0, <2>1, <2>2 DEF TypeOK, Ids
  <1>3. ASSUME NEW a \in Account, NEW i \in Ids, NEW t \in Task, Given(a, i, t)
        PROVE  RowsInv'
    <2>1. tasks[i].account = a /\ sender[a] = Idle
      BY <1>0, <1>3, PendingRow DEF Given
    <2>2. /\ tasks' = [tasks EXCEPT ![i] = t] /\ t.status # "deleted"
          /\ UNCHANGED <<sender, accepted>>
      BY <1>3 DEF Given, memory, history
    <2>3. Ids' = Ids /\ tasks'[i] = t /\ \A j \in Ids : j # i => tasks'[j] = tasks[j]
      BY <1>0, <2>2 DEF Ids, TypeOK
    <2>4. \A b \in Account : sender[b] = Idle \/ (sender[b].id \in Ids /\ sender[b].id # i)
      BY <1>0, <2>1, SendingId
    <2>5. Idle.at # "sent"
      BY DEF Idle
    <2>. QED  BY <1>0, <2>2, <2>3, <2>4, <2>5
  <1>4. ASSUME NEW a \in Account, Answered(a)
        PROVE  RowsInv'
    <2>. DEFINE i == sender[a].id
    <2>1. sender[a] # Idle /\ i \in Ids /\ UNCHANGED tasks
      BY <1>0, <1>4, AnswerIs
    <2>2. PICK g \in Stage :
             /\ sender' = [sender EXCEPT ![a] = [id |-> i, at |-> g]]
             /\ \/ accepted' = [accepted EXCEPT ![i] = @ \cup {a}]
                \/ g # "sent" /\ accepted' = accepted
      BY <1>0, <1>4, AnswerIs, Zenon
    <2>3. /\ \A j \in Ids : accepted[j] \subseteq accepted'[j]
          /\ g = "sent" => accepted'[i] # {}
      <3>1. accepted \in Seq(SUBSET Account) /\ DOMAIN accepted = Ids
        BY <1>0 DEF TypeOK, Ids
      <3>. HIDE DEF i
      <3>2. CASE accepted' = [accepted EXCEPT ![i] = @ \cup {a}]
        BY <2>1, <3>1, <3>2
      <3>. QED  BY <2>2, <3>2
    <2>4. sender'[a] = [id |-> i, at |-> g] /\ \A b \in Account : b # a => sender'[b] = sender[b]
      BY <1>0, <2>2 DEF TypeOK
    <2>5. Ids' = Ids
      BY <2>1 DEF Ids
    <2>6. OneSender' /\ DeletedWasSent'
      BY <1>0, <2>1, <2>3, <2>4, <2>5
    <2>7. AnswerIsTrue'
      <3>1. \A b \in Account : sender[b].at = "sent" => sender[b].id \in Ids
        BY <1>0, SendingId DEF Idle
      <3>. QED  BY <1>0, <2>1, <2>3, <2>4, <3>1
    <2>. QED  BY <2>6, <2>7
  <1>5. ASSUME NEW a \in Account, NEW t \in Task, Finished(a, t)
        PROVE  RowsInv'
    <2>. DEFINE i == sender[a].id
    <2>1. sender[a] # Idle /\ i \in Ids /\ tasks[i].account = a /\ tasks[i].status = "pending"
      BY <1>0, <1>5, SendingId DEF Finished
    <2>2. /\ tasks' = [tasks EXCEPT ![i] = t] /\ UNCHANGED accepted
          /\ sender' = [sender EXCEPT ![a] = Idle]
          /\ t.status = "deleted" => sender[a].at = "sent"
      BY <1>5, <2>1 DEF Finished, Record, history
    <2>3. Ids' = Ids /\ tasks'[i] = t /\ \A j \in Ids : j # i => tasks'[j] = tasks[j]
      BY <1>0, <2>1, <2>2 DEF Ids, TypeOK
    <2>4. \A b \in Account :
             \/ sender'[b] = Idle
             \/ sender'[b] = sender[b] /\ sender[b].id \in Ids /\ sender[b].id # i
      BY <1>0, <2>1, <2>2, SendingId DEF TypeOK
    <2>5. Idle.at # "sent"
      BY DEF Idle
    <2>6. t.status = "deleted" => accepted[i] # {}
      BY <1>0, <2>2
    <2>. HIDE DEF i
    <2>7. ASSUME NEW b \in Account, sender'[b] = sender[b], sender[b].id \in Ids,
                 sender[b].id # i
          PROVE  tasks'[sender'[b].id] = tasks[sender[b].id]
                 /\ accepted'[sender'[b].id] = accepted[sender[b].id]
      BY <2>2, <2>3, <2>7
    <2>9. OneSender'
      BY <1>0, <2>4, <2>7
    <2>10. AnswerIsTrue'
      BY <1>0, <2>4, <2>5, <2>7
    <2>8. DeletedWasSent'
      BY <1>0, <2>2, <2>3, <2>6
    <2>. QED  BY <2>8, <2>9, <2>10
  <1>6. CASE Restart
    <2>1. UNCHANGED <<tasks, accepted>> /\ \A b \in Account : sender'[b] = Idle
      BY <1>6 DEF Restart, history
    <2>. QED  BY <1>0, <2>1 DEF Ids, Idle
  <1>7. ASSUME UNCHANGED <<tasks, sender, accepted>>
        PROVE  RowsInv'
    BY <1>0, <1>7 DEF Ids
  <1>8. /\ \A a \in Account, i \in Ids : BackOff(a, i) => UNCHANGED <<tasks, sender, accepted>>
        /\ Tick \/ UNCHANGED vars => UNCHANGED <<tasks, sender, accepted>>
    BY DEF BackOff, Tick, vars, memory, history
  <1>. QED  BY <1>0, <1>1, <1>2, <1>3, <1>4, <1>5, <1>6, <1>7, <1>8, StepCases

\* The log of an account that only ages.
LEMMA LogAges ==
    ASSUME SendInv, [Next]_vars, NEW a \in Account, log'[a] \subseteq log[a],
           NEW span \in Nat
    PROVE  /\ IsFiniteSet(log'[a])
           /\ Normal(a, span)' \subseteq Normal(a, span)
           /\ IsFiniteSet(Normal(a, span)) /\ IsFiniteSet(Normal(a, span)')
           /\ Cardinality(Normal(a, span)') <= Cardinality(Normal(a, span))
           /\ Cardinality(Normal(a, span)) \in Nat /\ Cardinality(Normal(a, span)') \in Nat
  <1>1. TypeOK /\ IsFiniteSet(log[a])
    BY DEF SendInv, LogFinite
  <1>2. now' \in Nat /\ now' >= now
    <2>1. now' = now \/ now' = now + 1
      BY <1>1, StepCases, AnswerIs
         DEF Insert, BackOff, Begin, Given, Finished, Tick, Restart, vars
    <2>. QED  BY <1>1, <2>1 DEF TypeOK
  <1>3. Normal(a, span)' \subseteq Normal(a, span)
    BY <1>1, <1>2, KindsStay DEF Normal, Recent, TypeOK, Attempt
  <1>4. Normal(a, span) \subseteq log[a]
    BY DEF Normal, Recent
  <1>5. IsFiniteSet(Normal(a, span)) /\ IsFiniteSet(log'[a])
    BY <1>1, <1>4, FS_Subset
  <1>. QED  BY <1>3, <1>5, FS_Subset, FS_CardinalityType

\* What is due, and what was tried.
LEMMA DueStep ==
    ASSUME SendInv, [Next]_vars
    PROVE  TriedIsNotDue'
  <1>0. TypeOK /\ OneSender /\ TriedIsNotDue
    BY DEF SendInv
  <1>. USE DEF TriedIsNotDue
  <1>1. ASSUME NEW kind \in Kinds, Insert(kind)
        PROVE  TriedIsNotDue'
    <2>1. \A j \in Ids : tasks'[j] = tasks[j]
      BY <1>0, <1>1 DEF Insert, Ids, TypeOK
    <2>2. UNCHANGED <<sender, log, now>>
      BY <1>1 DEF Insert, memory
    <2>3. /\ \A a \in Account : sender[a] = Idle \/ sender[a].id \in Ids
          /\ \A a \in Account : \A s \in log[a] : s.id \in Ids
      BY <1>0, SendingId DEF TypeOK
    <2>. QED  BY <1>0, <2>1, <2>2, <2>3
  <1>2. ASSUME NEW a \in Account, NEW i \in Ids, Begin(a, i)
        PROVE  TriedIsNotDue'
    <2>1. tasks[i].due <= now
      BY <1>0, <1>2, PendingRow DEF Begin
    <2>2. /\ sender' = [sender EXCEPT ![a] = [id |-> i, at |-> "sending"]]
          /\ UNCHANGED <<tasks, log, now>>
      BY <1>2 DEF Begin
    <2>. QED  BY <1>0, <2>1, <2>2 DEF TypeOK
  <1>3. ASSUME NEW a \in Account, NEW i \in Ids, NEW t \in Task, Given(a, i, t)
        PROVE  TriedIsNotDue'
    <2>1. tasks[i].status = "pending"
      BY <1>0, <1>3, PendingRow DEF Given
    <2>2. /\ tasks' = [tasks EXCEPT ![i] = t] /\ t.due = tasks[i].due
          /\ UNCHANGED <<sender, log, now>>
      BY <1>3 DEF Given, memory
    <2>3. \A j \in Ids : /\ tasks'[j].due = tasks[j].due
                         /\ tasks'[j].status = "pending" => tasks[j].status = "pending"
      BY <1>0, <2>1, <2>2 DEF Ids, TypeOK
    <2>4. /\ \A b \in Account : sender[b] = Idle \/ sender[b].id \in Ids
          /\ \A b \in Account : \A s \in log[b] : s.id \in Ids
      BY <1>0, SendingId DEF TypeOK
    <2>. QED  BY <1>0, <2>2, <2>3, <2>4
  <1>4. ASSUME NEW a \in Account, Answered(a)
        PROVE  TriedIsNotDue'
    <2>. DEFINE i == sender[a].id
    <2>1. sender[a] # Idle /\ UNCHANGED <<tasks, log, now>>
      BY <1>0, <1>4, AnswerIs
    <2>2. PICK g \in Stage : sender' = [sender EXCEPT ![a] = [id |-> i, at |-> g]]
      BY <1>0, <1>4, AnswerIs, Zenon
    <2>3. sender'[a] = [id |-> i, at |-> g] /\ \A b \in Account : b # a => sender'[b] = sender[b]
      BY <1>0, <2>2 DEF TypeOK
    <2>. QED  BY <1>0, <2>1, <2>3
  <1>5. ASSUME NEW a \in Account, NEW t \in Task, Finished(a, t)
        PROVE  TriedIsNotDue'
    <2>. DEFINE i == sender[a].id
                e == [id |-> i, at |-> now]
    <2>1. sender[a] # Idle /\ i \in Ids /\ tasks[i].account = a /\ tasks[i].status = "pending"
          /\ tasks[i].due <= now
      BY <1>0, <1>5, SendingId DEF Finished, OneSender
    <2>2. /\ tasks' = [tasks EXCEPT ![i] = t] /\ UNCHANGED now
          /\ sender' = [sender EXCEPT ![a] = Idle]
          /\ log' = [log EXCEPT ![a] = Recent(a, Minute) \cup {e}]
          /\ t.status = "pending" => t.due > now
      BY <1>5, <2>1 DEF Finished, Record
    <2>3. tasks'[i] = t /\ \A j \in Ids : j # i => tasks'[j] = tasks[j]
      BY <1>0, <2>1, <2>2 DEF Ids, TypeOK
    <2>4. ASSUME NEW b \in Account, sender'[b] # Idle
          PROVE  tasks'[sender'[b].id].due <= now'
      <3>1. b # a /\ sender'[b] = sender[b]
        BY <1>0, <2>2, <2>4 DEF TypeOK
      <3>2. sender[b].id \in Ids /\ sender[b].id # i
        BY <1>0, <2>1, <2>4, <3>1, SendingId DEF OneSender
      <3>. QED  BY <1>0, <2>2, <2>3, <2>4, <3>1, <3>2
    <2>5. ASSUME NEW b \in Account, NEW s \in log'[b], tasks'[s.id].status = "pending"
          PROVE  s.at < tasks'[s.id].due
      <3>1. s \in log[b] \/ s = e
        BY <1>0, <2>2, <2>5 DEF TypeOK, Recent
      <3>2. CASE s = e
        BY <1>0, <2>2, <2>3, <2>5, <3>2 DEF TypeOK
      <3>3. CASE s \in log[b]
        <4>1. s.id \in Ids /\ s.at \in Nat /\ s.at <= now
          BY <1>0, <3>3 DEF TypeOK, Attempt
        <4>2. CASE s.id = i
          BY <1>0, <2>2, <2>3, <2>5, <4>1, <4>2 DEF TypeOK, Task
        <4>3. CASE s.id # i
          BY <1>0, <2>3, <2>5, <3>3, <4>1, <4>3
        <4>. QED  BY <4>2, <4>3
      <3>. QED  BY <3>1, <3>2, <3>3
    <2>. QED  BY <2>4, <2>5
  <1>6. CASE Tick
    <2>1. UNCHANGED <<tasks, sender, log>> /\ now' = now + 1
      BY <1>6 DEF Tick, memory
    <2>2. ASSUME NEW a \in Account, sender[a] # Idle
          PROVE  tasks[sender[a].id].due <= now + 1
      BY <1>0, <2>2, SendingId DEF TypeOK, Task
    <2>. QED  BY <1>0, <2>1, <2>2
  <1>7. CASE Restart
    BY <1>7 DEF Restart
  <1>8. ASSUME UNCHANGED <<tasks, sender, log, now>>
        PROVE  TriedIsNotDue'
    BY <1>0, <1>8
  <1>9. /\ \A a \in Account, i \in Ids :
              BackOff(a, i) => UNCHANGED <<tasks, sender, log, now>>
        /\ UNCHANGED vars => UNCHANGED <<tasks, sender, log, now>>
    BY DEF BackOff, vars, memory, history
  <1>. QED  BY <1>0, <1>1, <1>2, <1>3, <1>4, <1>5, <1>6, <1>7, <1>8, <1>9, StepCases

\* An account whose log is not written keeps what RateInv says of it.
RateOf(a) ==
    /\ IsFiniteSet(log[a])
    /\ sender[a] # Idle /\ tasks[sender[a].id].kind # "handshake" =>
          Cardinality(Normal(a, Minute)) < PerMinute /\ Normal(a, 0) = {}
    /\ Cardinality(Normal(a, Minute)) <= PerMinute
    /\ Cardinality(Normal(a, 0)) <= 1

LEMMA RateOfSendInv ==
    /\ SendInv => \A a \in Account : RateOf(a)
    /\ (\A a \in Account : RateOf(a)) <=> LogFinite /\ RoomInLog /\ RateKept
  BY DEF SendInv, RateOf, LogFinite, RoomInLog, RateKept

LEMMA RateAges ==
    ASSUME SendInv, [Next]_vars, NEW a \in Account, log'[a] \subseteq log[a],
           \/ sender'[a] = Idle
           \/ sender[a] # Idle /\ sender'[a].id = sender[a].id
    PROVE  RateOf(a)'
  <1>1. TypeOK /\ RateOf(a)
    BY RateOfSendInv DEF SendInv
  <1>2. Minute \in Nat /\ 0 \in Nat /\ PerMinute \in Nat
    BY RateAssumption
  <1>3. /\ IsFiniteSet(log'[a])
        /\ Normal(a, 0)' \subseteq Normal(a, 0)
        /\ Cardinality(Normal(a, 0)') <= Cardinality(Normal(a, 0))
        /\ Cardinality(Normal(a, 0)) \in Nat /\ Cardinality(Normal(a, 0)') \in Nat
    BY <1>2, LogAges
  <1>4. /\ Cardinality(Normal(a, Minute)') <= Cardinality(Normal(a, Minute))
        /\ Cardinality(Normal(a, Minute)) \in Nat /\ Cardinality(Normal(a, Minute)') \in Nat
    BY <1>2, LogAges
  <1>5. ASSUME sender'[a] # Idle, tasks'[sender'[a].id].kind # "handshake"
        PROVE  Cardinality(Normal(a, Minute)') < PerMinute /\ Normal(a, 0)' = {}
    <2>1. sender[a] # Idle /\ sender'[a].id = sender[a].id /\ sender[a].id \in Ids
      BY <1>1, <1>5, SendingId
    <2>2. tasks[sender[a].id].kind # "handshake"
      BY <1>1, <1>5, <2>1, KindsStay
    <2>3. Cardinality(Normal(a, Minute)) < PerMinute /\ Normal(a, 0) = {}
      BY <1>1, <2>1, <2>2 DEF RateOf
    <2>. QED  BY <1>2, <1>3, <1>4, <2>3
  <1>6. /\ Cardinality(Normal(a, Minute)') <= PerMinute
        /\ Cardinality(Normal(a, 0)') <= 1
    BY <1>1, <1>2, <1>3, <1>4 DEF RateOf
  <1>. QED  BY <1>3, <1>5, <1>6 DEF RateOf

\* The budget, where an attempt begins and where it is entered in the log.
LEMMA RateBegins ==
    ASSUME SendInv, NEW a \in Account, NEW i \in Ids, Begin(a, i)
    PROVE  RateOf(a)'
  <1>1. TypeOK /\ RateOf(a)
    BY RateOfSendInv DEF SendInv
  <1>2. /\ sender'[a] = [id |-> i, at |-> "sending"]
        /\ UNCHANGED <<tasks, log, now>>
        /\ tasks[i].kind = "handshake" \/ RateOk(a)
    BY <1>1 DEF Begin, Allowed, TypeOK
  <1>3. \A span : Normal(a, span)' = Normal(a, span)
    BY <1>2 DEF Normal, Recent
  <1>4. ASSUME RateOk(a)
        PROVE  Cardinality(Normal(a, Minute)) < PerMinute /\ Normal(a, 0) = {}
    <2>1. Cardinality(Recent(a, Minute)) < PerMinute /\ Recent(a, 0) = {}
      BY <1>4 DEF RateOk
    <2>2. /\ Normal(a, Minute) \subseteq Recent(a, Minute)
          /\ Normal(a, 0) \subseteq Recent(a, 0)
          /\ Recent(a, Minute) \subseteq log[a]
      BY DEF Normal, Recent
    <2>3. IsFiniteSet(Recent(a, Minute)) /\ IsFiniteSet(Normal(a, Minute))
      BY <1>1, <2>2, FS_Subset DEF RateOf
    <2>4. /\ Cardinality(Normal(a, Minute)) <= Cardinality(Recent(a, Minute))
          /\ Cardinality(Normal(a, Minute)) \in Nat
          /\ Cardinality(Recent(a, Minute)) \in Nat
      BY <2>2, <2>3, FS_Subset, FS_CardinalityType
    <2>. QED  BY <2>1, <2>2, <2>4, RateAssumption
  <1>. QED  BY <1>1, <1>2, <1>3, <1>4 DEF RateOf

LEMMA OneMore ==
    ASSUME NEW S, IsFiniteSet(S), NEW x
    PROVE  /\ IsFiniteSet(S \cup {x})
           /\ Cardinality(S) \in Nat /\ Cardinality(S \cup {x}) \in Nat
           /\ Cardinality(S \cup {x}) <= Cardinality(S) + 1
  <1>1. IsFiniteSet(S \cup {x}) /\ Cardinality(S) \in Nat
    BY FS_AddElement, FS_CardinalityType
  <1>2. Cardinality(S \cup {x}) = IF x \in S THEN Cardinality(S) ELSE Cardinality(S) + 1
    BY FS_AddElement
  <1>. QED  BY <1>1, <1>2

LEMMA RateEntered ==
    ASSUME SendInv, [Next]_vars, NEW a \in Account, NEW t \in Task, Finished(a, t)
    PROVE  RateOf(a)'
  <1>. DEFINE i == sender[a].id
              e == [id |-> i, at |-> now]
              was(span) == Normal(a, span)
  <1>1. TypeOK /\ RateOf(a) /\ sender[a] # Idle /\ i \in Ids
    BY RateOfSendInv, SendingId DEF SendInv, Finished
  <1>2. /\ log'[a] = Recent(a, Minute) \cup {e} /\ sender'[a] = Idle /\ now' = now
        /\ tasks'[i].kind = tasks[i].kind
    BY <1>1, KindsStay DEF Finished, Record, TypeOK
  <1>3. \A s \in log[a] : tasks'[s.id].kind = tasks[s.id].kind
    BY <1>1, KindsStay DEF TypeOK
  <1>4. ASSUME NEW span \in Nat
        PROVE  /\ Normal(a, span)' \subseteq was(span) \cup {e}
               /\ tasks[i].kind = "handshake" => Normal(a, span)' \subseteq was(span)
    BY <1>1, <1>2, <1>3 DEF Normal, Recent
  <1>5. Minute \in Nat /\ 0 \in Nat /\ PerMinute \in Nat \ {0}
    BY RateAssumption
  <1>6. ASSUME NEW span \in Nat
        PROVE  /\ IsFiniteSet(was(span)) /\ Cardinality(was(span)) \in Nat
               /\ IsFiniteSet(was(span) \cup {e})
               /\ Cardinality(was(span) \cup {e}) \in Nat
               /\ Cardinality(was(span) \cup {e}) <= Cardinality(was(span)) + 1
    <2>1. was(span) \subseteq log[a]
      BY DEF Normal, Recent
    <2>2. IsFiniteSet(was(span)) /\ Cardinality(was(span)) \in Nat
      BY <1>1, <2>1, FS_Subset, FS_CardinalityType DEF RateOf
    <2>. QED  BY <2>2, OneMore
  <1>7. ASSUME NEW span \in Nat
        PROVE  /\ Cardinality(Normal(a, span)') \in Nat
               /\ Cardinality(Normal(a, span)') <= Cardinality(was(span)) + 1
               /\ tasks[i].kind = "handshake" =>
                     Cardinality(Normal(a, span)') <= Cardinality(was(span))
    <2>. DEFINE N == Normal(a, span)'
    <2>1. IsFiniteSet(N) /\ Cardinality(N) <= Cardinality(was(span) \cup {e})
      BY <1>4, <1>6, FS_Subset
    <2>2. tasks[i].kind = "handshake" => Cardinality(N) <= Cardinality(was(span))
      BY <1>4, <1>6, FS_Subset
    <2>3. Cardinality(N) \in Nat
      BY <2>1, FS_CardinalityType
    <2>. HIDE DEF N, was, e
    <2>. QED  BY <1>6, <2>1, <2>2, <2>3 DEF N
  <1>8. IsFiniteSet(log'[a])
    <2>1. IsFiniteSet(Recent(a, Minute))
      BY <1>1, FS_Subset DEF RateOf, Recent
    <2>. QED  BY <1>2, <2>1, FS_AddElement
  <1>9. /\ Cardinality(Normal(a, Minute)') <= PerMinute
        /\ Cardinality(Normal(a, 0)') <= 1
    <2>1. Cardinality(was(Minute)) <= PerMinute /\ Cardinality(was(0)) <= 1
      BY <1>1 DEF RateOf
    <2>2. tasks[i].kind # "handshake" =>
             Cardinality(was(Minute)) < PerMinute /\ Cardinality(was(0)) = 0
      BY <1>1, FS_EmptySet DEF RateOf
    <2>3. /\ Cardinality(was(Minute)) \in Nat /\ Cardinality(was(0)) \in Nat
          /\ Cardinality(Normal(a, Minute)') \in Nat /\ Cardinality(Normal(a, 0)') \in Nat
      BY <1>5, <1>6, <1>7
    <2>4. CASE tasks[i].kind = "handshake"
      <3>1. /\ Cardinality(Normal(a, Minute)') <= Cardinality(was(Minute))
            /\ Cardinality(Normal(a, 0)') <= Cardinality(was(0))
        BY <1>5, <1>7, <2>4
      <3>. QED  BY <1>5, <2>1, <2>3, <3>1
    <2>5. CASE tasks[i].kind # "handshake"
      <3>1. /\ Cardinality(Normal(a, Minute)') <= Cardinality(was(Minute)) + 1
            /\ Cardinality(Normal(a, 0)') <= Cardinality(was(0)) + 1
        BY <1>5, <1>7
      <3>. QED  BY <1>5, <2>2, <2>3, <2>5, <3>1
    <2>. QED  BY <2>4, <2>5
  <1>. QED  BY <1>2, <1>8, <1>9 DEF RateOf

LEMMA RateStep ==
    ASSUME SendInv, [Next]_vars
    PROVE  (LogFinite /\ RoomInLog /\ RateKept)'
  <1>0. TypeOK
    BY DEF SendInv
  <1> SUFFICES ASSUME NEW b \in Account
               PROVE  RateOf(b)'
    BY DEF RateOf, LogFinite, RoomInLog, RateKept
  <1>1. ASSUME log'[b] \subseteq log[b],
               sender'[b] = Idle \/ (sender[b] # Idle /\ sender'[b].id = sender[b].id)
        PROVE  RateOf(b)'
    BY <1>1, RateAges
  <1>2. ASSUME log'[b] = log[b], sender'[b] = sender[b]
        PROVE  RateOf(b)'
    BY <1>1, <1>2
  <1>3. ASSUME NEW kind \in Kinds, Insert(kind)
        PROVE  RateOf(b)'
    BY <1>2, <1>3 DEF Insert, memory
  <1>4. ASSUME NEW a \in Account, NEW i \in Ids, BackOff(a, i)
        PROVE  RateOf(b)'
    BY <1>2, <1>4 DEF BackOff
  <1>5. ASSUME NEW a \in Account, NEW i \in Ids, Begin(a, i)
        PROVE  RateOf(b)'
    <2>1. CASE a = b
      BY <1>5, <2>1, RateBegins
    <2>2. CASE a # b
      BY <1>0, <1>2, <1>5, <2>2 DEF Begin, TypeOK
    <2>. QED  BY <2>1, <2>2
  <1>6. ASSUME NEW a \in Account, NEW i \in Ids, NEW t \in Task, Given(a, i, t)
        PROVE  RateOf(b)'
    BY <1>2, <1>6 DEF Given, memory
  <1>7. ASSUME NEW a \in Account, Answered(a)
        PROVE  RateOf(b)'
    <2>1. sender[a] # Idle /\ UNCHANGED log
      BY <1>0, <1>7, AnswerIs
    <2>2. PICK g \in Stage : sender' = [sender EXCEPT ![a] = [id |-> sender[a].id, at |-> g]]
      BY <1>0, <1>7, AnswerIs, Zenon
    <2>3. sender'[b] = sender[b] \/ (b = a /\ sender'[b].id = sender[b].id)
      BY <1>0, <2>2 DEF TypeOK
    <2>. QED  BY <1>1, <1>2, <2>1, <2>3
  <1>8. ASSUME NEW a \in Account, NEW t \in Task, Finished(a, t)
        PROVE  RateOf(b)'
    <2>1. CASE a = b
      BY <1>8, <2>1, RateEntered
    <2>2. CASE a # b
      BY <1>0, <1>2, <1>8, <2>2 DEF Finished, Record, TypeOK
    <2>. QED  BY <2>1, <2>2
  <1>9. CASE Tick \/ UNCHANGED vars
    BY <1>2, <1>9 DEF Tick, vars, memory
  <1>10. CASE Restart
    BY <1>1, <1>10 DEF Restart
  <1>. QED  BY <1>0, <1>3, <1>4, <1>5, <1>6, <1>7, <1>8, <1>9, <1>10, StepCases
-----------------------------------------------------------------------------
(* Theorems *)

\* The inductive invariant of the queue and its senders: whose a row is while
\* it is sent, what the server has of it, and what room the log has for it.
THEOREM SendInvariant == Spec => []SendInv
  <1>1. SendInv /\ TypeOK' /\ [Next]_vars => SendInv'
    BY RowsStep, RateStep, DueStep DEF SendInv
  <1>. QED  BY <1>1, InitSendInv, TypeCorrect, PTL DEF Spec

\* However tasks are handed over, retried and restarted, two isolates never
\* work on one task, and what is worked on is pending.
THEOREM OnlyOneSender == Spec => []OneSender
  <1>1. SendInv => OneSender
    BY DEF SendInv
  <1>. QED  BY <1>1, SendInvariant, PTL

\* A task that left the table was taken by the server, whatever crashed.
THEOREM NoneDeletedUnsent == Spec => []DeletedWasSent
  <1>1. SendInv => DeletedWasSent
    BY DEF SendInv
  <1>. QED  BY <1>1, SendInvariant, PTL

\* No account exceeds the budget of normal attempts in a minute and in a
\* second, although the budget is looked at before the send and entered in
\* the log after it.
THEOREM BudgetKept == Spec => []RateKept
  <1>1. SendInv => RateKept
    BY DEF SendInv
  <1>. QED  BY <1>1, SendInvariant, PTL

\* Every attempt has an entry of its own in the log: the budget counts
\* attempts, also those of one task.
THEOREM EveryAttemptCounts == Spec => AttemptsCounted
  <1>1. ASSUME SendInv, [Next]_vars, NEW a \in Account, Record(a), sender[a] # Idle
        PROVE  [id |-> sender[a].id, at |-> now] \notin log[a]
    <2>. DEFINE i == sender[a].id
    <2>1. i \in Ids /\ tasks[i] \in Task /\ now \in Nat
      BY <1>1, SendingId DEF SendInv, TypeOK
    <2>2. tasks[i].status = "pending" /\ tasks[i].due <= now
      BY <1>1 DEF SendInv, OneSender, TriedIsNotDue
    <2>3. ~(now < tasks[i].due)
      BY <2>1, <2>2 DEF Task
    <2>4. \A s \in log[a] : tasks[s.id].status = "pending" => s.at < tasks[s.id].due
      BY <1>1 DEF SendInv, TriedIsNotDue
    <2>. QED  BY <2>2, <2>3, <2>4
  <1>2. SendInv /\ [Next]_vars =>
           [\A a \in Account : sender[a] # Idle /\ Record(a) =>
              [id |-> sender[a].id, at |-> now] \notin log[a]]_vars
    BY <1>1
  <1>. QED  BY <1>2, SendInvariant, PTL DEF Spec, AttemptsCounted
=============================================================================
