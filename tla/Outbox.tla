------------------------------- MODULE Outbox -------------------------------
(***************************************************************************)
(* The queue of outgoing mail: table task (email/persistence/task_repo.cpp) *)
(* and email_task_process_pending (email/email_oemailim.cpp).              *)
(*                                                                         *)
(* Every account has a Send isolate that takes one task at a time.  The    *)
(* table, the log of sends and the back-offs are shared by them.  A task   *)
(* is deleted after the SMTP server has accepted its mail: the process may *)
(* die in between, and an answer of the server may be lost.  An account    *)
(* over its send budget hands a task to a mailman of the conversation.     *)
(*                                                                         *)
(* All tasks here are of one conversation, and the accounts other than its *)
(* owner are its mailmen: they have no group and no ratchet of their own   *)
(* in it.  A tick of the clock is a second; Minute shortens the 60 seconds *)
(* of the budget and of the first back-off alike.                          *)
(***************************************************************************)
EXTENDS Naturals, Sequences, SequencesExt, FiniteSets

CONSTANTS
    Owner,          \* the account of the conversation
    Mailmen,        \* its mailmen, in the order of their rotation
    Kinds,          \* kinds of tasks the owner queues
    Minute,         \* the window of the budget, in ticks (60 s)
    PerMinute,      \* RATE_PER_MIN (30)
    PoolBackoff,    \* POOL_EXHAUSTED_BACKOFF_SEC, in ticks (5)
    MaxRetries,     \* of markRetryable (3)
    MaxTasks,       \* bound: tasks queued
    MaxTime,        \* bound: the clock
    MaxCrashes      \* bound: restarts of the process

AllKinds == {"handshake", "update", "text", "group", "meta", "chunk"}
Account == {Owner} \cup ToSet(Mailmen)

ASSUME KindsAssumption == Kinds \subseteq AllKinds
ASSUME RateAssumption ==
    Minute \in Nat \ {0} /\ PerMinute \in Nat \ {0} /\ PoolBackoff \in Nat
ASSUME BoundsAssumption ==
    MaxRetries \in Nat /\ MaxTasks \in Nat /\ MaxTime \in Nat /\ MaxCrashes \in Nat

VARIABLES
    tasks,      \* tasks[id]: the rows of table task, deleted ones too
    sender,     \* sender[a]: the task a's isolate is sending, and how far it is
    log,        \* log[a]: s_sendLog, when a tried which task in the last minute
    backoff,    \* backoff[a]: s_backoffUntil
    accepted,   \* accepted[id]: the accounts the server took the mail from
    attempts,   \* attempts[id]: how often it was tried (history)
    now, crashes

memory == <<sender, log, backoff>>
history == <<accepted, attempts>>
vars == <<tasks, memory, history, now, crashes>>

Ids == DOMAIN tasks
Idle == [id |-> 0, at |-> "idle"]

Init ==
    /\ tasks = <<>>
    /\ sender = [a \in Account |-> Idle]
    /\ log = [a \in Account |-> {}]
    /\ backoff = [a \in Account |-> 0]
    /\ accepted = <<>>
    /\ attempts = <<>>
    /\ now = 0
    /\ crashes = 0
-----------------------------------------------------------------------------
\* TaskRepo::insert.
Insert(kind) ==
    /\ Len(tasks) < MaxTasks
    /\ tasks' = Append(tasks, [kind |-> kind, account |-> Owner,
                               status |-> "pending", retries |-> 0, due |-> 0])
    /\ accepted' = Append(accepted, {})
    /\ attempts' = Append(attempts, 0)
    /\ UNCHANGED <<memory, now, crashes>>

\* Plausible bug: the query forgets the account.
PendingOfAll(a) ==
    {i \in Ids : tasks[i].status = "pending" /\ tasks[i].due <= now}

\* queryPending: due tasks of the account, handshakes first, then the
\* announcements of files, then the rest, each in order.
Pending(a) ==
    {i \in Ids : /\ tasks[i].account = a /\ tasks[i].status = "pending"
                 /\ tasks[i].due <= now}

Rank(i) ==
    CASE tasks[i].kind = "handshake" -> 0
      [] tasks[i].kind = "meta" -> 1
      [] OTHER -> 2

Before(i, j) == Rank(i) < Rank(j) \/ (Rank(i) = Rank(j) /\ i <= j)

IsHead(a, i) == i \in Pending(a) /\ \A j \in Pending(a) : Before(i, j)

Recent(a, span) == {s \in log[a] : now - s.at <= span}

\* Plausible bug: an attempt too many.
RateOkOffByOne(a) ==
    Cardinality(Recent(a, Minute)) <= PerMinute /\ Recent(a, 0) = {}

\* At most PerMinute attempts in the last minute, and none in this second.
RateOk(a) == Cardinality(Recent(a, Minute)) < PerMinute /\ Recent(a, 0) = {}

\* The mailmen of a task: those of its session, or of the group the sending
\* account knows it by, which a mailman does not.
Pool(a, i) ==
    IF tasks[i].kind \in {"group", "update"} /\ a # Owner THEN <<>> ELSE Mailmen

NextMailman(a, i, m) ==
    \E k \in DOMAIN Pool(a, i) :
        /\ Pool(a, i)[k] = m /\ m # a /\ RateOk(m)
        /\ \A j \in 1 .. k - 1 : Pool(a, i)[j] = a \/ ~RateOk(Pool(a, i)[j])

\* reassignAccount and markFailed: the columns of the row they set.
Reassigned(i, m) == [tasks EXCEPT ![i].account = m]
Failed(i) == [tasks EXCEPT ![i].status = "failed"]

Turn(a, i) ==
    sender[a] = Idle /\ backoff[a] <= now /\ IsHead(a, i)

\* Over budget: the task goes to the first mailman who has some left.
HandOver(a, i) ==
    /\ Turn(a, i)
    /\ tasks[i].kind # "handshake" /\ ~RateOk(a)
    /\ \E m \in Account :
          NextMailman(a, i, m) /\ tasks' = Reassigned(i, m)
    /\ UNCHANGED <<memory, history, now, crashes>>


\* Nobody has any left: the account waits.
BackOff(a, i) ==
    /\ Turn(a, i)
    /\ tasks[i].kind # "handshake" /\ ~RateOk(a)
    /\ ~\E m \in Account : NextMailman(a, i, m)
    /\ backoff' = [backoff EXCEPT ![a] = now + PoolBackoff]
    /\ UNCHANGED <<tasks, sender, log, history, now, crashes>>

\* Files and group messages are sealed now, with the state of the sending
\* account; others go out as they are.
CanSeal(a, i) == tasks[i].kind \in {"meta", "chunk", "group"} => a = Owner

Allowed(a, i) == tasks[i].kind = "handshake" \/ RateOk(a)

SealFails(a, i) ==
    /\ Turn(a, i) /\ Allowed(a, i)
    /\ ~CanSeal(a, i)
    /\ tasks' = Failed(i)
    /\ UNCHANGED <<memory, history, now, crashes>>

\* Plausible bug: the row is deleted before the server has the mail.
BeginDeletes(a, i) ==
    /\ Turn(a, i) /\ Allowed(a, i)
    /\ CanSeal(a, i)
    /\ sender' = [sender EXCEPT ![a] = [id |-> i, at |-> "sending"]]
    /\ tasks' = [tasks EXCEPT ![i].status = "deleted"]
    /\ attempts' = [attempts EXCEPT ![i] = @ + 1]
    /\ UNCHANGED <<log, backoff, accepted, now, crashes>>

Begin(a, i) ==
    /\ Turn(a, i) /\ Allowed(a, i)
    /\ CanSeal(a, i)
    /\ sender' = [sender EXCEPT ![a] = [id |-> i, at |-> "sending"]]
    /\ attempts' = [attempts EXCEPT ![i] = @ + 1]
    /\ UNCHANGED <<tasks, log, backoff, accepted, now, crashes>>

\* The server takes the mail; whether SendEmail_c learns of it is another
\* matter.
Accept(a) ==
    /\ sender[a].at = "sending"
    /\ accepted' = [accepted EXCEPT ![sender[a].id] = @ \cup {a}]
    /\ \E answer \in {"sent", "error"} : sender' = [sender EXCEPT ![a].at = answer]
    /\ UNCHANGED <<tasks, log, backoff, attempts, now, crashes>>

Refuse(a) ==
    /\ sender[a].at = "sending"
    /\ \E answer \in {"error", "permanent"} :
          sender' = [sender EXCEPT ![a].at = answer]
    /\ UNCHANGED <<tasks, log, backoff, history, now, crashes>>

\* recordSend.  A task that was tried is not due in the same second again, so
\* that the log has an entry of its own for each attempt.
Record(a) ==
    /\ log' = [log EXCEPT ![a] =
                  Recent(a, Minute) \cup {[id |-> sender[a].id, at |-> now]}]
    /\ sender' = [sender EXCEPT ![a] = Idle]

\* deleteTask.
Sent(a) ==
    /\ sender[a].at = "sent"
    /\ tasks' = [tasks EXCEPT ![sender[a].id].status = "deleted"]
    /\ Record(a)
    /\ UNCHANGED <<backoff, history, now, crashes>>

SentFails(a) ==
    /\ sender[a].at = "permanent"
    /\ tasks' = Failed(sender[a].id)
    /\ Record(a)
    /\ UNCHANGED <<backoff, history, now, crashes>>

\* 60, 120, 240, 480, 960 seconds.
RetryAfter(retries) ==
    Minute * <<1, 2, 4, 8, 16>>[(IF retries < 4 THEN retries ELSE 4) + 1]

\* markRetryable.
Retry(a) ==
    LET t == tasks[sender[a].id]
    IN  /\ sender[a].at = "error"
        /\ tasks' = [tasks EXCEPT ![sender[a].id] =
              IF t.retries >= MaxRetries THEN [t EXCEPT !.status = "failed"]
              ELSE [t EXCEPT !.retries = @ + 1,
                             !.due = now + RetryAfter(t.retries)]]
        /\ Record(a)
        /\ UNCHANGED <<backoff, history, now, crashes>>

\* What a conversation's screen is told of a message that is not listed: of
\* the task the conversation's account has for it, if it has one.
HasTask(i) == tasks[i].account = Owner /\ tasks[i].status # "deleted"

TaskStatus(i) == IF HasTask(i) THEN tasks[i].status ELSE "none"

Tick ==
    /\ now < MaxTime
    /\ now' = now + 1
    /\ UNCHANGED <<tasks, memory, history, crashes>>

\* The process dies: the table stays, what its isolates knew is gone.
Restart ==
    /\ crashes < MaxCrashes /\ crashes' = crashes + 1
    /\ sender' = [a \in Account |-> Idle]
    /\ log' = [a \in Account |-> {}]
    /\ backoff' = [a \in Account |-> 0]
    /\ UNCHANGED <<tasks, history, now>>

Step(a) ==
    \/ \E i \in Ids : HandOver(a, i) \/ BackOff(a, i) \/ SealFails(a, i) \/ Begin(a, i)
    \/ Accept(a) \/ Refuse(a) \/ Sent(a) \/ SentFails(a) \/ Retry(a)

Next ==
    \/ \E kind \in Kinds : Insert(kind)
    \/ \E a \in Account : Step(a)
    \/ Tick \/ Restart

Spec == Init /\ [][Next]_vars
-----------------------------------------------------------------------------
(* Properties *)

Task == [kind : Kinds, account : Account,
         status : {"pending", "failed", "deleted"}, retries : Nat, due : Nat]
Attempt == [id : Nat, at : Nat]
Stage == {"sending", "sent", "error", "permanent"}

TypeOK ==
    /\ tasks \in Seq(Task)
    /\ sender \in [Account -> {Idle} \cup [id : Ids, at : Stage]]
    /\ log \in [Account -> SUBSET Attempt]
    /\ \A a \in Account : \A s \in log[a] : s.id \in Ids /\ s.at <= now
    /\ backoff \in [Account -> Nat]
    /\ accepted \in Seq(SUBSET Account) /\ Len(accepted) = Len(tasks)
    /\ attempts \in Seq(Nat) /\ Len(attempts) = Len(tasks)
    /\ now \in Nat /\ crashes \in Nat

\* No mail is lost: a task leaves the table only with its mail accepted by
\* the server, whatever crashes.
DeletedWasSent == \A i \in Ids : tasks[i].status = "deleted" => accepted[i] # {}

\* A task is with one sender at a time: what a Send isolate is working on is
\* pending and its own.
OneSender ==
    \A a \in Account : sender[a] # Idle =>
        tasks[sender[a].id].status = "pending" /\ tasks[sender[a].id].account = a

Normal(a, span) == {s \in Recent(a, span) : tasks[s.id].kind # "handshake"}

\* The budget the server is promised: no account makes more than PerMinute
\* normal attempts in a minute, nor two in a second, as far as the running
\* process knows.
RateKept ==
    \A a \in Account :
        /\ Cardinality(Normal(a, Minute)) <= PerMinute
        /\ Cardinality(Normal(a, 0)) <= 1

\* Handshake and control mail goes out from the owner, because the peer
\* answers to the From address.
ControlFromOwner ==
    \A i \in Ids : tasks[i].kind \in {"handshake", "update"} =>
        accepted[i] \subseteq {Owner}

\* A task fails only by what the server or the network did.
FailsByServerOnly ==
    \A i \in Ids : tasks[i].status = "failed" => attempts[i] > 0

\* The screen takes its bubble off "once the task failed permanently"
\* (email_module.dart:168): not so for a task that was handed over, which
\* the account of the conversation no longer has (Outbox.cfg).
FailureIsSeen ==
    \A i \in Ids : tasks[i].status = "failed" => TaskStatus(i) = "failed"
=============================================================================
