------------------------------ MODULE MlsGroup ------------------------------
(***************************************************************************)
(* A group conversation: email/signal/group_c_api.cpp over the MLS state   *)
(* of email/signal/mls_group.cpp, with the mails 2.0.0 to 2.0.6 between    *)
(* the owner and the members.                                              *)
(*                                                                         *)
(* The owner is the only committer.  Mail arrives in any order; a handler  *)
(* that answers "retry later" leaves its mail pending, which is no step    *)
(* here (the 200 retries an MLS mail has are taken as enough).  Every      *)
(* handler of a member is one action.  The owner works in two threads, the *)
(* UI isolate and the Download isolate, and its calls are split where the  *)
(* other thread or a crash can get between two calls of mls::, each of     *)
(* which is atomic under g_mutex.                                          *)
(*                                                                         *)
(* Not modelled: identity keys never change, so every binding verifies     *)
(* (a change makes a handler wait); the group's and the unified session's  *)
(* member lists are one roster; a mail equal to one still under way is one *)
(* mail; OpenMLS and the mail server, which keep their promises.           *)
(***************************************************************************)
EXTENDS Naturals, FiniteSets

CONSTANTS
    Owner,          \* the account that creates the group
    Member,         \* the accounts it may invite
    PersistFails,   \* can saving the MLS state fail?  (the result is ignored)
    Limits          \* the bounds of the behaviours looked at

Account == {Owner} \cup Member
Nobody == "nobody"

ASSUME OwnerAssumption == Owner \notin Member /\ Nobody \notin Account
ASSUME MemberAssumption == IsFiniteSet(Member)
ASSUME PersistAssumption == PersistFails \in BOOLEAN
\* A behaviour is bounded by the accounts the owner may invite, the changes of
\* the roster after the creation, the messages sent, the restarts, whether the
\* calls of the owner's two threads overlap, and whether it invites again an
\* account it has removed.
ASSUME LimitsAssumption ==
    \A l \in Limits :
        /\ l.members \subseteq Member
        /\ l.calls \in Nat /\ l.sends \in Nat /\ l.crashes \in Nat
        /\ l.overlap \in BOOLEAN /\ l.reinvites \in BOOLEAN

VARIABLES
    row,        \* row[a]: a's group_session row and the status of its session
    mls,        \* mls[a]: the group in the memory of a's process
    saved,      \* saved[a]: the same in table mls_state
    past,       \* past[a]: the states whose message secrets a holds
    mail,       \* mails not yet handled by their recipient
    outbox,     \* application messages queued and not yet sealed
    ui, dl,     \* the owner's call in progress in each thread
    commits,    \* commits made so far; numbers the group's states
    calls,      \* changes of the roster so far
    sends,      \* messages sent so far
    crashes,    \* restarts so far
    lost,       \* application mails given up unread (history)
    dropped,    \* accounts the owner has removed (history)
    reinvited,  \* accounts it has invited again after that (history)
    crossed,    \* accounts added while it was removing one (history)
    limit       \* the bounds of this behaviour

group == <<row, mls, saved, past>>
life == <<crashes, limit>>
meetings == <<reinvited, crossed>>
bounds == <<calls, sends, life, dropped, meetings>>
vars == <<group, mail, outbox, ui, dl, commits, bounds, lost>>

\* A state of the group: pending are the proposals stored for its next commit.
NoGroup == [epoch |-> 0, id |-> 0, tree |-> {}, pending |-> {}]
Founded == [epoch |-> 0, id |-> 1, tree |-> {Owner}, pending |-> {}]

\* A row of group_session: an account that has none is in no conversation.
NoRow == [status |-> "none", members |-> {}, mls |-> FALSE]
NewRow(members) == [status |-> "active", members |-> members, mls |-> FALSE]
Known(a) == row[a] # NoRow

Roster(a) == row[a].members
WithMembers(r, members) == [r EXCEPT !.members = members]
WithMember(r, m) == WithMembers(r, r.members \cup {m})
WithoutMember(r, m) == WithMembers(r, r.members \ {m})
Closed(r) == [r EXCEPT !.status = "removed"]

\* A row tells which group of the state it is of, once that is known.
SetMlsGroupId(r) == [r EXCEPT !.mls = TRUE]
GetMlsGroupId(a) == row[a].mls

Ready(a) == GetMlsGroupId(a) /\ mls[a] # NoGroup
MemberEmails(a) == IF GetMlsGroupId(a) THEN mls[a].tree ELSE {}
Joined == MemberEmails(Owner)

Idle == [at |-> "idle"]
OtherIsIdle(thread) == limit.overlap \/ thread = Idle
Calls == calls < limit.calls /\ calls' = calls + 1
Sends == sends < limit.sends /\ sends' = sends + 1

\* A group of three or more is invited; two accounts talk over the ratchet.
Init ==
    \E l \in Limits :
    \E invited \in {s \in SUBSET l.members : Cardinality(s) >= 2} :
        /\ limit = l
        /\ row = [a \in Account |->
                     IF a = Owner THEN SetMlsGroupId(NewRow({Owner} \cup invited))
                     ELSE NoRow]
        /\ mls = [a \in Account |-> IF a = Owner THEN Founded ELSE NoGroup]
        /\ saved = mls
        /\ past = [a \in Account |-> IF a = Owner THEN {1} ELSE {}]
        /\ mail = {[kind |-> "invite", to |-> m,
                    members |-> {Owner} \cup invited] : m \in invited}
        /\ outbox = {} /\ ui = Idle /\ dl = Idle
        /\ commits = 1 /\ calls = 0 /\ sends = 0 /\ crashes = 0
        /\ lost = {} /\ dropped = {} /\ reinvited = {} /\ crossed = {}
-----------------------------------------------------------------------------
(* mls:: *)

\* The row of table mls_state after a save, which may fail.
SaveState(old, new) == {new} \cup IF PersistFails THEN {old} ELSE {}
LoadState(a) == saved[a]

\* Every operation saves the whole state; nobody looks at the result.
Advance(a, state) ==
    /\ mls' = [mls EXCEPT ![a] = state]
    /\ past' = [past EXCEPT ![a] = @ \cup {state.id}]
    /\ \E kept \in SaveState(saved[a], state) : saved' = [saved EXCEPT ![a] = kept]

\* A commit of the owner covers the proposals stored, but for the update of a
\* leaf it removes; the owner is in the new state at once.
CommitTo(tree, removed) ==
    [pre |-> mls[Owner].id,
     props |-> {p \in mls[Owner].pending : p.from \in tree},
     post |-> [epoch |-> mls[Owner].epoch + 1, id |-> commits + 1,
               tree |-> tree, pending |-> {}],
     removed |-> removed]

AddMembers(keyPackage) == CommitTo(Joined \cup {keyPackage.from}, Nobody)
RemoveMemberByEmail(m) == CommitTo(Joined \ {m}, m)
SelfUpdate == CommitTo(Joined, Nobody)
CommitPending(p) == [SelfUpdate EXCEPT !.props = @ \cup {p}]

\* Plausible bug: the commit is never merged by its committer.
CommitUnmerged(c) == UNCHANGED <<mls, saved, past>> /\ commits' = commits + 1

Commit(c) == Advance(Owner, c.post) /\ commits' = commits + 1

\* An account enters at the state its Welcome carries, and follows a commit
\* made in its own state whose proposals it has.
JoinGroup(a, welcome) ==
    Advance(a, welcome.post) /\ row' = [row EXCEPT ![a] = SetMlsGroupId(@)]
Applies(m, c) == mls[m].id = c.pre /\ c.props \subseteq mls[m].pending
StoreProposal(a, p) == Advance(a, [mls[a] EXCEPT !.pending = @ \cup {p}])

GenerateKeyPackage(a) == [kind |-> "key_package", to |-> Owner, from |-> a]
ProposeSelfUpdate(a) == [from |-> a, at |-> mls[a].id, n |-> sends']

\* Sealed with the present state, and open to who has been in that state.
Encrypt(a, task) ==
    {[kind |-> "app", to |-> m, from |-> a, at |-> mls[a].id, n |-> task.n] :
     m \in task.to}
Decrypt(a, e) == e.at \in past[a]

CommitMails(c, to) ==
    {[kind |-> "commit", to |-> m, commit |-> c] : m \in to \ {Owner}}
-----------------------------------------------------------------------------
(* The owner's user: UnifiedSessionManager addMembers and removeMember *)

UpdateMails(to, removed, members) ==
    {[kind |-> "member_update", to |-> m, removed |-> removed,
      members |-> members] : m \in to \ {Owner}}

\* The account the other thread is adding.
Adding == IF dl.at \in {"add", "added"} THEN {dl.mail.from} ELSE {}
Removing == ui.at \in {"evict", "evicted", "drop"}

\* group_invite_members.
InviteMember(m) ==
    LET before == Roster(Owner)
    IN  /\ ui = Idle /\ OtherIsIdle(dl)
        /\ Calls
        /\ m \notin before
        /\ limit.reinvites \/ m \notin dropped
        /\ reinvited' = reinvited \cup ({m} \cap dropped)
        /\ row' = [row EXCEPT ![Owner] = WithMember(@, m)]
        /\ mail' = mail \cup {[kind |-> "invite", to |-> m,
                               members |-> before \cup {m}]}
                        \cup UpdateMails(before, {}, before \cup {m})
        /\ UNCHANGED <<mls, saved, past, outbox, ui, dl, commits, sends, life,
                       dropped, crossed, lost>>

\* removeMember looks whether the member has joined, and chooses its way.
RemoveMember(m) ==
    /\ ui = Idle /\ OtherIsIdle(dl)
    /\ Calls
    /\ m \in Roster(Owner)
    /\ \/ m \in Joined
          /\ ui' = [at |-> "evict", who |-> m, before |-> Joined]
       \/ m \notin Joined /\ Cardinality(Roster(Owner)) > 2
          /\ ui' = [at |-> "drop", who |-> m]
    /\ crossed' = crossed \cup Adding
    /\ UNCHANGED <<group, mail, outbox, dl, commits, sends, life, dropped,
                   reinvited, lost>>

\* group_remove_member: the commit, then the mails and the roster.
Evict ==
    LET c == RemoveMemberByEmail(ui.who)
    IN  /\ ui.at = "evict"
        /\ Commit(c)
        /\ ui' = [at |-> "evicted", who |-> ui.who, commit |-> c,
                  to |-> ui.before]
        /\ UNCHANGED <<row, mail, outbox, dl, bounds, lost>>

Evicted ==
    /\ ui.at = "evicted"
    /\ mail' = mail \cup CommitMails(ui.commit, ui.to)
    /\ row' = [row EXCEPT ![Owner] = WithoutMember(@, ui.who)]
    /\ dropped' = dropped \cup {ui.who}
    /\ ui' = Idle
    /\ UNCHANGED <<mls, saved, past, outbox, dl, commits, calls, sends, life,
                   meetings, lost>>

\* Plausible bug: the roster with the member dropped is not written.
DropUnwritten ==
    LET members == Roster(Owner) \ {ui.who}
    IN  /\ ui.at = "drop"
        /\ mail' = mail \cup UpdateMails(members \cup {ui.who}, {ui.who}, members)
        /\ dropped' = dropped \cup {ui.who}
        /\ ui' = Idle
        /\ UNCHANGED <<group, outbox, dl, commits, calls, sends, life,
                   meetings, lost>>

\* group_broadcast_member_update: a member who has not joined.
Drop ==
    LET members == Roster(Owner) \ {ui.who}
    IN  /\ ui.at = "drop"
        /\ row' = [row EXCEPT ![Owner] = WithMembers(@, members)]
        /\ mail' = mail \cup UpdateMails(members \cup {ui.who}, {ui.who}, members)
        /\ dropped' = dropped \cup {ui.who}
        /\ ui' = Idle
        /\ UNCHANGED <<mls, saved, past, outbox, dl, commits, calls, sends, life,
                       meetings, lost>>
-----------------------------------------------------------------------------
(* group_send_message *)

\* The recipients are those in the tree when the message is queued; the task
\* queue seals it with the state at the time it is sent.
Queue(a) ==
    LET to == MemberEmails(a) \ {a}
    IN  outbox' = IF to = {} THEN outbox
                  ELSE outbox \cup {[from |-> a, to |-> to, n |-> sends']}

CanSend(a) == a \in MemberEmails(a) /\ row[a].status = "active"

SendMessage(a) ==
    /\ CanSend(a)
    /\ a = Owner => ui = Idle /\ OtherIsIdle(dl)
    /\ Sends
    /\ Queue(a)
    /\ UNCHANGED <<group, mail, ui, dl, commits, calls, life, dropped,
                   meetings, lost>>

\* maybeRefreshLeaf, once in 24 hours, of a member: an update proposal.
SendAndPropose(a) ==
    LET p == ProposeSelfUpdate(a)
    IN  /\ a # Owner /\ CanSend(a)
        /\ Sends
        /\ StoreProposal(a, p)
        /\ mail' = mail \cup {[kind |-> "proposal", to |-> m, proposal |-> p] :
                              m \in MemberEmails(a) \ {a}}
        /\ Queue(a)
        /\ UNCHANGED <<row, ui, dl, commits, calls, life, dropped,
                   meetings, lost>>

\* The same of the owner: a commit, queued for those then in the tree.
SendAndRefresh ==
    LET c == SelfUpdate
    IN  /\ CanSend(Owner) /\ ui = Idle /\ OtherIsIdle(dl)
        /\ Sends
        /\ Commit(c)
        /\ ui' = [at |-> "refreshed", commit |-> c]
        /\ UNCHANGED <<row, mail, outbox, dl, calls, life, dropped, meetings, lost>>

Refreshed ==
    /\ ui.at = "refreshed"
    /\ mail' = mail \cup CommitMails(ui.commit, Joined)
    /\ sends' = sends
    /\ Queue(Owner)
    /\ ui' = Idle
    /\ UNCHANGED <<group, dl, commits, calls, life, dropped,
                   meetings, lost>>

\* group_prepare_outgoing, from the task queue; an evicted account seals
\* nothing, and its task fails.
Seal(task) ==
    /\ task \in outbox
    /\ outbox' = outbox \ {task}
    /\ mail' = IF task.from \in MemberEmails(task.from)
               THEN mail \cup Encrypt(task.from, task) ELSE mail
    /\ UNCHANGED <<group, ui, dl, commits, bounds, lost>>
-----------------------------------------------------------------------------
(* The owner's Download thread: group_handle_incoming *)

\* Plausible bug: the roster is not looked at.
OnKeyPackageOfAnyone(e) ==
    /\ e.kind = "key_package"
    /\ dl = Idle /\ OtherIsIdle(ui)
    /\ IF e.from \notin Joined
       THEN /\ dl' = [at |-> "add", mail |-> e] /\ UNCHANGED mail
            /\ crossed' = IF Removing THEN crossed \cup {e.from} ELSE crossed
       ELSE mail' = mail \ {e} /\ UNCHANGED <<dl, crossed>>
    /\ UNCHANGED <<group, outbox, ui, commits, calls, sends, life, dropped,
                   reinvited, lost>>

\* onKeyPackage: only an account on the roster and not in the tree is added.
OnKeyPackage(e) ==
    /\ e.kind = "key_package"
    /\ dl = Idle /\ OtherIsIdle(ui)
    /\ IF e.from \in Roster(Owner) \ Joined
       THEN /\ dl' = [at |-> "add", mail |-> e] /\ UNCHANGED mail
            /\ crossed' = IF Removing THEN crossed \cup {e.from} ELSE crossed
       ELSE mail' = mail \ {e} /\ UNCHANGED <<dl, crossed>>
    /\ UNCHANGED <<group, outbox, ui, commits, calls, sends, life, dropped,
                   reinvited, lost>>

AddMember ==
    LET c == AddMembers(dl.mail)
    IN  /\ dl.at = "add"
        /\ Commit(c)
        /\ dl' = [at |-> "added", mail |-> dl.mail, commit |-> c, to |-> Joined]
        /\ UNCHANGED <<row, mail, outbox, ui, bounds, lost>>

\* Plausible bug: the other members are not told of the addition.
AddedQuietly ==
    /\ dl.at = "added"
    /\ mail' = (mail \ {dl.mail})
               \cup {[kind |-> "welcome", to |-> dl.mail.from,
                      post |-> dl.commit.post]}
    /\ dl' = Idle
    /\ UNCHANGED <<group, outbox, ui, commits, bounds, lost>>

Added ==
    /\ dl.at = "added"
    /\ mail' = (mail \ {dl.mail})
               \cup {[kind |-> "welcome", to |-> dl.mail.from,
                      post |-> dl.commit.post]}
               \cup CommitMails(dl.commit, dl.to)
    /\ dl' = Idle
    /\ UNCHANGED <<group, outbox, ui, commits, bounds, lost>>

\* onHandshake with a proposal of the owner's epoch: it commits at once.
OnProposalOfMember(e) ==
    LET c == CommitPending(e.proposal)
    IN  /\ e.kind = "proposal" /\ e.to = Owner
        /\ dl = Idle /\ OtherIsIdle(ui)
        /\ e.proposal.at = mls[Owner].id
        /\ Commit(c)
        /\ dl' = [at |-> "committed", mail |-> e, commit |-> c]
        /\ UNCHANGED <<row, mail, outbox, ui, bounds, lost>>

Committed ==
    /\ dl.at = "committed"
    /\ mail' = (mail \ {dl.mail}) \cup CommitMails(dl.commit, Joined)
    /\ dl' = Idle
    /\ UNCHANGED <<group, outbox, ui, commits, bounds, lost>>
-----------------------------------------------------------------------------
(* A member's Download thread: group_handle_incoming *)

Handled(e) == mail' = mail \ {e}
Others == <<outbox, ui, dl, commits, bounds, lost>>

\* onInvite answers with a KeyPackage, but once in the life of the group.
OnInvite(e) ==
    /\ e.kind = "invite"
    /\ IF Known(e.to)
       THEN Handled(e) /\ UNCHANGED row
       ELSE /\ row' = [row EXCEPT ![e.to] = NewRow(e.members)]
            /\ mail' = (mail \ {e}) \cup {GenerateKeyPackage(e.to)}
    /\ UNCHANGED <<mls, saved, past>>
    /\ UNCHANGED Others

OnWelcome(e) ==
    /\ e.kind = "welcome"
    /\ Known(e.to)
    /\ IF Ready(e.to) THEN UNCHANGED group
                      ELSE JoinGroup(e.to, e)
    /\ Handled(e)
    /\ UNCHANGED Others

\* The removed member leaves the roster; on finding itself removed an account
\* retires the session.
RowAfter(r, m, removed) ==
    LET left == WithoutMember(r, removed)
    IN  IF m = removed THEN Closed(left) ELSE left

\* onHandshake with a commit: in order, or the account's own removal.
OnCommit(e) ==
    LET c == e.commit
    IN  /\ e.kind = "commit"
        /\ Known(e.to) /\ Ready(e.to)
        /\ IF Applies(e.to, c) THEN Advance(e.to, c.post)
           ELSE c.removed = e.to /\ UNCHANGED <<mls, saved, past>>
        /\ row' = [row EXCEPT ![e.to] = RowAfter(@, e.to, c.removed)]
        /\ Handled(e)
        /\ UNCHANGED Others

\* Plausible bug: only the owner stores the proposals of members.
OnProposalIgnored(e) ==
    /\ e.kind = "proposal" /\ e.to # Owner
    /\ Known(e.to)
    /\ Handled(e)
    /\ UNCHANGED <<row, mls, saved, past>>
    /\ UNCHANGED Others

\* onHandshake with a proposal: stored, if of the member's own epoch.
OnProposal(e) ==
    /\ e.kind = "proposal" /\ e.to # Owner
    /\ Known(e.to) /\ e.to \in MemberEmails(e.to)
    /\ e.proposal.at = mls[e.to].id
    /\ StoreProposal(e.to, e.proposal)
    /\ Handled(e)
    /\ UNCHANGED row
    /\ UNCHANGED Others

\* onMemberUpdate: the mail's roster replaces the one known.
OnMemberUpdate(e) ==
    /\ e.kind = "member_update"
    /\ Known(e.to)
    /\ row' = [row EXCEPT ![e.to] =
                  IF e.to \in e.removed THEN RowAfter(@, e.to, e.to)
                  ELSE WithMembers(@, e.members \cup {e.to})]
    /\ Handled(e)
    /\ UNCHANGED <<mls, saved, past>>
    /\ UNCHANGED Others

\* onAppMessage: of a past state or the present one; anything else is given up.
OnAppMessage(e) ==
    /\ e.kind = "app"
    /\ Known(e.to) /\ Ready(e.to) /\ row[e.to].status = "active"
    /\ e.to = Owner => dl = Idle /\ OtherIsIdle(ui)
    /\ lost' = IF Decrypt(e.to, e) THEN lost
               ELSE lost \cup {[mail |-> e, id |-> mls[e.to].id]}
    /\ Handled(e)
    /\ UNCHANGED <<group, outbox, ui, dl, commits, bounds>>
-----------------------------------------------------------------------------
\* A process dies and is started again, with the state it saved last.
Restart(a) ==
    /\ crashes < limit.crashes /\ crashes' = crashes + 1
    /\ mls' = [mls EXCEPT ![a] = LoadState(a)]
    /\ IF a = Owner THEN ui' = Idle /\ dl' = Idle ELSE UNCHANGED <<ui, dl>>
    /\ UNCHANGED <<row, saved, past, mail, outbox, commits, calls, sends, limit,
                   dropped, meetings, lost>>

UserCall ==
    \/ \E m \in limit.members : InviteMember(m) \/ RemoveMember(m)
    \/ \E a \in Account : SendMessage(a) \/ SendAndPropose(a)
    \/ SendAndRefresh

OwnerStep ==
    \/ Evict \/ Evicted \/ Drop \/ Refreshed
    \/ AddMember \/ Added \/ Committed

Receive(a) ==
    \E e \in {x \in mail : x.to = a} :
        \/ OnKeyPackage(e) \/ OnProposalOfMember(e)
        \/ OnInvite(e) \/ OnWelcome(e) \/ OnCommit(e) \/ OnProposal(e)
        \/ OnMemberUpdate(e) \/ OnAppMessage(e)

Next ==
    \/ UserCall \/ OwnerStep
    \/ \E a \in Account : Receive(a) \/ Restart(a)
    \/ \E task \in outbox : Seal(task)

Spec == Init /\ [][Next]_vars
-----------------------------------------------------------------------------
(* Properties *)

Proposal == [from : Member, at : Nat, n : Nat]
State == [epoch : Nat, id : Nat, tree : SUBSET Account, pending : SUBSET Proposal]
CommitType == [pre : Nat, props : SUBSET Proposal, post : State,
               removed : Member \cup {Nobody}]
Row == [status : {"none", "active", "removed"}, members : SUBSET Account,
        mls : BOOLEAN]
Message == [from : Account, to : SUBSET Account, n : Nat]

Invite == [kind : {"invite"}, to : Member, members : SUBSET Account]
KeyPackage == [kind : {"key_package"}, to : {Owner}, from : Member]
Welcome == [kind : {"welcome"}, to : Member, post : State]
CommitMail == [kind : {"commit"}, to : Member, commit : CommitType]
ProposalMail == [kind : {"proposal"}, to : Account, proposal : Proposal]
MemberUpdate == [kind : {"member_update"}, to : Member,
                 removed : SUBSET Member, members : SUBSET Account]
AppMail == [kind : {"app"}, to : Account, from : Account, at : Nat, n : Nat]
Mail == Invite \cup KeyPackage \cup Welcome \cup CommitMail \cup ProposalMail
        \cup MemberUpdate \cup AppMail

UiCall ==
    {Idle} \cup [at : {"evict"}, who : Member, before : SUBSET Account]
    \cup [at : {"drop"}, who : Member]
    \cup [at : {"evicted"}, who : Member, commit : CommitType, to : SUBSET Account]
    \cup [at : {"refreshed"}, commit : CommitType]
DlCall ==
    {Idle} \cup [at : {"add"}, mail : KeyPackage]
    \cup [at : {"added"}, mail : KeyPackage, commit : CommitType,
          to : SUBSET Account]
    \cup [at : {"committed"}, mail : ProposalMail, commit : CommitType]

\* The shapes of rows, states, mails and calls under way.
TypeOK ==
    /\ row \in [Account -> Row]
    /\ mls \in [Account -> State] /\ saved \in [Account -> State]
    /\ past \in [Account -> SUBSET Nat]
    /\ mail \subseteq Mail /\ outbox \subseteq Message
    /\ ui \in UiCall /\ dl \in DlCall
    /\ limit \in Limits
    /\ {commits, calls, sends, crashes} \subseteq Nat
    /\ dropped \subseteq Member /\ reinvited \subseteq Member
    /\ crossed \subseteq Member

\* No fork: two accounts in one epoch are in one state of the group ("single
\* committer, no forks").
NoFork ==
    \A a, b \in Account :
        Ready(a) /\ Ready(b) /\ mls[a].epoch = mls[b].epoch
            => mls[a].id = mls[b].id /\ mls[a].tree = mls[b].tree

\* A removed account does not join through a stale invite: between two calls
\* of its user the owner's tree holds nobody who is not on its roster, unless
\* one thread added the account while the other removed one.
OnlyRosterJoins == ui = Idle => Joined \ crossed \subseteq row[Owner].members

\* The same of every account.  It fails: a KeyPackage is checked against the
\* roster before the Download thread adds the account it is of.
StaleInviteRefused == ui = Idle => Joined \subseteq row[Owner].members

MailTo(m) == {e \in mail : e.to = m}
NextCommits(m) == {e \in MailTo(m) : e.kind = "commit" /\ e.commit.pre = mls[m].id}
Proposed(m) ==
    mls[m].pending \cup {e.proposal : e \in {x \in MailTo(m) : x.kind = "proposal"}}

\* Has a way to the owner's state: its Welcome, or the commit that follows its
\* state with the proposals that one refers to, is in the mail.
CanCatchUp(m) ==
    \/ mls[m].id = mls[Owner].id
    \/ ~Ready(m) /\ \E e \in MailTo(m) : e.kind = "welcome"
    \/ Ready(m) /\ \E e \in NextCommits(m) : e.commit.props \subseteq Proposed(m)

\* Nobody is stranded: between the owner's calls, and while no process has
\* died, each account in the owner's tree can catch up with it, unless one
\* thread added it while the other removed one.
NobodyStranded ==
    ui = Idle /\ dl = Idle /\ crashes = 0 =>
        \A m \in Joined \ ({Owner} \cup crossed) : CanCatchUp(m)

\* The same whatever dies or meets.  It fails: the commit is saved before it is mailed.
CrashStrandsNobody ==
    ui = Idle /\ dl = Idle => \A m \in Joined \ {Owner} : CanCatchUp(m)

\* An account that has retired the session as removed is out of the tree,
\* unless it was invited again, or added while one was removed.
RemovedIsOut ==
    ui = Idle => \A m \in Member \ (reinvited \cup crossed) :
                     row[m].status = "removed" => m \notin Joined

\* When everything has been handled, every member has the owner's roster.
RostersAgree ==
    mail = {} /\ ui = Idle /\ dl = Idle =>
        \A m \in Joined : row[m].members = row[Owner].members

FairSpec ==
    /\ Spec
    /\ WF_vars(OwnerStep)
    /\ \A a \in Account : WF_vars(Receive(a))

\* Once the users stop calling, every account on the roster ends up in the
\* owner's state of the group, unless a process died (a commit that was never
\* mailed leaves the others behind for good: CrashStrandsNobody), the owner
\* removed the account once (it answers no second invite), or one thread
\* added it while the other removed one.
AllCatchUp ==
    <>[](\/ crashes > 0
         \/ \A m \in row[Owner].members \ (reinvited \cup crossed) :
                m \in Joined /\ mls[m].id = mls[Owner].id)
=============================================================================
