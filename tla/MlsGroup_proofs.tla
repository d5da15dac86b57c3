--------------------------- MODULE MlsGroup_proofs ---------------------------
(***************************************************************************)
(* Proofs about group conversations, for any set of accounts and any       *)
(* number of calls, messages and restarts.                                 *)
(***************************************************************************)
EXTENDS MlsGroup, TLAPS

\* Every save succeeds.
Durable == ~PersistFails

\* How a behaviour starts, under given bounds and with given accounts invited.
Started(l, invited) ==
    /\ limit = l
    /\ row = [a \in Account |->
                 IF a = Owner THEN SetMlsGroupId(NewRow({Owner} \cup invited))
                 ELSE NoRow]
    /\ mls = [a \in Account |-> IF a = Owner THEN Founded ELSE NoGroup]
    /\ saved = mls
    /\ past = [a \in Account |-> IF a = Owner THEN {1} ELSE {}]
    /\ mail = {[kind |-> "invite", to |-> m,
                members |-> {Owner} \cup invited] : m \in invited}
    /\ outbox = {} /\ ui = Idle /\ dl = Idle
    /\ commits = 1 /\ calls = 0 /\ sends = 0 /\ crashes = 0
    /\ lost = {} /\ dropped = {} /\ reinvited = {} /\ crossed = {}

\* The states of the group that somebody is in or may still come to be in.
Made ==
    {mls[a] : a \in Account}
    \cup {e.post : e \in {x \in mail : x.kind = "welcome"}}
    \cup {e.commit.post : e \in {x \in mail : x.kind = "commit"}}
    \cup (IF ui.at \in {"evicted", "refreshed"} THEN {ui.commit.post} ELSE {})
    \cup (IF dl.at \in {"added", "committed"} THEN {dl.commit.post} ELSE {})

\* The states form one chain, one of each epoch, with the owner at its end.
ChainInv ==
    /\ saved = mls
    /\ mls[Owner].id = commits /\ mls[Owner].epoch + 1 = commits
    /\ \A s \in Made : s = NoGroup \/ (s.id = s.epoch + 1 /\ s.id <= commits)
    /\ \A s, t \in Made : s.id = t.id => s.tree = t.tree

\* What the owner's calls have settled: who is being removed is not in the
\* tree again, and who is being added is on the roster, but for the accounts
\* added while one was removed.
RosterInv ==
    /\ row[Owner].mls
    /\ Joined \subseteq Roster(Owner) \cup crossed
    /\ ui.at \in {"evicted", "drop"} => ui.who \notin Joined \ crossed
    /\ dl.at = "add" => dl.mail.from \in Roster(Owner) \cup crossed
    /\ Removing => Adding \subseteq crossed

\* Who was told that an account is removed: the owner has removed it, and its
\* roster is without it unless it was invited again.
RemovedInv ==
    /\ dropped \cap Roster(Owner) \subseteq reinvited
    /\ \A m \in Member : row[m].status = "removed" => m \in dropped
    /\ \A e \in mail :
          /\ e.kind = "commit" /\ e.commit.removed # Nobody =>
                e.commit.removed \in dropped
          /\ e.kind = "member_update" => e.removed \subseteq dropped
    /\ ui.at = "evicted" => ui.commit.removed = ui.who
    /\ ui.at = "refreshed" => ui.commit.removed = Nobody
    /\ dl.at \in {"added", "committed"} => dl.commit.removed = Nobody
-----------------------------------------------------------------------------
(* The shapes of what the operations make *)

LEMMA MailIs ==
    ASSUME NEW e \in Mail
    PROVE  /\ e.kind = "invite" => e \in Invite
           /\ e.kind = "key_package" => e \in KeyPackage
           /\ e.kind = "welcome" => e \in Welcome
           /\ e.kind = "commit" => e \in CommitMail
           /\ e.kind = "proposal" => e \in ProposalMail
           /\ e.kind = "member_update" => e \in MemberUpdate
           /\ e.kind = "app" => e \in AppMail
           /\ e.to \in Account
  BY DEF Mail, Invite, KeyPackage, Welcome, CommitMail, ProposalMail, MemberUpdate,
         AppMail, Account

LEMMA MailKinds ==
    /\ Invite \subseteq Mail /\ KeyPackage \subseteq Mail /\ Welcome \subseteq Mail
    /\ CommitMail \subseteq Mail /\ ProposalMail \subseteq Mail
    /\ MemberUpdate \subseteq Mail /\ AppMail \subseteq Mail
    /\ \A e \in Invite : e.kind = "invite"
    /\ \A e \in KeyPackage : e.kind = "key_package"
    /\ \A e \in Welcome : e.kind = "welcome"
    /\ \A e \in CommitMail : e.kind = "commit"
    /\ \A e \in ProposalMail : e.kind = "proposal"
    /\ \A e \in MemberUpdate : e.kind = "member_update"
    /\ \A e \in AppMail : e.kind = "app"
  BY DEF Mail, Invite, KeyPackage, Welcome, CommitMail, ProposalMail, MemberUpdate,
         AppMail

LEMMA UiIs ==
    ASSUME ui \in UiCall
    PROVE  /\ ui.at = "evict" => ui.who \in Member /\ ui.before \in SUBSET Account
           /\ ui.at = "drop" => ui.who \in Member
           /\ ui.at = "evicted" => /\ ui.who \in Member /\ ui.commit \in CommitType
                                   /\ ui.to \in SUBSET Account
           /\ ui.at = "refreshed" => ui.commit \in CommitType
           /\ ui.at \in {"idle", "evict", "drop", "evicted", "refreshed"}
           /\ ui.at = "idle" <=> ui = Idle
  BY DEF UiCall, Idle

LEMMA DlIs ==
    ASSUME dl \in DlCall
    PROVE  /\ dl.at = "add" => dl.mail \in KeyPackage
           /\ dl.at = "added" => /\ dl.mail \in KeyPackage /\ dl.commit \in CommitType
                                 /\ dl.to \in SUBSET Account
           /\ dl.at = "committed" => dl.mail \in ProposalMail /\ dl.commit \in CommitType
           /\ dl.at \in {"idle", "add", "added", "committed"}
           /\ dl.at = "idle" <=> dl = Idle
  BY DEF DlCall, Idle

LEMMA OwnerIsAccount ==
    /\ Owner \in Account /\ Member \subseteq Account /\ Owner \notin Member
    /\ Account \ {Owner} \subseteq Member
  BY OwnerAssumption DEF Account

LEMMA StartIs == NoGroup \in State /\ Founded \in State /\ NoRow \in Row
  BY DEF NoGroup, Founded, State, NoRow, Row, Account

LEMMA RowIs ==
    ASSUME NEW r \in Row, NEW members \in SUBSET Account, NEW m
    PROVE  /\ NewRow(members) \in Row /\ NewRow(members).members = members
           /\ NewRow(members).status = "active" /\ ~NewRow(members).mls
           /\ WithMembers(r, members) \in Row
           /\ WithMembers(r, members).members = members
           /\ WithMembers(r, members).status = r.status
           /\ WithMembers(r, members).mls = r.mls
           /\ WithoutMember(r, m) \in Row
           /\ WithoutMember(r, m).members = r.members \ {m}
           /\ WithoutMember(r, m).status = r.status
           /\ WithoutMember(r, m).mls = r.mls
           /\ m \in Account => /\ WithMember(r, m) \in Row
                               /\ WithMember(r, m).members = r.members \cup {m}
                               /\ WithMember(r, m).status = r.status
                               /\ WithMember(r, m).mls = r.mls
           /\ Closed(r) \in Row /\ Closed(r).members = r.members
           /\ Closed(r).status = "removed" /\ Closed(r).mls = r.mls
           /\ SetMlsGroupId(r) \in Row /\ SetMlsGroupId(r).members = r.members
           /\ SetMlsGroupId(r).status = r.status /\ SetMlsGroupId(r).mls
  BY DEF NewRow, WithMembers, WithMember, WithoutMember, Closed, SetMlsGroupId, Row

LEMMA RowAfterIs ==
    ASSUME NEW r \in Row, NEW m, NEW removed
    PROVE  RowAfter(r, m, removed) \in Row
  <1>1. WithoutMember(r, removed) \in Row /\ Closed(WithoutMember(r, removed)) \in Row
    BY RowIs
  <1>. QED  BY <1>1 DEF RowAfter

LEMMA CommitIs ==
    ASSUME TypeOK, NEW tree \in SUBSET Account, NEW removed \in Member \cup {Nobody}
    PROVE  LET c == CommitTo(tree, removed) IN
           /\ c \in CommitType
           /\ c.post = [epoch |-> mls[Owner].epoch + 1, id |-> commits + 1,
                        tree |-> tree, pending |-> {}]
           /\ c.post \in State
           /\ c.removed = removed /\ c.pre = mls[Owner].id
  <1>. DEFINE c == CommitTo(tree, removed)
              post == [epoch |-> mls[Owner].epoch + 1, id |-> commits + 1,
                       tree |-> tree, pending |-> {}]
              props == {p \in mls[Owner].pending : p.from \in tree}
  <1>1. mls[Owner] \in State /\ commits \in Nat
    BY OwnerIsAccount DEF TypeOK
  <1>2. post \in State /\ mls[Owner].id \in Nat /\ props \in SUBSET Proposal
    BY <1>1 DEF State
  <1>3. c = [pre |-> mls[Owner].id, props |-> props, post |-> post, removed |-> removed]
    BY DEF CommitTo
  <1>. HIDE DEF post, props, c
  <1>4. c \in CommitType /\ c.post = post /\ c.removed = removed /\ c.pre = mls[Owner].id
    BY <1>2, <1>3 DEF CommitType
  <1>. QED  BY <1>2, <1>4 DEF c, post

LEMMA TreeIs ==
    ASSUME TypeOK, NEW a \in Account
    PROVE  /\ MemberEmails(a) \in SUBSET Account
           /\ Roster(a) \in SUBSET Account
           /\ a \in MemberEmails(a) => row[a].mls /\ mls[a] # NoGroup
                                       /\ MemberEmails(a) = mls[a].tree
           /\ Joined \in SUBSET Account /\ Roster(Owner) \in SUBSET Account
  BY OwnerIsAccount
     DEF MemberEmails, GetMlsGroupId, Joined, Roster, TypeOK, State, Row, NoGroup

LEMMA CommitsAre ==
    ASSUME TypeOK
    PROVE  /\ \A kp \in KeyPackage :
                 LET c == AddMembers(kp) IN
                 /\ c \in CommitType /\ c.removed = Nobody /\ c.pre = mls[Owner].id
                 /\ c.post = [epoch |-> mls[Owner].epoch + 1, id |-> commits + 1,
                              tree |-> Joined \cup {kp.from}, pending |-> {}]
           /\ \A m \in Member :
                 LET c == RemoveMemberByEmail(m) IN
                 /\ c \in CommitType /\ c.removed = m /\ c.pre = mls[Owner].id
                 /\ c.post = [epoch |-> mls[Owner].epoch + 1, id |-> commits + 1,
                              tree |-> Joined \ {m}, pending |-> {}]
           /\ LET c == SelfUpdate IN
                 /\ c \in CommitType /\ c.removed = Nobody /\ c.pre = mls[Owner].id
                 /\ c.post = [epoch |-> mls[Owner].epoch + 1, id |-> commits + 1,
                              tree |-> Joined, pending |-> {}]
           /\ \A p \in Proposal :
                 LET c == CommitPending(p) IN
                 /\ c \in CommitType /\ c.removed = Nobody /\ c.pre = mls[Owner].id
                 /\ c.post = [epoch |-> mls[Owner].epoch + 1, id |-> commits + 1,
                              tree |-> Joined, pending |-> {}]
  <1>1. Joined \in SUBSET Account
    BY TreeIs, OwnerIsAccount
  <1>2. ASSUME NEW kp \in KeyPackage
        PROVE  Joined \cup {kp.from} \in SUBSET Account
    BY <1>1, OwnerIsAccount DEF KeyPackage
  <1>3. \A m : Joined \ {m} \in SUBSET Account
    BY <1>1
  <1>4. /\ SelfUpdate \in CommitType /\ SelfUpdate.removed = Nobody
        /\ SelfUpdate.pre = mls[Owner].id
        /\ SelfUpdate.post = [epoch |-> mls[Owner].epoch + 1, id |-> commits + 1,
                              tree |-> Joined, pending |-> {}]
    BY <1>1, CommitIs DEF SelfUpdate
  <1>5. ASSUME NEW p \in Proposal
        PROVE  LET c == CommitPending(p) IN
               /\ c \in CommitType /\ c.removed = SelfUpdate.removed
               /\ c.pre = SelfUpdate.pre /\ c.post = SelfUpdate.post
    BY <1>4 DEF CommitPending, CommitType
  <1>6. ASSUME NEW kp \in KeyPackage
        PROVE  LET c == AddMembers(kp) IN
               /\ c \in CommitType /\ c.removed = Nobody /\ c.pre = mls[Owner].id
               /\ c.post = [epoch |-> mls[Owner].epoch + 1, id |-> commits + 1,
                            tree |-> Joined \cup {kp.from}, pending |-> {}]
    BY <1>2, CommitIs DEF AddMembers
  <1>7. ASSUME NEW m \in Member
        PROVE  LET c == RemoveMemberByEmail(m) IN
               /\ c \in CommitType /\ c.removed = m /\ c.pre = mls[Owner].id
               /\ c.post = [epoch |-> mls[Owner].epoch + 1, id |-> commits + 1,
                            tree |-> Joined \ {m}, pending |-> {}]
    BY <1>3, CommitIs DEF RemoveMemberByEmail
  <1>. QED  BY <1>4, <1>5, <1>6, <1>7

\* Every operation of mls:: keeps the shapes.
LEMMA AdvanceType ==
    ASSUME TypeOK, NEW a \in Account, NEW s \in State, Advance(a, s)
    PROVE  /\ mls' \in [Account -> State] /\ saved' \in [Account -> State]
           /\ past' \in [Account -> SUBSET Nat]
           /\ mls' = [mls EXCEPT ![a] = s]
           /\ ~PersistFails => saved' = [saved EXCEPT ![a] = s]
  <1>1. s.id \in Nat
    BY DEF State
  <1>2. PICK kept \in SaveState(saved[a], s) : saved' = [saved EXCEPT ![a] = kept]
    BY DEF Advance
  <1>3. kept \in State /\ (~PersistFails => kept = s)
    BY <1>2 DEF SaveState, TypeOK
  <1>. QED  BY <1>1, <1>2, <1>3 DEF Advance, TypeOK

LEMMA MailsAre ==
    /\ \A m \in Member, members \in SUBSET Account :
          {[kind |-> "invite", to |-> m, members |-> members]} \subseteq Invite
    /\ \A to, members \in SUBSET Account, removed \in SUBSET Member :
          UpdateMails(to, removed, members) \subseteq MemberUpdate
    /\ \A to \in SUBSET Account, c \in CommitType :
          CommitMails(c, to) \subseteq CommitMail
    /\ \A a \in Member : GenerateKeyPackage(a) \in KeyPackage
    /\ \A m \in Member, s \in State :
          {[kind |-> "welcome", to |-> m, post |-> s]} \subseteq Welcome
    /\ \A to \in SUBSET Account, p \in Proposal :
          {[kind |-> "proposal", to |-> m, proposal |-> p] : m \in to}
              \subseteq ProposalMail
  <1>1. \A m \in Account : m \notin {Owner} => m \in Member
    BY DEF Account
  <1>. QED
    BY <1>1 DEF Invite, UpdateMails, MemberUpdate, CommitMails, CommitMail,
                GenerateKeyPackage, KeyPackage, Welcome, ProposalMail

LEMMA QueueType ==
    ASSUME TypeOK, NEW a \in Account, sends' \in Nat, Queue(a)
    PROVE  outbox' \subseteq Message
  <1>. DEFINE to == MemberEmails(a) \ {a}
  <1>1. to \in SUBSET Account
    BY TreeIs
  <1>2. [from |-> a, to |-> to, n |-> sends'] \in Message
    BY <1>1 DEF Message
  <1>. QED  BY <1>2 DEF Queue, TypeOK

LEMMA StoreType ==
    ASSUME TypeOK, NEW a \in Account, NEW p \in Proposal, StoreProposal(a, p)
    PROVE  LET s == [mls[a] EXCEPT !.pending = @ \cup {p}] IN
           /\ s \in State /\ s.id = mls[a].id /\ s.epoch = mls[a].epoch
           /\ s.tree = mls[a].tree /\ s.pending = mls[a].pending \cup {p}
           /\ Advance(a, s)
  <1>. DEFINE was == mls[a]
  <1>1. was \in State
    BY DEF TypeOK
  <1>2. was.pending \cup {p} \in SUBSET Proposal
    BY <1>1 DEF State
  <1>3. Advance(a, [was EXCEPT !.pending = @ \cup {p}])
    BY DEF StoreProposal
  <1>. HIDE DEF was
  <1>4. LET s == [was EXCEPT !.pending = @ \cup {p}] IN
        /\ s \in State /\ s.id = was.id /\ s.epoch = was.epoch
        /\ s.tree = was.tree /\ s.pending = was.pending \cup {p}
    BY <1>1, <1>2 DEF State
  <1>. QED  BY <1>3, <1>4 DEF was

LEMMA LimitIs ==
    ASSUME TypeOK
    PROVE  /\ limit.members \subseteq Member /\ limit.sends \in Nat /\ limit.crashes \in Nat
           /\ commits \in Nat /\ calls \in Nat /\ sends \in Nat /\ crashes \in Nat
  BY LimitsAssumption DEF TypeOK

LEMMA UserCallType ==
    ASSUME TypeOK, UserCall
    PROVE  TypeOK'
  <1>0. /\ Joined \in SUBSET Account /\ Roster(Owner) \in SUBSET Account
        /\ \A a \in Account : MemberEmails(a) \in SUBSET Account
        /\ \A m \in limit.members : m \in Member
        /\ Owner \in Account /\ row[Owner] \in Row
        /\ commits \in Nat /\ calls \in Nat /\ sends \in Nat /\ crashes \in Nat
    BY TreeIs, OwnerIsAccount, LimitIs DEF TypeOK
  <1>. USE <1>0 DEF meetings
  <1>1. ASSUME NEW m \in limit.members, InviteMember(m)
        PROVE  TypeOK'
    <2>. DEFINE before == Roster(Owner)
                with == before \cup {m}
                new == {[kind |-> "invite", to |-> m, members |-> with]}
                       \cup UpdateMails(before, {}, with)
    <2>1. m \in Member /\ before \in SUBSET Account /\ with \in SUBSET Account
      BY OwnerIsAccount
    <2>2. new \subseteq Mail
      <3>1. {[kind |-> "invite", to |-> m, members |-> with]} \subseteq Invite
        BY <2>1, MailsAre
      <3>2. UpdateMails(before, {}, with) \subseteq MemberUpdate
        BY <2>1, MailsAre
      <3>. QED  BY <3>1, <3>2, MailKinds
    <2>3. WithMember(row[Owner], m) \in Row
      BY <2>1, RowIs DEF TypeOK
    <2>4. /\ row' = [row EXCEPT ![Owner] = WithMember(row[Owner], m)]
          /\ mail' = mail \cup new /\ calls' = calls + 1
          /\ UNCHANGED <<mls, saved, past, outbox, ui, dl, commits, sends, crashes, limit,
                         dropped, crossed>>
          /\ reinvited' = reinvited \cup ({m} \cap dropped)
      BY <1>1 DEF InviteMember, Calls, life
    <2>5. row' \in [Account -> Row]
      BY <2>3, <2>4 DEF TypeOK
    <2>. HIDE DEF new
    <2>. QED  BY <2>2, <2>4, <2>5 DEF TypeOK
  <1>2. ASSUME NEW m \in limit.members, RemoveMember(m)
        PROVE  TypeOK'
    <2>1. m \in Member /\ Joined \in SUBSET Account
      OBVIOUS
    <2>2. ui' \in UiCall
      BY <1>2, <2>1 DEF RemoveMember, UiCall
    <2>3. UNCHANGED <<row, mls, saved, past, mail, outbox, dl, commits, sends, crashes,
                      limit, dropped, reinvited>>
      BY <1>2 DEF RemoveMember, group, life
    <2>4. calls' = calls + 1 /\ crossed' = crossed \cup Adding
      BY <1>2 DEF RemoveMember, Calls
    <2>5. Adding \subseteq Member
      BY DlIs DEF Adding, KeyPackage, TypeOK
    <2>. QED  BY <2>2, <2>3, <2>4, <2>5 DEF TypeOK
  <1>3. ASSUME NEW a \in Account, SendMessage(a)
        PROVE  TypeOK'
    <2>1. sends' \in Nat /\ outbox' \subseteq Message
      BY <1>3, QueueType DEF SendMessage, Sends
    <2>2. UNCHANGED <<row, mls, saved, past, mail, ui, dl, commits, calls, crashes,
                      limit, dropped, meetings>>
      BY <1>3 DEF SendMessage, group, life
    <2>. QED  BY <2>1, <2>2 DEF TypeOK
  <1>4. ASSUME NEW a \in Account, SendAndPropose(a)
        PROVE  TypeOK'
    <2>. DEFINE p == ProposeSelfUpdate(a)
                new == {[kind |-> "proposal", to |-> m, proposal |-> p] :
                        m \in MemberEmails(a) \ {a}}
    <2>1. sends' \in Nat /\ outbox' \subseteq Message
      BY <1>4, QueueType DEF SendAndPropose, Sends
    <2>2. p \in Proposal
      <3>1. a \in Member /\ mls[a] \in State
        BY <1>4, OwnerIsAccount DEF SendAndPropose, TypeOK
      <3>2. mls[a].id \in Nat
        BY <3>1 DEF State
      <3>. QED  BY <2>1, <3>1, <3>2 DEF ProposeSelfUpdate, Proposal
    <2>3. StoreProposal(a, p)
      BY <1>4 DEF SendAndPropose
    <2>. HIDE DEF p
    <2>4. /\ mls' \in [Account -> State] /\ saved' \in [Account -> State]
          /\ past' \in [Account -> SUBSET Nat]
      <3>. DEFINE s == [mls[a] EXCEPT !.pending = @ \cup {p}]
      <3>1. s \in State /\ Advance(a, s)
        BY <2>2, <2>3, StoreType
      <3>. HIDE DEF s
      <3>. QED  BY <3>1, AdvanceType
    <2>5. new \subseteq Mail
      BY <2>2, MailsAre, MailKinds
    <2>6. /\ mail' = mail \cup new
          /\ UNCHANGED <<row, ui, dl, commits, calls, crashes, limit, dropped, meetings>>
      BY <1>4 DEF SendAndPropose, life, p
    <2>. QED  BY <2>1, <2>4, <2>5, <2>6 DEF TypeOK
  <1>5. CASE SendAndRefresh
    <2>. DEFINE c == SelfUpdate
    <2>1. c \in CommitType /\ c.post \in State
      BY CommitsAre DEF CommitType
    <2>2. Advance(Owner, c.post) /\ commits' = commits + 1
      BY <1>5 DEF SendAndRefresh, Commit
    <2>3. sends' = sends + 1
      BY <1>5 DEF SendAndRefresh, Sends
    <2>4. ui' = [at |-> "refreshed", commit |-> c]
          /\ UNCHANGED <<row, mail, outbox, dl, calls, crashes, limit, dropped, meetings>>
      BY <1>5 DEF SendAndRefresh, life
    <2>. HIDE DEF c
    <2>5. ui' \in UiCall
      BY <2>1, <2>4 DEF UiCall
    <2>6. /\ mls' \in [Account -> State] /\ saved' \in [Account -> State]
          /\ past' \in [Account -> SUBSET Nat]
      BY <2>1, <2>2, AdvanceType
    <2>. QED  BY <2>2, <2>3, <2>4, <2>5, <2>6 DEF TypeOK
  <1>. QED  BY <1>1, <1>2, <1>3, <1>4, <1>5 DEF UserCall

LEMMA OwnerStepType ==
    ASSUME TypeOK, OwnerStep
    PROVE  TypeOK'
  <1>0. /\ Joined \in SUBSET Account /\ Roster(Owner) \in SUBSET Account
        /\ Owner \in Account /\ Member \subseteq Account /\ row[Owner] \in Row
        /\ commits \in Nat /\ ui \in UiCall /\ dl \in DlCall
    BY TreeIs, OwnerIsAccount, LimitIs DEF TypeOK
  <1>. USE <1>0 DEF meetings
  <1>1. CASE Evict
    <2>. DEFINE c == RemoveMemberByEmail(ui.who)
    <2>1. ui.who \in Member /\ ui.before \in SUBSET Account
      BY <1>0, <1>1, UiIs DEF Evict
    <2>2. c \in CommitType /\ c.post \in State
      BY <2>1, CommitsAre DEF CommitType
    <2>3. /\ Advance(Owner, c.post) /\ commits' = commits + 1
          /\ ui' = [at |-> "evicted", who |-> ui.who, commit |-> c, to |-> ui.before]
          /\ UNCHANGED <<row, mail, outbox, dl, calls, sends, crashes, limit, dropped, meetings>>
      BY <1>1 DEF Evict, Commit, bounds, life
    <2>. HIDE DEF c
    <2>4. ui' \in UiCall
      BY <2>1, <2>2, <2>3 DEF UiCall
    <2>5. /\ mls' \in [Account -> State] /\ saved' \in [Account -> State]
          /\ past' \in [Account -> SUBSET Nat]
      <3>. DEFINE s == c.post
      <3>1. s \in State /\ Advance(Owner, s)
        BY <2>2, <2>3
      <3>. HIDE DEF s
      <3>. QED  BY <3>1, AdvanceType
    <2>. QED  BY <2>3, <2>4, <2>5 DEF TypeOK
  <1>2. CASE Evicted
    <2>1. ui.who \in Member /\ ui.commit \in CommitType /\ ui.to \in SUBSET Account
      BY <1>0, <1>2, UiIs DEF Evicted
    <2>2. CommitMails(ui.commit, ui.to) \subseteq Mail
      <3>1. CommitMails(ui.commit, ui.to) \subseteq CommitMail
        BY ONLY <2>1, MailsAre
      <3>. QED  BY <3>1, MailKinds
    <2>3. WithoutMember(row[Owner], ui.who) \in Row
      <3>1. row[Owner] \in Row /\ {} \in SUBSET Account
        BY <1>0
      <3>. QED  BY ONLY <3>1, RowIs
    <2>4. Idle \in UiCall
      BY DEF UiCall
    <2>5. /\ mail' = mail \cup CommitMails(ui.commit, ui.to)
          /\ row' = [row EXCEPT ![Owner] = WithoutMember(row[Owner], ui.who)]
          /\ dropped' = dropped \cup {ui.who} /\ ui' = Idle
          /\ UNCHANGED <<mls, saved, past, outbox, dl, commits, calls, sends, crashes, limit,
                         meetings>>
      BY <1>2 DEF Evicted, life
    <2>. QED  BY <2>1, <2>2, <2>3, <2>4, <2>5 DEF TypeOK
  <1>3. CASE Drop
    <2>. DEFINE members == Roster(Owner) \ {ui.who}
                new == UpdateMails(members \cup {ui.who}, {ui.who}, members)
    <2>1. ui.who \in Member /\ members \in SUBSET Account
      BY <1>0, <1>3, UiIs DEF Drop
    <2>2. members \cup {ui.who} \in SUBSET Account /\ {ui.who} \in SUBSET Member
      BY <2>1
    <2>3. new \subseteq Mail
      BY <2>1, <2>2, MailsAre, MailKinds
    <2>4. WithMembers(row[Owner], members) \in Row
      BY ONLY <1>0, <2>1, RowIs
    <2>5. Idle \in UiCall
      BY DEF UiCall
    <2>6. /\ mail' = mail \cup new
          /\ row' = [row EXCEPT ![Owner] = WithMembers(row[Owner], members)]
          /\ dropped' = dropped \cup {ui.who} /\ ui' = Idle
          /\ UNCHANGED <<mls, saved, past, outbox, dl, commits, calls, sends, crashes, limit,
                         meetings>>
      BY <1>3 DEF Drop, life
    <2>. HIDE DEF new, members
    <2>. QED  BY <2>1, <2>3, <2>4, <2>5, <2>6 DEF TypeOK
  <1>4. CASE Refreshed
    <2>1. ui.commit \in CommitType
      BY <1>0, <1>4, UiIs DEF Refreshed
    <2>2. CommitMails(ui.commit, Joined) \subseteq Mail
      BY <2>1, MailsAre, MailKinds
    <2>0. sends' \in Nat /\ Queue(Owner)
      BY <1>4, LimitIs DEF Refreshed
    <2>3. sends' = sends /\ outbox' \subseteq Message
      BY <1>4, <2>0, QueueType DEF Refreshed
    <2>4. Idle \in UiCall
      BY DEF UiCall
    <2>5. /\ mail' = mail \cup CommitMails(ui.commit, Joined) /\ ui' = Idle
          /\ UNCHANGED <<row, mls, saved, past, dl, commits, calls, crashes, limit, dropped, meetings>>
      BY <1>4 DEF Refreshed, group, life
    <2>. QED  BY <2>2, <2>3, <2>4, <2>5 DEF TypeOK
  <1>5. CASE AddMember
    <2>. DEFINE c == AddMembers(dl.mail)
    <2>1. dl.mail \in KeyPackage
      BY <1>0, <1>5, DlIs DEF AddMember
    <2>2. c \in CommitType /\ c.post \in State
      BY <2>1, CommitsAre DEF CommitType
    <2>3. /\ Advance(Owner, c.post) /\ commits' = commits + 1
          /\ dl' = [at |-> "added", mail |-> dl.mail, commit |-> c, to |-> Joined]
          /\ UNCHANGED <<row, mail, outbox, ui, calls, sends, crashes, limit, dropped, meetings>>
      BY <1>5 DEF AddMember, Commit, bounds, life
    <2>. HIDE DEF c
    <2>4. dl' \in DlCall
      BY <2>1, <2>2, <2>3 DEF DlCall
    <2>5. /\ mls' \in [Account -> State] /\ saved' \in [Account -> State]
          /\ past' \in [Account -> SUBSET Nat]
      BY <2>2, <2>3, AdvanceType
    <2>. QED  BY <2>3, <2>4, <2>5 DEF TypeOK
  <1>6. CASE Added
    <2>. DEFINE welcome == {[kind |-> "welcome", to |-> dl.mail.from,
                             post |-> dl.commit.post]}
    <2>1. dl.mail \in KeyPackage /\ dl.commit \in CommitType /\ dl.to \in SUBSET Account
      BY <1>0, <1>6, DlIs DEF Added
    <2>2. welcome \subseteq Mail
      <3>1. dl.mail.from \in Member /\ dl.commit.post \in State
        BY <2>1 DEF KeyPackage, CommitType
      <3>. QED  BY <3>1, MailsAre, MailKinds
    <2>3. CommitMails(dl.commit, dl.to) \subseteq Mail
      BY <2>1, MailsAre, MailKinds
    <2>4. Idle \in DlCall
      BY DEF DlCall
    <2>5. /\ mail' = (mail \ {dl.mail}) \cup welcome \cup CommitMails(dl.commit, dl.to)
          /\ dl' = Idle
          /\ UNCHANGED <<row, mls, saved, past, outbox, ui, commits, calls, sends, crashes,
                         limit, dropped, meetings>>
      BY <1>6 DEF Added, group, bounds, life
    <2>. HIDE DEF welcome
    <2>. QED  BY <2>2, <2>3, <2>4, <2>5 DEF TypeOK
  <1>7. CASE Committed
    <2>1. dl.commit \in CommitType
      BY <1>0, <1>7, DlIs DEF Committed
    <2>2. CommitMails(dl.commit, Joined) \subseteq Mail
      BY <2>1, MailsAre, MailKinds
    <2>3. Idle \in DlCall
      BY DEF DlCall
    <2>4. /\ mail' = (mail \ {dl.mail}) \cup CommitMails(dl.commit, Joined)
          /\ dl' = Idle
          /\ UNCHANGED <<row, mls, saved, past, outbox, ui, commits, calls, sends, crashes,
                         limit, dropped, meetings>>
      BY <1>7 DEF Committed, group, bounds, life
    <2>. QED  BY <2>2, <2>3, <2>4 DEF TypeOK
  <1>. QED  BY <1>1, <1>2, <1>3, <1>4, <1>5, <1>6, <1>7 DEF OwnerStep

LEMMA ReceiveType ==
    ASSUME TypeOK, NEW a \in Account, Receive(a)
    PROVE  TypeOK'
  <1>1. PICK e \in mail :
           \/ OnKeyPackage(e) \/ OnProposalOfMember(e)
           \/ OnInvite(e) \/ OnWelcome(e) \/ OnCommit(e) \/ OnProposal(e)
           \/ OnMemberUpdate(e) \/ OnAppMessage(e)
    BY DEF Receive
  <1>2. e \in Mail /\ e.to \in Account
    BY MailIs DEF TypeOK
  <1>3. /\ Owner \in Account /\ Member \subseteq Account /\ row[e.to] \in Row
        /\ mls[e.to] \in State /\ commits \in Nat
        /\ mail \ {e} \subseteq Mail
    BY <1>2, OwnerIsAccount, LimitIs DEF TypeOK
  <1>. USE <1>3 DEF meetings
  <1>4. CASE OnKeyPackage(e)
    <2>1. e \in KeyPackage
      BY <1>2, <1>4, MailIs DEF OnKeyPackage
    <2>2. dl' \in DlCall
      BY <1>4, <2>1 DEF OnKeyPackage, DlCall, TypeOK
    <2>3. mail' \subseteq Mail
      BY <1>4 DEF OnKeyPackage, TypeOK
    <2>4. UNCHANGED <<row, mls, saved, past, outbox, ui, commits, calls, sends, crashes,
                      limit, dropped, reinvited>>
      BY <1>4 DEF OnKeyPackage, group, life
    <2>5. crossed' \subseteq crossed \cup {e.from} /\ e.from \in Member
      BY <1>4, <2>1 DEF OnKeyPackage, KeyPackage
    <2>. QED  BY <2>2, <2>3, <2>4, <2>5 DEF TypeOK
  <1>5. CASE OnProposalOfMember(e)
    <2>. DEFINE c == CommitPending(e.proposal)
    <2>1. e \in ProposalMail
      BY <1>2, <1>5, MailIs DEF OnProposalOfMember
    <2>2. c \in CommitType /\ c.post \in State
      <3>1. e.proposal \in Proposal
        BY <2>1 DEF ProposalMail
      <3>. QED  BY <3>1, CommitsAre DEF CommitType
    <2>3. /\ Advance(Owner, c.post) /\ commits' = commits + 1
          /\ dl' = [at |-> "committed", mail |-> e, commit |-> c]
          /\ UNCHANGED <<row, mail, outbox, ui, calls, sends, crashes, limit, dropped, meetings>>
      BY <1>5 DEF OnProposalOfMember, Commit, bounds, life
    <2>. HIDE DEF c
    <2>4. dl' \in DlCall
      BY <2>1, <2>2, <2>3 DEF DlCall
    <2>5. /\ mls' \in [Account -> State] /\ saved' \in [Account -> State]
          /\ past' \in [Account -> SUBSET Nat]
      BY <2>2, <2>3, AdvanceType
    <2>. QED  BY <2>3, <2>4, <2>5 DEF TypeOK
  <1>6. CASE OnInvite(e)
    <2>1. e \in Invite
      BY <1>2, <1>6, MailIs DEF OnInvite
    <2>2. e.to \in Member /\ NewRow(e.members) \in Row
      BY <2>1, RowIs DEF Invite
    <2>3. GenerateKeyPackage(e.to) \in Mail
      BY <2>2, MailsAre, MailKinds
    <2>4. row' \in [Account -> Row] /\ mail' \subseteq Mail
      BY <1>6, <2>2, <2>3 DEF OnInvite, Handled, TypeOK
    <2>5. UNCHANGED <<mls, saved, past, outbox, ui, dl, commits, calls, sends, crashes,
                      limit, dropped, meetings>>
      BY <1>6 DEF OnInvite, Others, bounds, life
    <2>. QED  BY <2>4, <2>5 DEF TypeOK
  <1>7. CASE OnWelcome(e)
    <2>1. e \in Welcome
      BY <1>2, <1>7, MailIs DEF OnWelcome
    <2>2. e.post \in State /\ SetMlsGroupId(row[e.to]) \in Row
      BY <2>1, RowIs DEF Welcome
    <2>3. /\ mls' \in [Account -> State] /\ saved' \in [Account -> State]
          /\ past' \in [Account -> SUBSET Nat] /\ row' \in [Account -> Row]
      <3>1. CASE Ready(e.to)
        BY <1>7, <3>1 DEF OnWelcome, group, TypeOK
      <3>2. CASE ~Ready(e.to)
        <4>1. /\ Advance(e.to, e.post)
              /\ row' = [row EXCEPT ![e.to] = SetMlsGroupId(row[e.to])]
          BY <1>7, <3>2 DEF OnWelcome, JoinGroup
        <4>. QED  BY <1>2, <2>2, <4>1, AdvanceType DEF TypeOK
      <3>. QED  BY <3>1, <3>2
    <2>4. /\ mail' = mail \ {e}
          /\ UNCHANGED <<outbox, ui, dl, commits, calls, sends, crashes, limit, dropped, meetings>>
      BY <1>7 DEF OnWelcome, Handled, Others, bounds, life
    <2>. QED  BY <2>3, <2>4 DEF TypeOK
  <1>8. CASE OnCommit(e)
    <2>1. e \in CommitMail
      BY <1>2, <1>8, MailIs DEF OnCommit
    <2>2. e.commit.post \in State /\ RowAfter(row[e.to], e.to, e.commit.removed) \in Row
      BY <2>1, RowAfterIs DEF CommitMail, CommitType
    <2>3. /\ mls' \in [Account -> State] /\ saved' \in [Account -> State]
          /\ past' \in [Account -> SUBSET Nat]
      <3>1. CASE Applies(e.to, e.commit)
        <4>1. Advance(e.to, e.commit.post)
          BY <1>8, <3>1 DEF OnCommit
        <4>. QED  BY <1>2, <2>2, <4>1, AdvanceType
      <3>2. CASE ~Applies(e.to, e.commit)
        BY <1>8, <3>2 DEF OnCommit, TypeOK
      <3>. QED  BY <3>1, <3>2
    <2>4. /\ mail' = mail \ {e}
          /\ row' = [row EXCEPT ![e.to] = RowAfter(row[e.to], e.to, e.commit.removed)]
          /\ UNCHANGED <<outbox, ui, dl, commits, calls, sends, crashes, limit, dropped, meetings>>
      BY <1>8 DEF OnCommit, Handled, Others, bounds, life
    <2>. QED  BY <2>2, <2>3, <2>4 DEF TypeOK
  <1>9. CASE OnProposal(e)
    <2>1. e \in ProposalMail
      BY <1>2, <1>9, MailIs DEF OnProposal
    <2>2. e.proposal \in Proposal /\ StoreProposal(e.to, e.proposal)
      BY <1>9, <2>1 DEF ProposalMail, OnProposal
    <2>3. /\ mls' \in [Account -> State] /\ saved' \in [Account -> State]
          /\ past' \in [Account -> SUBSET Nat]
      <3>. DEFINE s == [mls[e.to] EXCEPT !.pending = @ \cup {e.proposal}]
      <3>1. s \in State /\ Advance(e.to, s)
        BY <1>2, <2>2, StoreType
      <3>. HIDE DEF s
      <3>. QED  BY <1>2, <3>1, AdvanceType
    <2>4. /\ mail' = mail \ {e}
          /\ UNCHANGED <<row, outbox, ui, dl, commits, calls, sends, crashes, limit, dropped, meetings>>
      BY <1>9 DEF OnProposal, Handled, Others, bounds, life
    <2>. QED  BY <2>3, <2>4 DEF TypeOK
  <1>10. CASE OnMemberUpdate(e)
    <2>1. e \in MemberUpdate
      BY <1>2, <1>10, MailIs DEF OnMemberUpdate
    <2>2. e.members \cup {e.to} \in SUBSET Account
      BY <1>2, <2>1 DEF MemberUpdate
    <2>3. /\ WithMembers(row[e.to], e.members \cup {e.to}) \in Row
          /\ RowAfter(row[e.to], e.to, e.to) \in Row
      <3>. DEFINE r == row[e.to]  members == e.members \cup {e.to}
      <3>1. r \in Row /\ members \in SUBSET Account
        BY <2>2
      <3>. HIDE DEF r, members
      <3>2. WithMembers(r, members) \in Row /\ RowAfter(r, e.to, e.to) \in Row
        BY <3>1, RowIs, RowAfterIs
      <3>. QED  BY <3>2 DEF r, members
    <2>4. row' \in [Account -> Row]
      BY <1>10, <2>3 DEF OnMemberUpdate, TypeOK
    <2>5. /\ mail' = mail \ {e}
          /\ UNCHANGED <<mls, saved, past, outbox, ui, dl, commits, calls, sends, crashes,
                         limit, dropped, meetings>>
      BY <1>10 DEF OnMemberUpdate, Handled, Others, bounds, life
    <2>. QED  BY <2>4, <2>5 DEF TypeOK
  <1>11. CASE OnAppMessage(e)
    <2>1. /\ mail' = mail \ {e}
          /\ UNCHANGED <<row, mls, saved, past, outbox, ui, dl, commits, calls, sends,
                         crashes, limit, dropped, meetings>>
      BY <1>11 DEF OnAppMessage, Handled, group, bounds, life
    <2>. QED  BY <2>1 DEF TypeOK
  <1>. QED  BY <1>1, <1>4, <1>5, <1>6, <1>7, <1>8, <1>9, <1>10, <1>11

\* The shapes of rows, states, mails and calls hold whatever arrives, fails and
\* overlaps.
THEOREM TypeCorrect == Spec => []TypeOK
  <1>. USE DEF meetings
  <1>1. Init => TypeOK
    <2> SUFFICES ASSUME Init PROVE TypeOK
      OBVIOUS
    <2>1. PICK l \in Limits : \E invited \in SUBSET l.members : Started(l, invited)
      BY Zenon DEF Init, Started
    <2>0. PICK invited \in SUBSET l.members : Started(l, invited)
      BY <2>1, Zenon
    <2>2. invited \subseteq Member /\ {Owner} \cup invited \in SUBSET Account
      BY LimitsAssumption, OwnerIsAccount
    <2>3. row \in [Account -> Row]
      <3>1. SetMlsGroupId(NewRow({Owner} \cup invited)) \in Row
        BY <2>2, RowIs, StartIs
      <3>. QED  BY <2>0, <3>1, StartIs DEF Started
    <2>4. mls \in [Account -> State] /\ saved \in [Account -> State]
      BY <2>0, StartIs DEF Started
    <2>5. mail \subseteq Mail
      BY <2>0, <2>2, MailKinds DEF Started, Invite
    <2>6. Idle \in UiCall /\ Idle \in DlCall
      BY DEF UiCall, DlCall
    <2>7. /\ past \in [Account -> SUBSET Nat] /\ limit \in Limits
          /\ {commits, calls, sends, crashes} \subseteq Nat
      BY <2>0 DEF Started
    <2>8. /\ outbox \subseteq Message /\ ui = Idle /\ dl = Idle
          /\ dropped = {} /\ reinvited = {} /\ crossed = {}
      BY <2>0 DEF Started
    <2>. QED  BY <2>3, <2>4, <2>5, <2>6, <2>7, <2>8 DEF TypeOK
  <1>2. TypeOK /\ [Next]_vars => TypeOK'
    <2> SUFFICES ASSUME TypeOK, [Next]_vars
                 PROVE  TypeOK'
      OBVIOUS
    <2>1. ASSUME NEW a \in Account, Restart(a)
          PROVE  TypeOK'
      <3>1. mls' \in [Account -> State]
        BY <2>1 DEF Restart, LoadState, TypeOK
      <3>2. ui' \in UiCall /\ dl' \in DlCall
        BY <2>1 DEF Restart, UiCall, DlCall, TypeOK
      <3>3. crashes' \in Nat
        BY <2>1, LimitIs DEF Restart
      <3>4. UNCHANGED <<row, saved, past, mail, outbox, commits, calls, sends, limit, dropped, meetings>>
        BY <2>1 DEF Restart
      <3>. QED  BY <3>1, <3>2, <3>3, <3>4 DEF TypeOK
    <2>2. ASSUME NEW task \in outbox, Seal(task)
          PROVE  TypeOK'
      <3>1. task.from \in Account /\ task.to \subseteq Account /\ task.n \in Nat
        BY DEF TypeOK, Message
      <3>2. mls[task.from].id \in Nat
        BY <3>1 DEF TypeOK, State
      <3>3. Encrypt(task.from, task) \subseteq Mail
        BY <3>1, <3>2, MailKinds DEF Encrypt, AppMail
      <3>4. mail' \subseteq Mail /\ outbox' \subseteq Message
        BY <2>2, <3>3 DEF Seal, TypeOK
      <3>5. UNCHANGED <<row, mls, saved, past, ui, dl, commits, calls, sends, crashes,
                        limit, dropped, meetings>>
        BY <2>2 DEF Seal, group, bounds, life
      <3>. QED  BY <3>4, <3>5 DEF TypeOK
    <2>3. CASE UNCHANGED vars
      BY <2>3 DEF vars, group, bounds, life, TypeOK
    <2>. QED  BY <2>1, <2>2, <2>3, UserCallType, OwnerStepType, ReceiveType DEF Next
  <1>. QED  BY <1>1, <1>2, PTL DEF Spec
-----------------------------------------------------------------------------
(* One chain of states *)

LEMMA MadeIs ==
    ASSUME TypeOK
    PROVE  /\ Made \subseteq State
           /\ \A a \in Account : mls[a] \in Made
           /\ \A e \in mail : /\ e.kind = "welcome" => e.post \in Made
                              /\ e.kind = "commit" => e.commit.post \in Made
           /\ ui.at \in {"evicted", "refreshed"} => ui.commit.post \in Made
           /\ dl.at \in {"added", "committed"} => dl.commit.post \in Made
  <1>1. \A c \in CommitType : c.post \in State
    BY DEF CommitType
  <1>2. \A e \in mail : /\ e.kind = "welcome" => e.post \in State
                        /\ e.kind = "commit" => e.commit.post \in State
    <2>. SUFFICES ASSUME NEW e \in mail
                  PROVE  /\ e.kind = "welcome" => e.post \in State
                         /\ e.kind = "commit" => e.commit.post \in State
      OBVIOUS
    <2>1. e \in Mail
      BY DEF TypeOK
    <2>2. (e.kind = "welcome" => e \in Welcome) /\ (e.kind = "commit" => e \in CommitMail)
      BY <2>1, MailIs
    <2>. QED  BY <1>1, <2>2 DEF Welcome, CommitMail
  <1>3. ui.at \in {"evicted", "refreshed"} => ui.commit.post \in State
    BY <1>1, UiIs DEF TypeOK
  <1>4. dl.at \in {"added", "committed"} => dl.commit.post \in State
    BY <1>1, DlIs DEF TypeOK
  <1>. QED  BY <1>2, <1>3, <1>4 DEF Made, TypeOK

\* Where the states of the next moment can come from.
LEMMA MadeGrows ==
    ASSUME NEW S, Made \subseteq S,
           \A a \in Account : mls'[a] \in S,
           \A e \in mail' : e \in mail \/ /\ e.kind = "welcome" => e.post \in S
                                          /\ e.kind = "commit" => e.commit.post \in S,
           ui' = ui \/ (ui'.at \in {"evicted", "refreshed"} => ui'.commit.post \in S),
           dl' = dl \/ (dl'.at \in {"added", "committed"} => dl'.commit.post \in S)
    PROVE  Made' \subseteq S
  <1>1. \A e \in mail' : /\ e.kind = "welcome" => e.post \in S
                         /\ e.kind = "commit" => e.commit.post \in S
    BY DEF Made
  <1>2. ui'.at \in {"evicted", "refreshed"} => ui'.commit.post \in S
    BY DEF Made
  <1>3. dl'.at \in {"added", "committed"} => dl'.commit.post \in S
    BY DEF Made
  <1>. QED  BY <1>1, <1>2, <1>3 DEF Made

\* Two states of the group that differ in the proposals stored only.
Like(s, t) == s = t \/ /\ t # NoGroup
                       /\ s.id = t.id /\ s.epoch = t.epoch /\ s.tree = t.tree

\* A step makes no new state, or it is the owner's commit.
Follows ==
    /\ saved' = mls' /\ commits' = commits /\ mls'[Owner].id = mls[Owner].id
    /\ mls'[Owner].epoch = mls[Owner].epoch
    /\ \A s \in Made' : \E t \in Made : Like(s, t)
Commits ==
    /\ saved' = mls' /\ commits' = commits + 1
    /\ mls'[Owner].id = commits + 1 /\ mls'[Owner].epoch = mls[Owner].epoch + 1
    /\ Made' \subseteq Made \cup {mls'[Owner]}

LEMMA ChainKept ==
    ASSUME TypeOK, ChainInv, Follows \/ Commits
    PROVE  ChainInv'
  <1>1. /\ commits \in Nat /\ mls[Owner] \in Made
        /\ \A s \in Made : s.id \in Nat /\ s.epoch \in Nat
    BY MadeIs, LimitIs, OwnerIsAccount DEF State
  <1>2. /\ mls[Owner].id = commits /\ mls[Owner].epoch + 1 = commits
        /\ \A s \in Made : s = NoGroup \/ (s.id = s.epoch + 1 /\ s.id <= commits)
        /\ \A s, t \in Made : s.id = t.id => s.tree = t.tree
    BY DEF ChainInv
  <1>. HIDE DEF Made
  <1>3. CASE Follows
    <2>1. \A s \in Made' : \E t \in Made : Like(s, t)
      BY <1>3 DEF Follows
    <2>2. \A s \in Made' : s = NoGroup \/ (s.id = s.epoch + 1 /\ s.id <= commits)
      BY <1>2, <2>1 DEF Like
    <2>3. \A s, t \in Made' : s.id = t.id => s.tree = t.tree
      BY <1>2, <2>1 DEF Like
    <2>. QED  BY <1>2, <1>3, <2>2, <2>3 DEF Follows, ChainInv
  <1>4. CASE Commits
    <2>. DEFINE new == mls'[Owner]
    <2>1. /\ saved' = mls' /\ commits' = commits + 1 /\ new.id = commits + 1
          /\ new.epoch + 1 = commits'
          /\ \A s \in Made' : s \in Made \/ s = new
      BY <1>1, <1>2, <1>4 DEF Commits
    <2>. HIDE DEF new
    <2>2. \A s \in Made : s.id <= commits
      BY <1>1, <1>2 DEF NoGroup
    <2>3. \A s \in Made' : s = NoGroup \/ (s.id = s.epoch + 1 /\ s.id <= commits')
      BY <1>1, <1>2, <2>1
    <2>4. \A s, t \in Made' : s.id = t.id => s.tree = t.tree
      BY <1>1, <1>2, <2>1, <2>2
    <2>. QED  BY <2>1, <2>3, <2>4 DEF ChainInv, new
  <1>. QED  BY <1>3, <1>4

\* The state that follows the last one.
IsNext(s) == s \in State /\ s.id = commits + 1 /\ s.epoch = mls[Owner].epoch + 1

LEMMA PostsAre ==
    ASSUME TypeOK
    PROVE  /\ \A kp \in KeyPackage : IsNext(AddMembers(kp).post)
           /\ \A m \in Member : IsNext(RemoveMemberByEmail(m).post)
           /\ \A p \in Proposal : IsNext(CommitPending(p).post)
           /\ IsNext(SelfUpdate.post)
  <1>1. ASSUME NEW c \in CommitType, NEW tree,
               c.post = [epoch |-> mls[Owner].epoch + 1, id |-> commits + 1,
                         tree |-> tree, pending |-> {}]
        PROVE  IsNext(c.post)
    <2>1. c.post \in State
      BY DEF CommitType
    <2>. QED  BY <1>1, <2>1 DEF IsNext
  <1>2. ASSUME NEW kp \in KeyPackage PROVE IsNext(AddMembers(kp).post)
    BY <1>1, CommitsAre
  <1>3. ASSUME NEW m \in Member PROVE IsNext(RemoveMemberByEmail(m).post)
    BY <1>1, CommitsAre
  <1>. QED  BY <1>1, <1>2, <1>3, CommitsAre

\* A commit of the owner is at the end of the chain.
LEMMA CommitSteps ==
    ASSUME TypeOK, ChainInv, Durable, NEW c, IsNext(c.post), Commit(c),
           mail' = mail,
           ui' = ui \/ (ui'.at \in {"evicted", "refreshed"} => ui'.commit = c),
           dl' = dl \/ (dl'.at \in {"added", "committed"} => dl'.commit = c)
    PROVE  Commits
  <1>1. /\ mls' = [mls EXCEPT ![Owner] = c.post] /\ saved' = [saved EXCEPT ![Owner] = c.post]
        /\ commits' = commits + 1
    BY OwnerIsAccount, AdvanceType DEF Commit, Durable, IsNext
  <1>2. saved' = mls' /\ mls'[Owner] = c.post
    BY <1>1, OwnerIsAccount DEF ChainInv, TypeOK
  <1>3. Made' \subseteq Made \cup {c.post}
    <2>. DEFINE S == Made \cup {c.post}
    <2>1. \A a \in Account : mls'[a] \in S
      BY <1>1, MadeIs DEF TypeOK
    <2>. HIDE DEF Made
    <2>. QED  BY <2>1, MadeGrows, Zenon
  <1>. QED  BY <1>1, <1>2, <1>3 DEF Commits, IsNext

\* A step that makes nothing new.
LEMMA QuietSteps ==
    ASSUME TypeOK, ChainInv, mls' = mls, saved' = saved, commits' = commits,
           \A e \in mail' : e \in mail \/ /\ e.kind = "welcome" => e.post \in Made
                                          /\ e.kind = "commit" => e.commit.post \in Made,
           ui' = ui \/ ui'.at \notin {"evicted", "refreshed"},
           dl' = dl \/ dl'.at \notin {"added", "committed"}
    PROVE  Follows
  <1>1. \A a \in Account : mls'[a] \in Made
    BY MadeIs
  <1>2. Made' \subseteq Made
    BY <1>1, MadeGrows, Zenon
  <1>. QED  BY <1>2 DEF Follows, Like, ChainInv

\* A step of an account to a state there is, but for the proposals stored.
LEMMA MoveSteps ==
    ASSUME TypeOK, ChainInv, Durable, NEW a \in Account, NEW s \in State, Advance(a, s),
           a # Owner, NEW t \in Made, Like(s, t), commits' = commits,
           \A e \in mail' : e \in mail \/ e.kind \notin {"welcome", "commit"},
           ui' = ui, dl' = dl
    PROVE  Follows
  <1>1. /\ mls' = [mls EXCEPT ![a] = s] /\ saved' = [saved EXCEPT ![a] = s]
    BY AdvanceType DEF Durable
  <1>2. saved' = mls' /\ mls'[Owner] = mls[Owner]
    BY <1>1, OwnerIsAccount DEF ChainInv, TypeOK
  <1>3. \A b \in Account : mls'[b] \in Made \cup {s}
    BY <1>1, MadeIs DEF TypeOK
  <1>4. Made' \subseteq Made \cup {s}
    <2>. DEFINE S == Made \cup {s}
    <2>1. Made \subseteq S /\ \A b \in Account : mls'[b] \in S
      BY <1>3
    <2>. HIDE DEF Made
    <2>. QED  BY <2>1, MadeGrows, Zenon
  <1>. QED  BY <1>2, <1>4 DEF Follows, Like

LEMMA ChainUserCall ==
    ASSUME TypeOK, ChainInv, Durable, UserCall
    PROVE  Follows \/ Commits
  <1>1. ASSUME NEW m \in limit.members, InviteMember(m)
        PROVE  Follows
    BY <1>1, QuietSteps DEF InviteMember, UpdateMails
  <1>2. ASSUME NEW m \in limit.members, RemoveMember(m)
        PROVE  Follows
    <2>1. /\ mls' = mls /\ saved' = saved /\ commits' = commits /\ mail' = mail /\ dl' = dl
          /\ ui'.at \notin {"evicted", "refreshed"}
      BY <1>2 DEF RemoveMember, group
    <2>. QED  BY <2>1, QuietSteps
  <1>3. ASSUME NEW a \in Account, SendMessage(a)
        PROVE  Follows
    BY <1>3, QuietSteps DEF SendMessage, group
  <1>4. ASSUME NEW a \in Account, SendAndPropose(a)
        PROVE  Follows
    <2>. DEFINE p == ProposeSelfUpdate(a)
                s == [mls[a] EXCEPT !.pending = @ \cup {p}]
    <2>1. /\ a # Owner /\ a \in MemberEmails(a) /\ StoreProposal(a, p)
          /\ commits' = commits /\ ui' = ui /\ dl' = dl
          /\ \A e \in mail' : e \in mail \/ e.kind = "proposal"
      BY <1>4 DEF SendAndPropose, CanSend
    <2>2. p \in Proposal
      <3>1. a \in Member /\ mls[a].id \in Nat
        BY <2>1, OwnerIsAccount DEF TypeOK, State
      <3>2. sends' \in Nat
        BY <1>4, LimitIs DEF SendAndPropose, Sends
      <3>. QED  BY <3>1, <3>2 DEF ProposeSelfUpdate, Proposal
    <2>. HIDE DEF p
    <2>3. /\ s \in State /\ Advance(a, s)
          /\ s.id = mls[a].id /\ s.epoch = mls[a].epoch /\ s.tree = mls[a].tree
      BY <2>1, <2>2, StoreType
    <2>4. mls[a] # NoGroup /\ mls[a] \in Made
      BY <2>1, TreeIs, MadeIs
    <2>. HIDE DEF s
    <2>5. Like(s, mls[a])
      BY <2>3, <2>4 DEF Like
    <2>. QED  BY <2>1, <2>3, <2>4, <2>5, MoveSteps
  <1>5. ASSUME SendAndRefresh
        PROVE  Commits
    <2>. DEFINE c == SelfUpdate
    <2>1. IsNext(c.post)
      BY PostsAre
    <2>2. Commit(c) /\ mail' = mail /\ dl' = dl /\ ui' = [at |-> "refreshed", commit |-> c]
      BY <1>5 DEF SendAndRefresh
    <2>. HIDE DEF c
    <2>. QED  BY <2>1, <2>2, CommitSteps
  <1>. QED  BY <1>1, <1>2, <1>3, <1>4, <1>5 DEF UserCall

LEMMA ChainOwnerStep ==
    ASSUME TypeOK, ChainInv, Durable, OwnerStep
    PROVE  Follows \/ Commits
  <1>1. CASE Evict
    <2>. DEFINE c == RemoveMemberByEmail(ui.who)
    <2>1. ui.who \in Member
      BY <1>1, UiIs DEF Evict, TypeOK
    <2>2. IsNext(c.post)
      BY <2>1, PostsAre
    <2>3. Commit(c) /\ mail' = mail /\ dl' = dl /\ ui'.commit = c
      BY <1>1 DEF Evict
    <2>. HIDE DEF c
    <2>. QED  BY <2>2, <2>3, CommitSteps
  <1>2. CASE Evicted
    <2>1. /\ mls' = mls /\ saved' = saved /\ commits' = commits /\ dl' = dl /\ ui' = Idle
          /\ ui.at = "evicted"
          /\ \A e \in mail' : e \in mail \/ (e.kind = "commit" /\ e.commit = ui.commit)
      BY <1>2 DEF Evicted, CommitMails
    <2>2. ui.commit.post \in Made
      BY <2>1, MadeIs
    <2>. HIDE DEF Made
    <2>3. ui'.at \notin {"evicted", "refreshed"}
      BY <2>1 DEF Idle
    <2>. QED  BY <2>1, <2>2, <2>3, QuietSteps
  <1>3. CASE Drop
    <2>1. /\ mls' = mls /\ saved' = saved /\ commits' = commits /\ dl' = dl /\ ui' = Idle
          /\ \A e \in mail' : e \in mail \/ e.kind = "member_update"
      BY <1>3 DEF Drop, UpdateMails
    <2>2. ui'.at \notin {"evicted", "refreshed"}
      BY <2>1 DEF Idle
    <2>. QED  BY <2>1, <2>2, QuietSteps
  <1>4. CASE Refreshed
    <2>1. /\ mls' = mls /\ saved' = saved /\ commits' = commits /\ dl' = dl /\ ui' = Idle
          /\ ui.at = "refreshed"
          /\ \A e \in mail' : e \in mail \/ (e.kind = "commit" /\ e.commit = ui.commit)
      BY <1>4 DEF Refreshed, CommitMails, group
    <2>2. ui.commit.post \in Made
      BY <2>1, MadeIs
    <2>. HIDE DEF Made
    <2>3. ui'.at \notin {"evicted", "refreshed"}
      BY <2>1 DEF Idle
    <2>. QED  BY <2>1, <2>2, <2>3, QuietSteps
  <1>5. CASE AddMember
    <2>. DEFINE c == AddMembers(dl.mail)
    <2>1. dl.mail \in KeyPackage
      BY <1>5, DlIs DEF AddMember, TypeOK
    <2>2. IsNext(c.post)
      BY <2>1, PostsAre
    <2>3. Commit(c) /\ mail' = mail /\ ui' = ui /\ dl'.commit = c
      BY <1>5 DEF AddMember
    <2>. HIDE DEF c
    <2>. QED  BY <2>2, <2>3, CommitSteps
  <1>6. CASE Added
    <2>1. /\ mls' = mls /\ saved' = saved /\ commits' = commits /\ ui' = ui /\ dl' = Idle
          /\ dl.at = "added"
          /\ \A e \in mail' : \/ e \in mail
                              \/ e.kind = "commit" /\ e.commit = dl.commit
                              \/ e.kind = "welcome" /\ e.post = dl.commit.post
      BY <1>6 DEF Added, CommitMails, group
    <2>2. dl.commit.post \in Made
      BY <2>1, MadeIs
    <2>. HIDE DEF Made
    <2>3. dl'.at \notin {"added", "committed"}
      BY <2>1 DEF Idle
    <2>. QED  BY <2>1, <2>2, <2>3, QuietSteps
  <1>7. CASE Committed
    <2>1. /\ mls' = mls /\ saved' = saved /\ commits' = commits /\ ui' = ui /\ dl' = Idle
          /\ dl.at = "committed"
          /\ \A e \in mail' : e \in mail \/ (e.kind = "commit" /\ e.commit = dl.commit)
      BY <1>7 DEF Committed, CommitMails, group
    <2>2. dl.commit.post \in Made
      BY <2>1, MadeIs
    <2>. HIDE DEF Made
    <2>3. dl'.at \notin {"added", "committed"}
      BY <2>1 DEF Idle
    <2>. QED  BY <2>1, <2>2, <2>3, QuietSteps
  <1>. QED  BY <1>1, <1>2, <1>3, <1>4, <1>5, <1>6, <1>7 DEF OwnerStep

LEMMA ChainReceive ==
    ASSUME TypeOK, ChainInv, Durable, NEW a \in Account, Receive(a)
    PROVE  Follows \/ Commits
  <1>1. PICK e \in mail : /\ e.to = a
                          /\ \/ OnKeyPackage(e) \/ OnProposalOfMember(e)
                             \/ OnInvite(e) \/ OnWelcome(e) \/ OnCommit(e) \/ OnProposal(e)
                             \/ OnMemberUpdate(e) \/ OnAppMessage(e)
    BY DEF Receive
  <1>2. e \in Mail
    BY DEF TypeOK
  <1>3. CASE OnKeyPackage(e)
    <2>1. /\ mls' = mls /\ saved' = saved /\ commits' = commits /\ ui' = ui
          /\ mail' \subseteq mail /\ (dl' = dl \/ dl'.at = "add")
      BY <1>3 DEF OnKeyPackage, group
    <2>. QED  BY <2>1, QuietSteps
  <1>4. CASE OnProposalOfMember(e)
    <2>. DEFINE c == CommitPending(e.proposal)
    <2>1. e.proposal \in Proposal
      BY <1>2, <1>4, MailIs DEF OnProposalOfMember, ProposalMail
    <2>2. IsNext(c.post)
      BY <2>1, PostsAre
    <2>3. Commit(c) /\ mail' = mail /\ ui' = ui /\ dl'.commit = c
      BY <1>4 DEF OnProposalOfMember
    <2>. HIDE DEF c
    <2>. QED  BY <2>2, <2>3, CommitSteps
  <1>5. CASE OnInvite(e)
    <2>1. /\ mls' = mls /\ saved' = saved /\ commits' = commits /\ ui' = ui /\ dl' = dl
          /\ \A x \in mail' : x \in mail \/ x.kind = "key_package"
      BY <1>5 DEF OnInvite, Others, Handled, GenerateKeyPackage
    <2>. QED  BY <2>1, QuietSteps
  <1>6. CASE OnWelcome(e)
    <2>1. e \in Welcome
      BY <1>2, <1>6, MailIs DEF OnWelcome
    <2>2. e.to \in Account /\ e.to # Owner /\ e.post \in State /\ e.post \in Made
      BY <2>1, MadeIs, OwnerIsAccount DEF Welcome
    <2>3. mail' \subseteq mail /\ commits' = commits /\ ui' = ui /\ dl' = dl
      BY <1>6 DEF OnWelcome, Handled, Others
    <2>4. Like(e.post, e.post)
      BY DEF Like
    <2>5. CASE Ready(e.to)
      BY <1>6, <2>3, <2>5, QuietSteps DEF OnWelcome, group
    <2>6. CASE ~Ready(e.to)
      <3>1. Advance(e.to, e.post)
        BY <1>6, <2>6 DEF OnWelcome, JoinGroup
      <3>. QED  BY <2>2, <2>3, <2>4, <3>1, MoveSteps
    <2>. QED  BY <2>5, <2>6
  <1>7. CASE OnCommit(e)
    <2>1. e \in CommitMail
      BY <1>2, <1>7, MailIs DEF OnCommit
    <2>2. e.to \in Account /\ e.to # Owner /\ e.commit.post \in State /\ e.commit.post \in Made
      BY <2>1, MadeIs, OwnerIsAccount DEF CommitMail
    <2>3. mail' \subseteq mail /\ commits' = commits /\ ui' = ui /\ dl' = dl
      BY <1>7 DEF OnCommit, Handled, Others
    <2>4. Like(e.commit.post, e.commit.post)
      BY DEF Like
    <2>5. CASE Applies(e.to, e.commit)
      <3>1. Advance(e.to, e.commit.post)
        BY <1>7, <2>5 DEF OnCommit
      <3>. QED  BY <2>2, <2>3, <2>4, <3>1, MoveSteps
    <2>6. CASE ~Applies(e.to, e.commit)
      BY <1>7, <2>3, <2>6, QuietSteps DEF OnCommit
    <2>. QED  BY <2>5, <2>6
  <1>8. CASE OnProposal(e)
    <2>. DEFINE s == [mls[e.to] EXCEPT !.pending = @ \cup {e.proposal}]
    <2>1. /\ e.to # Owner /\ e.to \in Account /\ e.to \in MemberEmails(e.to)
          /\ e.proposal \in Proposal /\ StoreProposal(e.to, e.proposal)
      BY <1>2, <1>8, MailIs DEF OnProposal, ProposalMail
    <2>2. mail' \subseteq mail /\ commits' = commits /\ ui' = ui /\ dl' = dl
      BY <1>8 DEF OnProposal, Handled, Others
    <2>3. /\ s \in State /\ Advance(e.to, s)
          /\ s.id = mls[e.to].id /\ s.epoch = mls[e.to].epoch /\ s.tree = mls[e.to].tree
      BY <2>1, StoreType
    <2>4. mls[e.to] # NoGroup /\ mls[e.to] \in Made
      BY <2>1, TreeIs, MadeIs
    <2>. HIDE DEF s
    <2>5. Like(s, mls[e.to])
      BY <2>3, <2>4 DEF Like
    <2>. QED  BY <2>1, <2>2, <2>3, <2>4, <2>5, MoveSteps
  <1>9. CASE OnMemberUpdate(e)
    BY <1>9, QuietSteps DEF OnMemberUpdate, Handled, Others
  <1>10. CASE OnAppMessage(e)
    BY <1>10, QuietSteps DEF OnAppMessage, Handled, group
  <1>. QED  BY <1>1, <1>3, <1>4, <1>5, <1>6, <1>7, <1>8, <1>9, <1>10

LEMMA ChainInitially == Init => ChainInv
  <1>. SUFFICES ASSUME Init PROVE ChainInv
    OBVIOUS
  <1>1. PICK l \in Limits : \E invited \in SUBSET l.members : Started(l, invited)
    BY Zenon DEF Init, Started
  <1>2. PICK invited \in SUBSET l.members : Started(l, invited)
    BY <1>1, Zenon
  <1>3. /\ mls = [a \in Account |-> IF a = Owner THEN Founded ELSE NoGroup] /\ saved = mls
        /\ commits = 1 /\ ui.at = "idle" /\ dl.at = "idle"
        /\ \A e \in mail : e.kind = "invite"
    BY <1>2 DEF Started, Idle
  <1>4. Made \subseteq {NoGroup, Founded}
    BY <1>3 DEF Made
  <1>5. mls[Owner].id = 1 /\ mls[Owner].epoch = 0
    BY <1>3, OwnerIsAccount DEF Founded
  <1>6. \A s \in Made : s = NoGroup \/ (s.id = 1 /\ s.epoch = 0 /\ s.tree = {Owner})
    BY <1>4 DEF Founded
  <1>7. NoGroup.id = 0
    BY DEF NoGroup
  <1>. HIDE DEF Made
  <1>8. \A s \in Made : s = NoGroup \/ (s.id = s.epoch + 1 /\ s.id <= commits)
    BY <1>3, <1>6
  <1>9. ASSUME NEW s \in Made, NEW t \in Made, s.id = t.id PROVE s.tree = t.tree
    <2>1. s = NoGroup \/ (s.id = 1 /\ s.tree = {Owner})
      BY <1>6
    <2>2. t = NoGroup \/ (t.id = 1 /\ t.tree = {Owner})
      BY <1>6
    <2>. QED  BY <1>7, <1>9, <2>1, <2>2
  <1>. QED  BY <1>3, <1>5, <1>8, <1>9 DEF ChainInv

LEMMA ChainStep ==
    ASSUME TypeOK, ChainInv, Durable, [Next]_vars
    PROVE  ChainInv'
  <1>1. ASSUME NEW a \in Account, Restart(a)
        PROVE  Follows
    <2>1. /\ mls' = mls /\ saved' = saved /\ commits' = commits /\ mail' = mail
          /\ (ui' = ui \/ ui' = Idle) /\ (dl' = dl \/ dl' = Idle)
      BY <1>1 DEF Restart, LoadState, ChainInv, TypeOK
    <2>. QED  BY <2>1, QuietSteps DEF Idle
  <1>2. ASSUME NEW task \in outbox, Seal(task)
        PROVE  Follows
    <2>1. /\ mls' = mls /\ saved' = saved /\ commits' = commits /\ ui' = ui /\ dl' = dl
          /\ \A e \in mail' : e \in mail \/ e.kind = "app"
      BY <1>2 DEF Seal, Encrypt, group
    <2>. QED  BY <2>1, QuietSteps
  <1>3. ASSUME UNCHANGED vars
        PROVE  Follows
    <2>1. /\ mls' = mls /\ saved' = saved /\ commits' = commits /\ ui' = ui /\ dl' = dl
          /\ mail' = mail
      BY <1>3 DEF vars, group
    <2>. QED  BY <2>1, QuietSteps
  <1>4. Follows \/ Commits
    <2>1. \/ UserCall \/ OwnerStep
          \/ \E a \in Account : Receive(a) \/ Restart(a)
          \/ \E task \in outbox : Seal(task)
          \/ UNCHANGED vars
      BY DEF Next
    <2>. HIDE DEF Follows, Commits
    <2>. QED  BY <2>1, <1>1, <1>2, <1>3, ChainUserCall, ChainOwnerStep, ChainReceive
  <1>. QED  BY <1>4, ChainKept

\* While every save succeeds, accounts in one epoch are in one state of the
\* group: no member follows another branch than the owner's.
THEOREM NoForks == ASSUME Durable PROVE Spec => []NoFork
  <1>1. ChainInv /\ TypeOK => NoFork
    <2>. SUFFICES ASSUME ChainInv, TypeOK, NEW a \in Account, NEW b \in Account,
                         Ready(a), Ready(b), mls[a].epoch = mls[b].epoch
                  PROVE  mls[a].id = mls[b].id /\ mls[a].tree = mls[b].tree
      BY DEF NoFork
    <2>1. mls[a] \in Made /\ mls[b] \in Made
      BY MadeIs
    <2>2. mls[a] # NoGroup /\ mls[b] # NoGroup
      BY DEF Ready
    <2>. HIDE DEF Made
    <2>. QED  BY <2>1, <2>2 DEF ChainInv
  <1>2. TypeOK /\ ChainInv /\ [Next]_vars => ChainInv'
    BY ChainStep
  <1>. QED  BY <1>1, <1>2, ChainInitially, TypeCorrect, PTL DEF Spec
-----------------------------------------------------------------------------
(* The owner's roster and the tree *)

LEMMA TreesAre ==
    ASSUME TypeOK
    PROVE  /\ \A kp \in KeyPackage : AddMembers(kp).post.tree = Joined \cup {kp.from}
           /\ \A m \in Member : RemoveMemberByEmail(m).post.tree = Joined \ {m}
           /\ \A p \in Proposal : CommitPending(p).post.tree = Joined
           /\ SelfUpdate.post.tree = Joined
  <1>1. ASSUME NEW c, NEW tree,
               c.post = [epoch |-> mls[Owner].epoch + 1, id |-> commits + 1,
                         tree |-> tree, pending |-> {}]
        PROVE  c.post.tree = tree
    BY <1>1
  <1>2. ASSUME NEW kp \in KeyPackage
        PROVE  AddMembers(kp).post.tree = Joined \cup {kp.from}
    <2>. DEFINE c == AddMembers(kp)
    <2>1. c.post = [epoch |-> mls[Owner].epoch + 1, id |-> commits + 1,
                    tree |-> Joined \cup {kp.from}, pending |-> {}]
      BY CommitsAre
    <2>. HIDE DEF c
    <2>2. c.post.tree = Joined \cup {kp.from}
      BY <2>1
    <2>. QED  BY <2>2 DEF c
  <1>3. ASSUME NEW m \in Member
        PROVE  RemoveMemberByEmail(m).post.tree = Joined \ {m}
    <2>. DEFINE c == RemoveMemberByEmail(m)
    <2>1. c.post = [epoch |-> mls[Owner].epoch + 1, id |-> commits + 1,
                    tree |-> Joined \ {m}, pending |-> {}]
      BY CommitsAre
    <2>. HIDE DEF c
    <2>2. c.post.tree = Joined \ {m}
      BY <2>1
    <2>. QED  BY <2>2 DEF c
  <1>. QED  BY <1>1, <1>2, <1>3, CommitsAre

LEMMA CommitTree ==
    ASSUME TypeOK, row[Owner].mls, NEW c, c.post \in State, Commit(c), row' = row
    PROVE  /\ Joined' = c.post.tree
           /\ row'[Owner].mls /\ Roster(Owner)' = Roster(Owner)
  <1>1. mls'[Owner] = c.post
    BY OwnerIsAccount, AdvanceType DEF Commit, TypeOK
  <1>. QED  BY <1>1 DEF Joined, MemberEmails, GetMlsGroupId, Roster

\* A step that leaves the owner's row and state alone, and begins no call.
LEMMA RosterQuiet ==
    ASSUME RosterInv, row'[Owner] = row[Owner], mls'[Owner] = mls[Owner],
           crossed' = crossed, ui' = ui \/ ui' = Idle, dl' = dl \/ dl' = Idle
    PROVE  RosterInv'
  <1>1. Joined' = Joined /\ Roster(Owner)' = Roster(Owner)
    BY DEF Joined, MemberEmails, GetMlsGroupId, Roster
  <1>2. Idle.at = "idle"
    BY DEF Idle
  <1>. QED  BY <1>1, <1>2 DEF RosterInv, Removing, Adding

LEMMA RosterUserCall ==
    ASSUME TypeOK, RosterInv, UserCall
    PROVE  RosterInv'
  <1>0. Idle.at = "idle" /\ Owner \in Account /\ row[Owner] \in Row
    BY OwnerIsAccount DEF Idle, TypeOK
  <1>1. ASSUME NEW m \in limit.members, InviteMember(m)
        PROVE  RosterInv'
    <2>1. /\ ui = Idle /\ ui' = ui /\ dl' = dl /\ mls' = mls /\ crossed' = crossed
          /\ row' = [row EXCEPT ![Owner] = WithMember(row[Owner], m)]
      BY <1>1 DEF InviteMember
    <2>2. m \in Account
      BY LimitIs, OwnerIsAccount
    <2>3. /\ WithMember(row[Owner], m).members = row[Owner].members \cup {m}
          /\ WithMember(row[Owner], m).mls = row[Owner].mls
      BY <1>0 DEF WithMember, WithMembers, Row
    <2>4. /\ row'[Owner].mls = row[Owner].mls
          /\ Roster(Owner)' = Roster(Owner) \cup {m}
      BY <1>0, <2>1, <2>3 DEF Roster, TypeOK
    <2>5. Joined' = Joined
      BY <2>1, <2>4 DEF Joined, MemberEmails, GetMlsGroupId
    <2>. QED  BY <1>0, <2>1, <2>4, <2>5 DEF RosterInv, Removing, Adding
  <1>2. ASSUME NEW m \in limit.members, RemoveMember(m)
        PROVE  RosterInv'
    <2>1. /\ row' = row /\ mls' = mls /\ dl' = dl
          /\ crossed' = crossed \cup Adding
          /\ \/ ui'.at = "evict"
             \/ ui'.at = "drop" /\ ui'.who \notin Joined
      BY <1>2 DEF RemoveMember, group
    <2>2. Joined' = Joined /\ Roster(Owner)' = Roster(Owner)
      BY <2>1 DEF Joined, MemberEmails, GetMlsGroupId, Roster
    <2>. QED  BY <1>0, <2>1, <2>2 DEF RosterInv, Adding
  <1>3. ASSUME NEW a \in Account, SendMessage(a)
        PROVE  RosterInv'
    BY <1>3, RosterQuiet DEF SendMessage, group, meetings
  <1>4. ASSUME NEW a \in Account, SendAndPropose(a)
        PROVE  RosterInv'
    <2>1. /\ a # Owner /\ row' = row /\ ui' = ui /\ dl' = dl /\ crossed' = crossed
          /\ StoreProposal(a, ProposeSelfUpdate(a))
      BY <1>4 DEF SendAndPropose, meetings
    <2>2. mls'[Owner] = mls[Owner]
      BY <1>0, <2>1 DEF StoreProposal, Advance, TypeOK
    <2>. QED  BY <2>1, <2>2, RosterQuiet
  <1>5. ASSUME SendAndRefresh
        PROVE  RosterInv'
    <2>. DEFINE c == SelfUpdate
    <2>1. c.post \in State /\ c.post.tree = Joined
      BY PostsAre, TreesAre DEF IsNext
    <2>2. /\ Commit(c) /\ row' = row /\ dl' = dl /\ crossed' = crossed
          /\ ui'.at = "refreshed"
      BY <1>5 DEF SendAndRefresh, meetings
    <2>. HIDE DEF c
    <2>3. Joined' = Joined /\ row'[Owner].mls /\ Roster(Owner)' = Roster(Owner)
      BY <2>1, <2>2, CommitTree DEF RosterInv
    <2>. QED  BY <1>0, <2>2, <2>3 DEF RosterInv, Removing
  <1>. QED  BY <1>1, <1>2, <1>3, <1>4, <1>5 DEF UserCall

LEMMA RosterOwnerStep ==
    ASSUME TypeOK, RosterInv, OwnerStep
    PROVE  RosterInv'
  <1>0. /\ Idle.at = "idle" /\ Owner \in Account /\ row[Owner] \in Row /\ row[Owner].mls
        /\ Roster(Owner) \in SUBSET Account
    BY OwnerIsAccount, TreeIs DEF Idle, TypeOK, RosterInv
  <1>1. CASE Evict
    <2>. DEFINE c == RemoveMemberByEmail(ui.who)
    <2>1. ui.who \in Member
      BY <1>1, UiIs DEF Evict, TypeOK
    <2>2. c.post \in State /\ c.post.tree = Joined \ {ui.who}
      BY <2>1, PostsAre, TreesAre DEF IsNext
    <2>3. /\ Commit(c) /\ row' = row /\ dl' = dl /\ ui.at = "evict"
          /\ ui'.at = "evicted" /\ ui'.who = ui.who /\ crossed' = crossed
      BY <1>1 DEF Evict, bounds, meetings
    <2>. HIDE DEF c
    <2>4. Joined' = Joined \ {ui.who} /\ row'[Owner].mls /\ Roster(Owner)' = Roster(Owner)
      BY <1>0, <2>2, <2>3, CommitTree
    <2>. QED  BY <1>0, <2>3, <2>4 DEF RosterInv, Removing, Adding
  <1>2. CASE Evicted
    <2>1. /\ ui.at = "evicted" /\ ui' = Idle /\ dl' = dl /\ mls' = mls
          /\ crossed' = crossed
          /\ row' = [row EXCEPT ![Owner] = WithoutMember(row[Owner], ui.who)]
      BY <1>2 DEF Evicted, meetings
    <2>2. /\ WithoutMember(row[Owner], ui.who).members = row[Owner].members \ {ui.who}
          /\ WithoutMember(row[Owner], ui.who).mls = row[Owner].mls
      BY <1>0 DEF WithoutMember, WithMembers, Row
    <2>3. /\ row'[Owner].mls /\ Roster(Owner)' = Roster(Owner) \ {ui.who}
      BY <1>0, <2>1, <2>2 DEF Roster, TypeOK
    <2>4. Joined' = Joined
      BY <1>0, <2>1, <2>3 DEF Joined, MemberEmails, GetMlsGroupId
    <2>5. /\ ui.who \notin Joined \ crossed
          /\ dl.at = "add" => dl.mail.from \in crossed
      BY <1>0, <2>1 DEF RosterInv, Removing, Adding
    <2>. QED  BY <1>0, <2>1, <2>3, <2>4, <2>5 DEF RosterInv, Removing
  <1>3. CASE Drop
    <2>. DEFINE members == Roster(Owner) \ {ui.who}
    <2>1. /\ ui.at = "drop" /\ ui' = Idle /\ dl' = dl /\ mls' = mls
          /\ crossed' = crossed
          /\ row' = [row EXCEPT ![Owner] = WithMembers(row[Owner], members)]
      BY <1>3 DEF Drop, meetings
    <2>0. members \in SUBSET Account
      BY <1>0
    <2>. HIDE DEF members
    <2>2. /\ WithMembers(row[Owner], members).members = members
          /\ WithMembers(row[Owner], members).mls = row[Owner].mls
      BY <1>0 DEF WithMembers, Row
    <2>3. /\ row'[Owner].mls /\ Roster(Owner)' = members
      BY <1>0, <2>1, <2>2 DEF Roster, TypeOK
    <2>4. Joined' = Joined
      BY <1>0, <2>1, <2>3 DEF Joined, MemberEmails, GetMlsGroupId
    <2>5. /\ ui.who \notin Joined \ crossed
          /\ dl.at = "add" => dl.mail.from \in crossed
      BY <1>0, <2>1 DEF RosterInv, Removing, Adding
    <2>. QED  BY <1>0, <2>1, <2>3, <2>4, <2>5 DEF RosterInv, Removing, members
  <1>4. CASE Refreshed
    BY <1>4, RosterQuiet DEF Refreshed, group, meetings
  <1>5. CASE AddMember
    <2>. DEFINE c == AddMembers(dl.mail)
    <2>1. dl.mail \in KeyPackage
      BY <1>5, DlIs DEF AddMember, TypeOK
    <2>2. c.post \in State /\ c.post.tree = Joined \cup {dl.mail.from}
      BY <2>1, PostsAre, TreesAre DEF IsNext
    <2>3. /\ Commit(c) /\ row' = row /\ ui' = ui /\ dl.at = "add" /\ dl'.at = "added"
          /\ dl'.mail = dl.mail /\ crossed' = crossed
      BY <1>5 DEF AddMember, bounds, meetings
    <2>. HIDE DEF c
    <2>4. /\ Joined' = Joined \cup {dl.mail.from} /\ row'[Owner].mls
          /\ Roster(Owner)' = Roster(Owner)
      BY <1>0, <2>2, <2>3, CommitTree
    <2>5. /\ dl.mail.from \in Roster(Owner) \cup crossed
          /\ Removing => dl.mail.from \in crossed
      BY <1>0, <2>3 DEF RosterInv, Adding
    <2>. QED  BY <1>0, <2>3, <2>4, <2>5 DEF RosterInv, Removing, Adding
  <1>6. CASE Added
    BY <1>6, RosterQuiet DEF Added, group, bounds, meetings
  <1>7. CASE Committed
    BY <1>7, RosterQuiet DEF Committed, group, bounds, meetings
  <1>. QED  BY <1>1, <1>2, <1>3, <1>4, <1>5, <1>6, <1>7 DEF OwnerStep

LEMMA RosterReceive ==
    ASSUME TypeOK, RosterInv, NEW a \in Account, Receive(a)
    PROVE  RosterInv'
  <1>0. Idle.at = "idle" /\ Owner \in Account
    BY OwnerIsAccount DEF Idle
  <1>1. PICK e \in mail : /\ e.to = a
                          /\ \/ OnKeyPackage(e) \/ OnProposalOfMember(e)
                             \/ OnInvite(e) \/ OnWelcome(e) \/ OnCommit(e) \/ OnProposal(e)
                             \/ OnMemberUpdate(e) \/ OnAppMessage(e)
    BY DEF Receive
  <1>2. e \in Mail
    BY DEF TypeOK
  <1>3. CASE OnKeyPackage(e)
    <2>1. /\ row' = row /\ mls' = mls /\ ui' = ui /\ crossed \subseteq crossed'
          /\ \/ dl' = dl
             \/ /\ dl'.at = "add" /\ dl'.mail = e /\ e.from \in Roster(Owner)
                /\ Removing => e.from \in crossed'
      BY <1>3 DEF OnKeyPackage, group
    <2>2. Joined' = Joined /\ Roster(Owner)' = Roster(Owner)
      BY <2>1 DEF Joined, MemberEmails, GetMlsGroupId, Roster
    <2>. QED  BY <1>0, <2>1, <2>2 DEF RosterInv, Removing, Adding
  <1>4. CASE OnProposalOfMember(e)
    <2>. DEFINE c == CommitPending(e.proposal)
    <2>1. e.proposal \in Proposal
      BY <1>2, <1>4, MailIs DEF OnProposalOfMember, ProposalMail
    <2>2. c.post \in State /\ c.post.tree = Joined
      BY <2>1, PostsAre, TreesAre DEF IsNext
    <2>3. /\ Commit(c) /\ row' = row /\ ui' = ui /\ crossed' = crossed
          /\ dl'.at = "committed"
      BY <1>4 DEF OnProposalOfMember, bounds, meetings
    <2>. HIDE DEF c
    <2>4. Joined' = Joined /\ row'[Owner].mls /\ Roster(Owner)' = Roster(Owner)
      BY <2>2, <2>3, CommitTree DEF RosterInv
    <2>. QED  BY <1>0, <2>3, <2>4 DEF RosterInv, Removing, Adding
  <1>5. CASE OnAppMessage(e)
    BY <1>5, RosterQuiet DEF OnAppMessage, group, bounds, meetings
  <1>6. CASE OnInvite(e) \/ OnWelcome(e) \/ OnCommit(e) \/ OnProposal(e) \/ OnMemberUpdate(e)
    <2>1. e.to # Owner
      BY <1>2, <1>6, MailIs, OwnerIsAccount
         DEF OnInvite, OnWelcome, OnCommit, OnProposal, OnMemberUpdate,
             Invite, Welcome, CommitMail, MemberUpdate
    <2>2. ui' = ui /\ dl' = dl /\ crossed' = crossed
      BY <1>6 DEF OnInvite, OnWelcome, OnCommit, OnProposal, OnMemberUpdate, Others,
                  bounds, meetings
    <2>3. row'[Owner] = row[Owner]
      BY <1>0, <1>6, <2>1
         DEF OnInvite, OnWelcome, OnCommit, OnProposal, OnMemberUpdate, JoinGroup, group, TypeOK
    <2>4. mls'[Owner] = mls[Owner]
      BY <1>0, <1>6, <2>1
         DEF OnInvite, OnWelcome, OnCommit, OnProposal, OnMemberUpdate, JoinGroup,
             StoreProposal, Advance, group, TypeOK
    <2>. QED  BY <2>2, <2>3, <2>4, RosterQuiet
  <1>. QED  BY <1>1, <1>3, <1>4, <1>5, <1>6

LEMMA RosterStep ==
    ASSUME TypeOK, ChainInv, RosterInv, [Next]_vars
    PROVE  RosterInv'
  <1>1. ASSUME NEW a \in Account, Restart(a)
        PROVE  RosterInv'
    <2>1. /\ mls' = mls /\ row' = row /\ (ui' = ui \/ ui' = Idle) /\ (dl' = dl \/ dl' = Idle)
          /\ crossed' = crossed
      BY <1>1 DEF Restart, LoadState, ChainInv, TypeOK, meetings
    <2>. QED  BY <2>1, RosterQuiet
  <1>2. ASSUME NEW task \in outbox, Seal(task)
        PROVE  RosterInv'
    BY <1>2, RosterQuiet DEF Seal, group, bounds, meetings
  <1>3. ASSUME UNCHANGED vars
        PROVE  RosterInv'
    BY <1>3, RosterQuiet DEF vars, group, bounds, meetings
  <1>4. \/ UserCall \/ OwnerStep
        \/ \E a \in Account : Receive(a) \/ Restart(a)
        \/ \E task \in outbox : Seal(task)
        \/ UNCHANGED vars
    BY DEF Next
  <1>. HIDE DEF RosterInv
  <1>. QED  BY <1>1, <1>2, <1>3, <1>4, RosterUserCall, RosterOwnerStep, RosterReceive

LEMMA RosterInitially == Init => RosterInv
  <1>. SUFFICES ASSUME Init PROVE RosterInv
    OBVIOUS
  <1>1. PICK l \in Limits : \E invited \in SUBSET l.members : Started(l, invited)
    BY Zenon DEF Init, Started
  <1>2. PICK invited \in SUBSET l.members : Started(l, invited)
    BY <1>1, Zenon
  <1>3. {Owner} \cup invited \in SUBSET Account /\ Owner \in Account
    BY LimitsAssumption, OwnerIsAccount
  <1>. DEFINE r == NewRow({Owner} \cup invited)
  <1>4. r \in Row /\ r.members = {Owner} \cup invited
    BY <1>3, RowIs, StartIs
  <1>5. row[Owner] = SetMlsGroupId(r) /\ mls[Owner] = Founded /\ ui = Idle /\ dl = Idle
    BY <1>2, <1>3 DEF Started
  <1>. HIDE DEF r
  <1>6. row[Owner].mls /\ row[Owner].members = {Owner} \cup invited
    BY <1>4, <1>5, RowIs DEF Row
  <1>7. Joined = {Owner}
    BY <1>5, <1>6 DEF Joined, MemberEmails, GetMlsGroupId, Founded
  <1>. QED  BY <1>5, <1>6, <1>7 DEF RosterInv, Roster, Removing, Idle

\* Whatever calls of the owner's two threads meet, while every save succeeds,
\* nobody is in the owner's tree who is not on its roster, but for an account
\* that one thread added while the other removed one: a removed account does not
\* come back by answering an old invite.
THEOREM OnlyTheRosterJoins == ASSUME Durable PROVE Spec => []OnlyRosterJoins
  <1>1. RosterInv => OnlyRosterJoins
    BY DEF RosterInv, OnlyRosterJoins, Roster
  <1>2. TypeOK /\ ChainInv /\ [Next]_vars => ChainInv'
    BY ChainStep
  <1>3. TypeOK /\ ChainInv /\ RosterInv /\ [Next]_vars => RosterInv'
    BY RosterStep
  <1>. QED
    BY <1>1, <1>2, <1>3, ChainInitially, RosterInitially, TypeCorrect, PTL DEF Spec
-----------------------------------------------------------------------------
(* Who is told of a removal *)

\* A step adds to the removed, their mails and their rows only what it may.
LEMMA RemovedQuiet ==
    ASSUME RemovedInv, dropped \subseteq dropped', dropped' \cap Roster(Owner)' \subseteq reinvited',
           \A m \in Member : row'[m].status = "removed" =>
               row[m].status = "removed" \/ m \in dropped',
           \A e \in mail' : e \in mail \/
               /\ e.kind = "commit" => e.commit.removed \in dropped' \cup {Nobody}
               /\ e.kind = "member_update" => e.removed \subseteq dropped',
           \/ ui' = ui
           \/ /\ ui'.at = "evicted" => ui'.commit.removed = ui'.who
              /\ ui'.at = "refreshed" => ui'.commit.removed = Nobody,
           dl' = dl \/ (dl'.at \in {"added", "committed"} => dl'.commit.removed = Nobody)
    PROVE  RemovedInv'
  <1>1. \A e \in mail' : /\ e.kind = "commit" => e.commit.removed \in dropped' \cup {Nobody}
                         /\ e.kind = "member_update" => e.removed \subseteq dropped'
    BY DEF RemovedInv
  <1>2. \A m \in Member : row'[m].status = "removed" => m \in dropped'
    BY DEF RemovedInv
  <1>3. /\ ui'.at = "evicted" => ui'.commit.removed = ui'.who
        /\ ui'.at = "refreshed" => ui'.commit.removed = Nobody
        /\ dl'.at \in {"added", "committed"} => dl'.commit.removed = Nobody
    BY DEF RemovedInv
  <1>. QED  BY <1>1, <1>2, <1>3 DEF RemovedInv

LEMMA RemovedUserCall ==
    ASSUME TypeOK, RemovedInv, UserCall
    PROVE  RemovedInv'
  <1>0. /\ Owner \in Account /\ row[Owner] \in Row /\ Owner \notin Member
        /\ dropped \cap Roster(Owner) \subseteq reinvited
    BY OwnerIsAccount DEF TypeOK, RemovedInv
  <1>1. ASSUME NEW m \in limit.members, InviteMember(m)
        PROVE  RemovedInv'
    <2>1. /\ reinvited' = reinvited \cup ({m} \cap dropped) /\ dropped' = dropped
          /\ ui' = ui /\ dl' = dl
          /\ row' = [row EXCEPT ![Owner] = WithMember(row[Owner], m)]
          /\ \A e \in mail' : \/ e \in mail
                              \/ e.kind = "invite"
                              \/ e.kind = "member_update" /\ e.removed = {}
      BY <1>1 DEF InviteMember, UpdateMails
    <2>2. WithMember(row[Owner], m).members = row[Owner].members \cup {m}
      BY <1>0 DEF WithMember, WithMembers, Row
    <2>3. Roster(Owner)' = Roster(Owner) \cup {m}
      BY <1>0, <2>1, <2>2 DEF Roster, TypeOK
    <2>4. \A b \in Member : row'[b] = row[b]
      BY <1>0, <2>1, OwnerIsAccount DEF TypeOK
    <2>. QED  BY <1>0, <2>1, <2>3, <2>4, RemovedQuiet
  <1>2. ASSUME NEW m \in limit.members, RemoveMember(m)
        PROVE  RemovedInv'
    <2>1. /\ row' = row /\ dropped' = dropped /\ reinvited' = reinvited
          /\ dl' = dl /\ mail' = mail
          /\ ui'.at \in {"evict", "drop"}
      BY <1>2 DEF RemoveMember, group
    <2>. QED  BY <1>0, <2>1, RemovedQuiet DEF Roster
  <1>3. ASSUME NEW a \in Account, SendMessage(a)
        PROVE  RemovedInv'
    BY <1>0, <1>3, RemovedQuiet DEF SendMessage, group, meetings, Roster
  <1>4. ASSUME NEW a \in Account, SendAndPropose(a)
        PROVE  RemovedInv'
    <2>1. /\ row' = row /\ dropped' = dropped /\ reinvited' = reinvited
          /\ ui' = ui /\ dl' = dl
          /\ \A e \in mail' : e \in mail \/ e.kind = "proposal"
      BY <1>4 DEF SendAndPropose, meetings
    <2>. QED  BY <1>0, <2>1, RemovedQuiet DEF Roster
  <1>5. ASSUME SendAndRefresh
        PROVE  RemovedInv'
    <2>. DEFINE c == SelfUpdate
    <2>1. c.removed = Nobody
      BY CommitsAre
    <2>2. /\ row' = row /\ dropped' = dropped /\ reinvited' = reinvited
          /\ dl' = dl /\ mail' = mail
          /\ ui' = [at |-> "refreshed", commit |-> c]
      BY <1>5 DEF SendAndRefresh, meetings
    <2>. HIDE DEF c
    <2>. QED  BY <1>0, <2>1, <2>2, RemovedQuiet DEF Roster
  <1>. QED  BY <1>1, <1>2, <1>3, <1>4, <1>5 DEF UserCall

LEMMA RemovedOwnerStep ==
    ASSUME TypeOK, RemovedInv, OwnerStep
    PROVE  RemovedInv'
  <1>0. /\ Owner \in Account /\ row[Owner] \in Row /\ Owner \notin Member
        /\ Idle.at = "idle" /\ dropped \cap Roster(Owner) \subseteq reinvited
        /\ \A m \in Member : m \in Account /\ m # Owner
    BY OwnerIsAccount DEF TypeOK, RemovedInv, Idle
  <1>1. CASE Evict
    <2>. DEFINE c == RemoveMemberByEmail(ui.who)
    <2>1. ui.who \in Member
      BY <1>1, UiIs DEF Evict, TypeOK
    <2>2. c.removed = ui.who
      BY <2>1, CommitsAre
    <2>3. /\ row' = row /\ dropped' = dropped /\ reinvited' = reinvited
          /\ dl' = dl /\ mail' = mail
          /\ ui'.at = "evicted" /\ ui'.who = ui.who /\ ui'.commit = c
      BY <1>1 DEF Evict, bounds, meetings
    <2>. HIDE DEF c
    <2>. QED  BY <1>0, <2>2, <2>3, RemovedQuiet DEF Roster
  <1>2. CASE Evicted
    <2>1. /\ ui.at = "evicted" /\ ui' = Idle /\ dl' = dl /\ dropped' = dropped \cup {ui.who}
          /\ reinvited' = reinvited
          /\ row' = [row EXCEPT ![Owner] = WithoutMember(row[Owner], ui.who)]
          /\ \A e \in mail' : e \in mail \/ (e.kind = "commit" /\ e.commit = ui.commit)
      BY <1>2 DEF Evicted, CommitMails, meetings
    <2>2. WithoutMember(row[Owner], ui.who).members = row[Owner].members \ {ui.who}
      BY <1>0 DEF WithoutMember, WithMembers, Row
    <2>3. Roster(Owner)' = Roster(Owner) \ {ui.who}
      BY <1>0, <2>1, <2>2 DEF Roster, TypeOK
    <2>4. \A b \in Member : row'[b] = row[b]
      BY <1>0, <2>1 DEF TypeOK
    <2>5. ui.commit.removed = ui.who
      BY <2>1 DEF RemovedInv
    <2>. QED  BY <1>0, <2>1, <2>3, <2>4, <2>5, RemovedQuiet
  <1>3. CASE Drop
    <2>. DEFINE members == Roster(Owner) \ {ui.who}
    <2>1. /\ ui' = Idle /\ dl' = dl /\ dropped' = dropped \cup {ui.who}
          /\ reinvited' = reinvited
          /\ row' = [row EXCEPT ![Owner] = WithMembers(row[Owner], members)]
          /\ \A e \in mail' : e \in mail \/ (e.kind = "member_update" /\ e.removed = {ui.who})
      BY <1>3 DEF Drop, UpdateMails, meetings
    <2>2. WithMembers(row[Owner], members).members = members
      BY <1>0 DEF WithMembers, Row
    <2>3. Roster(Owner)' = Roster(Owner) \ {ui.who}
      BY <1>0, <2>1, <2>2 DEF Roster, TypeOK
    <2>4. \A b \in Member : row'[b] = row[b]
      BY <1>0, <2>1 DEF TypeOK
    <2>. QED  BY <1>0, <2>1, <2>3, <2>4, RemovedQuiet
  <1>4. CASE Refreshed
    <2>1. /\ row' = row /\ dropped' = dropped /\ reinvited' = reinvited
          /\ dl' = dl /\ ui' = Idle /\ ui.at = "refreshed"
          /\ \A e \in mail' : e \in mail \/ (e.kind = "commit" /\ e.commit = ui.commit)
      BY <1>4 DEF Refreshed, CommitMails, group, meetings
    <2>2. ui.commit.removed = Nobody
      BY <2>1 DEF RemovedInv
    <2>. QED  BY <1>0, <2>1, <2>2, RemovedQuiet DEF Roster
  <1>5. CASE AddMember
    <2>. DEFINE c == AddMembers(dl.mail)
    <2>1. dl.mail \in KeyPackage
      BY <1>5, DlIs DEF AddMember, TypeOK
    <2>2. c.removed = Nobody
      BY <2>1, CommitsAre
    <2>3. /\ row' = row /\ dropped' = dropped /\ reinvited' = reinvited
          /\ ui' = ui /\ mail' = mail /\ dl'.commit = c
      BY <1>5 DEF AddMember, bounds, meetings
    <2>. HIDE DEF c
    <2>. QED  BY <1>0, <2>2, <2>3, RemovedQuiet DEF Roster
  <1>6. CASE Added
    <2>1. /\ row' = row /\ dropped' = dropped /\ reinvited' = reinvited
          /\ ui' = ui /\ dl' = Idle /\ dl.at = "added"
          /\ \A e \in mail' : \/ e \in mail
                              \/ e.kind = "commit" /\ e.commit = dl.commit
                              \/ e.kind = "welcome"
      BY <1>6 DEF Added, CommitMails, group, bounds, meetings
    <2>2. dl.commit.removed = Nobody
      BY <2>1 DEF RemovedInv
    <2>. QED  BY <1>0, <2>1, <2>2, RemovedQuiet DEF Roster
  <1>7. CASE Committed
    <2>1. /\ row' = row /\ dropped' = dropped /\ reinvited' = reinvited
          /\ ui' = ui /\ dl' = Idle /\ dl.at = "committed"
          /\ \A e \in mail' : e \in mail \/ (e.kind = "commit" /\ e.commit = dl.commit)
      BY <1>7 DEF Committed, CommitMails, group, bounds, meetings
    <2>2. dl.commit.removed = Nobody
      BY <2>1 DEF RemovedInv
    <2>. QED  BY <1>0, <2>1, <2>2, RemovedQuiet DEF Roster
  <1>. QED  BY <1>1, <1>2, <1>3, <1>4, <1>5, <1>6, <1>7 DEF OwnerStep

LEMMA StatusAfter ==
    ASSUME NEW r \in Row, NEW m, NEW removed
    PROVE  RowAfter(r, m, removed).status \in {r.status, "removed"}
           /\ (m # removed => RowAfter(r, m, removed).status = r.status)
  <1>. DEFINE left == WithoutMember(r, removed)
  <1>1. left \in Row /\ left.status = r.status
    BY DEF WithoutMember, WithMembers, Row
  <1>. HIDE DEF left
  <1>2. Closed(left).status = "removed"
    BY <1>1 DEF Closed, Row
  <1>. QED  BY <1>1, <1>2 DEF RowAfter, left

LEMMA RemovedReceive ==
    ASSUME TypeOK, RemovedInv, NEW a \in Account, Receive(a)
    PROVE  RemovedInv'
  <1>0. dropped \cap Roster(Owner) \subseteq reinvited /\ Owner \in Account
    BY OwnerIsAccount DEF RemovedInv
  <1>1. PICK e \in mail : /\ e.to = a
                          /\ \/ OnKeyPackage(e) \/ OnProposalOfMember(e)
                             \/ OnInvite(e) \/ OnWelcome(e) \/ OnCommit(e) \/ OnProposal(e)
                             \/ OnMemberUpdate(e) \/ OnAppMessage(e)
    BY DEF Receive
  <1>2. e \in Mail /\ e.to \in Account /\ row[e.to] \in Row
    BY MailIs DEF TypeOK
  <1>3. CASE OnKeyPackage(e)
    <2>1. /\ row' = row /\ dropped' = dropped /\ reinvited' = reinvited
          /\ ui' = ui /\ mail' \subseteq mail
          /\ (dl' = dl \/ dl'.at = "add")
      BY <1>3 DEF OnKeyPackage, group
    <2>. QED  BY <1>0, <2>1, RemovedQuiet DEF Roster
  <1>4. CASE OnProposalOfMember(e)
    <2>. DEFINE c == CommitPending(e.proposal)
    <2>1. e.proposal \in Proposal
      BY <1>2, <1>4, MailIs DEF OnProposalOfMember, ProposalMail
    <2>2. c.removed = Nobody
      BY <2>1, CommitsAre
    <2>3. /\ row' = row /\ dropped' = dropped /\ reinvited' = reinvited
          /\ ui' = ui /\ mail' = mail /\ dl'.commit = c
      BY <1>4 DEF OnProposalOfMember, bounds, meetings
    <2>. HIDE DEF c
    <2>. QED  BY <1>0, <2>2, <2>3, RemovedQuiet DEF Roster
  <1>5. CASE OnAppMessage(e)
    <2>1. /\ row' = row /\ dropped' = dropped /\ reinvited' = reinvited
          /\ ui' = ui /\ dl' = dl /\ mail' \subseteq mail
      BY <1>5 DEF OnAppMessage, Handled, group, bounds, meetings
    <2>. QED  BY <1>0, <2>1, RemovedQuiet DEF Roster
  <1>6. CASE OnInvite(e) \/ OnWelcome(e) \/ OnCommit(e) \/ OnProposal(e) \/ OnMemberUpdate(e)
    <2>1. /\ e.to # Owner
          /\ OnCommit(e) => e.commit \in CommitType
          /\ OnMemberUpdate(e) => e.members \cup {e.to} \in SUBSET Account
      BY <1>2, <1>6, MailIs, OwnerIsAccount
         DEF OnInvite, OnWelcome, OnCommit, OnProposal, OnMemberUpdate,
             Invite, Welcome, CommitMail, MemberUpdate
    <2>2. /\ ui' = ui /\ dl' = dl /\ dropped' = dropped /\ reinvited' = reinvited
          /\ \A x \in mail' : x \in mail \/ x.kind = "key_package"
      BY <1>6
         DEF OnInvite, OnWelcome, OnCommit, OnProposal, OnMemberUpdate, Others, Handled,
             GenerateKeyPackage, bounds, meetings
    <2>3. \A b \in Account : b # e.to => row'[b] = row[b]
      BY <1>2, <1>6
         DEF OnInvite, OnWelcome, OnCommit, OnProposal, OnMemberUpdate, JoinGroup, group, TypeOK
    <2>4. Roster(Owner)' = Roster(Owner)
      BY <1>0, <2>1, <2>3 DEF Roster
    <2>5. row'[e.to].status = "removed" => row[e.to].status = "removed" \/ e.to \in dropped
      <3>1. CASE OnInvite(e)
        <4>1. row'[e.to] = row[e.to] \/ row'[e.to] = NewRow(e.members)
          BY <1>2, <3>1 DEF OnInvite, TypeOK
        <4>. QED  BY <4>1 DEF NewRow
      <3>2. CASE OnWelcome(e)
        <4>1. row'[e.to] = row[e.to] \/ row'[e.to] = SetMlsGroupId(row[e.to])
          BY <1>2, <3>2 DEF OnWelcome, JoinGroup, group, TypeOK
        <4>2. SetMlsGroupId(row[e.to]).status = row[e.to].status
          BY <1>2 DEF SetMlsGroupId, Row
        <4>. QED  BY <4>1, <4>2
      <3>3. CASE OnCommit(e)
        <4>1. row'[e.to] = RowAfter(row[e.to], e.to, e.commit.removed) /\ e.kind = "commit"
          BY <1>2, <3>3 DEF OnCommit, TypeOK
        <4>2. e.commit.removed = e.to => e.to \in dropped
          BY <1>2, <4>1, OwnerAssumption DEF RemovedInv
        <4>. QED  BY <1>2, <4>1, <4>2, StatusAfter
      <3>4. CASE OnProposal(e)
        BY <3>4 DEF OnProposal
      <3>5. CASE OnMemberUpdate(e)
        <4>1. CASE e.to \in e.removed
          BY <1>2, <3>5, <4>1 DEF OnMemberUpdate, RemovedInv
        <4>2. CASE e.to \notin e.removed
          <5>1. row'[e.to] = WithMembers(row[e.to], e.members \cup {e.to})
            BY <1>2, <3>5, <4>2 DEF OnMemberUpdate, TypeOK
          <5>2. WithMembers(row[e.to], e.members \cup {e.to}).status = row[e.to].status
            BY <1>2 DEF WithMembers, Row
          <5>. QED  BY <5>1, <5>2
        <4>. QED  BY <4>1, <4>2
      <3>. QED  BY <1>6, <3>1, <3>2, <3>3, <3>4, <3>5
    <2>6. \A m \in Member : row'[m].status = "removed" =>
             row[m].status = "removed" \/ m \in dropped'
      BY <2>2, <2>3, <2>5, OwnerIsAccount
    <2>. QED  BY <1>0, <2>2, <2>4, <2>6, RemovedQuiet
  <1>. QED  BY <1>1, <1>3, <1>4, <1>5, <1>6

LEMMA RemovedStep ==
    ASSUME TypeOK, RemovedInv, [Next]_vars
    PROVE  RemovedInv'
  <1>0. dropped \cap Roster(Owner) \subseteq reinvited
    BY DEF RemovedInv
  <1>1. ASSUME NEW a \in Account, Restart(a)
        PROVE  RemovedInv'
    <2>1. /\ row' = row /\ mail' = mail /\ dropped' = dropped /\ reinvited' = reinvited
          /\ (ui' = ui \/ ui' = Idle) /\ (dl' = dl \/ dl' = Idle)
      BY <1>1 DEF Restart, meetings
    <2>. QED  BY <1>0, <2>1, RemovedQuiet DEF Roster, Idle
  <1>2. ASSUME NEW task \in outbox, Seal(task)
        PROVE  RemovedInv'
    <2>1. /\ row' = row /\ dropped' = dropped /\ reinvited' = reinvited
          /\ ui' = ui /\ dl' = dl
          /\ \A e \in mail' : e \in mail \/ e.kind = "app"
      BY <1>2 DEF Seal, Encrypt, group, bounds, meetings
    <2>. QED  BY <1>0, <2>1, RemovedQuiet DEF Roster
  <1>3. ASSUME UNCHANGED vars
        PROVE  RemovedInv'
    BY <1>0, <1>3, RemovedQuiet DEF vars, group, bounds, meetings, Roster
  <1>4. \/ UserCall \/ OwnerStep
        \/ \E a \in Account : Receive(a) \/ Restart(a)
        \/ \E task \in outbox : Seal(task)
        \/ UNCHANGED vars
    BY DEF Next
  <1>. HIDE DEF RemovedInv
  <1>. QED  BY <1>1, <1>2, <1>3, <1>4, RemovedUserCall, RemovedOwnerStep, RemovedReceive

LEMMA RemovedInitially == Init => RemovedInv
  <1>. SUFFICES ASSUME Init PROVE RemovedInv
    OBVIOUS
  <1>1. PICK l \in Limits : \E invited \in SUBSET l.members : Started(l, invited)
    BY Zenon DEF Init, Started
  <1>2. PICK invited \in SUBSET l.members : Started(l, invited)
    BY <1>1, Zenon
  <1>3. /\ dropped = {} /\ ui.at = "idle" /\ dl.at = "idle"
        /\ \A e \in mail : e.kind = "invite"
    BY <1>2 DEF Started, Idle
  <1>4. \A m \in Member : row[m] = NoRow
    BY <1>2, OwnerIsAccount DEF Started
  <1>. QED  BY <1>3, <1>4 DEF RemovedInv, NoRow

\* Whatever calls of the owner's two threads meet, while every save succeeds, an
\* account that has retired the conversation as removed is not in the owner's
\* tree, but for one that was invited again, and one that one thread added while
\* the other removed an account.
THEOREM RemovedAreOut == ASSUME Durable PROVE Spec => []RemovedIsOut
  <1>1. RosterInv /\ RemovedInv => RemovedIsOut
    BY DEF RosterInv, RemovedInv, RemovedIsOut
  <1>2. TypeOK /\ ChainInv /\ [Next]_vars => ChainInv'
    BY ChainStep
  <1>3. TypeOK /\ ChainInv /\ RosterInv /\ [Next]_vars => RosterInv'
    BY RosterStep
  <1>4. TypeOK /\ RemovedInv /\ [Next]_vars => RemovedInv'
    BY RemovedStep
  <1>. QED
    BY <1>1, <1>2, <1>3, <1>4, ChainInitially, RosterInitially, RemovedInitially,
       TypeCorrect, PTL DEF Spec
-----------------------------------------------------------------------------
(* The way of a member to the owner's state *)

\* The accounts in the owner's tree that have a way to its state.
Followers == Joined \ ({Owner} \cup crossed)

\* What the mail holds for an account, and the commits a call under way is still
\* to mail to it.
CommitsTo(m) == {e.commit : e \in {x \in mail : x.kind = "commit" /\ x.to = m}}
ProposalsTo(m) == {e.proposal : e \in {x \in mail : x.kind = "proposal" /\ x.to = m}}
WelcomesTo(m) == {e.post : e \in {x \in mail : x.kind = "welcome" /\ x.to = m}}
FromUi(m) == \/ ui.at = "evicted" /\ m \in ui.to
             \/ ui.at = "refreshed" /\ m \in Joined
FromDl(m) == \/ dl.at = "added" /\ m \in dl.to
             \/ dl.at = "committed" /\ m \in Joined
OnWay(m) == CommitsTo(m) \cup (IF FromUi(m) THEN {ui.commit} ELSE {})
                         \cup (IF FromDl(m) THEN {dl.commit} ELSE {})

\* The proposals it has, or will have in the state they are of; the states its
\* Welcomes let it in at; the numbers of the states it sets out from.
Held(m) == ProposalsTo(m) \cup {p \in mls[m].pending : p.at = mls[m].id}
Entries(m) == WelcomesTo(m) \cup (IF dl.at = "added" /\ dl.mail.from = m
                                  THEN {dl.commit.post} ELSE {})
From(m) == IF Ready(m) THEN {mls[m].id} ELSE {s.id : s \in Entries(m)}

\* A commit of way leads on from each state between the two, with proposals held.
Linked(from, to, way, held) ==
    \A i \in from .. (to - 1) : \E c \in way : c.pre = i /\ c.props \subseteq held

\* Each account in the owner's tree has a way to the owner's state; and the
\* proposals the owner may still commit are with everybody.
Path ==
    \A m \in Followers :
        /\ From(m) # {}
        /\ \A i \in From(m) : Linked(i, mls[Owner].id, OnWay(m), Held(m))
ProposalInv ==
    \A e \in mail : e.kind = "proposal" =>
        /\ e.proposal.at <= commits
        /\ e.to = Owner /\ e.proposal.at = mls[Owner].id =>
               \A m \in Followers : e.proposal \in Held(m)
WayInv == Path /\ ProposalInv

\* What a call under way has settled.
CallInv ==
    /\ mls[Owner].pending = {}
    /\ ui.at = "evict" => ui.who \in Joined /\ Joined \subseteq ui.before \cup crossed
    /\ dl.at \in {"add", "added"} => dl.mail \in mail
    /\ dl.at = "add" => dl.mail.from \notin Joined
    /\ dl.at = "committed" => dl.mail.to = Owner
    /\ ui.at = "refreshed" => ui.commit.removed = Nobody
    /\ dl.at \in {"added", "committed"} => dl.commit.removed = Nobody

\* A commit leads one state on, with proposals of the state it leaves.
Leads(c) == c.post.id = c.pre + 1 /\ \A p \in c.props : p.at = c.pre
LeadInv ==
    /\ \A e \in mail : /\ e.kind = "commit" => Leads(e.commit)
                       /\ e.kind = "welcome" => e.post.id # 0
    /\ ui.at \in {"evicted", "refreshed"} => Leads(ui.commit)
    /\ dl.at \in {"added", "committed"} => Leads(dl.commit)

\* The row of an account of a group; an account outside is in no state.
RowInv ==
    \A m \in Member : /\ row[m] = NoRow \/ row[m].status # "none"
                      /\ mls[m] = NoGroup \/ row[m].mls

\* An account joins once: its KeyPackage, its place in the tree and the commit
\* that removes it follow each other.
Joining(m) == GenerateKeyPackage(m) \in mail
Leaving(m) == \/ \E e \in mail : e.kind = "commit" /\ e.commit.removed = m
              \/ ui.at = "evicted" /\ ui.commit.removed = m
OnceInv ==
    \A m \in Member \ crossed :
        /\ Joining(m) => Known(m) /\ ~Ready(m) /\ ~Leaving(m) /\ WelcomesTo(m) = {}
        /\ Joining(m) /\ m \in Joined => dl.at = "added" /\ dl.mail = GenerateKeyPackage(m)
        /\ m \in Joined => ~Leaving(m)
        /\ m \in Joined \/ Leaving(m) \/ WelcomesTo(m) # {} => Known(m)

FollowInv == CallInv /\ LeadInv /\ RowInv /\ OnceInv /\ WayInv

LEMMA FollowersAre ==
    ASSUME TypeOK
    PROVE  /\ Followers \subseteq Member \ crossed /\ Followers \subseteq Joined
           /\ Followers \subseteq Account /\ Owner \notin Followers
  BY TreeIs, OwnerIsAccount DEF Followers

LEMMA LinkedGrows ==
    ASSUME NEW from \in Nat, NEW to \in Nat, NEW way, NEW held, NEW way2, NEW held2,
           Linked(from, to, way, held), way \subseteq way2, held \subseteq held2
    PROVE  /\ Linked(from, to, way2, held2)
           /\ \A c \in way2 : c.pre = to /\ c.props \subseteq held2 =>
                  Linked(from, to + 1, way2, held2)
  BY DEF Linked

\* A commit taken leaves those of the later states, and their proposals.
LEMMA LinkedOn ==
    ASSUME NEW from \in Nat, NEW to \in Nat, NEW way, NEW held, NEW way2, NEW held2,
           NEW c, Linked(from, to, way, held), c.pre = from,
           \A d \in way : Leads(d) /\ (d \in way2 \/ d = c),
           \A p \in held : p \in held2 \/ p.at = from
    PROVE  Linked(from + 1, to, way2, held2)
  <1>. SUFFICES ASSUME NEW i \in (from + 1) .. (to - 1)
                PROVE  \E d \in way2 : d.pre = i /\ d.props \subseteq held2
    BY DEF Linked
  <1>1. i \in from .. (to - 1) /\ i # from
    OBVIOUS
  <1>2. PICK d \in way : d.pre = i /\ d.props \subseteq held
    BY <1>1 DEF Linked
  <1>3. d \in way2
    BY <1>1, <1>2
  <1>4. \A p \in d.props : p \in held2
    BY <1>1, <1>2 DEF Leads
  <1>. QED  BY <1>2, <1>3, <1>4

LEMMA WayIs ==
    ASSUME TypeOK, NEW m \in Account
    PROVE  /\ From(m) \subseteq Nat /\ Entries(m) \subseteq Made
           /\ OnWay(m) \subseteq CommitType /\ \A c \in OnWay(m) : c.post \in Made
           /\ mls[m].id \in Nat /\ mls[m].pending \subseteq Proposal
  <1>1. /\ \A s \in Made : s.id \in Nat
        /\ mls[m] \in State
    BY MadeIs DEF State, TypeOK
  <1>2. Entries(m) \subseteq Made
    BY MadeIs DEF Entries, WelcomesTo
  <1>3. \A e \in mail : e.kind = "commit" => e.commit \in CommitType
    BY MailIs DEF TypeOK, CommitMail
  <1>4. /\ ui.at \in {"evicted", "refreshed"} => ui.commit \in CommitType
        /\ dl.at \in {"added", "committed"} => dl.commit \in CommitType
    BY UiIs, DlIs DEF TypeOK
  <1>5. OnWay(m) \subseteq CommitType
    BY <1>3, <1>4 DEF OnWay, CommitsTo, FromUi, FromDl
  <1>6. \A c \in OnWay(m) : c.post \in Made
    BY MadeIs DEF OnWay, CommitsTo, FromUi, FromDl
  <1>. HIDE DEF Made
  <1>7. From(m) \subseteq Nat
    BY <1>1, <1>2 DEF From, State
  <1>. QED  BY <1>1, <1>2, <1>5, <1>6, <1>7 DEF State

\* With nothing of the calls left, who is on its way can catch up.
LEMMA PathLeads ==
    ASSUME TypeOK, ChainInv, RowInv, WayInv, ui = Idle, dl = Idle,
           NEW m \in Followers
    PROVE  CanCatchUp(m)
  <1>1. m \in Account
    BY FollowersAre
  <1>2. ui.at = "idle" /\ dl.at = "idle"
    BY DEF Idle
  <1>3. OnWay(m) = CommitsTo(m) /\ Entries(m) = WelcomesTo(m)
    BY <1>2 DEF OnWay, FromUi, FromDl, Entries
  <1>4. CASE Ready(m)
    <2>. SUFFICES ASSUME mls[m].id # mls[Owner].id
                  PROVE  \E e \in NextCommits(m) : e.commit.props \subseteq Proposed(m)
      BY <1>4 DEF CanCatchUp
    <2>1. mls[m].id <= mls[Owner].id /\ mls[m].id \in Nat /\ mls[Owner].id \in Nat
      BY <1>1, <1>4, MadeIs, WayIs, OwnerIsAccount DEF ChainInv, Ready
    <2>2. mls[m].id \in mls[m].id .. (mls[Owner].id - 1)
      BY <2>1
    <2>3. Linked(mls[m].id, mls[Owner].id, CommitsTo(m), Held(m))
      BY <1>3, <1>4 DEF WayInv, Path, From
    <2>4. PICK c \in CommitsTo(m) : c.pre = mls[m].id /\ c.props \subseteq Held(m)
      BY <2>2, <2>3 DEF Linked
    <2>5. PICK e \in mail : e.kind = "commit" /\ e.to = m /\ e.commit = c
      BY DEF CommitsTo
    <2>6. e \in NextCommits(m)
      BY <2>4, <2>5 DEF NextCommits, MailTo
    <2>7. Held(m) \subseteq Proposed(m)
      BY DEF Held, ProposalsTo, Proposed, MailTo
    <2>. QED  BY <2>4, <2>5, <2>6, <2>7
  <1>5. CASE ~Ready(m)
    <2>1. WelcomesTo(m) # {}
      BY <1>3, <1>5 DEF WayInv, Path, From
    <2>2. PICK e \in mail : e.kind = "welcome" /\ e.to = m
      BY <2>1 DEF WelcomesTo
    <2>. QED  BY <1>5, <2>2 DEF CanCatchUp, MailTo
  <1>. QED  BY <1>4, <1>5

\* A step that adds nothing to the way takes nothing from it.
LEMMA WayKept ==
    ASSUME TypeOK, WayInv, Followers' \subseteq Followers,
           mls'[Owner].id = mls[Owner].id, commits' = commits,
           \A m \in Followers :
               /\ From(m)' # {} /\ From(m)' \subseteq From(m)
               /\ OnWay(m) \subseteq OnWay(m)' /\ Held(m) \subseteq Held(m)'
    PROVE  /\ Path'
           /\ (\A e \in mail' : e.kind = "proposal" => e \in mail) => ProposalInv'
  <1>1. /\ Followers \subseteq Account /\ mls[Owner].id \in Nat
        /\ \A m \in Account : From(m) \subseteq Nat
    BY FollowersAre, WayIs, OwnerIsAccount
  <1>2. Path'
    <2>. SUFFICES ASSUME NEW m \in Followers'
                  PROVE  /\ From(m)' # {}
                         /\ \A i \in From(m)' :
                                Linked(i, mls'[Owner].id, OnWay(m)', Held(m)')
      BY DEF Path
    <2>1. /\ From(m)' # {} /\ From(m)' \subseteq From(m)
          /\ OnWay(m) \subseteq OnWay(m)' /\ Held(m) \subseteq Held(m)'
      OBVIOUS
    <2>2. ASSUME NEW i \in From(m)'
          PROVE  Linked(i, mls'[Owner].id, OnWay(m)', Held(m)')
      <3>1. Linked(i, mls[Owner].id, OnWay(m), Held(m)) /\ i \in Nat
        BY <1>1, <2>1, <2>2 DEF WayInv, Path
      <3>. QED  BY ONLY <1>1, <2>1, <3>1, LinkedGrows, mls'[Owner].id = mls[Owner].id
    <2>. QED  BY <2>1, <2>2
  <1>3. ASSUME \A e \in mail' : e.kind = "proposal" => e \in mail
        PROVE  ProposalInv'
    <2>. SUFFICES ASSUME NEW e \in mail', e.kind = "proposal"
                  PROVE  /\ e.proposal.at <= commits'
                         /\ e.to = Owner /\ e.proposal.at = mls'[Owner].id =>
                                \A m \in Followers' : e.proposal \in Held(m)'
      BY DEF ProposalInv
    <2>. QED  BY <1>3 DEF WayInv, ProposalInv
  <1>. QED  BY <1>2, <1>3

\* A commit of the owner leads on from where everybody's way has led.
LEMMA WayGrows ==
    ASSUME TypeOK, ChainInv, WayInv, NEW c, c.pre = mls[Owner].id,
           mls'[Owner].id = mls[Owner].id + 1, commits' = commits + 1,
           \A e \in mail' : e.kind = "proposal" => e \in mail,
           \A m \in Followers' :
               \/ From(m)' = {mls'[Owner].id}
               \/ /\ m \in Followers /\ From(m)' = From(m)
                  /\ c \in OnWay(m)' /\ c.props \subseteq Held(m)'
                  /\ OnWay(m) \subseteq OnWay(m)' /\ Held(m) \subseteq Held(m)'
    PROVE  WayInv'
  <1>1. /\ Followers \subseteq Account /\ mls[Owner].id \in Nat /\ commits \in Nat
        /\ \A m \in Account : From(m) \subseteq Nat
    BY FollowersAre, WayIs, OwnerIsAccount, LimitIs
  <1>2. Path'
    <2>. SUFFICES ASSUME NEW m \in Followers'
                  PROVE  /\ From(m)' # {}
                         /\ \A i \in From(m)' :
                                Linked(i, mls'[Owner].id, OnWay(m)', Held(m)')
      BY DEF Path
    <2>1. CASE From(m)' = {mls'[Owner].id}
      BY <1>1, <2>1 DEF Linked
    <2>2. CASE /\ m \in Followers /\ From(m)' = From(m)
               /\ c \in OnWay(m)' /\ c.props \subseteq Held(m)'
               /\ OnWay(m) \subseteq OnWay(m)' /\ Held(m) \subseteq Held(m)'
      <3>1. From(m)' # {}
        BY <2>2 DEF WayInv, Path
      <3>2. ASSUME NEW i \in From(m)'
            PROVE  Linked(i, mls'[Owner].id, OnWay(m)', Held(m)')
        <4>1. Linked(i, mls[Owner].id, OnWay(m), Held(m)) /\ i \in Nat
          BY <1>1, <2>2, <3>2 DEF WayInv, Path
        <4>2. \A d \in OnWay(m)' : d.pre = mls[Owner].id /\ d.props \subseteq Held(m)' =>
                 Linked(i, mls[Owner].id + 1, OnWay(m)', Held(m)')
          BY ONLY <1>1, <2>2, <4>1, LinkedGrows
        <4>. QED  BY <2>2, <4>2
      <3>. QED  BY <3>1, <3>2
    <2>. QED  BY <2>1, <2>2
  <1>3. ProposalInv'
    <2>. SUFFICES ASSUME NEW e \in mail', e.kind = "proposal"
                  PROVE  /\ e.proposal.at <= commits'
                         /\ e.proposal.at # mls'[Owner].id
      BY DEF ProposalInv
    <2>1. e \in mail /\ e.proposal.at <= commits
      BY DEF WayInv, ProposalInv
    <2>2. e.proposal.at \in Nat
      BY <2>1, MailIs DEF TypeOK, ProposalMail, Proposal
    <2>. QED  BY <1>1, <2>1, <2>2 DEF ChainInv
  <1>. QED  BY <1>2, <1>3 DEF WayInv

LEMMA LeadQuiet ==
    ASSUME LeadInv,
           \A e \in mail' : e \in mail \/ /\ e.kind = "commit" => Leads(e.commit)
                                          /\ e.kind = "welcome" => e.post.id # 0,
           ui' = ui \/ (ui'.at \in {"evicted", "refreshed"} => Leads(ui'.commit)),
           dl' = dl \/ (dl'.at \in {"added", "committed"} => Leads(dl'.commit))
    PROVE  LeadInv'
  <1>1. \A e \in mail' : /\ e.kind = "commit" => Leads(e.commit)
                         /\ e.kind = "welcome" => e.post.id # 0
    BY DEF LeadInv
  <1>2. ui'.at \in {"evicted", "refreshed"} => Leads(ui'.commit)
    BY DEF LeadInv
  <1>3. dl'.at \in {"added", "committed"} => Leads(dl'.commit)
    BY DEF LeadInv
  <1>. QED  BY <1>1, <1>2, <1>3 DEF LeadInv, Leads

LEMMA OnceQuiet ==
    ASSUME OnceInv, Joined' = Joined, crossed \subseteq crossed',
           dl.at = "added" => dl' = dl,
           \A m \in Member :
               /\ Joining(m)' => Joining(m)
               /\ Known(m) => Known(m)'
               /\ Ready(m)' => Ready(m)
               /\ Leaving(m)' => Leaving(m)
               /\ WelcomesTo(m)' \subseteq WelcomesTo(m)
    PROVE  OnceInv'
  <1>. SUFFICES ASSUME NEW m \in Member \ crossed'
                PROVE  /\ Joining(m)' => /\ Known(m)' /\ ~Ready(m)' /\ ~Leaving(m)'
                                         /\ WelcomesTo(m)' = {}
                       /\ Joining(m)' /\ m \in Joined =>
                              dl'.at = "added" /\ dl'.mail = GenerateKeyPackage(m)
                       /\ m \in Joined => ~Leaving(m)'
                       /\ m \in Joined \/ Leaving(m)' \/ WelcomesTo(m)' # {} => Known(m)'
    BY DEF OnceInv, GenerateKeyPackage
  <1>. QED  BY DEF OnceInv

\* The owner's tree is that of its state.
LEMMA JoinedIs ==
    ASSUME RosterInv, row'[Owner].mls = row[Owner].mls, mls'[Owner].tree = mls[Owner].tree
    PROVE  Joined' = Joined
  BY DEF RosterInv, Joined, MemberEmails, GetMlsGroupId

\* A step that neither moves an account nor touches its commits, proposals and
\* Welcomes.
LEMMA WayQuiet ==
    ASSUME TypeOK, RosterInv, WayInv, crossed \subseteq crossed', mls' = mls,
           commits' = commits,
           \A a \in Account : row'[a].mls = row[a].mls,
           \A e \in mail \cup mail' : e.kind \in {"commit", "proposal", "welcome"} =>
               e \in mail /\ e \in mail',
           ui' = ui \/ {ui.at, ui'.at} \cap {"evicted", "refreshed"} = {},
           dl' = dl \/ {dl.at, dl'.at} \cap {"added", "committed"} = {}
    PROVE  WayInv' /\ Joined' = Joined /\ \A m \in Account : Ready(m)' = Ready(m)
  <1>1. Joined' = Joined /\ Followers' \subseteq Followers /\ Followers \subseteq Account
    BY JoinedIs, FollowersAre, OwnerIsAccount DEF Followers
  <1>2. \A m \in Account : Ready(m)' = Ready(m)
    BY DEF Ready, GetMlsGroupId
  <1>3. ASSUME NEW m \in Followers
        PROVE  From(m)' = From(m) /\ OnWay(m)' = OnWay(m) /\ Held(m)' = Held(m)
    <2>1. /\ CommitsTo(m)' = CommitsTo(m) /\ ProposalsTo(m)' = ProposalsTo(m)
          /\ WelcomesTo(m)' = WelcomesTo(m)
      BY DEF CommitsTo, ProposalsTo, WelcomesTo
    <2>2. /\ IF FromUi(m)' THEN FromUi(m) /\ ui' = ui ELSE ~FromUi(m)
          /\ IF FromDl(m)' THEN FromDl(m) /\ dl' = dl ELSE ~FromDl(m)
      BY <1>1 DEF FromUi, FromDl
    <2>3. OnWay(m)' = OnWay(m)
      BY <2>1, <2>2 DEF OnWay
    <2>4. Entries(m)' = Entries(m)
      BY <2>1 DEF Entries
    <2>5. From(m)' = From(m)
      BY <1>1, <1>2, <2>4 DEF From
    <2>6. Held(m)' = Held(m)
      BY <2>1 DEF Held
    <2>. QED  BY <2>3, <2>5, <2>6
  <1>4. \A m \in Followers :
            /\ From(m)' # {} /\ From(m)' \subseteq From(m)
            /\ OnWay(m) \subseteq OnWay(m)' /\ Held(m) \subseteq Held(m)'
    BY <1>3 DEF WayInv, Path
  <1>5. \A e \in mail' : e.kind = "proposal" => e \in mail
    OBVIOUS
  <1>6. Path' /\ ProposalInv'
    BY <1>1, <1>4, <1>5, WayKept
  <1>. QED  BY <1>1, <1>2, <1>6 DEF WayInv

\* A step that only changes rosters, begins a call or sends other mails.
LEMMA FollowQuiet ==
    ASSUME TypeOK, RosterInv, FollowInv, crossed \subseteq crossed',
           mls' = mls, commits' = commits,
           \A a \in Account : row'[a].mls = row[a].mls,
           \A m \in Member : row'[m] = row[m] \/ (Known(m) /\ row'[m].status # "none"),
           \A e \in mail \cup mail' :
               e.kind \in {"commit", "proposal", "welcome", "key_package"} =>
                   e \in mail /\ e \in mail',
           \/ ui' = ui
           \/ ui.at \in {"idle", "drop"} /\ ui'.at \in {"idle", "drop"}
           \/ /\ ui.at = "idle" /\ ui'.at = "evict"
              /\ ui'.who \in Joined /\ Joined \subseteq ui'.before \cup crossed',
           \/ dl' = dl
           \/ /\ dl.at = "idle" /\ dl'.at = "add"
              /\ dl'.mail \in mail /\ dl'.mail.kind = "key_package"
              /\ dl'.mail.from \notin Joined
    PROVE  FollowInv'
  <1>0. CallInv /\ LeadInv /\ RowInv /\ OnceInv /\ WayInv
    BY DEF FollowInv
  <1>1. WayInv' /\ Joined' = Joined /\ \A m \in Account : Ready(m)' = Ready(m)
    BY <1>0, WayQuiet
  <1>2. LeadInv'
    BY <1>0, LeadQuiet
  <1>3. RowInv'
    BY <1>0, OwnerIsAccount DEF RowInv
  <1>4. CallInv'
    <2>1. mls'[Owner].pending = {}
      BY <1>0 DEF CallInv
    <2>2. ui'.at = "evict" => ui'.who \in Joined /\ Joined \subseteq ui'.before \cup crossed'
      BY <1>0 DEF CallInv
    <2>3. \A e \in KeyPackage : e \in mail => e \in mail'
      BY MailKinds
    <2>4. dl.at \in {"add", "added"} => dl.mail \in KeyPackage
      BY DlIs DEF TypeOK
    <2>5. dl'.at \in {"add", "added"} => dl'.mail \in mail'
      BY <1>0, <2>3, <2>4 DEF CallInv
    <2>6. /\ dl'.at = "add" => dl'.mail.from \notin Joined
          /\ dl'.at = "committed" => dl'.mail.to = Owner
          /\ ui'.at = "refreshed" => ui'.commit.removed = Nobody
          /\ dl'.at \in {"added", "committed"} => dl'.commit.removed = Nobody
      BY <1>0 DEF CallInv
    <2>. QED  BY <1>1, <2>1, <2>2, <2>5, <2>6 DEF CallInv
  <1>5. OnceInv'
    <2>1. dl.at = "added" => dl' = dl
      OBVIOUS
    <2>2. ASSUME NEW m \in Member
          PROVE  /\ Joining(m)' => Joining(m)
                 /\ Known(m) => Known(m)'
                 /\ Ready(m)' => Ready(m)
                 /\ Leaving(m)' => Leaving(m)
                 /\ WelcomesTo(m)' \subseteq WelcomesTo(m)
      <3>1. Joining(m)' => Joining(m)
        BY DEF Joining, GenerateKeyPackage
      <3>2. Known(m) => Known(m)'
        BY DEF Known, NoRow
      <3>3. Leaving(m)' => Leaving(m)
        BY DEF Leaving
      <3>4. WelcomesTo(m)' \subseteq WelcomesTo(m)
        BY DEF WelcomesTo
      <3>. QED  BY <1>1, <3>1, <3>2, <3>3, <3>4, OwnerIsAccount
    <2>. QED  BY ONLY <1>0, <1>1, <2>1, <2>2, crossed \subseteq crossed', OnceQuiet
  <1>. QED  BY <1>1, <1>2, <1>3, <1>4, <1>5 DEF FollowInv

LEMMA FlagAfter ==
    ASSUME NEW r \in Row, NEW m, NEW removed, NEW members
    PROVE  /\ RowAfter(r, m, removed).mls = r.mls
           /\ RowAfter(r, m, removed).status \in {r.status, "removed"}
           /\ WithMembers(r, members).mls = r.mls
           /\ WithMembers(r, members).status = r.status
  <1>. DEFINE left == WithoutMember(r, removed)
  <1>1. /\ left = [r EXCEPT !.members = r.members \ {removed}]
        /\ WithMembers(r, members) = [r EXCEPT !.members = members]
    BY DEF WithoutMember, WithMembers
  <1>2. /\ left.mls = r.mls /\ left.status = r.status
        /\ left = [status |-> r.status, members |-> r.members \ {removed}, mls |-> r.mls]
    BY <1>1 DEF Row
  <1>. HIDE DEF left
  <1>3. Closed(left).mls = r.mls /\ Closed(left).status = "removed"
    BY <1>2 DEF Closed
  <1>. QED  BY <1>1, <1>2, <1>3 DEF RowAfter, left, Row

LEMMA FollowUserQuiet ==
    ASSUME TypeOK, RosterInv, FollowInv, crossed \subseteq crossed',
           NEW m \in limit.members, NEW a \in Account,
           InviteMember(m) \/ RemoveMember(m) \/ SendMessage(a)
    PROVE  FollowInv'
  <1>0. /\ Owner \in Account /\ Owner \notin Member /\ row[Owner] \in Row
        /\ Idle.at = "idle" /\ m \in Account
    BY OwnerIsAccount, LimitIs DEF TypeOK, Idle
  <1>1. CASE InviteMember(m)
    <2>1. /\ mls' = mls /\ commits' = commits /\ ui' = ui /\ dl' = dl
          /\ row' = [row EXCEPT ![Owner] = WithMember(row[Owner], m)]
          /\ \A e \in mail : e \in mail'
          /\ \A e \in mail' : e \in mail \/ e.kind \in {"invite", "member_update"}
      BY <1>1 DEF InviteMember, UpdateMails
    <2>2. WithMember(row[Owner], m).mls = row[Owner].mls
      BY <1>0, FlagAfter DEF WithMember
    <2>3. /\ \A b \in Account : row'[b].mls = row[b].mls
          /\ \A b \in Member : row'[b] = row[b]
      BY <1>0, <2>1, <2>2, OwnerIsAccount DEF TypeOK
    <2>. QED  BY <2>1, <2>3, FollowQuiet
  <1>2. CASE RemoveMember(m)
    <2>1. /\ mls' = mls /\ commits' = commits /\ dl' = dl /\ row' = row /\ mail' = mail
          /\ ui.at = "idle"
          /\ \/ ui'.at = "evict" /\ ui'.who \in Joined /\ ui'.before = Joined
             \/ ui'.at = "drop"
      BY <1>0, <1>2 DEF RemoveMember, group
    <2>. QED  BY <2>1, FollowQuiet
  <1>3. CASE SendMessage(a)
    <2>1. /\ mls' = mls /\ commits' = commits /\ dl' = dl /\ ui' = ui /\ row' = row
          /\ mail' = mail
      BY <1>3 DEF SendMessage, group
    <2>. QED  BY <2>1, FollowQuiet
  <1>. QED  BY <1>1, <1>2, <1>3

LEMMA FollowDrop ==
    ASSUME TypeOK, RosterInv, FollowInv, crossed \subseteq crossed',
           Drop
    PROVE  FollowInv'
  <1>. DEFINE members == Roster(Owner) \ {ui.who}
  <1>0. /\ Owner \in Account /\ Owner \notin Member /\ row[Owner] \in Row
    BY OwnerIsAccount DEF TypeOK
  <1>1. /\ mls' = mls /\ commits' = commits /\ dl' = dl
        /\ ui.at = "drop" /\ ui'.at = "idle"
        /\ row' = [row EXCEPT ![Owner] = WithMembers(row[Owner], members)]
        /\ \A e \in mail : e \in mail'
        /\ \A e \in mail' : e \in mail \/ e.kind = "member_update"
    BY DEF Drop, UpdateMails, Idle
  <1>2. WithMembers(row[Owner], members).mls = row[Owner].mls
    BY <1>0, FlagAfter
  <1>3. /\ \A b \in Account : row'[b].mls = row[b].mls
        /\ \A b \in Member : row'[b] = row[b]
    BY <1>0, <1>1, <1>2, OwnerIsAccount DEF TypeOK
  <1>. QED  BY <1>1, <1>3, FollowQuiet

LEMMA FollowReceiveQuiet ==
    ASSUME TypeOK, RosterInv, FollowInv, crossed \subseteq crossed',
           NEW e \in mail,
           OnMemberUpdate(e) \/ OnAppMessage(e)
    PROVE  FollowInv'
  <1>1. CASE OnMemberUpdate(e)
    <2>1. /\ mls' = mls /\ commits' = commits /\ dl' = dl /\ ui' = ui
          /\ \A x \in mail : x \in mail' \/ x.kind = "member_update"
          /\ \A x \in mail' : x \in mail
          /\ e.kind = "member_update" /\ Known(e.to)
          /\ row' = [row EXCEPT ![e.to] =
                        IF e.to \in e.removed THEN RowAfter(row[e.to], e.to, e.to)
                        ELSE WithMembers(row[e.to], e.members \cup {e.to})]
      BY <1>1 DEF OnMemberUpdate, Others, Handled
    <2>2. e.to \in Member /\ e.to \in Account /\ row[e.to] \in Row
      BY <2>1, MailIs, OwnerIsAccount DEF TypeOK, MemberUpdate
    <2>3. row'[e.to].mls = row[e.to].mls /\ row'[e.to].status \in {row[e.to].status, "removed"}
      <3>1. row'[e.to] = IF e.to \in e.removed THEN RowAfter(row[e.to], e.to, e.to)
                         ELSE WithMembers(row[e.to], e.members \cup {e.to})
        BY <2>1, <2>2 DEF TypeOK
      <3>. QED  BY <2>2, <3>1, FlagAfter
    <2>4. row[e.to].status # "none"
      BY <2>1, <2>2 DEF FollowInv, RowInv, Known
    <2>5. /\ \A b \in Account : row'[b].mls = row[b].mls
          /\ \A b \in Member : row'[b] = row[b] \/ (Known(b) /\ row'[b].status # "none")
      <3>1. \A b \in Account \ {e.to} : row'[b] = row[b]
        BY <2>1, <2>2 DEF TypeOK
      <3>. QED  BY <2>1, <2>2, <2>3, <2>4, <3>1, OwnerIsAccount
    <2>. QED  BY <2>1, <2>5, FollowQuiet
  <1>2. CASE OnAppMessage(e)
    <2>1. /\ mls' = mls /\ commits' = commits /\ dl' = dl /\ ui' = ui /\ row' = row
          /\ \A x \in mail : x \in mail' \/ x.kind = "app"
          /\ \A x \in mail' : x \in mail
      BY <1>2 DEF OnAppMessage, Handled, group
    <2>. QED  BY <2>1, FollowQuiet
  <1>. QED  BY <1>1, <1>2

LEMMA FollowKeyPackage ==
    ASSUME TypeOK, RosterInv, FollowInv, crossed \subseteq crossed',
           NEW e \in mail, OnKeyPackage(e)
    PROVE  FollowInv'
  <1>0. CallInv /\ LeadInv /\ RowInv /\ OnceInv /\ WayInv
    BY DEF FollowInv
  <1>1. /\ mls' = mls /\ commits' = commits /\ ui' = ui /\ row' = row
        /\ dl.at = "idle" /\ e.kind = "key_package"
    BY DEF OnKeyPackage, group, Idle
  <1>2. CASE e.from \in Roster(Owner) \ Joined
    <2>1. mail' = mail /\ dl'.at = "add" /\ dl'.mail = e
      BY <1>2 DEF OnKeyPackage
    <2>. QED  BY <1>1, <1>2, <2>1, FollowQuiet
  <1>3. CASE ~(e.from \in Roster(Owner) \ Joined)
    <2>1. dl' = dl /\ mail' = mail \ {e}
      BY <1>3 DEF OnKeyPackage
    <2>2. WayInv' /\ Joined' = Joined /\ \A m \in Account : Ready(m)' = Ready(m)
      BY <1>0, <1>1, <2>1, WayQuiet
    <2>3. LeadInv'
      BY <1>0, <1>1, <2>1, LeadQuiet
    <2>4. RowInv'
      BY <1>0, <1>1 DEF RowInv
    <2>5. CallInv'
      BY <1>0, <1>1, <2>1, <2>2 DEF CallInv
    <2>6. OnceInv'
      <3>1. ASSUME NEW m \in Member
            PROVE  /\ Joining(m)' => Joining(m)
                   /\ Known(m) => Known(m)'
                   /\ Ready(m)' => Ready(m)
                   /\ Leaving(m)' => Leaving(m)
                   /\ WelcomesTo(m)' \subseteq WelcomesTo(m)
        <4>1. (Joining(m)' => Joining(m)) /\ (Known(m) => Known(m)')
          BY <1>1, <2>1 DEF Joining, GenerateKeyPackage, Known
        <4>2. Leaving(m)' => Leaving(m)
          BY <1>1, <2>1 DEF Leaving
        <4>3. WelcomesTo(m)' \subseteq WelcomesTo(m)
          BY <2>1 DEF WelcomesTo
        <4>. QED  BY <2>2, <4>1, <4>2, <4>3, OwnerIsAccount
      <3>. QED
        BY ONLY <1>0, <1>1, <2>1, <2>2, <3>1, crossed \subseteq crossed', OnceQuiet
    <2>. QED  BY <2>2, <2>3, <2>4, <2>5, <2>6 DEF FollowInv
  <1>. QED  BY <1>2, <1>3

\* Who answers an invitation has been nowhere in the group before.
LEMMA FollowInvite ==
    ASSUME TypeOK, RosterInv, FollowInv, crossed \subseteq crossed',
           NEW e \in mail, OnInvite(e)
    PROVE  FollowInv'
  <1>. DEFINE m == e.to
              kp == GenerateKeyPackage(m)
  <1>0. CallInv /\ LeadInv /\ RowInv /\ OnceInv /\ WayInv
    BY DEF FollowInv
  <1>1. /\ mls' = mls /\ commits' = commits /\ ui' = ui /\ dl' = dl
        /\ e.kind = "invite"
    BY DEF OnInvite, Others
  <1>2. m \in Member /\ m \in Account /\ row[m] \in Row /\ m # Owner
    BY <1>1, MailIs, OwnerIsAccount DEF TypeOK, Invite
  <1>3. CASE Known(m)
    <2>1. row' = row /\ mail' = mail \ {e}
      BY <1>3 DEF OnInvite, Handled
    <2>. QED  BY <1>1, <2>1, FollowQuiet
  <1>4. CASE ~Known(m)
    <2>1. /\ row' = [row EXCEPT ![m] = NewRow(e.members)]
          /\ mail' = (mail \ {e}) \cup {kp}
      BY <1>4 DEF OnInvite
    <2>2. /\ kp.kind = "key_package" /\ kp.from = m
          /\ \A b : GenerateKeyPackage(b) = kp => b = m
      BY DEF GenerateKeyPackage
    <2>. HIDE DEF kp
    <2>3. row[m] = NoRow /\ row[m].mls = FALSE /\ row'[m].mls = FALSE /\ row'[m].status = "active"
      BY <1>2, <1>4, <2>1 DEF Known, NoRow, NewRow, TypeOK
    <2>4. \A b \in Account : row'[b].mls = row[b].mls /\ (b = m \/ row'[b] = row[b])
      <3>1. \A b \in Account \ {m} : row'[b] = row[b]
        BY <1>2, <2>1 DEF TypeOK
      <3>. QED  BY <1>2, <2>3, <3>1
    <2>5. /\ \A x \in mail' : x \in mail \/ x = kp
          /\ \A x \in mail : x \in mail' \/ x.kind = "invite"
      BY <1>1, <2>1
    <2>6. WayInv' /\ Joined' = Joined /\ \A b \in Account : Ready(b)' = Ready(b)
      BY <1>0, <1>1, <2>2, <2>4, <2>5, WayQuiet
    <2>7. LeadInv'
      BY <1>0, <1>1, <2>2, <2>5, LeadQuiet
    <2>8. RowInv'
      BY <1>0, <1>1, <2>3, <2>4, OwnerIsAccount DEF RowInv, NoRow
    <2>9. CallInv'
      <3>1. dl.at \in {"add", "added"} => dl.mail.kind = "key_package"
        BY DlIs, MailKinds DEF TypeOK
      <3>. QED  BY <1>0, <1>1, <2>5, <2>6, <3>1 DEF CallInv
    <2>10. OnceInv'
      <3>1. ASSUME NEW b \in Member
            PROVE  /\ Leaving(b)' = Leaving(b) /\ WelcomesTo(b)' = WelcomesTo(b)
                   /\ Joining(b)' = (Joining(b) \/ b = m)
                   /\ Known(b)' = (Known(b) \/ b = m)
        <4>1. Leaving(b)' = Leaving(b)
          BY <1>1, <2>2, <2>5 DEF Leaving
        <4>2. WelcomesTo(b)' = WelcomesTo(b)
          BY <2>2, <2>5 DEF WelcomesTo
        <4>3. Joining(b)' = (Joining(b) \/ b = m)
          <5>1. GenerateKeyPackage(b).kind = "key_package" /\ (b = m => GenerateKeyPackage(b) = kp)
            BY DEF GenerateKeyPackage, kp
          <5>. QED  BY <1>1, <2>1, <2>2, <5>1 DEF Joining
        <4>4. Known(b)' = (Known(b) \/ b = m)
          BY <2>3, <2>4, OwnerIsAccount DEF Known, NoRow
        <4>. QED  BY <4>1, <4>2, <4>3, <4>4
      <3>2. m \notin crossed => m \notin Joined /\ ~Leaving(m) /\ WelcomesTo(m) = {}
        BY <1>0, <1>2, <1>4 DEF OnceInv
      <3>3. ~Ready(m)
        BY <2>3 DEF Ready, GetMlsGroupId
      <3>4. OnceInv' = \A b \in Member \ crossed' :
               /\ Joining(b)' => Known(b)' /\ ~Ready(b)' /\ ~Leaving(b)' /\ WelcomesTo(b)' = {}
               /\ Joining(b)' /\ b \in Joined' => dl'.at = "added" /\ dl'.mail = GenerateKeyPackage(b)
               /\ b \in Joined' => ~Leaving(b)'
               /\ b \in Joined' \/ Leaving(b)' \/ WelcomesTo(b)' # {} => Known(b)'
        BY DEF OnceInv, GenerateKeyPackage
      <3>. QED  BY <1>0, <1>1, <1>4, <2>6, <3>1, <3>2, <3>3, <3>4, OwnerIsAccount DEF OnceInv
    <2>. QED  BY <2>6, <2>7, <2>8, <2>9, <2>10 DEF FollowInv
  <1>. QED  BY <1>3, <1>4

\* What a commit of the owner is: it leads on from the owner's state.
LeadsOn(c) ==
    /\ c.pre = mls[Owner].id /\ c.post.pending = {} /\ c.post.id = mls[Owner].id + 1
    /\ Leads(c) /\ c.post \in State

LEMMA CommitsLead ==
    ASSUME TypeOK, ChainInv, CallInv
    PROVE  /\ \A kp \in KeyPackage :
                  LeadsOn(AddMembers(kp)) /\ AddMembers(kp).props = {}
           /\ \A m \in Member :
                  LeadsOn(RemoveMemberByEmail(m)) /\ RemoveMemberByEmail(m).props = {}
           /\ LeadsOn(SelfUpdate) /\ SelfUpdate.props = {}
           /\ \A p \in Proposal : p.at = mls[Owner].id =>
                  LeadsOn(CommitPending(p)) /\ CommitPending(p).props = {p}
  <1>0. commits = mls[Owner].id /\ commits \in Nat /\ mls[Owner].pending = {}
    BY LimitIs DEF ChainInv, CallInv
  <1>1. ASSUME NEW tree, NEW removed
        PROVE  CommitTo(tree, removed).props = {}
    BY <1>0 DEF CommitTo
  <1>2. /\ \A kp \in KeyPackage : AddMembers(kp).props = {}
        /\ \A m \in Member : RemoveMemberByEmail(m).props = {}
        /\ SelfUpdate.props = {}
    BY <1>1 DEF AddMembers, RemoveMemberByEmail, SelfUpdate
  <1>3. \A p \in Proposal : CommitPending(p).props = {p}
    <2>1. SelfUpdate \in CommitType
      BY CommitsAre
    <2>. QED  BY <1>2, <2>1 DEF CommitPending, CommitType
  <1>4. ASSUME NEW c \in CommitType, NEW tree, c.pre = mls[Owner].id,
               c.post = [epoch |-> mls[Owner].epoch + 1, id |-> commits + 1,
                         tree |-> tree, pending |-> {}],
               \A p \in c.props : p.at = mls[Owner].id
        PROVE  LeadsOn(c)
    <2>1. c.post \in State
      BY DEF CommitType
    <2>2. c.post.id = commits + 1 /\ c.post.pending = {}
      BY <1>4
    <2>. QED  BY <1>0, <1>4, <2>1, <2>2 DEF LeadsOn, Leads
  <1>5. ASSUME NEW kp \in KeyPackage PROVE LeadsOn(AddMembers(kp))
    BY <1>2, <1>4, CommitsAre
  <1>6. ASSUME NEW m \in Member PROVE LeadsOn(RemoveMemberByEmail(m))
    BY <1>2, <1>4, CommitsAre
  <1>7. ASSUME NEW p \in Proposal, p.at = mls[Owner].id PROVE LeadsOn(CommitPending(p))
    BY <1>3, <1>4, <1>7, CommitsAre
  <1>8. LeadsOn(SelfUpdate)
    BY <1>2, <1>4, CommitsAre
  <1>. QED  BY <1>2, <1>3, <1>5, <1>6, <1>7, <1>8

\* What a commit of the owner leaves alone, and what it changes.
LEMMA CommitMoves ==
    ASSUME TypeOK, RosterInv, FollowInv, NEW c, LeadsOn(c), Commit(c), row' = row,
           mail' = mail
    PROVE  /\ Joined' = c.post.tree
           /\ mls'[Owner] = c.post /\ mls'[Owner].id = mls[Owner].id + 1
           /\ commits' = commits + 1
           /\ \A m \in Account \ {Owner} :
                  /\ mls'[m] = mls[m] /\ Ready(m)' = Ready(m)
                  /\ Held(m)' = Held(m) /\ WelcomesTo(m)' = WelcomesTo(m)
                  /\ CommitsTo(m)' = CommitsTo(m)
           /\ RowInv'
           /\ \A m \in Member : Known(m)' = Known(m) /\ Joining(m)' = Joining(m)
  <1>1. /\ mls' = [mls EXCEPT ![Owner] = c.post] /\ commits' = commits + 1
    BY AdvanceType, OwnerIsAccount DEF Commit, LeadsOn
  <1>2. mls'[Owner] = c.post /\ \A m \in Account \ {Owner} : mls'[m] = mls[m]
    BY <1>1, OwnerIsAccount DEF TypeOK
  <1>3. Joined' = c.post.tree
    BY CommitTree DEF RosterInv, LeadsOn
  <1>4. ASSUME NEW m \in Account \ {Owner}
        PROVE  /\ mls'[m] = mls[m] /\ Ready(m)' = Ready(m)
               /\ Held(m)' = Held(m) /\ WelcomesTo(m)' = WelcomesTo(m)
               /\ CommitsTo(m)' = CommitsTo(m)
    <2>1. mls'[m] = mls[m]
      BY <1>2
    <2>2. Ready(m)' = Ready(m)
      BY <2>1 DEF Ready, GetMlsGroupId
    <2>3. /\ WelcomesTo(m)' = WelcomesTo(m) /\ CommitsTo(m)' = CommitsTo(m)
          /\ ProposalsTo(m)' = ProposalsTo(m)
      BY DEF WelcomesTo, CommitsTo, ProposalsTo
    <2>4. Held(m)' = Held(m)
      BY <2>1, <2>3 DEF Held
    <2>. QED  BY <2>1, <2>2, <2>3, <2>4
  <1>5. RowInv'
    BY <1>2, OwnerIsAccount DEF RowInv, FollowInv
  <1>6. \A m \in Member : Known(m)' = Known(m) /\ Joining(m)' = Joining(m)
    BY DEF Known, Joining, GenerateKeyPackage
  <1>. QED  BY <1>1, <1>2, <1>3, <1>4, <1>5, <1>6 DEF LeadsOn

\* The call that made the commit is to mail it to m, or to let m in at it.
Mailed(m, c) ==
    /\ m \in Joined \ crossed /\ c.props \subseteq Held(m)
    /\ (FromUi(m)' /\ ui'.commit = c) \/ (FromDl(m)' /\ dl'.commit = c)
    /\ dl' = dl \/ ~(dl'.at = "added" /\ dl'.mail.from = m)
Entered(m, c) ==
    /\ ~Ready(m) /\ WelcomesTo(m) = {}
    /\ dl'.at = "added" /\ dl'.mail.from = m /\ dl'.commit = c

\* A commit of those in the tree leaves everybody a way: those who stay are to be
\* mailed the commit, who is new enters at it.
LEMMA FollowCommit ==
    ASSUME TypeOK, ChainInv, RosterInv, FollowInv, crossed \subseteq crossed',
           NEW c, LeadsOn(c), Commit(c), row' = row,
           mail' = mail,
           \/ ui.at \in {"idle", "evict"} /\ dl' = dl
           \/ dl.at \in {"idle", "add"} /\ ui' = ui,
           \A m \in c.post.tree \ ({Owner} \cup crossed') : Mailed(m, c) \/ Entered(m, c)
    PROVE  WayInv'
  <1>0. WayInv
    BY DEF FollowInv
  <1>1. /\ Joined' = c.post.tree
        /\ mls'[Owner].id = mls[Owner].id + 1 /\ mls'[Owner].id = c.post.id
        /\ commits' = commits + 1
        /\ \A m \in Account \ {Owner} :
               /\ mls'[m] = mls[m] /\ Ready(m)' = Ready(m)
               /\ Held(m)' = Held(m) /\ WelcomesTo(m)' = WelcomesTo(m)
               /\ CommitsTo(m)' = CommitsTo(m)
    BY CommitMoves
  <1>2. c.post.tree \in SUBSET Account /\ c.pre = mls[Owner].id
    BY DEF LeadsOn, State
  <1>3. ASSUME NEW m \in Followers'
        PROVE  \/ From(m)' = {mls'[Owner].id}
               \/ /\ m \in Followers /\ From(m)' = From(m)
                  /\ c \in OnWay(m)' /\ c.props \subseteq Held(m)'
                  /\ OnWay(m) \subseteq OnWay(m)' /\ Held(m) \subseteq Held(m)'
    <2>0. m \in Account \ {Owner} /\ m \in c.post.tree \ ({Owner} \cup crossed')
      BY <1>1, <1>2 DEF Followers
    <2>1. CASE Mailed(m, c)
      <3>0. m \in Joined /\ m \in Joined' /\ m \in Followers
        BY <1>1, <2>0, <2>1 DEF Mailed, Followers
      <3>1. c \in OnWay(m)' /\ OnWay(m) \subseteq OnWay(m)'
        <4>1. c \in OnWay(m)'
          BY <2>1 DEF OnWay, Mailed
        <4>2. FromUi(m) => FromUi(m)' /\ ui' = ui
          BY <2>1, <3>0 DEF FromUi
        <4>3. FromDl(m) => FromDl(m)' /\ dl' = dl
          BY <2>1, <3>0 DEF FromDl
        <4>. QED  BY <1>1, <2>0, <4>1, <4>2, <4>3 DEF OnWay
      <3>2. Entries(m)' = Entries(m)
        BY <1>1, <2>0, <2>1 DEF Entries, Mailed
      <3>3. From(m)' = From(m)
        BY <1>1, <2>0, <3>2 DEF From
      <3>. QED  BY <1>1, <2>0, <2>1, <3>0, <3>1, <3>3 DEF Mailed
    <2>2. CASE Entered(m, c)
      <3>1. Entries(m)' = {c.post}
        BY <1>1, <2>0, <2>2 DEF Entries, Entered
      <3>. QED  BY <1>1, <2>0, <2>2, <3>1 DEF From, Entered
    <2>. QED  BY <2>0, <2>1, <2>2
  <1>4. \A e \in mail' : e.kind = "proposal" => e \in mail
    OBVIOUS
  <1>. QED  BY <1>0, <1>1, <1>2, <1>3, <1>4, WayGrows

LEMMA FollowRefresh ==
    ASSUME TypeOK, ChainInv, RosterInv, FollowInv, crossed \subseteq crossed',
           SendAndRefresh
    PROVE  FollowInv'
  <1>. DEFINE c == SelfUpdate
  <1>0. CallInv /\ LeadInv /\ RowInv /\ OnceInv /\ WayInv /\ Joined \in SUBSET Account
    BY FollowersAre, TreeIs, OwnerIsAccount DEF FollowInv
  <1>1. /\ Commit(c) /\ row' = row /\ mail' = mail /\ dl' = dl /\ ui = Idle
        /\ ui' = [at |-> "refreshed", commit |-> c]
    BY DEF SendAndRefresh
  <1>2. LeadsOn(c) /\ c.props = {} /\ c.post.tree = Joined /\ c.removed = Nobody
    BY <1>0, CommitsLead, TreesAre, CommitsAre
  <1>. HIDE DEF c
  <1>3. ui'.at = "refreshed" /\ ui'.commit = c /\ ui.at = "idle"
    BY <1>1 DEF Idle
  <1>4. /\ Joined' = Joined /\ mls'[Owner] = c.post
        /\ \A m \in Account \ {Owner} : /\ Ready(m)' = Ready(m) /\ WelcomesTo(m)' = WelcomesTo(m)
        /\ RowInv'
        /\ \A m \in Member : Known(m)' = Known(m) /\ Joining(m)' = Joining(m)
    BY <1>1, <1>2, CommitMoves
  <1>5. WayInv'
    <2>1. \A m \in Joined : FromUi(m)'
      BY <1>3, <1>4 DEF FromUi
    <2>2. \A m \in c.post.tree \ ({Owner} \cup crossed') : Mailed(m, c)
      BY <1>1, <1>2, <1>3, <2>1 DEF Mailed
    <2>. QED  BY <1>1, <1>2, <1>3, <2>2, FollowCommit
  <1>6. LeadInv'
    BY <1>0, <1>1, <1>2, <1>3, LeadQuiet DEF LeadsOn
  <1>7. CallInv'
    BY <1>0, <1>1, <1>2, <1>3, <1>4 DEF CallInv, LeadsOn
  <1>8. OnceInv'
    <2>1. ASSUME NEW m \in Member PROVE Leaving(m)' => Leaving(m)
      BY <1>1, <1>3 DEF Leaving
    <2>2. \A m \in Member :
              /\ Joining(m)' => Joining(m)
              /\ Known(m) => Known(m)'
              /\ Ready(m)' => Ready(m)
              /\ Leaving(m)' => Leaving(m)
              /\ WelcomesTo(m)' \subseteq WelcomesTo(m)
      BY <1>4, <2>1, OwnerIsAccount
    <2>. QED  BY ONLY <1>0, <1>1, <1>4, <2>2, crossed \subseteq crossed', OnceQuiet
  <1>. QED  BY <1>4, <1>5, <1>6, <1>7, <1>8 DEF FollowInv

LEMMA FollowEvict ==
    ASSUME TypeOK, ChainInv, RosterInv, FollowInv, crossed \subseteq crossed',
           Evict
    PROVE  FollowInv'
  <1>. DEFINE c == RemoveMemberByEmail(ui.who)
  <1>0. CallInv /\ LeadInv /\ RowInv /\ OnceInv /\ WayInv /\ Joined \in SUBSET Account
    BY FollowersAre, TreeIs, OwnerIsAccount DEF FollowInv
  <1>1. /\ Commit(c) /\ row' = row /\ mail' = mail /\ dl' = dl /\ ui.at = "evict"
        /\ ui' = [at |-> "evicted", who |-> ui.who, commit |-> c, to |-> ui.before]
    BY DEF Evict, bounds
  <1>2. /\ ui.who \in Member /\ ui.who \in Joined /\ Joined \subseteq ui.before \cup crossed
        /\ Adding \subseteq crossed
    BY <1>0, <1>1, UiIs DEF TypeOK, RosterInv, CallInv, Removing
  <1>3. LeadsOn(c) /\ c.props = {} /\ c.post.tree = Joined \ {ui.who} /\ c.removed = ui.who
    BY <1>0, <1>2, CommitsLead, TreesAre, CommitsAre
  <1>. HIDE DEF c
  <1>4. ui'.at = "evicted" /\ ui'.commit = c /\ Joined \subseteq ui'.to \cup crossed
    BY <1>1, <1>2
  <1>5. /\ Joined' = Joined \ {ui.who} /\ mls'[Owner] = c.post
        /\ \A m \in Account \ {Owner} : /\ Ready(m)' = Ready(m) /\ WelcomesTo(m)' = WelcomesTo(m)
        /\ RowInv'
        /\ \A m \in Member : Known(m)' = Known(m) /\ Joining(m)' = Joining(m)
    BY <1>1, <1>2, <1>3, CommitMoves
  <1>6. WayInv'
    <2>1. \A m \in Joined \ crossed : FromUi(m)'
      BY <1>4 DEF FromUi
    <2>2. \A m \in c.post.tree \ ({Owner} \cup crossed') : Mailed(m, c)
      BY <1>1, <1>3, <1>4, <2>1 DEF Mailed
    <2>. QED  BY <1>1, <1>3, <2>2, FollowCommit
  <1>7. LeadInv'
    BY <1>0, <1>1, <1>3, <1>4, LeadQuiet DEF LeadsOn
  <1>8. CallInv'
    BY <1>0, <1>1, <1>3, <1>4, <1>5 DEF CallInv, LeadsOn
  <1>9. OnceInv'
    <2>1. \A m \in Member : Leaving(m)' = (Leaving(m) \/ m = ui.who)
      BY <1>1, <1>3, <1>4 DEF Leaving
    <2>2. OnceInv' = \A b \in Member \ crossed' :
             /\ Joining(b)' => Known(b)' /\ ~Ready(b)' /\ ~Leaving(b)' /\ WelcomesTo(b)' = {}
             /\ Joining(b)' /\ b \in Joined' => dl'.at = "added" /\ dl'.mail = GenerateKeyPackage(b)
             /\ b \in Joined' => ~Leaving(b)'
             /\ b \in Joined' \/ Leaving(b)' \/ WelcomesTo(b)' # {} => Known(b)'
      BY DEF OnceInv, GenerateKeyPackage
    <2>3. ui.who \notin crossed => ~Joining(ui.who) /\ Known(ui.who)
      <3>1. dl.at = "added" => dl.mail.from \in crossed
        BY <1>2 DEF Adding
      <3>2. GenerateKeyPackage(ui.who).from = ui.who
        BY DEF GenerateKeyPackage
      <3>. QED  BY <1>0, <1>2, <3>1, <3>2 DEF OnceInv
    <2>. QED  BY <1>0, <1>1, <1>2, <1>5, <2>1, <2>2, <2>3, OwnerIsAccount DEF OnceInv
  <1>. QED  BY <1>5, <1>6, <1>7, <1>8, <1>9 DEF FollowInv

LEMMA FollowAdd ==
    ASSUME TypeOK, ChainInv, RosterInv, FollowInv, crossed \subseteq crossed',
           AddMember
    PROVE  FollowInv'
  <1>. DEFINE c == AddMembers(dl.mail)
              new == dl.mail.from
  <1>0. CallInv /\ LeadInv /\ RowInv /\ OnceInv /\ WayInv /\ Joined \in SUBSET Account
    BY FollowersAre, TreeIs, OwnerIsAccount DEF FollowInv
  <1>1. /\ Commit(c) /\ row' = row /\ mail' = mail /\ ui' = ui /\ dl.at = "add"
        /\ dl' = [at |-> "added", mail |-> dl.mail, commit |-> c, to |-> Joined]
    BY DEF AddMember, bounds
  <1>2. /\ dl.mail \in KeyPackage /\ new \notin Joined /\ dl.mail \in mail
        /\ ui.at = "evict" => new \in crossed
    BY <1>0, <1>1, DlIs DEF TypeOK, RosterInv, CallInv, Removing, Adding
  <1>3. new \in Member /\ dl.mail = GenerateKeyPackage(new)
    BY <1>2 DEF KeyPackage, GenerateKeyPackage
  <1>4. LeadsOn(c) /\ c.props = {} /\ c.post.tree = Joined \cup {new} /\ c.removed = Nobody
    BY <1>0, <1>2, CommitsLead, TreesAre, CommitsAre
  <1>. HIDE DEF c
  <1>5. dl'.at = "added" /\ dl'.commit = c /\ dl'.to = Joined /\ dl'.mail = dl.mail
    BY <1>1
  <1>6. /\ Joined' = Joined \cup {new} /\ mls'[Owner] = c.post
        /\ \A m \in Account \ {Owner} : /\ Ready(m)' = Ready(m) /\ WelcomesTo(m)' = WelcomesTo(m)
        /\ RowInv'
        /\ \A m \in Member : Known(m)' = Known(m) /\ Joining(m)' = Joining(m)
    BY <1>1, <1>2, <1>4, CommitMoves
  <1>7. new \notin crossed =>
            /\ Joining(new) /\ ~Ready(new) /\ WelcomesTo(new) = {}
            /\ ~Leaving(new) /\ Known(new)
    BY <1>0, <1>2, <1>3 DEF OnceInv, Joining
  <1>8. WayInv'
    <2>1. \A m \in Joined : FromDl(m)'
      BY <1>5 DEF FromDl
    <2>2. \A m \in Joined \ crossed : Mailed(m, c)
      BY <1>2, <1>4, <1>5, <2>1 DEF Mailed
    <2>3. new \notin crossed => Entered(new, c)
      BY <1>5, <1>7 DEF Entered
    <2>4. \A m \in c.post.tree \ ({Owner} \cup crossed') : Mailed(m, c) \/ Entered(m, c)
      BY <1>4, <2>2, <2>3
    <2>. QED  BY <1>1, <1>2, <1>4, <2>4, FollowCommit
  <1>9. LeadInv'
    BY <1>0, <1>1, <1>4, <1>5, LeadQuiet DEF LeadsOn
  <1>10. CallInv'
    BY <1>0, <1>1, <1>2, <1>4, <1>5, <1>6 DEF CallInv, LeadsOn
  <1>11. OnceInv'
    <2>1. \A m \in Member : Leaving(m)' = Leaving(m)
      BY <1>1 DEF Leaving
    <2>2. OnceInv' = \A b \in Member \ crossed' :
             /\ Joining(b)' => Known(b)' /\ ~Ready(b)' /\ ~Leaving(b)' /\ WelcomesTo(b)' = {}
             /\ Joining(b)' /\ b \in Joined' => dl'.at = "added" /\ dl'.mail = GenerateKeyPackage(b)
             /\ b \in Joined' => ~Leaving(b)'
             /\ b \in Joined' \/ Leaving(b)' \/ WelcomesTo(b)' # {} => Known(b)'
      BY DEF OnceInv, GenerateKeyPackage
    <2>. QED  BY <1>0, <1>1, <1>3, <1>5, <1>6, <1>7, <2>1, <2>2, OwnerIsAccount DEF OnceInv
  <1>. QED  BY <1>6, <1>8, <1>9, <1>10, <1>11 DEF FollowInv

LEMMA FollowProposalOfMember ==
    ASSUME TypeOK, ChainInv, RosterInv, FollowInv, crossed \subseteq crossed',
           NEW e \in mail,
           OnProposalOfMember(e)
    PROVE  FollowInv'
  <1>. DEFINE c == CommitPending(e.proposal)
  <1>0. CallInv /\ LeadInv /\ RowInv /\ OnceInv /\ WayInv /\ Joined \in SUBSET Account
    BY FollowersAre, TreeIs, OwnerIsAccount DEF FollowInv
  <1>1. /\ Commit(c) /\ row' = row /\ mail' = mail /\ ui' = ui /\ dl = Idle
        /\ dl' = [at |-> "committed", mail |-> e, commit |-> c]
        /\ e.kind = "proposal" /\ e.to = Owner /\ e.proposal.at = mls[Owner].id
    BY DEF OnProposalOfMember, bounds
  <1>2. e.proposal \in Proposal
    BY <1>1, MailIs DEF TypeOK, ProposalMail
  <1>3. /\ LeadsOn(c) /\ c.props = {e.proposal} /\ c.post.tree = Joined
        /\ c.removed = Nobody
    BY <1>0, <1>1, <1>2, CommitsLead, TreesAre, CommitsAre
  <1>. HIDE DEF c
  <1>4. dl'.at = "committed" /\ dl'.commit = c /\ dl'.mail = e /\ dl.at = "idle"
    BY <1>1 DEF Idle
  <1>5. /\ Joined' = Joined /\ mls'[Owner] = c.post
        /\ \A m \in Account \ {Owner} : /\ Ready(m)' = Ready(m) /\ WelcomesTo(m)' = WelcomesTo(m)
        /\ RowInv'
        /\ \A m \in Member : Known(m)' = Known(m) /\ Joining(m)' = Joining(m)
    BY <1>1, <1>3, CommitMoves
  <1>6. WayInv'
    <2>1. \A m \in Followers : e.proposal \in Held(m)
      BY <1>0, <1>1 DEF WayInv, ProposalInv
    <2>2. \A m \in Joined : FromDl(m)'
      BY <1>4, <1>5 DEF FromDl
    <2>3. \A m \in c.post.tree \ ({Owner} \cup crossed') : Mailed(m, c)
      BY <1>3, <1>4, <2>1, <2>2 DEF Mailed, Followers
    <2>. QED  BY <1>1, <1>3, <1>4, <2>3, FollowCommit
  <1>7. LeadInv'
    BY <1>0, <1>1, <1>3, <1>4, LeadQuiet DEF LeadsOn
  <1>8. CallInv'
    BY <1>0, <1>1, <1>3, <1>4, <1>5 DEF CallInv, LeadsOn
  <1>9. OnceInv'
    <2>1. \A m \in Member : Leaving(m)' => Leaving(m)
      BY <1>1 DEF Leaving
    <2>2. \A m \in Member :
              /\ Joining(m)' => Joining(m)
              /\ Known(m) => Known(m)'
              /\ Ready(m)' => Ready(m)
              /\ Leaving(m)' => Leaving(m)
              /\ WelcomesTo(m)' \subseteq WelcomesTo(m)
      BY <1>5, <2>1, OwnerIsAccount
    <2>. QED  BY ONLY <1>0, <1>4, <1>5, <2>2, crossed \subseteq crossed', OnceQuiet
  <1>. QED  BY <1>5, <1>6, <1>7, <1>8, <1>9 DEF FollowInv

\* A call that has made its commit mails it to those it was for.
LEMMA FollowMailed ==
    ASSUME TypeOK, RosterInv, FollowInv, crossed \subseteq crossed',
           mls' = mls, commits' = commits,
           \A a \in Account : row'[a].mls = row[a].mls,
           \A e \in mail' : e \in mail \/ e.kind \in {"commit", "welcome"},
           \A m \in Followers :
               /\ ProposalsTo(m) \subseteq ProposalsTo(m)'
               /\ OnWay(m) \subseteq OnWay(m)' /\ Entries(m)' = Entries(m)
    PROVE  WayInv' /\ Joined' = Joined /\ \A m \in Account : Ready(m)' = Ready(m)
  <1>0. WayInv
    BY DEF FollowInv
  <1>1. Joined' = Joined /\ Followers' \subseteq Followers /\ Followers \subseteq Account
    BY JoinedIs, FollowersAre, OwnerIsAccount DEF Followers
  <1>2. \A m \in Account : Ready(m)' = Ready(m)
    BY DEF Ready, GetMlsGroupId
  <1>3. ASSUME NEW m \in Followers
        PROVE  /\ From(m)' # {} /\ From(m)' \subseteq From(m)
               /\ OnWay(m) \subseteq OnWay(m)' /\ Held(m) \subseteq Held(m)'
    <2>1. From(m)' = From(m)
      BY <1>1, <1>2 DEF From
    <2>2. Held(m) \subseteq Held(m)'
      BY DEF Held
    <2>. QED  BY <1>0, <2>1, <2>2 DEF WayInv, Path
  <1>4. \A e \in mail' : e.kind = "proposal" => e \in mail
    OBVIOUS
  <1>5. Path' /\ ProposalInv'
    BY <1>0, <1>1, <1>3, <1>4, WayKept
  <1>. QED  BY <1>1, <1>2, <1>5 DEF WayInv

LEMMA InMail ==
    ASSUME NEW c, NEW to, CommitMails(c, to) \subseteq mail', NEW m \in to, m # Owner
    PROVE  c \in CommitsTo(m)'
  <1>. DEFINE e == [kind |-> "commit", to |-> m, commit |-> c]
  <1>1. e \in mail'
    BY DEF CommitMails
  <1>2. e.kind = "commit" /\ e.to = m /\ e.commit = c
    OBVIOUS
  <1>. QED  BY <1>1, <1>2 DEF CommitsTo

\* The mails of a call of the user that has made its commit.
LEMMA FollowUiMails ==
    ASSUME TypeOK, RosterInv, FollowInv, crossed \subseteq crossed',
           NEW to,
           ui.at \in {"evicted", "refreshed"}, \A m \in Member : FromUi(m) => m \in to,
           ui.at = "refreshed" => ui.commit.removed \notin Member,
           mls' = mls, commits' = commits, ui' = Idle, dl' = dl,
           mail' = mail \cup CommitMails(ui.commit, to),
           row'[Owner].mls = row[Owner].mls,
           \A m \in Member : row'[m] = row[m]
    PROVE  FollowInv'
  <1>0. /\ CallInv /\ LeadInv /\ RowInv /\ OnceInv /\ WayInv /\ Joined \in SUBSET Account
        /\ Followers \subseteq Member
    BY FollowersAre, TreeIs, OwnerIsAccount DEF FollowInv
  <1>1. ui'.at = "idle" /\ dl' = dl
    BY DEF Idle
  <1>2. \A e \in mail' : e \in mail \/ (e.kind = "commit" /\ e.commit = ui.commit)
    BY DEF CommitMails
  <1>3. \A a \in Account : row'[a].mls = row[a].mls
    BY OwnerIsAccount
  <1>10. Joined' = Joined
    BY <1>3, JoinedIs, OwnerIsAccount
  <1>4. ASSUME NEW m \in Member
        PROVE  /\ ProposalsTo(m)' = ProposalsTo(m) /\ WelcomesTo(m)' = WelcomesTo(m)
               /\ OnWay(m) \subseteq OnWay(m)' /\ Entries(m)' = Entries(m)
    <2>1. ProposalsTo(m)' = ProposalsTo(m) /\ WelcomesTo(m)' = WelcomesTo(m)
      BY <1>2 DEF ProposalsTo, WelcomesTo
    <2>2. CommitsTo(m) \subseteq CommitsTo(m)'
      BY DEF CommitsTo
    <2>3. FromUi(m) => ui.commit \in CommitsTo(m)'
      BY InMail, OwnerIsAccount
    <2>4. OnWay(m) \subseteq OnWay(m)'
      BY <1>1, <1>10, <2>2, <2>3 DEF OnWay, FromDl
    <2>5. Entries(m)' = Entries(m)
      BY <1>1, <2>1 DEF Entries
    <2>. QED  BY <2>1, <2>4, <2>5
  <1>5. WayInv' /\ Joined' = Joined /\ \A m \in Account : Ready(m)' = Ready(m)
    <2>1. /\ \A e \in mail' : e \in mail \/ e.kind \in {"commit", "welcome"}
          /\ \A m \in Followers :
                 /\ ProposalsTo(m) \subseteq ProposalsTo(m)'
                 /\ OnWay(m) \subseteq OnWay(m)' /\ Entries(m)' = Entries(m)
      BY <1>0, <1>2, <1>4
    <2>. QED  BY <1>3, <2>1, FollowMailed
  <1>6. LeadInv'
    <2>1. Leads(ui.commit)
      BY <1>0 DEF LeadInv
    <2>. QED  BY <1>0, <1>1, <1>2, <2>1, LeadQuiet
  <1>7. RowInv'
    BY <1>0, OwnerIsAccount DEF RowInv
  <1>8. CallInv'
    BY <1>0, <1>1, <1>5 DEF CallInv
  <1>9. OnceInv'
    <2>1. ASSUME NEW m \in Member
          PROVE  /\ Joining(m)' => Joining(m)
                 /\ Known(m) => Known(m)'
                 /\ Ready(m)' => Ready(m)
                 /\ Leaving(m)' => Leaving(m)
                 /\ WelcomesTo(m)' \subseteq WelcomesTo(m)
      <3>1. (Joining(m)' => Joining(m)) /\ (Known(m) => Known(m)')
        BY <1>2 DEF Joining, GenerateKeyPackage, Known
      <3>2. Leaving(m)' => Leaving(m)
        BY <1>1, <1>2 DEF Leaving
      <3>. QED  BY <1>4, <1>5, <3>1, <3>2, OwnerIsAccount
    <2>. QED  BY ONLY <1>0, <1>1, <1>5, <2>1, crossed \subseteq crossed', OnceQuiet
  <1>. QED  BY <1>5, <1>6, <1>7, <1>8, <1>9 DEF FollowInv

LEMMA FollowUiSends ==
    ASSUME TypeOK, RosterInv, FollowInv, crossed \subseteq crossed',
           Evicted \/ Refreshed
    PROVE  FollowInv'
  <1>0. /\ Owner \in Account /\ Owner \notin Member /\ row[Owner] \in Row
        /\ Nobody \notin Member /\ (ui.at = "refreshed" => ui.commit.removed = Nobody)
    BY OwnerIsAccount, OwnerAssumption DEF TypeOK, FollowInv, CallInv, Account
  <1>1. CASE Evicted
    <2>1. /\ ui.at = "evicted" /\ mls' = mls /\ commits' = commits /\ ui' = Idle /\ dl' = dl
          /\ mail' = mail \cup CommitMails(ui.commit, ui.to)
          /\ row' = [row EXCEPT ![Owner] = WithoutMember(row[Owner], ui.who)]
      BY <1>1 DEF Evicted
    <2>2. WithoutMember(row[Owner], ui.who).mls = row[Owner].mls
      BY <1>0, FlagAfter DEF WithoutMember
    <2>3. row'[Owner].mls = row[Owner].mls /\ \A m \in Member : row'[m] = row[m]
      BY <1>0, <2>1, <2>2, OwnerIsAccount DEF TypeOK
    <2>4. \A m \in Member : FromUi(m) => m \in ui.to
      BY <2>1 DEF FromUi
    <2>. QED  BY <2>1, <2>3, <2>4, FollowUiMails
  <1>2. CASE Refreshed
    <2>1. /\ ui.at = "refreshed" /\ mls' = mls /\ commits' = commits /\ ui' = Idle /\ dl' = dl
          /\ mail' = mail \cup CommitMails(ui.commit, Joined) /\ row' = row
      BY <1>2 DEF Refreshed, group
    <2>2. \A m \in Member : FromUi(m) => m \in Joined
      BY <2>1 DEF FromUi
    <2>. QED  BY <1>0, <2>1, <2>2, FollowUiMails
  <1>. QED  BY <1>1, <1>2

LEMMA FollowCommitted ==
    ASSUME TypeOK, RosterInv, FollowInv, crossed \subseteq crossed',
           Committed
    PROVE  FollowInv'
  <1>0. /\ CallInv /\ LeadInv /\ RowInv /\ OnceInv /\ WayInv /\ Joined \in SUBSET Account
        /\ Followers \subseteq Member
    BY FollowersAre, TreeIs, OwnerIsAccount DEF FollowInv
  <1>1. /\ dl.at = "committed" /\ mls' = mls /\ commits' = commits /\ row' = row /\ ui' = ui
        /\ dl'.at = "idle"
        /\ mail' = (mail \ {dl.mail}) \cup CommitMails(dl.commit, Joined)
    BY DEF Committed, group, Idle
  <1>2. /\ dl.mail.kind = "proposal" /\ dl.mail.to = Owner /\ dl.commit.removed \notin Member
    BY <1>0, <1>1, DlIs, MailKinds, OwnerAssumption DEF TypeOK, CallInv, Account
  <1>3. /\ \A e \in mail' : e \in mail \/ (e.kind = "commit" /\ e.commit = dl.commit)
        /\ \A e \in mail : e \in mail' \/ (e.kind = "proposal" /\ e.to = Owner)
    BY <1>1, <1>2 DEF CommitMails
  <1>10. Joined' = Joined
    BY <1>1, JoinedIs
  <1>4. ASSUME NEW m \in Member
        PROVE  /\ ProposalsTo(m)' = ProposalsTo(m) /\ WelcomesTo(m)' = WelcomesTo(m)
               /\ OnWay(m) \subseteq OnWay(m)' /\ Entries(m)' = Entries(m)
    <2>1. ProposalsTo(m)' = ProposalsTo(m) /\ WelcomesTo(m)' = WelcomesTo(m)
      BY <1>3, OwnerIsAccount DEF ProposalsTo, WelcomesTo
    <2>2. CommitsTo(m) \subseteq CommitsTo(m)'
      BY <1>3 DEF CommitsTo
    <2>3. FromDl(m) => dl.commit \in CommitsTo(m)'
      BY <1>1, InMail, OwnerIsAccount DEF FromDl
    <2>4. OnWay(m) \subseteq OnWay(m)'
      BY <1>1, <1>10, <2>2, <2>3 DEF OnWay, FromUi
    <2>5. Entries(m)' = Entries(m)
      BY <1>1, <2>1 DEF Entries
    <2>. QED  BY <2>1, <2>4, <2>5
  <1>5. WayInv' /\ Joined' = Joined /\ \A m \in Account : Ready(m)' = Ready(m)
    <2>1. /\ \A e \in mail' : e \in mail \/ e.kind \in {"commit", "welcome"}
          /\ \A m \in Followers :
                 /\ ProposalsTo(m) \subseteq ProposalsTo(m)'
                 /\ OnWay(m) \subseteq OnWay(m)' /\ Entries(m)' = Entries(m)
      BY <1>0, <1>3, <1>4
    <2>. QED  BY <1>1, <2>1, FollowMailed
  <1>6. LeadInv'
    <2>1. Leads(dl.commit)
      BY <1>0, <1>1 DEF LeadInv
    <2>. QED  BY <1>0, <1>1, <1>3, <2>1, LeadQuiet
  <1>7. RowInv'
    BY <1>0, <1>1 DEF RowInv
  <1>8. CallInv'
    BY <1>0, <1>1, <1>5 DEF CallInv
  <1>9. OnceInv'
    <2>1. ASSUME NEW m \in Member
          PROVE  /\ Joining(m)' => Joining(m)
                 /\ Known(m) => Known(m)'
                 /\ Ready(m)' => Ready(m)
                 /\ Leaving(m)' => Leaving(m)
                 /\ WelcomesTo(m)' \subseteq WelcomesTo(m)
      <3>1. (Joining(m)' => Joining(m)) /\ (Known(m) => Known(m)')
        BY <1>1, <1>3 DEF Joining, GenerateKeyPackage, Known
      <3>2. Leaving(m)' => Leaving(m)
        BY <1>1, <1>2, <1>3 DEF Leaving
      <3>. QED  BY <1>4, <1>5, <3>1, <3>2, OwnerIsAccount
    <2>. QED  BY ONLY <1>0, <1>1, <1>5, <2>1, crossed \subseteq crossed', OnceQuiet
  <1>. QED  BY <1>5, <1>6, <1>7, <1>8, <1>9 DEF FollowInv

LEMMA FollowAdded ==
    ASSUME TypeOK, RosterInv, FollowInv, crossed \subseteq crossed',
           Added
    PROVE  FollowInv'
  <1>. DEFINE new == dl.mail.from
              w == [kind |-> "welcome", to |-> new, post |-> dl.commit.post]
  <1>0. /\ CallInv /\ LeadInv /\ RowInv /\ OnceInv /\ WayInv /\ Joined \in SUBSET Account
        /\ Followers \subseteq Member
    BY FollowersAre, TreeIs, OwnerIsAccount DEF FollowInv
  <1>1. /\ dl.at = "added" /\ mls' = mls /\ commits' = commits /\ row' = row /\ ui' = ui
        /\ dl'.at = "idle" /\ Joined' = Joined
        /\ mail' = (mail \ {dl.mail}) \cup {w} \cup CommitMails(dl.commit, dl.to)
    BY JoinedIs DEF Added, group, Idle
  <1>2. /\ dl.mail \in KeyPackage /\ dl.mail \in mail /\ dl.commit \in CommitType
        /\ dl.commit.removed \notin Member
    BY <1>0, <1>1, DlIs, OwnerAssumption DEF TypeOK, CallInv, Account
  <1>3. new \in Member /\ dl.mail = GenerateKeyPackage(new) /\ dl.mail.kind = "key_package"
    BY <1>2 DEF KeyPackage, GenerateKeyPackage
  <1>4. w.kind = "welcome" /\ w.to = new /\ w.post = dl.commit.post /\ w \in mail'
    BY <1>1
  <1>5. /\ \A e \in mail' : \/ e \in mail /\ e # dl.mail
                            \/ e.kind = "commit" /\ e.commit = dl.commit
                            \/ e = w
        /\ \A e \in mail : e \in mail' \/ e = dl.mail
        /\ CommitMails(dl.commit, dl.to) \subseteq mail'
        /\ dl.mail \notin mail'
    <2>1. \A e \in CommitMails(dl.commit, dl.to) : e.kind = "commit" /\ e.commit = dl.commit
      BY DEF CommitMails
    <2>. QED  BY <1>1, <1>3, <1>4, <2>1
  <1>. HIDE DEF w
  <1>6. ASSUME NEW m \in Member
        PROVE  /\ ProposalsTo(m)' = ProposalsTo(m)
               /\ WelcomesTo(m)' \subseteq WelcomesTo(m)
                                   \cup (IF m = new THEN {dl.commit.post} ELSE {})
               /\ OnWay(m) \subseteq OnWay(m)' /\ Entries(m)' = Entries(m)
    <2>1. ProposalsTo(m)' = ProposalsTo(m)
      BY <1>3, <1>4, <1>5 DEF ProposalsTo
    <2>2. WelcomesTo(m)' = WelcomesTo(m) \cup (IF m = new THEN {dl.commit.post} ELSE {})
      <3>1. ASSUME NEW s \in WelcomesTo(m)
            PROVE  s \in WelcomesTo(m)'
        BY <1>3, <1>5 DEF WelcomesTo
      <3>2. m = new => dl.commit.post \in WelcomesTo(m)'
        BY <1>4 DEF WelcomesTo
      <3>3. ASSUME NEW s \in WelcomesTo(m)', s \notin WelcomesTo(m)
            PROVE  m = new /\ s = dl.commit.post
        BY <1>4, <1>5, <3>3 DEF WelcomesTo
      <3>. QED  BY <3>1, <3>2, <3>3
    <2>3. CommitsTo(m) \subseteq CommitsTo(m)'
      BY <1>3, <1>5 DEF CommitsTo
    <2>4. FromDl(m) => dl.commit \in CommitsTo(m)'
      BY <1>1, <1>5, InMail, OwnerIsAccount DEF FromDl
    <2>5. OnWay(m) \subseteq OnWay(m)'
      BY <1>1, <2>3, <2>4 DEF OnWay, FromUi
    <2>6. Entries(m)' = Entries(m)
      BY <1>1, <2>2 DEF Entries
    <2>. QED  BY <2>1, <2>2, <2>5, <2>6
  <1>7. WayInv' /\ Joined' = Joined /\ \A m \in Account : Ready(m)' = Ready(m)
    <2>1. /\ \A e \in mail' : e \in mail \/ e.kind \in {"commit", "welcome"}
          /\ \A m \in Followers :
                 /\ ProposalsTo(m) \subseteq ProposalsTo(m)'
                 /\ OnWay(m) \subseteq OnWay(m)' /\ Entries(m)' = Entries(m)
      BY <1>0, <1>4, <1>5, <1>6
    <2>. QED  BY <1>1, <2>1, FollowMailed
  <1>8. LeadInv'
    <2>1. Leads(dl.commit) /\ dl.commit.pre \in Nat
      BY <1>0, <1>1, <1>2 DEF LeadInv, CommitType
    <2>2. dl.commit.post.id # 0
      BY <2>1 DEF Leads
    <2>. QED  BY <1>0, <1>1, <1>4, <1>5, <2>1, <2>2, LeadQuiet
  <1>9. RowInv'
    BY <1>0, <1>1 DEF RowInv
  <1>10. CallInv'
    BY <1>0, <1>1, <1>7 DEF CallInv
  <1>11. OnceInv'
    <2>1. ASSUME NEW m \in Member
          PROVE  /\ Joining(m)' => Joining(m) /\ m # new
                 /\ Known(m)' = Known(m)
                 /\ Ready(m)' = Ready(m)
                 /\ Leaving(m)' => Leaving(m)
                 /\ WelcomesTo(m)' # {} => WelcomesTo(m) # {} \/ m = new
      <3>1. Joining(m)' => Joining(m) /\ m # new
        <4>1. GenerateKeyPackage(m).kind = "key_package"
          BY DEF GenerateKeyPackage
        <4>. QED  BY <1>3, <1>4, <1>5, <4>1 DEF Joining, GenerateKeyPackage
      <3>2. Known(m)' = Known(m)
        BY <1>1 DEF Known
      <3>3. Leaving(m)' => Leaving(m)
        BY <1>1, <1>2, <1>4, <1>5 DEF Leaving
      <3>. QED  BY <1>6, <1>7, <3>1, <3>2, <3>3, OwnerIsAccount
    <2>2. OnceInv' = \A b \in Member \ crossed' :
             /\ Joining(b)' => Known(b)' /\ ~Ready(b)' /\ ~Leaving(b)' /\ WelcomesTo(b)' = {}
             /\ Joining(b)' /\ b \in Joined' => dl'.at = "added" /\ dl'.mail = GenerateKeyPackage(b)
             /\ b \in Joined' => ~Leaving(b)'
             /\ b \in Joined' \/ Leaving(b)' \/ WelcomesTo(b)' # {} => Known(b)'
      BY DEF OnceInv, GenerateKeyPackage
    <2>3. Joining(new)
      BY <1>2, <1>3 DEF Joining
    <2>4. new \notin crossed => Known(new)
      BY <1>0, <1>3, <2>3 DEF OnceInv
    <2>5. \A b \in Member : b # new => dl.mail # GenerateKeyPackage(b)
      BY <1>3 DEF GenerateKeyPackage
    <2>. QED  BY <1>0, <1>7, <2>1, <2>2, <2>4, <2>5 DEF OnceInv
  <1>. QED  BY <1>7, <1>8, <1>9, <1>10, <1>11 DEF FollowInv

\* What a step of a member leaves to the others, and what it leaves itself.
LEMMA MemberMoves ==
    ASSUME TypeOK, RosterInv, FollowInv, crossed \subseteq crossed',
           NEW m \in Member,
           \A b \in Account \ {m} : mls'[b] = mls[b] /\ row'[b] = row[b],
           commits' = commits, ui' = ui, dl' = dl,
           \A e \in mail' : e \in mail \/ e.kind = "proposal",
           \A e \in mail : e \in mail' \/ e.to = m
    PROVE  /\ Joined' = Joined /\ mls'[Owner] = mls[Owner]
           /\ Followers' \subseteq Followers
           /\ CallInv' /\ LeadInv'
           /\ \A b \in Member : /\ Joining(b)' => Joining(b)
                                /\ Leaving(b)' => Leaving(b)
                                /\ WelcomesTo(b)' \subseteq WelcomesTo(b)
           /\ \A b \in Member \ {m} :
                  /\ Known(b)' = Known(b) /\ Ready(b)' = Ready(b)
                  /\ From(b)' = From(b) /\ OnWay(b)' = OnWay(b)
                  /\ Held(b) \subseteq Held(b)'
  <1>0. CallInv /\ LeadInv
    BY DEF FollowInv
  <1>1. Owner \in Account /\ Owner # m /\ mls'[Owner] = mls[Owner] /\ row'[Owner] = row[Owner]
    BY OwnerIsAccount
  <1>2. Joined' = Joined /\ Followers' \subseteq Followers
    BY <1>1, JoinedIs DEF Followers
  <1>3. CallInv'
    <2>1. dl.at \in {"add", "added"} => dl.mail.to # m
      BY <1>1, DlIs DEF TypeOK, KeyPackage
    <2>. QED  BY <1>0, <1>1, <1>2, <2>1 DEF CallInv
  <1>4. LeadInv'
    BY <1>0, LeadQuiet
  <1>5. ASSUME NEW b \in Member
        PROVE  /\ Joining(b)' => Joining(b)
               /\ Leaving(b)' => Leaving(b)
               /\ WelcomesTo(b)' \subseteq WelcomesTo(b)
    BY DEF Joining, GenerateKeyPackage, Leaving, WelcomesTo
  <1>6. ASSUME NEW b \in Member \ {m}
        PROVE  /\ Known(b)' = Known(b) /\ Ready(b)' = Ready(b)
               /\ From(b)' = From(b) /\ OnWay(b)' = OnWay(b)
               /\ Held(b) \subseteq Held(b)'
    <2>1. mls'[b] = mls[b] /\ row'[b] = row[b]
      BY OwnerIsAccount
    <2>2. Known(b)' = Known(b) /\ Ready(b)' = Ready(b)
      BY <2>1 DEF Known, Ready, GetMlsGroupId
    <2>3. /\ WelcomesTo(b)' = WelcomesTo(b) /\ CommitsTo(b)' = CommitsTo(b)
          /\ ProposalsTo(b) \subseteq ProposalsTo(b)'
      BY DEF WelcomesTo, CommitsTo, ProposalsTo
    <2>4. OnWay(b)' = OnWay(b)
      BY <1>2, <2>3 DEF OnWay, FromUi, FromDl
    <2>5. From(b)' = From(b)
      BY <2>1, <2>2, <2>3 DEF From, Entries
    <2>6. Held(b) \subseteq Held(b)'
      BY <2>1, <2>3 DEF Held
    <2>. QED  BY <2>2, <2>4, <2>5, <2>6
  <1>. QED  BY <1>1, <1>2, <1>3, <1>4, <1>5, <1>6

LEMMA FollowWelcome ==
    ASSUME TypeOK, RosterInv, FollowInv, crossed \subseteq crossed',
           NEW e \in mail, OnWelcome(e)
    PROVE  FollowInv'
  <1>. DEFINE m == e.to
  <1>0. /\ CallInv /\ LeadInv /\ RowInv /\ OnceInv /\ WayInv /\ Joined \in SUBSET Account
        /\ Followers \subseteq Member
    BY FollowersAre, TreeIs, OwnerIsAccount DEF FollowInv
  <1>1. /\ commits' = commits /\ ui' = ui /\ dl' = dl /\ mail' = mail \ {e}
        /\ e.kind = "welcome" /\ Known(m)
        /\ IF Ready(m) THEN mls' = mls /\ row' = row
           ELSE Advance(m, e.post) /\ row' = [row EXCEPT ![m] = SetMlsGroupId(row[m])]
    BY DEF OnWelcome, Others, Handled, JoinGroup, group
  <1>2. m \in Member /\ m \in Account /\ row[m] \in Row /\ e.post \in State
    BY <1>1, MailIs, OwnerIsAccount DEF TypeOK, Welcome
  <1>3. ~Ready(m) => mls'[m] = e.post /\ row'[m] = SetMlsGroupId(row[m])
    BY <1>1, <1>2, AdvanceType DEF TypeOK
  <1>4. \A b \in Account \ {m} : mls'[b] = mls[b] /\ row'[b] = row[b]
    BY <1>1, <1>2, AdvanceType DEF TypeOK
  <1>5. /\ Joined' = Joined /\ mls'[Owner] = mls[Owner]
        /\ Followers' \subseteq Followers
        /\ CallInv' /\ LeadInv'
        /\ \A b \in Member : /\ Joining(b)' => Joining(b)
                             /\ Leaving(b)' => Leaving(b)
                             /\ WelcomesTo(b)' \subseteq WelcomesTo(b)
        /\ \A b \in Member \ {m} :
               /\ Known(b)' = Known(b) /\ Ready(b)' = Ready(b)
               /\ From(b)' = From(b) /\ OnWay(b)' = OnWay(b)
               /\ Held(b) \subseteq Held(b)'
    BY <1>1, <1>2, <1>4, MemberMoves
  <1>6. SetMlsGroupId(row[m]).mls /\ SetMlsGroupId(row[m]).status = row[m].status
    BY <1>2, RowIs
  <1>7. e.post.id # 0 /\ e.post # NoGroup
    BY <1>0, <1>1 DEF LeadInv, NoGroup
  <1>8. Ready(m)' /\ row[m].status # "none" /\ row'[m].status # "none" /\ Known(m)'
    <2>1. row[m].status # "none"
      BY <1>0, <1>1, <1>2 DEF RowInv, Known
    <2>2. row'[m].status # "none"
      BY <1>1, <1>3, <1>6, <2>1
    <2>3. Ready(m)'
      BY <1>1, <1>3, <1>6, <1>7 DEF Ready, GetMlsGroupId
    <2>. QED  BY <2>1, <2>2, <2>3 DEF Known, NoRow
  <1>9. RowInv'
    BY <1>0, <1>4, <1>8, OwnerIsAccount DEF RowInv, Ready, GetMlsGroupId
  <1>10. OnceInv'
    <2>1. e.post \in WelcomesTo(m)
      BY <1>1 DEF WelcomesTo
    <2>2. m \notin crossed => ~Joining(m)
      BY <1>0, <1>2, <2>1 DEF OnceInv
    <2>3. OnceInv' = \A b \in Member \ crossed' :
             /\ Joining(b)' => Known(b)' /\ ~Ready(b)' /\ ~Leaving(b)' /\ WelcomesTo(b)' = {}
             /\ Joining(b)' /\ b \in Joined' => dl'.at = "added" /\ dl'.mail = GenerateKeyPackage(b)
             /\ b \in Joined' => ~Leaving(b)'
             /\ b \in Joined' \/ Leaving(b)' \/ WelcomesTo(b)' # {} => Known(b)'
      BY DEF OnceInv, GenerateKeyPackage
    <2>4. ASSUME NEW b \in Member \ crossed
          PROVE  /\ Joining(b)' => Joining(b) /\ b # m
                 /\ Known(b) => Known(b)'
                 /\ b # m => Ready(b)' = Ready(b)
                 /\ Leaving(b)' => Leaving(b)
                 /\ WelcomesTo(b)' \subseteq WelcomesTo(b)
      BY <1>5, <1>8, <2>2
    <2>. QED  BY <1>0, <1>1, <1>5, <2>3, <2>4 DEF OnceInv
  <1>11. WayInv'
    <2>1. /\ ProposalsTo(m)' = ProposalsTo(m) /\ CommitsTo(m)' = CommitsTo(m)
      BY <1>1 DEF ProposalsTo, CommitsTo
    <2>2. OnWay(m)' = OnWay(m)
      BY <1>1, <1>5, <2>1 DEF OnWay, FromUi, FromDl
    <2>3. Held(m) \subseteq Held(m)'
      <3>1. CASE Ready(m)
        BY <1>1, <2>1, <3>1 DEF Held
      <3>2. CASE ~Ready(m)
        <4>1. mls[m] = NoGroup
          BY <1>0, <1>2, <3>2 DEF RowInv, Ready, GetMlsGroupId
        <4>2. mls[m].pending = {}
          BY <4>1 DEF NoGroup
        <4>. QED  BY <2>1, <4>2 DEF Held
      <3>. QED  BY <3>1, <3>2
    <2>4. From(m)' # {} /\ From(m)' \subseteq From(m)
      <3>1. From(m)' = {mls'[m].id}
        BY <1>8 DEF From
      <3>2. CASE Ready(m)
        BY <1>1, <3>1, <3>2 DEF From
      <3>3. CASE ~Ready(m)
        <4>1. e.post \in Entries(m)
          BY <1>1 DEF Entries, WelcomesTo
        <4>. QED  BY <1>3, <3>1, <3>3, <4>1 DEF From
      <3>. QED  BY <3>2, <3>3
    <2>5. \A b \in Followers :
               /\ From(b)' # {} /\ From(b)' \subseteq From(b)
               /\ OnWay(b) \subseteq OnWay(b)' /\ Held(b) \subseteq Held(b)'
      BY <1>0, <1>5, <2>2, <2>3, <2>4 DEF WayInv, Path
    <2>6. \A x \in mail' : x.kind = "proposal" => x \in mail
      BY <1>1
    <2>7. Path' /\ ProposalInv'
      BY <1>0, <1>1, <1>5, <2>5, <2>6, WayKept
    <2>. QED  BY <2>7 DEF WayInv
  <1>. QED  BY <1>5, <1>9, <1>10, <1>11 DEF FollowInv

\* A member in the tree follows the next commit on its way.
LEMMA FollowTaken ==
    ASSUME TypeOK, ChainInv, RosterInv, FollowInv, crossed \subseteq crossed',
           NEW e \in mail, OnCommit(e),
           e.to \in Followers
    PROVE  /\ Applies(e.to, e.commit) /\ Advance(e.to, e.commit.post)
           /\ e.commit \in OnWay(e.to) /\ e.commit.pre < mls[Owner].id
           /\ e.commit.post.id = e.commit.pre + 1 /\ e.commit.post # NoGroup
  <1>. DEFINE m == e.to
              c == e.commit
  <1>0. LeadInv /\ OnceInv
    BY DEF FollowInv
  <1>1. /\ e.kind = "commit"
        /\ IF Applies(m, c) THEN Advance(m, c.post) ELSE c.removed = m
    BY DEF OnCommit
  <1>2. m \in Member /\ m \in Account /\ c \in CommitType
    BY <1>1, MailIs, OwnerIsAccount DEF TypeOK, CommitMail
  <1>3. Applies(m, c) /\ Advance(m, c.post)
    BY <1>0, <1>1, <1>2 DEF OnceInv, Leaving, Followers
  <1>4. Leads(c) /\ c.pre \in Nat /\ c.post.id \in Nat
    BY <1>0, <1>1, <1>2 DEF LeadInv, CommitType, State
  <1>5. c.post.id = c.pre + 1 /\ c.post # NoGroup
    BY <1>4 DEF Leads, NoGroup
  <1>6. c.post \in Made
    BY <1>1, MadeIs
  <1>7. c.post.id <= commits /\ mls[Owner].id = commits /\ commits \in Nat
    BY <1>5, <1>6, LimitIs DEF ChainInv
  <1>8. c \in OnWay(m)
    BY <1>1 DEF OnWay, CommitsTo
  <1>. QED  BY <1>3, <1>4, <1>5, <1>7, <1>8

LEMMA FollowsCommit ==
    ASSUME TypeOK, ChainInv, RosterInv, FollowInv, crossed \subseteq crossed',
           NEW e \in mail, OnCommit(e)
    PROVE  FollowInv'
  <1>. DEFINE m == e.to
              c == e.commit
  <1>0. /\ CallInv /\ LeadInv /\ RowInv /\ OnceInv /\ WayInv /\ Joined \in SUBSET Account
        /\ Followers \subseteq Member
    BY FollowersAre, TreeIs, OwnerIsAccount DEF FollowInv
  <1>1. /\ commits' = commits /\ ui' = ui /\ dl' = dl /\ mail' = mail \ {e}
        /\ e.kind = "commit" /\ Known(m) /\ Ready(m)
        /\ IF Applies(m, c) THEN Advance(m, c.post) ELSE mls' = mls
        /\ row' = [row EXCEPT ![m] = RowAfter(row[m], m, c.removed)]
    BY DEF OnCommit, Others, Handled
  <1>2. m \in Member /\ m \in Account /\ row[m] \in Row /\ c.post \in State
    BY <1>1, MailIs, OwnerIsAccount DEF TypeOK, CommitMail, CommitType
  <1>3. Applies(m, c) => mls'[m] = c.post
    BY <1>1, <1>2, AdvanceType DEF TypeOK
  <1>4. \A b \in Account \ {m} : mls'[b] = mls[b] /\ row'[b] = row[b]
    BY <1>1, <1>2, AdvanceType DEF TypeOK
  <1>5. /\ Joined' = Joined /\ mls'[Owner] = mls[Owner]
        /\ Followers' \subseteq Followers
        /\ CallInv' /\ LeadInv'
        /\ \A b \in Member : /\ Joining(b)' => Joining(b)
                             /\ Leaving(b)' => Leaving(b)
                             /\ WelcomesTo(b)' \subseteq WelcomesTo(b)
        /\ \A b \in Member \ {m} :
               /\ Known(b)' = Known(b) /\ Ready(b)' = Ready(b)
               /\ From(b)' = From(b) /\ OnWay(b)' = OnWay(b)
               /\ Held(b) \subseteq Held(b)'
    BY <1>1, <1>2, <1>4, MemberMoves
  <1>6. row'[m] = RowAfter(row[m], m, c.removed)
    BY <1>1, <1>2 DEF TypeOK
  <1>7. row'[m].mls = row[m].mls /\ row'[m].status # "none" /\ Known(m)' /\ row[m].mls
    <2>1. row[m].status # "none"
      BY <1>0, <1>1, <1>2 DEF RowInv, Known
    <2>2. row'[m].mls = row[m].mls /\ row'[m].status # "none"
      BY <1>2, <1>6, <2>1, FlagAfter
    <2>3. row'[m] # NoRow
      BY <2>2 DEF NoRow
    <2>. QED  BY <1>1, <2>2, <2>3 DEF Known, Ready, GetMlsGroupId
  <1>8. RowInv'
    BY <1>0, <1>4, <1>7, OwnerIsAccount DEF RowInv
  <1>9. OnceInv'
    <2>1. \A b \in Member :
              /\ Joining(b)' => Joining(b)
              /\ Known(b) => Known(b)'
              /\ Ready(b)' => Ready(b)
              /\ Leaving(b)' => Leaving(b)
              /\ WelcomesTo(b)' \subseteq WelcomesTo(b)
      BY <1>1, <1>5, <1>7
    <2>. QED  BY ONLY <1>0, <1>1, <1>5, <2>1, crossed \subseteq crossed', OnceQuiet
  <1>10. WayInv'
    <2>0. \A x \in mail' : x.kind = "proposal" => x \in mail
      BY <1>1
    <2>1. CASE m \notin Followers
      <3>1. \A b \in Followers :
                 /\ From(b)' # {} /\ From(b)' \subseteq From(b)
                 /\ OnWay(b) \subseteq OnWay(b)' /\ Held(b) \subseteq Held(b)'
        BY <1>0, <1>5, <2>1 DEF WayInv, Path
      <3>2. Path' /\ ProposalInv'
        BY <1>0, <1>1, <1>5, <2>0, <3>1, WayKept
      <3>. QED  BY <3>2 DEF WayInv
    <2>2. CASE m \in Followers
      <3>1. /\ Applies(m, c) /\ c \in OnWay(m) /\ c.pre < mls[Owner].id
            /\ c.post.id = c.pre + 1 /\ c.post # NoGroup
        BY <2>2, FollowTaken
      <3>2. mls'[m] = c.post /\ mls[m].id = c.pre /\ Ready(m)'
        BY <1>3, <1>7, <3>1 DEF Applies, Ready, GetMlsGroupId
      <3>3. From(m) = {c.pre} /\ From(m)' = {c.pre + 1}
        BY <1>1, <3>1, <3>2 DEF From
      <3>4. \A d \in OnWay(m) : d \in OnWay(m)' \/ d = c
        <4>1. \A d \in CommitsTo(m) : d \in CommitsTo(m)' \/ d = c
          BY <1>1 DEF CommitsTo
        <4>. QED  BY <1>1, <1>5, <4>1 DEF OnWay, FromUi, FromDl
      <3>5. \A p \in Held(m) : p \in Held(m)' \/ p.at = c.pre
        <4>1. ProposalsTo(m)' = ProposalsTo(m)
          BY <1>1 DEF ProposalsTo
        <4>. QED  BY <3>2, <4>1 DEF Held
      <3>6. \A d \in OnWay(m) : Leads(d)
        BY <1>0 DEF OnWay, CommitsTo, FromUi, FromDl, LeadInv
      <3>7. Linked(c.pre + 1, mls[Owner].id, OnWay(m)', Held(m)')
        <4>1. c.pre \in Nat /\ mls[Owner].id \in Nat
          BY <1>2, <3>2, WayIs, OwnerIsAccount
        <4>2. Linked(c.pre, mls[Owner].id, OnWay(m), Held(m))
          BY <1>2, <2>2, <3>3, OwnerIsAccount DEF WayInv, Path, FollowInv
        <4>3. \A d \in OnWay(m) : Leads(d) /\ (d \in OnWay(m)' \/ d = c)
          BY <3>4, <3>6
        <4>. QED  BY ONLY <3>5, <4>1, <4>2, <4>3, LinkedOn
      <3>8. Path'
        <4>. SUFFICES ASSUME NEW b \in Followers
                      PROVE  /\ From(b)' # {}
                             /\ \A i \in From(b)' :
                                    Linked(i, mls[Owner].id, OnWay(b)', Held(b)')
          BY <1>5 DEF Path
        <4>1. CASE b = m
          BY <3>3, <3>7, <4>1
        <4>2. CASE b # m
          <5>1. /\ From(b)' = From(b) /\ OnWay(b)' = OnWay(b) /\ Held(b) \subseteq Held(b)'
                /\ From(b) \subseteq Nat /\ mls[Owner].id \in Nat
            BY <1>0, <1>5, <4>2, WayIs, OwnerIsAccount
          <5>2. /\ From(b) # {}
                /\ \A i \in From(b) : Linked(i, mls[Owner].id, OnWay(b), Held(b))
            BY <1>0 DEF WayInv, Path
          <5>3. ASSUME NEW i \in From(b)
                PROVE  Linked(i, mls[Owner].id, OnWay(b)', Held(b)')
            <6>1. i \in Nat /\ OnWay(b) \subseteq OnWay(b)'
              BY <5>1
            <6>. QED  BY ONLY <5>1, <5>2, <5>3, <6>1, LinkedGrows
          <5>. QED  BY <5>1, <5>2, <5>3
        <4>. QED  BY <4>1, <4>2
      <3>9. ProposalInv'
        <4>. SUFFICES ASSUME NEW x \in mail', x.kind = "proposal"
                      PROVE  /\ x.proposal.at <= commits
                             /\ x.to = Owner /\ x.proposal.at = mls[Owner].id =>
                                    \A b \in Followers : x.proposal \in Held(b)'
          BY <1>1, <1>5 DEF ProposalInv
        <4>1. /\ x.proposal.at <= commits
              /\ x.to = Owner /\ x.proposal.at = mls[Owner].id =>
                     \A b \in Followers : x.proposal \in Held(b)
          BY <1>0, <2>0 DEF WayInv, ProposalInv
        <4>2. c.pre # mls[Owner].id
          BY <1>2, <3>1, <3>2, WayIs, OwnerIsAccount
        <4>. QED  BY <1>0, <1>5, <3>5, <4>1, <4>2
      <3>. QED  BY <3>8, <3>9 DEF WayInv
    <2>. QED  BY <2>1, <2>2
  <1>. QED  BY <1>5, <1>8, <1>9, <1>10 DEF FollowInv

\* A proposal a member stores is one it holds.
LEMMA FollowsProposal ==
    ASSUME TypeOK, RosterInv, FollowInv, crossed \subseteq crossed',
           NEW e \in mail, OnProposal(e)
    PROVE  FollowInv'
  <1>. DEFINE m == e.to
              p == e.proposal
              s == [mls[m] EXCEPT !.pending = @ \cup {p}]
  <1>0. /\ CallInv /\ LeadInv /\ RowInv /\ OnceInv /\ WayInv /\ Joined \in SUBSET Account
        /\ Followers \subseteq Member
    BY FollowersAre, TreeIs, OwnerIsAccount DEF FollowInv
  <1>1. /\ commits' = commits /\ ui' = ui /\ dl' = dl /\ mail' = mail \ {e}
        /\ e.kind = "proposal" /\ m # Owner /\ Known(m) /\ m \in MemberEmails(m)
        /\ p.at = mls[m].id /\ StoreProposal(m, p) /\ row' = row
    BY DEF OnProposal, Others, Handled
  <1>2. m \in Member /\ m \in Account /\ p \in Proposal
    BY <1>1, MailIs, OwnerIsAccount DEF TypeOK, ProposalMail
  <1>3. /\ s \in State /\ s.id = mls[m].id /\ s.pending = mls[m].pending \cup {p}
        /\ Advance(m, s)
    BY <1>1, <1>2, StoreType
  <1>. HIDE DEF s
  <1>4. mls'[m] = s /\ \A b \in Account \ {m} : mls'[b] = mls[b] /\ row'[b] = row[b]
    BY <1>1, <1>2, <1>3, AdvanceType DEF TypeOK
  <1>5. /\ Joined' = Joined /\ mls'[Owner] = mls[Owner]
        /\ Followers' \subseteq Followers
        /\ CallInv' /\ LeadInv'
        /\ \A b \in Member : /\ Joining(b)' => Joining(b)
                             /\ Leaving(b)' => Leaving(b)
                             /\ WelcomesTo(b)' \subseteq WelcomesTo(b)
        /\ \A b \in Member \ {m} :
               /\ Known(b)' = Known(b) /\ Ready(b)' = Ready(b)
               /\ From(b)' = From(b) /\ OnWay(b)' = OnWay(b)
               /\ Held(b) \subseteq Held(b)'
    BY <1>1, <1>2, <1>4, MemberMoves
  <1>6. Ready(m) /\ Ready(m)' /\ Known(m)'
    <2>1. row[m].mls /\ mls[m] # NoGroup
      BY <1>1, <1>2, TreeIs
    <2>2. s # NoGroup
      BY <1>3 DEF NoGroup
    <2>. QED  BY <1>1, <1>4, <2>1, <2>2 DEF Ready, GetMlsGroupId, Known
  <1>7. RowInv'
    BY <1>0, <1>1, <1>4, <1>6, OwnerIsAccount DEF RowInv, Ready, GetMlsGroupId
  <1>8. OnceInv'
    <2>1. \A b \in Member :
              /\ Joining(b)' => Joining(b)
              /\ Known(b) => Known(b)'
              /\ Ready(b)' => Ready(b)
              /\ Leaving(b)' => Leaving(b)
              /\ WelcomesTo(b)' \subseteq WelcomesTo(b)
      BY <1>5, <1>6
    <2>. QED  BY ONLY <1>0, <1>1, <1>5, <2>1, crossed \subseteq crossed', OnceQuiet
  <1>9. WayInv'
    <2>1. CommitsTo(m)' = CommitsTo(m)
      BY <1>1 DEF CommitsTo
    <2>2. OnWay(m)' = OnWay(m)
      BY <1>1, <1>5, <2>1 DEF OnWay, FromUi, FromDl
    <2>3. Held(m) \subseteq Held(m)'
      <3>1. \A q \in ProposalsTo(m) : q \in ProposalsTo(m)' \/ q = p
        BY <1>1 DEF ProposalsTo
      <3>. QED  BY <1>1, <1>3, <1>4, <3>1 DEF Held
    <2>4. From(m)' = From(m)
      BY <1>3, <1>4, <1>6 DEF From
    <2>5. \A b \in Followers :
               /\ From(b)' # {} /\ From(b)' \subseteq From(b)
               /\ OnWay(b) \subseteq OnWay(b)' /\ Held(b) \subseteq Held(b)'
      BY <1>0, <1>5, <2>2, <2>3, <2>4 DEF WayInv, Path
    <2>6. \A x \in mail' : x.kind = "proposal" => x \in mail
      BY <1>1
    <2>7. Path' /\ ProposalInv'
      BY <1>0, <1>1, <1>5, <2>5, <2>6, WayKept
    <2>. QED  BY <2>7 DEF WayInv
  <1>. QED  BY <1>5, <1>7, <1>8, <1>9 DEF FollowInv

\* A proposal made in the owner's state goes to everybody in its tree.
LEMMA FollowPropose ==
    ASSUME TypeOK, ChainInv, RosterInv, FollowInv, crossed \subseteq crossed',
           NEW a \in Account, SendAndPropose(a)
    PROVE  FollowInv'
  <1>. DEFINE p == ProposeSelfUpdate(a)
              s == [mls[a] EXCEPT !.pending = @ \cup {p}]
  <1>0. /\ CallInv /\ LeadInv /\ RowInv /\ OnceInv /\ WayInv /\ Joined \in SUBSET Account
        /\ Followers \subseteq Member
    BY FollowersAre, TreeIs, OwnerIsAccount DEF FollowInv
  <1>1. /\ commits' = commits /\ ui' = ui /\ dl' = dl /\ row' = row
        /\ a # Owner /\ a \in MemberEmails(a) /\ StoreProposal(a, p)
        /\ mail' = mail \cup {[kind |-> "proposal", to |-> m, proposal |-> p] :
                              m \in MemberEmails(a) \ {a}}
        /\ Sends
    BY DEF SendAndPropose, CanSend
  <1>2. a \in Member /\ p \in Proposal /\ p.at = mls[a].id
    <2>1. a \in Member /\ mls[a].id \in Nat
      BY <1>1, OwnerIsAccount, WayIs
    <2>2. sends' \in Nat
      BY <1>1, LimitIs DEF Sends
    <2>. QED  BY <2>1, <2>2 DEF ProposeSelfUpdate, Proposal
  <1>. HIDE DEF p
  <1>3. /\ s \in State /\ s.id = mls[a].id /\ s.pending = mls[a].pending \cup {p}
        /\ Advance(a, s)
    BY <1>1, <1>2, StoreType
  <1>. HIDE DEF s
  <1>4. mls'[a] = s /\ \A b \in Account \ {a} : mls'[b] = mls[b] /\ row'[b] = row[b]
    BY <1>1, <1>3, AdvanceType DEF TypeOK
  <1>5. /\ \A x \in mail' : x \in mail \/ (x.kind = "proposal" /\ x.proposal = p)
        /\ \A x \in mail : x \in mail'
    BY <1>1
  <1>6. /\ Joined' = Joined /\ mls'[Owner] = mls[Owner]
        /\ Followers' \subseteq Followers
        /\ CallInv' /\ LeadInv'
        /\ \A b \in Member : /\ Joining(b)' => Joining(b)
                             /\ Leaving(b)' => Leaving(b)
                             /\ WelcomesTo(b)' \subseteq WelcomesTo(b)
        /\ \A b \in Member \ {a} :
               /\ Known(b)' = Known(b) /\ Ready(b)' = Ready(b)
               /\ From(b)' = From(b) /\ OnWay(b)' = OnWay(b)
               /\ Held(b) \subseteq Held(b)'
    BY <1>1, <1>2, <1>4, <1>5, MemberMoves
  <1>7. Ready(a) /\ Ready(a)' /\ Known(a)' = Known(a)
    <2>1. row[a].mls /\ mls[a] # NoGroup
      BY <1>1, TreeIs
    <2>2. s # NoGroup
      BY <1>3 DEF NoGroup
    <2>. QED  BY <1>1, <1>4, <2>1, <2>2 DEF Ready, GetMlsGroupId, Known
  <1>8. RowInv'
    BY <1>0, <1>1, <1>4, <1>7, OwnerIsAccount DEF RowInv, Ready, GetMlsGroupId
  <1>9. OnceInv'
    <2>1. \A b \in Member :
              /\ Joining(b)' => Joining(b)
              /\ Known(b) => Known(b)'
              /\ Ready(b)' => Ready(b)
              /\ Leaving(b)' => Leaving(b)
              /\ WelcomesTo(b)' \subseteq WelcomesTo(b)
      BY <1>6, <1>7
    <2>. QED  BY ONLY <1>0, <1>1, <1>6, <2>1, crossed \subseteq crossed', OnceQuiet
  <1>10. ASSUME NEW b \in Followers
         PROVE  /\ From(b)' # {} /\ From(b)' \subseteq From(b)
                /\ OnWay(b) \subseteq OnWay(b)' /\ Held(b) \subseteq Held(b)'
    <2>1. CommitsTo(a)' = CommitsTo(a) /\ ProposalsTo(a) \subseteq ProposalsTo(a)'
      BY <1>5 DEF CommitsTo, ProposalsTo
    <2>2. OnWay(a)' = OnWay(a)
      BY <1>1, <1>6, <2>1 DEF OnWay, FromUi, FromDl
    <2>3. Held(a) \subseteq Held(a)'
      BY <1>3, <1>4, <2>1 DEF Held
    <2>4. From(a)' = From(a)
      BY <1>3, <1>4, <1>7 DEF From
    <2>. QED  BY <1>0, <1>6, <2>2, <2>3, <2>4 DEF WayInv, Path
  <1>11. Path'
    BY <1>0, <1>1, <1>6, <1>10, WayKept
  <1>12. p.at <= commits
    <2>1. mls[a] # NoGroup /\ mls[a] \in Made
      BY <1>7, MadeIs DEF Ready
    <2>. QED  BY <1>2, <2>1 DEF ChainInv
  <1>13. ASSUME p.at = mls[Owner].id, NEW b \in Followers
         PROVE  p \in Held(b)'
    <2>1. CASE b = a
      BY <1>2, <1>3, <1>4, <2>1 DEF Held
    <2>2. CASE b # a
      <3>1. mls[a].tree = mls[Owner].tree
        BY <1>2, <1>13, MadeIs, OwnerIsAccount DEF ChainInv
      <3>2. MemberEmails(a) = Joined
        BY <1>7, <3>1 DEF Joined, MemberEmails, Ready, RosterInv, GetMlsGroupId
      <3>3. [kind |-> "proposal", to |-> b, proposal |-> p] \in mail'
        BY <1>1, <2>2, <3>2, FollowersAre
      <3>. QED  BY <3>3 DEF Held, ProposalsTo
    <2>. QED  BY <2>1, <2>2
  <1>14. ProposalInv'
    <2>. SUFFICES ASSUME NEW x \in mail', x.kind = "proposal"
                  PROVE  /\ x.proposal.at <= commits
                         /\ x.to = Owner /\ x.proposal.at = mls[Owner].id =>
                                \A b \in Followers : x.proposal \in Held(b)'
      BY <1>1, <1>6 DEF ProposalInv
    <2>1. CASE x \in mail
      BY <1>0, <1>10, <2>1 DEF WayInv, ProposalInv
    <2>2. CASE x.proposal = p
      BY <1>12, <1>13, <2>2
    <2>. QED  BY <1>5, <2>1, <2>2
  <1>. QED  BY <1>6, <1>8, <1>9, <1>11, <1>14 DEF FollowInv, WayInv

\* While no process has died.
ReachInv == crashes = 0 => FollowInv

LEMMA ReachInitially == Init => ReachInv
  <1>. SUFFICES ASSUME Init PROVE FollowInv
    BY DEF ReachInv
  <1>1. PICK l \in Limits : \E invited \in SUBSET l.members : Started(l, invited)
    BY Zenon DEF Init, Started
  <1>2. PICK invited \in SUBSET l.members : Started(l, invited)
    BY <1>1, Zenon
  <1>3. /\ ui.at = "idle" /\ dl.at = "idle" /\ \A e \in mail : e.kind = "invite"
        /\ mls[Owner] = Founded
        /\ row[Owner] = SetMlsGroupId(NewRow({Owner} \cup invited))
        /\ \A m \in Member : row[m] = NoRow /\ mls[m] = NoGroup
    BY <1>2, OwnerIsAccount DEF Started, Idle
  <1>4. Founded.pending = {} /\ Founded.tree = {Owner}
    BY DEF Founded
  <1>5. Joined = {Owner}
    BY <1>3, <1>4 DEF Joined, MemberEmails, GetMlsGroupId, SetMlsGroupId, NewRow
  <1>6. CallInv /\ LeadInv /\ RowInv
    BY <1>3, <1>4 DEF CallInv, LeadInv, RowInv
  <1>7. WayInv
    BY <1>3, <1>5 DEF WayInv, Path, ProposalInv, Followers
  <1>8. OnceInv
    <2>1. \A m \in Member : ~Joining(m) /\ ~Leaving(m) /\ WelcomesTo(m) = {}
      BY <1>3 DEF Joining, GenerateKeyPackage, Leaving, WelcomesTo
    <2>. QED  BY <1>5, <2>1, OwnerIsAccount DEF OnceInv
  <1>. QED  BY <1>6, <1>7, <1>8 DEF FollowInv

LEMMA FollowStep ==
    ASSUME TypeOK, ChainInv, RosterInv, FollowInv, crossed \subseteq crossed',
           [Next]_vars,
           ~ \E a \in Account : Restart(a)
    PROVE  FollowInv'
  <1>1. CASE UserCall
    <2>1. \/ \E m \in limit.members : InviteMember(m) \/ RemoveMember(m)
          \/ \E a \in Account : SendMessage(a) \/ SendAndPropose(a)
          \/ SendAndRefresh
      BY <1>1 DEF UserCall
    <2>2. ASSUME NEW m \in limit.members, InviteMember(m) \/ RemoveMember(m)
          PROVE  FollowInv'
      BY <2>2, FollowUserQuiet, OwnerIsAccount
    <2>3. ASSUME NEW a \in Account, SendMessage(a)
          PROVE  FollowInv'
      <3>1. /\ mls' = mls /\ commits' = commits /\ dl' = dl /\ ui' = ui /\ row' = row
            /\ mail' = mail
        BY <2>3 DEF SendMessage, group
      <3>. QED  BY <3>1, FollowQuiet
    <2>. QED  BY <2>1, <2>2, <2>3, FollowPropose, FollowRefresh
  <1>2. CASE OwnerStep
    BY <1>2, FollowEvict, FollowUiSends, FollowDrop, FollowAdd, FollowAdded,
       FollowCommitted DEF OwnerStep
  <1>3. ASSUME NEW a \in Account, Receive(a)
        PROVE  FollowInv'
    <2>1. PICK e \in mail : \/ OnKeyPackage(e) \/ OnProposalOfMember(e)
                            \/ OnInvite(e) \/ OnWelcome(e) \/ OnCommit(e) \/ OnProposal(e)
                            \/ OnMemberUpdate(e) \/ OnAppMessage(e)
      BY <1>3 DEF Receive
    <2>. QED
      BY <2>1, FollowKeyPackage, FollowProposalOfMember, FollowInvite, FollowWelcome,
         FollowsCommit, FollowsProposal, FollowReceiveQuiet
  <1>4. ASSUME NEW task \in outbox, Seal(task)
        PROVE  FollowInv'
    <2>1. /\ mls' = mls /\ commits' = commits /\ dl' = dl /\ ui' = ui /\ row' = row
          /\ \A e \in mail : e \in mail'
          /\ \A e \in mail' : e \in mail \/ e.kind = "app"
      BY <1>4 DEF Seal, Encrypt, group
    <2>. QED  BY <2>1, FollowQuiet
  <1>5. CASE UNCHANGED vars
    <2>1. /\ mls' = mls /\ commits' = commits /\ dl' = dl /\ ui' = ui /\ row' = row
          /\ mail' = mail
      BY <1>5 DEF vars, group
    <2>. QED  BY <2>1, FollowQuiet
  <1>6. \/ UserCall \/ OwnerStep
        \/ \E a \in Account : Receive(a)
        \/ \E task \in outbox : Seal(task)
        \/ UNCHANGED vars
    BY DEF Next
  <1>. QED  BY <1>1, <1>2, <1>3, <1>4, <1>5, <1>6

LEMMA MeetingsGrow ==
    ASSUME [Next]_vars, ~ \E a \in Account : Restart(a)
    PROVE  crashes' = crashes /\ crossed \subseteq crossed'
  <1>1. CASE UserCall
    BY <1>1 DEF UserCall, InviteMember, RemoveMember, SendMessage, SendAndPropose,
                SendAndRefresh, life, meetings
  <1>2. CASE OwnerStep
    BY <1>2 DEF OwnerStep, Evict, Evicted, Drop, Refreshed, AddMember, Added, Committed,
                bounds, life, meetings
  <1>3. ASSUME NEW a \in Account, Receive(a)
        PROVE  crashes' = crashes /\ crossed \subseteq crossed'
    BY <1>3 DEF Receive, OnKeyPackage, OnProposalOfMember, OnInvite, OnWelcome, OnCommit,
                OnProposal, OnMemberUpdate, OnAppMessage, Others, bounds, life, meetings
  <1>4. ASSUME NEW task \in outbox, Seal(task)
        PROVE  crashes' = crashes /\ crossed \subseteq crossed'
    BY <1>4 DEF Seal, bounds, life, meetings
  <1>5. CASE UNCHANGED vars
    BY <1>5 DEF vars, bounds, life, meetings
  <1>6. \/ UserCall \/ OwnerStep
        \/ \E a \in Account : Receive(a)
        \/ \E task \in outbox : Seal(task)
        \/ UNCHANGED vars
    BY DEF Next
  <1>. QED  BY <1>1, <1>2, <1>3, <1>4, <1>5, <1>6

LEMMA ReachStep ==
    ASSUME TypeOK, ChainInv, RosterInv, ReachInv, [Next]_vars
    PROVE  ReachInv'
  <1>1. CASE \E a \in Account : Restart(a)
    <2>1. crashes' = crashes + 1 /\ crashes \in Nat
      BY <1>1, LimitIs DEF Restart
    <2>2. crashes' # 0
      BY <2>1
    <2>. QED  BY <2>2 DEF ReachInv
  <1>2. CASE ~ \E a \in Account : Restart(a)
    <2>1. crashes' = crashes /\ crossed \subseteq crossed'
      BY <1>2, MeetingsGrow
    <2>2. FollowInv => FollowInv'
      BY <1>2, <2>1, FollowStep
    <2>. QED  BY <2>1, <2>2 DEF ReachInv
  <1>. QED  BY <1>1, <1>2

\* However the calls of the owner's two threads meet: between them, and while no
\* process has died, each account in the owner's tree can catch up with it (the
\* Welcome that lets it in, or the commit that follows its state with the proposals
\* it refers to, is in the mail), unless one thread added the account while the
\* other removed one.
THEOREM NobodyIsStranded == ASSUME Durable PROVE Spec => []NobodyStranded
  <1>1. TypeOK /\ ChainInv /\ ReachInv => NobodyStranded
    <2>. SUFFICES ASSUME TypeOK, ChainInv, ReachInv, ui = Idle, dl = Idle, crashes = 0,
                         NEW m \in Followers
                  PROVE  CanCatchUp(m)
      BY DEF NobodyStranded, Followers
    <2>. QED  BY PathLeads DEF ReachInv, FollowInv
  <1>2. TypeOK /\ ChainInv /\ [Next]_vars => ChainInv'
    BY ChainStep
  <1>3. TypeOK /\ ChainInv /\ RosterInv /\ [Next]_vars => RosterInv'
    BY RosterStep
  <1>4. TypeOK /\ ChainInv /\ RosterInv /\ ReachInv /\ [Next]_vars => ReachInv'
    BY ReachStep
  <1>. QED
    BY <1>1, <1>2, <1>3, <1>4, ChainInitially, RosterInitially, ReachInitially,
       TypeCorrect, PTL DEF Spec
=============================================================================
