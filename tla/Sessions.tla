------------------------------ MODULE Sessions ------------------------------
(***************************************************************************)
(* A conversation in the list of each of its accounts, and the identities  *)
(* the accounts trust in it: table unified_session (email/unified/), the   *)
(* pins of email/persistence/signal_key_repo.cpp, and the steps of         *)
(* email_oemailim.cpp and email/signal/group_c_api.cpp that read and write *)
(* them.                                                                   *)
(*                                                                         *)
(* Creator talks to Peer over the ratchet, or to Peer and Guest in a       *)
(* group; a conversation of two becomes a group when Guest is added.  An   *)
(* account may start again on an empty device, which fetches the whole     *)
(* mailbox once more and shows every key it makes for the first time: its  *)
(* identity is the number of its device.  Keys belong to a scope, the      *)
(* ratchet or the group, and so do the pins.                               *)
(*                                                                         *)
(* The mails of one sender are handled in the order they were sent.  The   *)
(* other orders, the ratchet and the epochs of MLS, crashes and the outbox *)
(* are the subject of the modules of their own: here a ratchet is the pair *)
(* of devices that agreed on it and the MLS state a tree and its number.   *)
(***************************************************************************)
EXTENDS Naturals, FiniteSets, Sequences

CONSTANTS
    Creator, Peer, Guest,   \* the accounts
    Scenarios,              \* what happens in a behaviour: sets of Event
    MaxSends,               \* bound: messages sent
    MaxDevice               \* bound: devices of an account

Account == {Creator, Peer, Guest}

\* "group": the three talk from the start.  "upgrade" and "answer": Creator
\* and Peer add Guest to their conversation.  "remove": the owner takes Guest
\* off the group, and may invite it again.  "remove peer": the same of Peer.
\* "talk": messages are sent.  An account: it starts again on a new device.
Event == {"group", "upgrade", "answer", "remove", "remove peer", "talk"}
             \cup Account

ASSUME AccountAssumption == Cardinality(Account) = 3
ASSUME ScenariosAssumption == Scenarios \subseteq SUBSET Event
ASSUME BoundsAssumption ==
    MaxSends \in Nat /\ MaxDevice \in Nat

VARIABLES
    scenario,   \* the events of this behaviour
    device,     \* device[a]: the number of a's device, its identity
    rows,       \* rows[a][o]: a's unified_session row that o made
    pin,        \* pin[a][s][b]: the identity of b that a pinned in s; 0: none
    ratchet,    \* ratchet[a]: the devices a's ratchet was agreed between
    group,      \* group[a]: a's group_session and MLS state
    mail,       \* the mails posted, in order; a mailbox keeps them all
    done,       \* done[a]: the mails a's device has handled
    sends,      \* messages sent so far
    invited,    \* accounts invited once more after a removal
    opened,     \* opened[a]: the identities a read messages of (history)
    trusting,   \* accounts whose user chose to trust a new identity (history)
    evicted     \* devices that handled their removal from the group (history)

keys == <<pin, ratchet, group>>
user == <<scenario, device, sends, invited, trusting, evicted>>
vars == <<keys, user, rows, mail, done, opened>>

Is(e) == e \in scenario
Scope == {"ratchet", "group"}

\* What made a row: the user, the first bundle, a SESSION_INIT, an invitation.
Origin == {"user", "bundle", "init", "invite"}

NoRow == [status |-> "none", mode |-> "none", members |-> {}]
NewRow(mode, members) ==
    [status |-> "active", mode |-> mode, members |-> members]
NoRows == [o \in Origin |-> NoRow]
NoPins == [s \in Scope |-> [b \in Account |-> 0]]
NoRatchet == [self |-> 0, peer |-> 0]

\* tree: the members that joined, with the device that did; at: the commits
\* made in it; since: where the account joined; leaf: the identities bound.
NoGroup == [owner |-> "none", members |-> {}, tree |-> {}, at |-> 0,
            since |-> 0, leaf |-> [b \in Account |-> 0]]
NewGroup(owner, members) ==
    [NoGroup EXCEPT !.owner = owner, !.members = members]

\* The bindings of a group: who signs with which identity, one to an account.
\* upsertBinding, the list of them that a Welcome has, and such a list put
\* into them.
ListBindings(g) == g.leaf
UpsertBinding(leaf, b, ik) == [leaf EXCEPT ![b] = ik]
Bound(leaf, b) == leaf[b] # 0
UpsertBindings(leaf, listed) ==
    [b \in Account |-> IF Bound(listed, b) THEN listed[b] ELSE leaf[b]]

\* makeOwnBinding: the identity of this device.
BindSelf(a, g) == [g EXCEPT !.leaf = UpsertBinding(@, a, device[a])]

\* loadBinding of its own: what it published.
OwnBinding(a) == group[a].leaf[a]

\* groupCreateInternal: the owner is the only leaf, and has bound it.
Founded(a, members) ==
    BindSelf(a, [NewGroup(a, members) EXCEPT !.tree = {<<a, device[a]>>},
                                             !.at = 1, !.since = 1])

Joined(a) == group[a].since > 0
Emails(tree) == {leaf[1] : leaf \in tree}
Invitation(a, members) ==
    [kind |-> "invite", from |-> a, to |-> members \ {a},
     ik |-> device[a], members |-> members]
Bundle(a, b) ==
    [kind |-> "bundle", from |-> a, to |-> {b}, ik |-> device[a]]

\* createSignalSession_ and createMlsSession_.
Init ==
    /\ scenario \in Scenarios
    /\ device = [a \in Account |-> 1]
    /\ rows = [a \in Account |->
                  IF a = Creator
                  THEN [NoRows EXCEPT !["user"] =
                            IF Is("group") THEN NewRow("group", Account)
                            ELSE NewRow("ratchet", {Creator, Peer})]
                  ELSE NoRows]
    /\ pin = [a \in Account |-> NoPins]
    /\ ratchet = [a \in Account |-> NoRatchet]
    /\ group = [a \in Account |->
                   IF a = Creator /\ Is("group")
                   THEN Founded(Creator, Account) ELSE NoGroup]
    /\ mail = << IF Is("group") THEN Invitation(Creator, Account)
                 ELSE Bundle(Creator, Peer) >>
    /\ done = [a \in Account |-> {}]
    /\ sends = 0 /\ invited = {} /\ trusting = {} /\ evicted = {}
    /\ opened = [a \in Account |-> {}]
-----------------------------------------------------------------------------
(* The session list: UnifiedSessionRepo *)

Active(a) == {o \in Origin : rows[a][o].status = "active"}

\* loadBySignalSessionId and loadByRootMessageId: the rows of a conversation
\* of two have both ids, and keep them when they become a group.
OfRatchet(a) == Active(a) \ {o \in Origin : o = "invite" \/ Is("group")}

\* loadByMlsGroupId.
OfGroup(a) == {o \in Active(a) : rows[a][o].mode = "group"}

\* load: the row of one id.
Load(a, o) == rows[a][o]

\* setStatus, updateMembers and upgradeToMls.
WithStatus(row, status) == [row EXCEPT !.status = status]
WithMembers(row, members) == [row EXCEPT !.members = members]
AsGroup(row, members) == [row EXCEPT !.mode = "group", !.members = members]

Changed(a, found, To(_)) ==
    [rows EXCEPT ![a] =
        [o \in Origin |-> IF o \in found THEN To(@[o]) ELSE @[o]]]

\* Flagging a session kSessionIdentityChanged; one that is not active is not
\* found.
Flagged(a, found) ==
    LET To(row) == WithStatus(row, "changed") IN Changed(a, found, To)

\* isReady.
Ready(a, o) ==
    LET row == Load(a, o)
        others == (row.members \cap Emails(group[a].tree)) \ {a}
    IN  /\ row.status = "active"
        /\ a \in row.members
        /\ IF row.mode = "ratchet" THEN ratchet[a] # NoRatchet
           ELSE Joined(a) /\ others # {}
-----------------------------------------------------------------------------
(* Pins: the first identity of an account in a scope is trusted *)

\* Plausible bug: a new identity replaces the pinned one.
FitsAlways(a, s, b, ik) == pin[a][s][b] \in 0..MaxDevice

\* pin_peer_identity does not answer -3.
Fits(a, s, b, ik) == pin[a][s][b] \in {0, ik}

Pinned(a, s, b, ik) == [pin EXCEPT ![a][s][b] = ik]

\* deletePeerIdentity of some, and deletePeerIdentitiesBySession.
Forgotten(a, s, them) ==
    [pin EXCEPT ![a][s] = [b \in Account |-> IF b \in them THEN 0 ELSE @[b]]]
ForgottenAll(a, s) == [pin EXCEPT ![a][s] = NoPins[s]]
-----------------------------------------------------------------------------
(* Mail *)

Post(mails) == mail' = mail \o mails
Handled(a, i) == done' = [done EXCEPT ![a] = @ \cup {i}]
Waiting(a) == {i \in DOMAIN mail : a \in mail[i].to} \ done[a]

\* download_pending takes the handshake of a batch before its data.
Class(m) == CASE m.kind = "init" -> 0
              [] m.kind \in {"bundle", "reply"} -> 1
              [] OTHER -> 2

\* The mail shows an identity in the group that is not the pinned one.
Distrusts(a, m) ==
    \/ /\ m.kind = "key_package" /\ group[a].owner = a
       /\ m.from \in group[a].members
       /\ ~Fits(a, "group", m.from, m.ik)
    \/ /\ m.kind = "welcome" /\ group[a] # NoGroup /\ ~Joined(a)
       /\ \E b \in Account \ {a} :
              m.leaf[b] # 0 /\ ~Fits(a, "group", b, m.leaf[b])
    \/ /\ m.kind = "commit" /\ Joined(a)
       /\ \E leaf \in m.add : ~Fits(a, "group", leaf[1], leaf[2])

\* A handler that answers 1: its mail stays and is handled again.
Held(a, m) ==
    \/ Distrusts(a, m)
    \/ m.kind \in {"welcome", "update"} /\ group[a] = NoGroup
    \/ m.kind = "commit" /\ (~Joined(a) \/ (m.pre # group[a].at /\ m.removed # a))
    \/ m.kind = "app" /\ (~Joined(a) \/ OfGroup(a) = {})

\* a's device handles mail i, of this kind.
Takes(a, i, kind) ==
    /\ mail[i].kind = kind
    /\ \A j \in Waiting(a) :
           j < i /\ mail[j].from = mail[i].from
           /\ Class(mail[j]) <= Class(mail[i]) => Held(a, mail[j])

Consumes(a, i, kind) == Takes(a, i, kind) /\ ~Held(a, mail[i]) /\ Handled(a, i)

Reads(a, scope, b, ik) ==
    opened' = [opened EXCEPT ![a] = @ \cup {<<scope, b, ik>>}]
-----------------------------------------------------------------------------
(* Conversations of two: the steps of download_pending *)

\* A changed identity flags the session, and the mail is done all the same.
ShowsChange(a) ==
    /\ rows' = Flagged(a, OfRatchet(a))
    /\ UNCHANGED <<keys, mail>>

Add(a, o, row) == [rows EXCEPT ![a][o] = row]

\* The root bundle: the answering side lists the session and sends its own.
TakeBundle(a, i) ==
    LET m == mail[i] IN
    /\ Consumes(a, i, "bundle")
    /\ \/ /\ Fits(a, "ratchet", m.from, m.ik)
          /\ pin' = Pinned(a, "ratchet", m.from, m.ik)
          /\ rows' = IF OfRatchet(a) # {} THEN rows
                     ELSE Add(a, "bundle", NewRow("ratchet", {a, m.from}))
          /\ Post(<<[Bundle(a, m.from) EXCEPT !.kind = "reply"]>>)
          /\ UNCHANGED <<ratchet, group>>
       \/ ~Fits(a, "ratchet", m.from, m.ik) /\ ShowsChange(a)
    /\ UNCHANGED <<user, opened>>

\* Plausible bug: the session the user made is not the one the reply is for.
InitiatesForPeer(a) == OfRatchet(a) \ {"user"} # {} /\ ratchet[a] = NoRatchet

\* A reply starts the ratchet once, of a session that is listed as active.
Initiates(a) == OfRatchet(a) # {} /\ ratchet[a] = NoRatchet

TakeReply(a, i) ==
    LET m == mail[i] IN
    /\ Consumes(a, i, "reply")
    /\ \/ /\ Fits(a, "ratchet", m.from, m.ik)
          /\ pin' = Pinned(a, "ratchet", m.from, m.ik)
          /\ IF Initiates(a)
             THEN /\ ratchet' = [ratchet EXCEPT ![a] =
                                    [self |-> device[a], peer |-> m.ik]]
                  /\ Post(<<[kind |-> "init", from |-> a, to |-> {m.from},
                             ik |-> device[a], spk |-> m.ik]>>)
             ELSE UNCHANGED <<ratchet, mail>>
          /\ UNCHANGED <<group, rows>>
       \/ ~Fits(a, "ratchet", m.from, m.ik) /\ ShowsChange(a)
    /\ UNCHANGED <<user, opened>>

\* signal_session_decrypt of a SESSION_INIT.  It must use the signed prekey of
\* this device; an established ratchet stays.
TakeInit(a, i) ==
    LET m == mail[i]
        known == m.spk = device[a]
    IN
    /\ Consumes(a, i, "init")
    /\ \/ /\ Fits(a, "ratchet", m.from, m.ik)
          /\ pin' = Pinned(a, "ratchet", m.from, m.ik)
          /\ ratchet' = IF known /\ ratchet[a] = NoRatchet
                        THEN [ratchet EXCEPT ![a] =
                                 [self |-> device[a], peer |-> m.ik]]
                        ELSE ratchet
          /\ rows' = IF ~known \/ OfRatchet(a) # {} THEN rows
                     ELSE Add(a, "init", NewRow("ratchet", {a, m.from}))
          /\ UNCHANGED <<group, mail>>
       \/ ~Fits(a, "ratchet", m.from, m.ik) /\ ShowsChange(a)
    /\ UNCHANGED <<user, opened>>

\* A message is opened by the ratchet it was sealed for, whatever is pinned and
\* whatever the status of the session; else it is given up.
TakeMessage(a, i) ==
    LET m == mail[i] IN
    /\ Consumes(a, i, "message")
    /\ IF ratchet[a] = [self |-> m.peer, peer |-> m.ik]
       THEN Reads(a, "ratchet", m.from, m.ik) ELSE UNCHANGED opened
    /\ UNCHANGED <<keys, user, rows, mail>>
-----------------------------------------------------------------------------
(* Groups: the handlers of group_c_api.cpp *)

\* Plausible bug: a group is always a session of its own.
InvitedAlone(a, members) == Add(a, "invite", NewRow("group", members))

\* The session of a conversation of two becomes the group's.
InvitedRows(a, members) ==
    LET To(row) == AsGroup(row, members) IN
    IF OfRatchet(a) = {} THEN Add(a, "invite", NewRow("group", members))
    ELSE Changed(a, OfRatchet(a), To)

\* onInvite: a group that is known is not answered.
TakeInvite(a, i) ==
    LET m == mail[i] IN
    /\ Consumes(a, i, "invite")
    /\ IF group[a] # NoGroup THEN UNCHANGED <<keys, rows, mail>>
       ELSE /\ group' = [group EXCEPT ![a] =
                   BindSelf(a, [NewGroup(m.from, m.members) EXCEPT
                                   !.leaf = UpsertBinding(@, m.from, m.ik)])]
            /\ pin' = Pinned(a, "group", m.from, m.ik)
            /\ rows' = InvitedRows(a, m.members)
            /\ Post(<<[kind |-> "key_package", from |-> a, to |-> {m.from},
                       ik |-> device[a]]>>)
            /\ UNCHANGED ratchet
    /\ UNCHANGED <<user, opened>>

Welcome(b, g) ==
    [kind |-> "welcome", from |-> g.owner, to |-> {b}, tree |-> g.tree,
     at |-> g.at, leaf |-> ListBindings(g)]

\* A commit brings the recipients from state pre to the tree it names.
CommitOf(g, to, tree, add, removed) ==
    IF to = {} THEN <<>>
    ELSE <<[kind |-> "commit", from |-> g.owner, to |-> to, pre |-> g.at,
            tree |-> tree, add |-> add, removed |-> removed]>>

\* onKeyPackage, of the owner.
TakeKeyPackage(a, i) ==
    LET m == mail[i]
        g == group[a]
        leaf == <<m.from, m.ik>>
        joined == [g EXCEPT !.tree = @ \cup {leaf}, !.at = @ + 1,
                            !.leaf = UpsertBinding(@, m.from, m.ik)]
    IN
    /\ Consumes(a, i, "key_package")
    /\ IF g.owner # a \/ m.from \notin g.members
       THEN UNCHANGED <<keys, mail>>
       ELSE /\ pin' = Pinned(a, "group", m.from, m.ik)
            /\ IF m.from \in Emails(g.tree) THEN UNCHANGED <<group, mail>>
               ELSE /\ group' = [group EXCEPT ![a] = joined]
                    /\ Post(<<Welcome(m.from, joined)>>
                            \o CommitOf(g, Emails(g.tree) \ {a}, joined.tree,
                                        {leaf}, "none"))
            /\ UNCHANGED ratchet
    /\ UNCHANGED <<user, rows, opened>>

\* Pins of the identities a mail binds; those that do not fit stay as they are.
PinnedAll(a, leaf) ==
    [pin EXCEPT ![a]["group"] =
        [b \in Account |->
            IF b # a /\ Bound(leaf, b) /\ Fits(a, "group", b, leaf[b])
            THEN leaf[b] ELSE @[b]]]

Verified(leaf, tree) == \A l \in tree : leaf[l[1]] = l[2]

\* -3 of a binding: the session is flagged and the mail waits.
Distrust(a, i) ==
    LET m == mail[i] IN
    /\ \E kind \in {"key_package", "welcome", "commit"} : Takes(a, i, kind)
    /\ Distrusts(a, m) /\ OfGroup(a) # {}
    /\ rows' = Flagged(a, OfGroup(a))
    /\ pin' = IF m.kind = "welcome" THEN PinnedAll(a, m.leaf) ELSE pin
    /\ UNCHANGED <<ratchet, group, user, mail, done, opened>>

\* onWelcome.  The binding of this account must be the one it published.
TakeWelcome(a, i) ==
    LET m == mail[i]
        g == group[a]
        leaf == UpsertBindings(g.leaf, m.leaf)
    IN
    /\ Consumes(a, i, "welcome")
    /\ IF Joined(a) \/ m.leaf[a] # OwnBinding(a)
       THEN UNCHANGED <<keys, rows>>
       ELSE /\ pin' = PinnedAll(a, m.leaf)
            /\ group' = [group EXCEPT ![a] =
                   [g EXCEPT !.tree = m.tree, !.at = m.at, !.since = m.at,
                             !.leaf = leaf]]
            /\ rows' = IF Verified(leaf, m.tree) THEN rows
                       ELSE Flagged(a, OfGroup(a))
            /\ UNCHANGED ratchet
    /\ UNCHANGED <<user, mail, opened>>

\* The owner took this account off the group: its session is listed, and read
\* only.
Retired(a, members) ==
    LET To(row) == WithStatus(WithMembers(row, row.members \cap members), "removed")
    IN  Changed(a, OfGroup(a), To)

\* A session that is flagged is not found, and stays as it is.
Evicted(a, members) ==
    /\ rows' = Retired(a, members)
    /\ pin' = IF OfGroup(a) = {} THEN pin
              ELSE ForgottenAll(a, "group")
    /\ evicted' = evicted \cup {<<a, device[a]>>}

\* onHandshake of a commit.  The binding it adds is accepted first, also when
\* the commit has to wait; the account's own removal never waits.
TakeCommit(a, i) ==
    LET m == mail[i]
        g == group[a]
        merges == m.pre = g.at
        bound == [b \in Account |->
                     IF <<b, 1>> \in m.add THEN 1
                     ELSE IF <<b, 2>> \in m.add THEN 2 ELSE 0]
        leaf == UpsertBindings(g.leaf, bound)
        next == [g EXCEPT !.leaf = leaf, !.members = @ \ {m.removed},
                          !.tree = IF merges THEN m.tree ELSE @,
                          !.at = IF merges THEN @ + 1 ELSE @]
        To(row) == WithMembers(row, row.members \ {m.removed})
    IN
    /\ Takes(a, i, "commit") /\ Joined(a) /\ ~Distrusts(a, m)
    /\ \/ /\ m.removed = a
          /\ Evicted(a, Account \ {a})
          /\ group' = [group EXCEPT ![a] = next]
          /\ Handled(a, i)
       \/ /\ m.removed # a /\ merges
          /\ pin' = PinnedAll(a, bound)
          /\ group' = [group EXCEPT ![a] = next]
          /\ rows' = IF Verified(leaf, m.tree)
                     THEN Changed(a, OfGroup(a), To) ELSE Flagged(a, OfGroup(a))
          /\ Handled(a, i)
          /\ UNCHANGED evicted
       \/ /\ m.removed # a /\ ~merges
          /\ pin' = PinnedAll(a, bound)
          /\ group' = [group EXCEPT ![a].leaf = leaf]
          /\ UNCHANGED <<rows, done, evicted>>
    /\ UNCHANGED <<ratchet, scenario, device, sends, invited, trusting>>
    /\ UNCHANGED <<mail, opened>>

\* onMemberUpdate: the owner's list replaces this account's.
TakeUpdate(a, i) ==
    LET m == mail[i]
        To(row) == WithMembers(row, m.members \cup {a})
    IN
    /\ Consumes(a, i, "update")
    /\ IF m.from # group[a].owner THEN UNCHANGED <<rows, pin, group, evicted>>
       ELSE \/ /\ a \in m.removed
               /\ Evicted(a, Account)
               /\ group' = [group EXCEPT ![a].members = @ \ {a}]
            \/ /\ a \notin m.removed
               /\ group' = [group EXCEPT ![a].members = m.members \cup {a}]
               /\ rows' = Changed(a, OfGroup(a), To)
               /\ UNCHANGED <<pin, evicted>>
    /\ UNCHANGED <<ratchet, scenario, device, sends, invited, trusting>>
    /\ UNCHANGED <<mail, opened>>

\* onAppMessage: a message of a number this device was in is opened.
TakeApp(a, i) ==
    LET m == mail[i] IN
    /\ Consumes(a, i, "app")
    /\ IF group[a].since <= m.at /\ m.at <= group[a].at
       THEN Reads(a, "group", m.from, m.ik) ELSE UNCHANGED opened
    /\ UNCHANGED <<keys, user, rows, mail>>
-----------------------------------------------------------------------------
(* The user *)

\* us_add_members to a conversation of two; the list offers a session whatever
\* its status.
Upgrade(a, o) ==
    LET members == Load(a, o).members \cup {Guest}
        To(row) == AsGroup(row, members)
    IN
    /\ \/ Is("upgrade") /\ a = Creator
       \/ Is("answer") /\ a = Peer
    /\ Load(a, o).mode = "ratchet" /\ group[a] = NoGroup
    /\ group' = [group EXCEPT ![a] = Founded(a, members)]
    /\ rows' = Changed(a, {o}, To)
    /\ Post(<<Invitation(a, members)>>)
    /\ UNCHANGED <<pin, ratchet, user, done, opened>>

Update(a, to, members, removed) ==
    IF to = {} THEN <<>>
    ELSE <<[kind |-> "update", from |-> a, to |-> to, members |-> members,
            removed |-> removed]>>

\* us_remove_member of one that joined: group_remove_member.
RemoveJoined(a, o, b) ==
    LET g == group[a]
        tree == {leaf \in g.tree : leaf[1] # b}
        To(row) == WithMembers(row, row.members \ {b})
    IN
    /\ b \in Emails(g.tree) /\ b \in g.members
    /\ group' = [group EXCEPT ![a] = [g EXCEPT !.members = @ \ {b},
                                               !.tree = tree, !.at = @ + 1]]
    /\ rows' = Changed(a, OfGroup(a), To)
    /\ Post(CommitOf(g, Emails(g.tree) \ {a}, tree, {}, b))

\* Of one that did not join yet: group_broadcast_member_update.
RemovePending(a, o, b) ==
    LET g == group[a]
        To(row) == WithMembers(row, row.members \ {b})
    IN
    /\ b \notin Emails(g.tree) /\ Cardinality(Load(a, o).members) > 2
    /\ rows' = Changed(a, {o}, To)
    /\ group' = [group EXCEPT ![a].members = @ \ {b}]
    /\ Post(IF b \notin g.members THEN <<>>
            ELSE Update(a, (g.members \cup {b}) \ {a}, g.members \ {b}, {b}))

Removable(b) == \/ b = Guest /\ Is("remove")
                \/ b = Peer /\ Is("remove peer")

Remove(a, o, b) ==
    /\ group[a].owner = a /\ a # b /\ Removable(b) /\ b \notin invited
    /\ Load(a, o).mode = "group" /\ b \in Load(a, o).members
    /\ RemoveJoined(a, o, b) \/ RemovePending(a, o, b)
    /\ UNCHANGED <<pin, ratchet, user, done, opened>>

\* us_add_members to a group, of one that was removed: group_invite_members.
Reinvite(a, o, b) ==
    LET members == group[a].members \cup {b}
        To(row) == WithMembers(row, row.members \cup {b})
    IN
    /\ group[a].owner = a /\ Load(a, o).mode = "group" /\ Removable(b)
    /\ b \notin group[a].members /\ b \notin invited
    /\ invited' = invited \cup {b}
    /\ group' = [group EXCEPT ![a].members = members]
    /\ rows' = Changed(a, {o}, To)
    /\ Post(<<[Invitation(a, members) EXCEPT !.to = {b}]>>
            \o Update(a, group[a].members \ {a, b}, members, {}))
    /\ UNCHANGED <<pin, ratchet, scenario, device, sends, trusting, evicted>>
    /\ UNCHANGED <<done, opened>>

Others(a) == Emails(group[a].tree) \ {a}

\* us_send_message in a session that is ready: the conversation views ask.
Send(a, o) ==
    /\ Is("talk") /\ sends < MaxSends /\ Ready(a, o)
    /\ sends' = sends + 1
    /\ Post(<< IF Load(a, o).mode = "ratchet"
               THEN [kind |-> "message", from |-> a,
                     to |-> Load(a, o).members \ {a},
                     ik |-> ratchet[a].self, peer |-> ratchet[a].peer]
               ELSE [kind |-> "app", from |-> a, to |-> Others(a),
                     ik |-> OwnBinding(a), at |-> group[a].at] >>)
    /\ UNCHANGED <<keys, rows, scenario, device, invited, trusting, evicted>>
    /\ UNCHANGED <<done, opened>>

\* us_reset_peer_identity: the user trusts whoever comes next.
Reset(a, o) ==
    LET row == Load(a, o)
        To(r) == WithStatus(r, "active")
    IN
    /\ row.status = "changed"
    /\ rows' = Changed(a, {o}, To)
    /\ pin' = Forgotten(a, row.mode, row.members)
    /\ trusting' = trusting \cup {a}
    /\ UNCHANGED <<ratchet, group, scenario, device, sends, invited, evicted>>
    /\ UNCHANGED <<mail, done, opened>>

\* The account starts again on an empty device, and fetches every mail.
Reinstall(a) ==
    /\ Is(a) /\ device[a] < MaxDevice
    /\ device' = [device EXCEPT ![a] = @ + 1]
    /\ rows' = [rows EXCEPT ![a] = NoRows]
    /\ pin' = [pin EXCEPT ![a] = NoPins]
    /\ ratchet' = [ratchet EXCEPT ![a] = NoRatchet]
    /\ group' = [group EXCEPT ![a] = NoGroup]
    /\ done' = [done EXCEPT ![a] = {}]
    /\ opened' = [opened EXCEPT ![a] = {}]
    /\ trusting' = trusting \ {a}
    /\ UNCHANGED <<scenario, sends, invited, evicted, mail>>
-----------------------------------------------------------------------------
Handle(a) ==
    \E i \in Waiting(a) :
        \/ TakeBundle(a, i) \/ TakeReply(a, i) \/ TakeInit(a, i)
        \/ TakeMessage(a, i) \/ TakeInvite(a, i) \/ TakeKeyPackage(a, i)
        \/ TakeWelcome(a, i) \/ TakeCommit(a, i) \/ TakeUpdate(a, i)
        \/ TakeApp(a, i) \/ Distrust(a, i)

Choose(a) ==
    \/ \E o \in Origin : \/ Upgrade(a, o) \/ Send(a, o) \/ Reset(a, o)
                         \/ \E b \in Account : Remove(a, o, b) \/ Reinvite(a, o, b)
    \/ Reinstall(a)

Next == \E a \in Account : Handle(a) \/ Choose(a)

\* The users need not do anything; the mail of each account is fetched for
\* ever.
Spec == /\ Init /\ [][Next]_vars
        /\ \A a \in Account : WF_vars(Handle(a))
-----------------------------------------------------------------------------
Listed(a) == {o \in Origin : rows[a][o].status # "none"}

\* A conversation is one entry of an account's list, through its upgrade to a
\* group, a new device of either side and every replay of the mailbox.
OneSession == \A a \in Account : Cardinality(Listed(a)) <= 1

\* The identities a's next message in session o is sealed to.
SealsTo(a, o) ==
    IF rows[a][o].mode = "group"
    THEN {<<"group", leaf[1], leaf[2]>> : leaf \in group[a].tree}
    ELSE {<<"ratchet", b, ratchet[a].peer>> : b \in rows[a][o].members}

\* What an account read, and what it may write, is of the identity it pinned
\* first, unless its user chose to trust a new one.
OneIdentity ==
    \A a \in Account \ trusting :
        \A r \in opened[a] \cup
                 UNION {SealsTo(a, o) : o \in {p \in Active(a) : Ready(a, p)}} :
            r[2] # a => pin[a][r[1]][r[2]] = r[3]
               \/ <<a, device[a]>> \in evicted

\* What may keep an account from ever writing again: a device that was
\* replaced, or a list of members that was changed.
Disturbed == \/ \E a \in Account : device[a] > 1
             \/ \E i \in DOMAIN mail :
                    \/ mail[i].kind = "update"
                    \/ mail[i].kind = "commit" /\ mail[i].removed # "none"

Invited == UNION {rows[a][o].members : a \in Account, o \in Origin}

\* Everyone a conversation was opened to can write in it in the end.
AllReady ==
    <>[](\/ Disturbed
         \/ \A a \in Invited : \E o \in Origin : Ready(a, o))
-----------------------------------------------------------------------------
(* Not so *)

\* SessionsReset.cfg: what unified_session_c_api.cpp:249 says of a reset, "the
\* next bundle/init from the peer pins the new key", does not make a ratchet
\* with the new device: the bundle was handled when it flagged the session, and
\* an account with a ratchet does not start another.
ResetHeals ==
    <>[](Creator \in trusting => ratchet[Creator].peer = device[Peer])
=============================================================================
