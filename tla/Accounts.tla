------------------------------ MODULE Accounts ------------------------------
(***************************************************************************)
(* The accounts of an installation: the file oim.conf, the store of their  *)
(* secrets, the master key and the database it opens (email_handler.cpp,   *)
(* keychain_store.cpp, email_db.cpp), and who uses them: the accounts page, *)
(* the supervisor that starts children for every account, and those who   *)
(* write the rows of the account.                                          *)
(*                                                                         *)
(* Older releases kept a secret in the file, or in an item of its own in   *)
(* the platform's store: both are moved to the vault when they are read.   *)
(*                                                                         *)
(* Secrets and master keys are numbers, 0 for none: an edit makes a new    *)
(* one.  The faults of a behaviour are those its scenario allows.          *)
(***************************************************************************)
EXTENDS Naturals, FiniteSets

CONSTANTS
    Accounts,
    Platforms,      \* of {"macos", "android", "windows"}
    Places,         \* where secrets are at first, of {"file", "item", "vault"}
    Scenarios,      \* sets of faults, see AllFaults
    MaxEdits,       \* bound: edits on the accounts page
    MaxFaults       \* bound: faults

AllFaults == {
    "crash",        \* the process dies
    "locked",       \* the platform does not hand out the master key
    "unreadable",   \* the first query on the database fails
    "store",        \* a secret cannot be stored
    "race" }        \* the page and the supervisor overlap

ASSUME PlatformsAssumption == Platforms \subseteq {"macos", "android", "windows"}
ASSUME PlacesAssumption == Places \subseteq {"file", "item", "vault"}
ASSUME ScenariosAssumption == Scenarios \subseteq SUBSET AllFaults
ASSUME BoundsAssumption == MaxEdits \in Nat /\ MaxFaults \in Nat

VARIABLES
    platform, scenario, \* of this behaviour
    key,            \* the master key: as the platform keeps it, as the process has it
    vault, items,   \* the store of secrets, and the items of older releases
    db, bak,        \* the database, and the one last set aside
    conf,           \* oim.conf
    page, sup,      \* what the accounts page and the supervisor are doing
    child,          \* the children of every account
    said,           \* the secret of every account, as the user was told it is saved
    chats,          \* accounts with a conversation
    edits, faults   \* so far

fixed == <<platform, scenario>>
secrets == <<vault, items>>
database == <<db, bak>>
vars == <<fixed, key, secrets, database, conf, page, sup, child, said, chats, edits, faults>>

NoChild == [open |-> FALSE, secret |-> 0]
Idle == [at |-> "idle", todo |-> {}, of |-> [a \in Accounts |-> [in |-> FALSE, plain |-> 0]],
         got |-> [a \in Accounts |-> 0], migrated |-> FALSE]

\* An installation in use.  Each secret is where some release has kept it.
Init ==
    /\ platform \in Platforms /\ scenario \in Scenarios
    /\ key = [stored |-> 1, cached |-> 0]
    /\ \E place \in [Accounts -> Places] :
          /\ (platform = "android" => \A a \in Accounts : place[a] # "item")
          /\ vault = [key |-> 1, of |-> [a \in Accounts |-> IF place[a] = "vault" THEN 1 ELSE 0]]
          /\ items = [a \in Accounts |-> IF place[a] = "item" THEN 1 ELSE 0]
          /\ conf = [torn |-> FALSE,
                     of |-> [a \in Accounts |->
                        [in |-> TRUE, plain |-> IF place[a] = "file" THEN 1 ELSE 0]]]
    /\ db = [key |-> 1, history |-> {}, wal |-> {}]
    /\ bak = [key |-> 0, history |-> {}]
    /\ page = Idle /\ sup = Idle
    /\ child = [a \in Accounts |-> NoChild]
    /\ said = [a \in Accounts |-> 1] /\ chats = {}
    /\ edits = 0 /\ faults = 0

Fault(f) == f \in scenario /\ faults < MaxFaults /\ faults' = faults + 1
Running == key.cached # 0
HeldKey == key.stored
-----------------------------------------------------------------------------
(* Secrets: a vault sealed with the master key on macOS and Android, items   *)
(* of the Credential Manager, which need no key of ours, on Windows          *)

OnWindows == platform = "windows"

Sealed(k, of) == [key |-> k, of |-> of]
Unseals(k) == vault.key = k

\* vault_read: what cannot be unsealed is empty.
VaultRead(k) == IF Unseals(k) THEN vault.of ELSE [a \in Accounts |-> 0]

\* Plausible bug: the vault is written without having been read.
VaultWithOnly(a, secret) ==
    Sealed(key.cached, [b \in Accounts |-> IF b = a THEN secret ELSE 0])

\* vault_write: what could not be read is written over.
VaultWith(a, secret) ==
    Sealed(key.cached, [VaultRead(key.cached) EXCEPT ![a] = secret])

CredRead(a) == vault.of[a]
CredWrite(a, secret) == vault' = [vault EXCEPT !.of[a] = secret]

\* An item of an older release: of the Keychain, or a DPAPI file.
ItemRead(a) == items[a]
ItemDeleted(a) == items' = [items EXCEPT ![a] = 0]

\* store_secret.
StoreInVault(a, secret) == vault' = VaultWith(a, secret) /\ UNCHANGED items
UpsertItem(a, secret) == CredWrite(a, secret) /\ ItemDeleted(a)
Store(a, secret) == IF OnWindows THEN UpsertItem(a, secret) ELSE StoreInVault(a, secret)

\* load_secret: one that is still in an item is moved.
Stored(a, k) == IF OnWindows THEN CredRead(a) ELSE VaultRead(k)[a]
Secret(a, k) == IF Stored(a, k) # 0 THEN Stored(a, k) ELSE ItemRead(a)

ToMove(a, k) == Stored(a, k) = 0 /\ ItemRead(a) # 0
MoveToVault(a) == vault' = VaultWith(a, ItemRead(a)) /\ ItemDeleted(a)
Move(a) == IF OnWindows THEN UpsertItem(a, ItemRead(a)) ELSE MoveToVault(a)

\* A secret still in the file is stored, one in an item moved.
ToPut(of, a, k) == of[a].plain # 0 \/ ToMove(a, k)
Put(of, a) ==
    IF of[a].plain # 0 THEN Store(a, of[a].plain)
    ELSE IF ToMove(a, key.cached) THEN Move(a) ELSE UNCHANGED secrets
Found(of, a, k) == IF of[a].plain # 0 THEN of[a].plain ELSE Secret(a, k)

\* ConfigLoader::load does so for every account, when the application starts
\* and when a child is made.
Taken(k) == {a \in Accounts : ~conf.torn /\ conf.of[a].in /\ ToPut(conf.of, a, k)}
LoadConfig(k) ==
    /\ vault' = IF Taken(k) = {} THEN vault
                ELSE Sealed(IF OnWindows THEN vault.key ELSE k,
                            [a \in Accounts |-> IF a \in Taken(k)
                                THEN Found(conf.of, a, k) ELSE Stored(a, k)])
    /\ items' = [a \in Accounts |->
                    IF a \in Taken(k) /\ (OnWindows \/ conf.of[a].plain = 0) THEN 0
                    ELSE items[a]]

\* delete_secret.
DropFromVault(a) ==
    /\ vault' = IF VaultRead(key.cached)[a] # 0 THEN VaultWith(a, 0) ELSE vault
    /\ ItemDeleted(a)
DeleteItem(a) == CredWrite(a, 0) /\ ItemDeleted(a)
DropSecret(a) == IF OnWindows THEN DeleteItem(a) ELSE DropFromVault(a)
-----------------------------------------------------------------------------
(* The process, its master key and the database *)

\* Plausible bug: what cannot be read is removed.
SetAsideRemoved(k) ==
    /\ bak' = bak
    /\ db' = [key |-> k, history |-> {}, wal |-> {}]

\* set_aside_unreadable_db: the one set aside before is removed, and so is
\* what this one has not yet taken over from its log.
SetAside(k) ==
    /\ bak' = [key |-> db.key, history |-> db.history \ db.wal]
    /\ db' = [key |-> k, history |-> {}, wal |-> {}]

\* email_db_init.  Whatever the reason of a failed query, the file is taken
\* for one of another key.
OpenDatabase(k) == IF db.key = k THEN UNCHANGED database ELSE SetAside(k)

\* db_master_key_hex keeps what the platform hands out, or Kotlin injects,
\* for the life of the process.
MasterKey(k) == key' = [stored |-> k, cached |-> k]

\* An item is added for the new key, or the one that could not be read is
\* written over.
NewKey == key.stored + 1

\* systemOpen reads the file, then the database is opened.
Start ==
    /\ ~Running
    /\ MasterKey(HeldKey)
    /\ \/ LoadConfig(HeldKey) /\ OpenDatabase(HeldKey) /\ UNCHANGED faults
       \/ /\ LoadConfig(HeldKey) /\ db.key = HeldKey
          /\ Fault("unreadable") /\ SetAside(HeldKey)
       \/ /\ Taken(HeldKey) # {} /\ Fault("store") /\ UNCHANGED secrets
          /\ OpenDatabase(HeldKey)
    /\ UNCHANGED <<fixed, conf, page, sup, child, said, chats, edits>>

\* db_master_key_hex takes any failure to read the key for the first use and
\* makes a new one.  Android fails instead.
StartLocked ==
    /\ ~Running /\ platform # "android" /\ Fault("locked")
    /\ MasterKey(NewKey)
    /\ LoadConfig(NewKey)
    /\ SetAside(NewKey)
    /\ UNCHANGED <<fixed, conf, page, sup, child, said, chats, edits>>

Gone ==
    /\ key' = [key EXCEPT !.cached = 0]
    /\ page' = Idle /\ sup' = Idle
    /\ child' = [a \in Accounts |-> NoChild]
    /\ UNCHANGED <<fixed, secrets, bak, conf, said, chats, edits>>

\* The log of the database is written back when it is closed.
Quit ==
    /\ Running /\ page.at = "idle" /\ sup.at = "idle"
    /\ db' = [db EXCEPT !.wal = {}]
    /\ Gone
    /\ UNCHANGED faults

Crash ==
    /\ Running /\ Fault("crash")
    /\ Gone
    /\ UNCHANGED db
-----------------------------------------------------------------------------
(* Reading the file: email_config_load, by the page or by the supervisor *)

\* The order of the list.
First(list) == CHOOSE a \in list : TRUE

\* Between two calls, or while one runs if they may overlap.
Free(other) == "race" \in scenario \/ other.at \in {"idle", "open"}

\* A file that cannot be parsed has no accounts.
LoadBegins(p, p2) ==
    /\ p.at = "idle"
    /\ p2 = IF conf.torn THEN [Idle EXCEPT !.at = "failed"]
            ELSE [Idle EXCEPT !.at = "load", !.of = conf.of,
                              !.todo = {a \in Accounts : conf.of[a].in}]

\* One account: a secret in the file is stored, another one loaded.  The
\* file is scrubbed when one could be stored.
LoadOne(p, p2) ==
    /\ p.at = "load" /\ p.todo # {}
    /\ LET a == First(p.todo)
           got == [p EXCEPT !.todo = @ \ {a}, !.got[a] = Found(p.of, a, key.cached)]
       IN \/ /\ Put(p.of, a) /\ UNCHANGED faults
             /\ p2 = [got EXCEPT !.migrated = @ \/ p.of[a].plain # 0]
          \/ /\ ToPut(p.of, a, key.cached) /\ Fault("store") /\ UNCHANGED secrets
             /\ p2 = got

\* The file is opened for writing, which empties it.
Empties(p, p2) ==
    /\ p.at = "load" /\ p.todo = {} /\ p.migrated
    /\ conf' = [conf EXCEPT !.torn = TRUE]
    /\ p2 = [p EXCEPT !.at = "scrub"]

Written(of) == conf' = [torn |-> FALSE, of |-> of]

Scrubbed(of) == [a \in Accounts |-> [of[a] EXCEPT !.plain = 0]]

Scrub(p, p2) ==
    /\ p.at = "scrub"
    /\ Written(Scrubbed(p.of))
    /\ p2 = [p EXCEPT !.at = "loaded"]

LoadEnds(p) ==
    \/ p.at \in {"loaded", "failed"}
    \/ p.at = "load" /\ p.todo = {} /\ ~p.migrated
-----------------------------------------------------------------------------
(* The accounts page *)

PageLoads ==
    /\ Running
    /\ \/ /\ Free(sup) /\ LoadBegins(page, page')
          /\ UNCHANGED <<secrets, conf, faults>>
       \/ LoadOne(page, page') /\ UNCHANGED conf
       \/ Empties(page, page') /\ UNCHANGED <<secrets, faults>>
       \/ Scrub(page, page') /\ UNCHANGED <<secrets, faults>>
    /\ UNCHANGED <<fixed, key, database, sup, child, said, chats, edits>>

PageOpens ==
    /\ LoadEnds(page)
    /\ page' = [page EXCEPT !.at = "open"]
    /\ UNCHANGED <<fixed, key, secrets, database, conf, sup, child, said, chats,
                   edits, faults>>

PageCloses ==
    /\ page.at = "open"
    /\ page' = Idle
    /\ UNCHANGED <<fixed, key, secrets, database, conf, sup, child, said, chats,
                   edits, faults>>

\* email_config_save stores the secrets it is given first.
Saving(p) == [p EXCEPT !.at = "save", !.todo = {a \in Accounts : p.of[a].in /\ p.got[a] # 0}]

Entered(p, a, secret) == [p EXCEPT !.of[a].in = TRUE, !.got[a] = secret]
Removed(p, a) == [p EXCEPT !.of[a].in = FALSE, !.got[a] = 0]

\* The user enters a new secret for an account of the list or one added to
\* it, or edits something else.
Edit ==
    /\ page.at = "open" /\ Free(sup)
    /\ edits < MaxEdits /\ edits' = edits + 1
    /\ \E a \in Accounts :
          \/ page' = Saving(Entered(page, a, edits + 2))
          \/ page.of[a].in /\ page' = Saving(page)
    /\ UNCHANGED <<fixed, key, secrets, database, conf, sup, child, said, chats,
                   faults>>

\* oemailim_delete_account_data, then the list without the account is saved.
Delete ==
    /\ page.at = "open" /\ Free(sup)
    /\ edits < MaxEdits /\ edits' = edits + 1
    /\ \E a \in Accounts :
          /\ page.of[a].in
          /\ db' = [db EXCEPT !.history = @ \ {a}, !.wal = @ \ {a}]
          /\ DropSecret(a)
          /\ page' = Saving(Removed(page, a))
          /\ said' = [said EXCEPT ![a] = 0]
          /\ chats' = chats \ {a}
    /\ UNCHANGED <<fixed, key, bak, conf, sup, child, faults>>

\* Whether a secret could be stored is not looked at.
SaveSecret ==
    /\ page.at = "save" /\ page.todo # {}
    /\ page' = [page EXCEPT !.todo = @ \ {First(page.todo)}]
    /\ \/ Store(First(page.todo), page.got[First(page.todo)]) /\ UNCHANGED faults
       \/ Fault("store") /\ UNCHANGED secrets
    /\ UNCHANGED <<fixed, key, database, conf, sup, child, said, chats, edits>>

SaveEmpties ==
    /\ page.at = "save" /\ page.todo = {}
    /\ page' = [page EXCEPT !.at = "write"]
    /\ conf' = [conf EXCEPT !.torn = TRUE]
    /\ UNCHANGED <<fixed, key, secrets, database, sup, child, said, chats, edits,
                   faults>>

\* The file is whole again, without secrets; the user is told.
SaveWrites ==
    /\ page.at = "write"
    /\ Written(Scrubbed(page.of))
    /\ page' = [page EXCEPT !.at = "open"]
    /\ said' = [a \in Accounts |-> IF ~page.of[a].in THEN 0
                                   ELSE IF page.got[a] # 0 THEN page.got[a] ELSE said[a]]
    /\ UNCHANGED <<fixed, key, secrets, database, sup, child, chats, edits, faults>>
-----------------------------------------------------------------------------
(* The supervisor *)

SupervisorLoads ==
    /\ Running
    /\ \/ /\ Free(page) /\ LoadBegins(sup, sup')
          /\ UNCHANGED <<secrets, conf, faults>>
       \/ LoadOne(sup, sup') /\ UNCHANGED conf
       \/ Empties(sup, sup') /\ UNCHANGED <<secrets, faults>>
       \/ Scrub(sup, sup') /\ UNCHANGED <<secrets, faults>>
    /\ UNCHANGED <<fixed, key, database, page, child, said, chats, edits>>

\* OpenNewEmail, which reads the file again.
Opened(a) ==
    IF conf.torn \/ ~conf.of[a].in THEN NoChild
    ELSE [open |-> TRUE, secret |-> sup.got[a]]

\* scanConfigAndStart: no children for an account that is not in the list,
\* new ones for a new secret.
Wanted(a) == sup.at # "failed" /\ sup.of[a].in
Kept(a) == child[a].open /\ child[a].secret = sup.got[a]
Scanned(a) ==
    IF ~Wanted(a) THEN NoChild ELSE IF Kept(a) THEN child[a] ELSE Opened(a)

Scan ==
    /\ LoadEnds(sup)
    /\ child' = [a \in Accounts |-> Scanned(a)]
    /\ IF \E a \in Accounts : Wanted(a) /\ ~Kept(a)
       THEN LoadConfig(key.cached) ELSE UNCHANGED secrets
    /\ sup' = Idle
    /\ UNCHANGED <<fixed, key, database, conf, page, said, chats, edits, faults>>
-----------------------------------------------------------------------------
(* The children *)

\* A child fetches or sends: new rows, in the log at first.
Converse ==
    /\ \E a \in Accounts :
          /\ child[a].open
          /\ chats' = IF said[a] # 0 THEN chats \cup {a} ELSE chats
          /\ db' = [db EXCEPT !.history = @ \cup {a},
                              !.wal = IF a \in db.history THEN @ ELSE @ \cup {a}]
    /\ UNCHANGED <<fixed, key, secrets, bak, conf, page, sup, child, said, edits, faults>>
-----------------------------------------------------------------------------
(* What a backup has of the secrets *)

\* snapshot_secrets: a vault that does not open stops the export, and so does
\* (exportStoppedSnapshot) a file that cannot be parsed.
StoreOpens == OnWindows \/ Unseals(HeldKey)
Exports == ~conf.torn /\ StoreOpens

\* What the file still has comes before the store.
Archived(a) == IF conf.of[a].plain # 0 THEN conf.of[a].plain ELSE Stored(a, HeldKey)
-----------------------------------------------------------------------------
Working == Start \/ PageLoads \/ PageOpens \/ SaveSecret \/ SaveEmpties \/ SaveWrites

Supervising == SupervisorLoads \/ Scan

Next ==
    \/ Working \/ Supervising \/ StartLocked \/ Quit \/ Crash
    \/ PageCloses \/ Edit \/ Delete
    \/ Converse

Spec == Init /\ [][Next]_vars /\ WF_vars(Working) /\ SF_vars(Supervising)
-----------------------------------------------------------------------------
(* Properties *)

Without(set) == scenario \cap set = {}

\* The store as the next start will find it.
Recoverable(a) == Secret(a, HeldKey)

\* A secret the user was told is saved, or a newer one, is in the file, which
\* can be read, or in the store, wherever the process dies: moving a secret never drops it.
\* Only a platform that withholds the key or refuses a secret, and the page
\* and the supervisor at once, can do that.
SecretAlwaysKept ==
    \A a \in Accounts :
        \/ ~conf.torn /\ said[a] <= conf.of[a].plain
        \/ said[a] <= Recoverable(a)

\* So is it in a backup, whenever one can be made.  Items of older releases are
\* not looked at: their accounts go without.
SecretInBackup ==
    Running /\ Exports => \A a \in Accounts :
        conf.of[a].in /\ ItemRead(a) = 0 => said[a] <= Archived(a)

\* Both, when the platform keeps and gives what it is asked to, and one process
\* writes at a time.
SecretKept ==
    Without({"locked", "store", "race"}) => SecretAlwaysKept /\ SecretInBackup

\* The conversations of an account that was not deleted are in the database
\* or in the one set aside, under the key the platform keeps: one failed
\* query after a clean exit loses nothing for good.
HistoryAlwaysKept ==
    \A a \in chats :
        \/ a \in db.history
        \/ a \in bak.history /\ bak.key = key.stored

HistoryKept == Without({"locked", "crash"}) /\ faults <= 1 => HistoryAlwaysKept

\* Nothing of a deleted account is in the database once its children are gone.
DeletedIsGone ==
    \A a \in Accounts : said[a] = 0 /\ child[a] = NoChild => a \notin db.history
=============================================================================
