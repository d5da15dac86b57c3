--------------------------- MODULE Accounts_proofs ---------------------------
(***************************************************************************)
(* Theorems about the accounts of an installation, for any number of       *)
(* accounts, edits and faults: what was saved is not lost while secrets    *)
(* are moved, nor are the conversations when a database does not open.     *)
(***************************************************************************)
EXTENDS Accounts, TLAPS

\* What a list of accounts says, and what the page and the supervisor hold.
List == [Accounts -> [in : BOOLEAN, plain : Nat]]
Step == {"idle", "load", "scrub", "loaded", "failed", "open", "save", "write"}
Reader == [at : Step, todo : SUBSET Accounts, of : List, got : [Accounts -> Nat],
           migrated : BOOLEAN]
Vault == [key : Nat, of : [Accounts -> Nat]]
Child == [open : BOOLEAN, secret : Nat]

\* Every variable keeps its shape.
TypeOK ==
    /\ platform \in Platforms /\ scenario \in Scenarios
    /\ key \in [stored : Nat, cached : Nat]
    /\ vault \in Vault /\ items \in [Accounts -> Nat]
    /\ db \in [key : Nat, history : SUBSET Accounts, wal : SUBSET Accounts]
    /\ bak \in [key : Nat, history : SUBSET Accounts]
    /\ conf \in [torn : BOOLEAN, of : List]
    /\ page \in Reader /\ sup \in Reader
    /\ child \in [Accounts -> Child]
    /\ said \in [Accounts -> Nat] /\ chats \subseteq Accounts
    /\ edits \in Nat /\ faults \in Nat

\* Without the process there is no page, no supervisor and no child.
OffInv ==
    ~Running => /\ page.at = "idle" /\ sup.at = "idle"
                /\ \A a \in Accounts : ~child[a].open

\* A platform that hands out its key has one key for ever, and it opens the
\* vault and the database.
KeyInv ==
    Without({"locked"}) =>
        /\ key.stored = 1 /\ key.cached \in {0, 1}
        /\ vault.key = 1 /\ db.key = 1

\* A process that ends by quitting leaves nothing in the log, and one fault
\* sets one database aside.
HistoryInv ==
    Without({"locked", "crash"}) =>
        /\ ~Running => db.wal = {}
        /\ faults = 0 => chats \subseteq db.history
        /\ faults <= 1 => HistoryAlwaysKept
-----------------------------------------------------------------------------
\* What the store has of a secret, wherever it lies.
Holding(a) == IF vault.of[a] # 0 THEN vault.of[a] ELSE items[a]

\* One of the page and the supervisor reads or writes at a time.
OneWriter ==
    /\ page.at \in {"idle", "open"} \/ sup.at = "idle"
    /\ sup.at \notin {"open", "save", "write"}

\* A file with secrets is older than any save.
FileInv(a) ==
    /\ conf.of[a].plain <= 1
    /\ conf.of[a].plain # 0 => conf.of[a].in /\ said[a] <= 1

\* Secrets are those of edits so far.
SecretsInv(a) ==
    /\ said[a] <= edits + 1 /\ page.got[a] <= edits + 1
    /\ vault.of[a] <= edits + 1 /\ items[a] <= edits + 1

\* A secret that was saved is in a file that is whole, or in the store.
KeptInv(a) ==
    \/ ~conf.torn /\ said[a] <= conf.of[a].plain
    \/ said[a] <= Holding(a)

\* Who reads the file has what it says, and has stored what it took from it.
ReadInv(p, a) ==
    /\ p.at = "load" => ~conf.torn
    /\ p.at = "scrub" => p.todo = {}
    /\ p.at \in {"load", "scrub"} =>
          /\ p.of = conf.of
          /\ p.of[a].plain # 0 /\ a \notin p.todo => vault.of[a] # 0 /\ p.migrated

\* What the page shows is what the user was told or newer; once it shows the
\* list, no secret is left in the file, and one it has saved is in the store.
PageInv(a) ==
    /\ page.got[a] # 0 => said[a] <= page.got[a]
    /\ page.at \in {"failed", "loaded", "open", "save", "write"} =>
          conf.torn \/ conf.of[a].plain = 0
    /\ page.at = "save" /\ a \in page.todo => page.got[a] # 0
    /\ page.at = "write" => page.todo = {}
    /\ page.at \in {"save", "write"} /\ page.of[a].in /\ page.got[a] # 0 /\ a \notin page.todo =>
          vault.of[a] = page.got[a]

\* All of this, for one account.
AccountInv(a) ==
    /\ FileInv(a) /\ SecretsInv(a) /\ KeptInv(a)
    /\ ReadInv(page, a) /\ ReadInv(sup, a) /\ PageInv(a)

\* The scenarios of SecretKept: the platform gives its key and takes every
\* secret, and one process writes at a time.
Quiet == Without({"locked", "store", "race"})

SecretInv == Quiet => OneWriter /\ \A a \in Accounts : AccountInv(a)
-----------------------------------------------------------------------------
(* Types *)

LEMMA NobodyReads ==
    /\ Idle \in Reader /\ Idle.at = "idle" /\ Idle.todo = {} /\ ~Idle.migrated
    /\ \A a \in Accounts : Idle.got[a] = 0 /\ Idle.of[a].plain = 0
    /\ NoChild \in Child /\ ~NoChild.open
  BY DEF Idle, Reader, Step, List, NoChild, Child

LEMMA FirstIsIn == ASSUME NEW S, S # {} PROVE First(S) \in S
  BY DEF First

\* What the steps make of a reader.
LEMMA ReaderMigrates ==
    ASSUME NEW p \in Reader, NEW b \in BOOLEAN
    PROVE  LET q == [p EXCEPT !.migrated = @ \/ b]
           IN  /\ q \in Reader /\ q.at = p.at /\ q.todo = p.todo /\ q.of = p.of
               /\ q.got = p.got /\ q.migrated = (p.migrated \/ b)
  BY DEF Reader

LEMMA ReaderGoes ==
    ASSUME NEW p \in Reader, NEW s \in Step
    PROVE  LET q == [p EXCEPT !.at = s]
           IN  /\ q \in Reader /\ q.at = s /\ q.todo = p.todo /\ q.of = p.of
               /\ q.got = p.got /\ q.migrated = p.migrated
  BY DEF Reader

LEMMA ReaderSaves ==
    ASSUME NEW p \in Reader
    PROVE  LET q == Saving(p)
           IN  /\ q \in Reader /\ q.at = "save" /\ q.of = p.of
               /\ q.got = p.got /\ q.migrated = p.migrated
               /\ \A a \in Accounts : a \in q.todo <=> p.of[a].in /\ p.got[a] # 0
  BY DEF Saving, Reader, Step

LEMMA ReaderEdits ==
    ASSUME NEW p \in Reader, NEW a \in Accounts, NEW x \in Nat
    PROVE  /\ LET q == Entered(p, a, x)
              IN  q \in Reader /\ \A b \in Accounts : q.got[b] \in {p.got[b], x}
           /\ LET q == Removed(p, a)
              IN  q \in Reader /\ q.got = [p.got EXCEPT ![a] = 0]
  <1>1. /\ Entered(p, a, x) \in Reader
        /\ \A b \in Accounts : Entered(p, a, x).got[b] \in {p.got[b], x}
    BY DEF Entered, Reader, List
  <1>2. Removed(p, a) \in Reader /\ Removed(p, a).got = [p.got EXCEPT ![a] = 0]
    BY DEF Removed, Reader, List
  <1>. QED  BY <1>1, <1>2

\* Moving a secret to the store leaves numbers in it.
LEMMA StoreType ==
    ASSUME TypeOK, NEW a \in Accounts, NEW s \in Nat, Store(a, s)
    PROVE  vault' \in Vault /\ items' \in [Accounts -> Nat]
  <1>1. CASE OnWindows
    BY <1>1 DEF Store, UpsertItem, CredWrite, ItemDeleted, TypeOK, Vault
  <1>2. CASE ~OnWindows
    <2>1. VaultRead(key.cached) \in [Accounts -> Nat]
      BY DEF VaultRead, TypeOK, Vault
    <2>. QED  BY <1>2, <2>1 DEF Store, StoreInVault, VaultWith, Sealed, TypeOK, Vault
  <1>. QED  BY <1>1, <1>2

LEMMA StoredType ==
    ASSUME TypeOK, NEW a \in Accounts, NEW k \in Nat
    PROVE  Stored(a, k) \in Nat /\ Secret(a, k) \in Nat /\ ItemRead(a) \in Nat
  BY DEF Stored, Secret, CredRead, ItemRead, VaultRead, TypeOK, Vault

LEMMA MoveType ==
    ASSUME TypeOK, NEW a \in Accounts, Move(a)
    PROVE  vault' \in Vault /\ items' \in [Accounts -> Nat]
  <1>1. CASE OnWindows
    BY <1>1 DEF Move, UpsertItem, CredWrite, ItemDeleted, ItemRead, TypeOK, Vault
  <1>2. CASE ~OnWindows
    <2>1. VaultRead(key.cached) \in [Accounts -> Nat]
      BY DEF VaultRead, TypeOK, Vault
    <2>. QED
      BY <1>2, <2>1 DEF Move, MoveToVault, VaultWith, Sealed, ItemDeleted, ItemRead, TypeOK, Vault
  <1>. QED  BY <1>1, <1>2

LEMMA PutType ==
    ASSUME TypeOK, NEW of \in List, NEW a \in Accounts, Put(of, a)
    PROVE  vault' \in Vault /\ items' \in [Accounts -> Nat]
  <1>1. of[a].plain \in Nat
    BY DEF List
  <1>. QED  BY <1>1, StoreType, MoveType DEF Put, secrets, TypeOK

LEMMA FoundType ==
    ASSUME TypeOK, NEW of \in List, NEW a \in Accounts, NEW k \in Nat
    PROVE  Found(of, a, k) \in Nat
  BY StoredType DEF Found, List

LEMMA LoadType ==
    ASSUME TypeOK, NEW k \in Nat, LoadConfig(k)
    PROVE  vault' \in Vault /\ items' \in [Accounts -> Nat]
  <1>1. conf.of \in List
    BY DEF TypeOK
  <1>2. \A a \in Accounts : Found(conf.of, a, k) \in Nat /\ Stored(a, k) \in Nat
    BY <1>1, FoundType, StoredType
  <1>3. vault' \in Vault
    BY <1>2 DEF LoadConfig, Sealed, TypeOK, Vault
  <1>4. items' \in [Accounts -> Nat]
    BY DEF LoadConfig, TypeOK
  <1>. QED  BY <1>3, <1>4

LEMMA DropType ==
    ASSUME TypeOK, NEW a \in Accounts, DropSecret(a)
    PROVE  vault' \in Vault /\ items' \in [Accounts -> Nat]
  <1>1. CASE OnWindows
    BY <1>1 DEF DropSecret, DeleteItem, CredWrite, ItemDeleted, TypeOK, Vault
  <1>2. CASE ~OnWindows
    <2>1. VaultRead(key.cached) \in [Accounts -> Nat]
      BY DEF VaultRead, TypeOK, Vault
    <2>. QED
      BY <1>2, <2>1 DEF DropSecret, DropFromVault, VaultWith, Sealed, ItemDeleted, TypeOK, Vault
  <1>. QED  BY <1>1, <1>2

LEMMA FaultType ==
    ASSUME TypeOK, NEW f, Fault(f)
    PROVE  f \in scenario /\ faults' \in Nat /\ faults' = faults + 1
  BY DEF Fault, TypeOK

LEMMA BeginsIs ==
    ASSUME TypeOK, NEW p, NEW p2, LoadBegins(p, p2)
    PROVE  /\ p.at = "idle" /\ p2 \in Reader /\ ~p2.migrated
           /\ \A a \in Accounts : p2.got[a] = 0
           /\ \/ p2.at = "failed" /\ conf.torn
              \/ /\ p2.at = "load" /\ ~conf.torn /\ p2.of = conf.of
                 /\ \A a \in Accounts : conf.of[a].in => a \in p2.todo
  <1>1. CASE conf.torn
    <2>1. p2 = [Idle EXCEPT !.at = "failed"]
      BY <1>1 DEF LoadBegins
    <2>2. "failed" \in Step
      BY DEF Step
    <2>. QED  BY <1>1, <2>1, <2>2, ReaderGoes, NobodyReads DEF LoadBegins
  <1>2. CASE ~conf.torn
    <2>. DEFINE listed == {a \in Accounts : conf.of[a].in}
    <2>1. p2 = [Idle EXCEPT !.at = "load", !.of = conf.of, !.todo = listed]
      BY <1>2 DEF LoadBegins
    <2>2. conf.of \in List /\ listed \in SUBSET Accounts
      BY DEF TypeOK
    <2>3. p2 \in Reader /\ p2.at = "load" /\ p2.of = conf.of /\ p2.todo = listed
          /\ p2.got = Idle.got /\ p2.migrated = Idle.migrated
      BY <2>1, <2>2, NobodyReads DEF Reader, Step
    <2>. QED  BY <1>2, <2>3, NobodyReads DEF LoadBegins
  <1>. QED  BY <1>1, <1>2

LEMMA LoadOneIs ==
    ASSUME TypeOK, NEW p \in Reader, NEW p2, LoadOne(p, p2)
    PROVE  /\ p.at = "load" /\ p2 \in Reader /\ p2.at = "load" /\ p2.of = p.of
           /\ vault' \in Vault /\ items' \in [Accounts -> Nat] /\ faults' \in Nat
           /\ \E a \in Accounts :
                 /\ a \in p.todo /\ p2.todo = p.todo \ {a}
                 /\ p2.got = [p.got EXCEPT ![a] = Found(p.of, a, key.cached)]
                 /\ \/ /\ Put(p.of, a) /\ UNCHANGED faults
                       /\ p2.migrated = (p.migrated \/ p.of[a].plain # 0)
                    \/ /\ Fault("store") /\ UNCHANGED secrets
                       /\ p2.migrated = p.migrated
  <1>. DEFINE a == First(p.todo)
              got == [p EXCEPT !.todo = @ \ {a}, !.got[a] = Found(p.of, a, key.cached)]
  <1>1. p.at = "load" /\ p.todo # {} /\ p.todo \subseteq Accounts /\ p.of \in List
        /\ key.cached \in Nat /\ p.migrated \in BOOLEAN
    BY DEF LoadOne, Reader, TypeOK
  <1>2. a \in p.todo /\ a \in Accounts
    BY <1>1, FirstIsIn
  <1>3. Found(p.of, a, key.cached) \in Nat
    BY <1>1, <1>2, FoundType
  <1>4. /\ got \in Reader /\ got.at = "load" /\ got.todo = p.todo \ {a} /\ got.of = p.of
        /\ got.got = [p.got EXCEPT ![a] = Found(p.of, a, key.cached)]
        /\ got.migrated = p.migrated
    BY <1>1, <1>2, <1>3 DEF Reader
  <1>5. \/ /\ Put(p.of, a) /\ UNCHANGED faults
           /\ p2 = [got EXCEPT !.migrated = @ \/ p.of[a].plain # 0]
        \/ Fault("store") /\ UNCHANGED secrets /\ p2 = got
    BY DEF LoadOne
  <1>. HIDE DEF a, got
  <1>6. CASE /\ Put(p.of, a) /\ UNCHANGED faults
             /\ p2 = [got EXCEPT !.migrated = @ \/ p.of[a].plain # 0]
    <2>1. (p.of[a].plain # 0) \in BOOLEAN
      OBVIOUS
    <2>2. /\ p2 \in Reader /\ p2.at = got.at /\ p2.todo = got.todo /\ p2.of = got.of
          /\ p2.got = got.got /\ p2.migrated = (got.migrated \/ p.of[a].plain # 0)
      BY <1>4, <1>6, <2>1, ReaderMigrates
    <2>3. vault' \in Vault /\ items' \in [Accounts -> Nat] /\ faults' \in Nat
      BY <1>1, <1>2, <1>6, PutType DEF TypeOK
    <2>4. /\ a \in Accounts /\ a \in p.todo /\ p2.todo = p.todo \ {a}
          /\ p2.got = [p.got EXCEPT ![a] = Found(p.of, a, key.cached)]
          /\ Put(p.of, a) /\ UNCHANGED faults
          /\ p2.migrated = (p.migrated \/ p.of[a].plain # 0)
      BY <1>2, <1>4, <1>6, <2>2
    <2>5. p2.at = "load" /\ p2.of = p.of
      BY <1>4, <2>2
    <2>. QED  BY <1>1, <2>2, <2>3, <2>4, <2>5
  <1>7. CASE Fault("store") /\ UNCHANGED secrets /\ p2 = got
    <2>1. vault' \in Vault /\ items' \in [Accounts -> Nat] /\ faults' \in Nat
      BY <1>7, FaultType DEF TypeOK, secrets
    <2>. QED  BY <1>1, <1>2, <1>4, <1>7, <2>1
  <1>. QED  BY <1>5, <1>6, <1>7

LEMMA EmptiesIs ==
    ASSUME TypeOK, NEW p \in Reader, NEW p2, Empties(p, p2)
    PROVE  /\ p.at = "load" /\ p.todo = {} /\ p.migrated
           /\ p2 \in Reader /\ p2.at = "scrub" /\ p2.todo = {} /\ p2.of = p.of
           /\ p2.got = p.got /\ p2.migrated
           /\ conf' \in [torn : BOOLEAN, of : List] /\ conf'.torn /\ conf'.of = conf.of
  <1>1. "scrub" \in Step
    BY DEF Step
  <1>. QED  BY <1>1, ReaderGoes DEF Empties, TypeOK

LEMMA WrittenIs ==
    ASSUME NEW of \in List, Written(Scrubbed(of))
    PROVE  /\ conf' \in [torn : BOOLEAN, of : List] /\ ~conf'.torn
           /\ \A a \in Accounts : conf'.of[a].plain = 0 /\ conf'.of[a].in = of[a].in
  BY DEF Written, Scrubbed, List

LEMMA ScrubIs ==
    ASSUME NEW p \in Reader, NEW p2, Scrub(p, p2)
    PROVE  /\ p.at = "scrub"
           /\ p2 \in Reader /\ p2.at = "loaded" /\ p2.todo = p.todo /\ p2.of = p.of
           /\ p2.got = p.got /\ p2.migrated = p.migrated
           /\ conf' \in [torn : BOOLEAN, of : List] /\ ~conf'.torn
           /\ \A a \in Accounts : conf'.of[a].plain = 0
  <1>1. "loaded" \in Step /\ p.of \in List
    BY DEF Step, Reader
  <1>. QED  BY <1>1, ReaderGoes, WrittenIs DEF Scrub
-----------------------------------------------------------------------------
LEMMA InitType == ASSUME Init PROVE TypeOK
  <1>1. vault \in Vault /\ items \in [Accounts -> Nat] /\ conf \in [torn : BOOLEAN, of : List]
    BY DEF Init, Vault, List
  <1>2. page \in Reader /\ sup \in Reader /\ child \in [Accounts -> Child]
    BY NobodyReads DEF Init
  <1>. QED  BY <1>1, <1>2 DEF Init, TypeOK

\* One lemma per action.
LEMMA StartType == ASSUME TypeOK, Start PROVE TypeOK'
  <1>1. HeldKey \in Nat /\ key' \in [stored : Nat, cached : Nat]
    BY DEF HeldKey, Start, MasterKey, TypeOK
  <1>2. vault' \in Vault /\ items' \in [Accounts -> Nat] /\ faults' \in Nat
    BY <1>1, LoadType, FaultType DEF Start, secrets, TypeOK
  <1>3. /\ db' \in [key : Nat, history : SUBSET Accounts, wal : SUBSET Accounts]
        /\ bak' \in [key : Nat, history : SUBSET Accounts]
    BY <1>1 DEF Start, OpenDatabase, SetAside, database, TypeOK
  <1>. QED  BY <1>1, <1>2, <1>3 DEF Start, fixed, TypeOK

LEMMA LockedType == ASSUME TypeOK, StartLocked PROVE TypeOK'
  <1>1. NewKey \in Nat /\ key' \in [stored : Nat, cached : Nat]
    BY DEF NewKey, StartLocked, MasterKey, TypeOK
  <1>2. vault' \in Vault /\ items' \in [Accounts -> Nat] /\ faults' \in Nat
    BY <1>1, LoadType, FaultType DEF StartLocked, TypeOK
  <1>3. /\ db' \in [key : Nat, history : SUBSET Accounts, wal : SUBSET Accounts]
        /\ bak' \in [key : Nat, history : SUBSET Accounts]
    BY <1>1 DEF StartLocked, SetAside, TypeOK
  <1>. QED  BY <1>1, <1>2, <1>3 DEF StartLocked, fixed, TypeOK

LEMMA GoneType == ASSUME TypeOK, Quit \/ Crash PROVE TypeOK'
  <1>1. key' \in [stored : Nat, cached : Nat] /\ faults' \in Nat
    BY FaultType DEF Quit, Crash, Gone, TypeOK
  <1>2. db' \in [key : Nat, history : SUBSET Accounts, wal : SUBSET Accounts]
    BY DEF Quit, Crash, TypeOK
  <1>3. page' \in Reader /\ sup' \in Reader /\ child' \in [Accounts -> Child]
    BY NobodyReads DEF Quit, Crash, Gone
  <1>. QED  BY <1>1, <1>2, <1>3 DEF Quit, Crash, Gone, fixed, secrets, TypeOK

LEMMA PageLoadsType == ASSUME TypeOK, PageLoads PROVE TypeOK'
  <1>1. page \in Reader
    BY DEF TypeOK
  <1>2. /\ page' \in Reader /\ vault' \in Vault /\ items' \in [Accounts -> Nat] /\ faults' \in Nat
        /\ conf' \in [torn : BOOLEAN, of : List]
    <2>1. CASE LoadBegins(page, page') /\ UNCHANGED <<secrets, conf, faults>>
      BY <2>1, BeginsIs DEF secrets, TypeOK
    <2>2. CASE LoadOne(page, page') /\ UNCHANGED conf
      BY <1>1, <2>2, LoadOneIs DEF TypeOK
    <2>3. CASE Empties(page, page') /\ UNCHANGED <<secrets, faults>>
      BY <1>1, <2>3, EmptiesIs DEF secrets, TypeOK
    <2>4. CASE Scrub(page, page') /\ UNCHANGED <<secrets, faults>>
      BY <1>1, <2>4, ScrubIs DEF secrets, TypeOK
    <2>. QED  BY <2>1, <2>2, <2>3, <2>4 DEF PageLoads
  <1>. QED  BY <1>2 DEF PageLoads, fixed, database, TypeOK

LEMMA SupervisorLoadsType == ASSUME TypeOK, SupervisorLoads PROVE TypeOK'
  <1>1. sup \in Reader
    BY DEF TypeOK
  <1>2. /\ sup' \in Reader /\ vault' \in Vault /\ items' \in [Accounts -> Nat] /\ faults' \in Nat
        /\ conf' \in [torn : BOOLEAN, of : List]
    <2>1. CASE LoadBegins(sup, sup') /\ UNCHANGED <<secrets, conf, faults>>
      BY <2>1, BeginsIs DEF secrets, TypeOK
    <2>2. CASE LoadOne(sup, sup') /\ UNCHANGED conf
      BY <1>1, <2>2, LoadOneIs DEF TypeOK
    <2>3. CASE Empties(sup, sup') /\ UNCHANGED <<secrets, faults>>
      BY <1>1, <2>3, EmptiesIs DEF secrets, TypeOK
    <2>4. CASE Scrub(sup, sup') /\ UNCHANGED <<secrets, faults>>
      BY <1>1, <2>4, ScrubIs DEF secrets, TypeOK
    <2>. QED  BY <2>1, <2>2, <2>3, <2>4 DEF SupervisorLoads
  <1>. QED  BY <1>2 DEF SupervisorLoads, fixed, database, TypeOK

LEMMA PageType == ASSUME TypeOK, PageOpens \/ PageCloses \/ SaveEmpties PROVE TypeOK'
  <1>1. page \in Reader /\ "open" \in Step /\ "write" \in Step
    BY DEF TypeOK, Step
  <1>2. page' \in Reader
    BY <1>1, ReaderGoes, NobodyReads DEF PageOpens, PageCloses, SaveEmpties
  <1>3. conf' \in [torn : BOOLEAN, of : List]
    BY DEF PageOpens, PageCloses, SaveEmpties, TypeOK
  <1>. QED  BY <1>2, <1>3 DEF PageOpens, PageCloses, SaveEmpties, fixed, secrets, database, TypeOK

\* What the user enters, and what is saved then.
LEMMA EditIs ==
    ASSUME TypeOK, Edit
    PROVE  /\ page.at = "open" /\ edits' = edits + 1 /\ edits' \in Nat
           /\ page' \in Reader /\ page'.at = "save"
           /\ \A a \in Accounts : a \in page'.todo <=> page'.of[a].in /\ page'.got[a] # 0
           /\ \A a \in Accounts : page'.got[a] \in {page.got[a], edits + 2}
  <1>0. page \in Reader /\ edits \in Nat
    BY DEF TypeOK
  <1>. PICK a \in Accounts :
         \/ page' = Saving(Entered(page, a, edits + 2))
         \/ page' = Saving(page)
    BY DEF Edit
  <1>1. CASE page' = Saving(page)
    BY <1>0, <1>1, ReaderSaves DEF Edit
  <1>2. CASE page' = Saving(Entered(page, a, edits + 2))
    <2>1. edits + 2 \in Nat
      BY <1>0
    <2>2. /\ Entered(page, a, edits + 2) \in Reader
          /\ \A b \in Accounts : Entered(page, a, edits + 2).got[b] \in {page.got[b], edits + 2}
      BY <1>0, <2>1, ReaderEdits
    <2>. QED  BY <1>0, <1>2, <2>2, ReaderSaves DEF Edit
  <1>. QED  BY <1>1, <1>2

LEMMA DeleteIs ==
    ASSUME TypeOK, Delete
    PROVE  /\ page.at = "open" /\ edits' = edits + 1 /\ edits' \in Nat
           /\ page' \in Reader /\ page'.at = "save"
           /\ \A a \in Accounts : a \in page'.todo <=> page'.of[a].in /\ page'.got[a] # 0
           /\ \E a \in Accounts :
                 /\ db' = [db EXCEPT !.history = @ \ {a}, !.wal = @ \ {a}]
                 /\ DropSecret(a)
                 /\ page'.got = [page.got EXCEPT ![a] = 0]
                 /\ said' = [said EXCEPT ![a] = 0]
                 /\ chats' = chats \ {a}
  <1>0. page \in Reader /\ edits \in Nat
    BY DEF TypeOK
  <1>. PICK a \in Accounts :
         /\ db' = [db EXCEPT !.history = @ \ {a}, !.wal = @ \ {a}]
         /\ DropSecret(a)
         /\ page' = Saving(Removed(page, a))
         /\ said' = [said EXCEPT ![a] = 0]
         /\ chats' = chats \ {a}
    BY DEF Delete
  <1>1. Removed(page, a) \in Reader /\ Removed(page, a).got = [page.got EXCEPT ![a] = 0]
    BY <1>0, ReaderEdits, 0 \in Nat
  <1>2. /\ page' \in Reader /\ page'.at = "save"
        /\ page'.got = [page.got EXCEPT ![a] = 0]
        /\ \A b \in Accounts : b \in page'.todo <=> page'.of[b].in /\ page'.got[b] # 0
    BY <1>1, ReaderSaves
  <1>3. page.at = "open" /\ edits' = edits + 1 /\ edits' \in Nat
    BY <1>0 DEF Delete
  <1>. QED  BY <1>2, <1>3

LEMMA EditType == ASSUME TypeOK, Edit PROVE TypeOK'
  BY EditIs DEF Edit, fixed, secrets, database, TypeOK

LEMMA DeleteType == ASSUME TypeOK, Delete PROVE TypeOK'
  <1>1. PICK a \in Accounts :
          /\ db' = [db EXCEPT !.history = @ \ {a}, !.wal = @ \ {a}]
          /\ DropSecret(a)
          /\ said' = [said EXCEPT ![a] = 0]
          /\ chats' = chats \ {a}
    BY DeleteIs
  <1>2. vault' \in Vault /\ items' \in [Accounts -> Nat]
    BY <1>1, DropType
  <1>3. /\ db' \in [key : Nat, history : SUBSET Accounts, wal : SUBSET Accounts]
        /\ said' \in [Accounts -> Nat] /\ chats' \subseteq Accounts
    BY <1>1 DEF TypeOK
  <1>4. page' \in Reader /\ edits' \in Nat
    BY DeleteIs
  <1>. QED  BY <1>2, <1>3, <1>4 DEF Delete, fixed, TypeOK

\* Saving one secret more, or failing to.
LEMMA SaveSecretIs ==
    ASSUME TypeOK, SaveSecret
    PROVE  /\ page.at = "save" /\ page' \in Reader /\ page'.at = "save"
           /\ page'.of = page.of /\ page'.got = page.got
           /\ \E a \in Accounts :
                 /\ a \in page.todo /\ page'.todo = page.todo \ {a}
                 /\ page.got[a] \in Nat
                 /\ \/ Store(a, page.got[a]) /\ UNCHANGED faults
                    \/ Fault("store") /\ UNCHANGED secrets
  <1>. DEFINE a == First(page.todo)
  <1>1. page \in Reader /\ page.todo # {} /\ page.at = "save"
        /\ page' = [page EXCEPT !.todo = @ \ {a}]
        /\ \/ Store(a, page.got[a]) /\ UNCHANGED faults
           \/ Fault("store") /\ UNCHANGED secrets
    BY DEF SaveSecret, TypeOK
  <1>2. a \in page.todo
    BY <1>1, FirstIsIn
  <1>. HIDE DEF a
  <1>3. a \in Accounts /\ page.got[a] \in Nat
    BY <1>1, <1>2 DEF Reader
  <1>4. /\ page' \in Reader /\ page'.at = "save" /\ page'.of = page.of
        /\ page'.got = page.got /\ page'.todo = page.todo \ {a}
    BY <1>1 DEF Reader
  <1>. QED  BY <1>1, <1>2, <1>3, <1>4

LEMMA SaveSecretType == ASSUME TypeOK, SaveSecret PROVE TypeOK'
  <1>1. page' \in Reader
    BY SaveSecretIs
  <1>2. vault' \in Vault /\ items' \in [Accounts -> Nat] /\ faults' \in Nat
    BY SaveSecretIs, StoreType, FaultType DEF secrets, TypeOK
  <1>. QED  BY <1>1, <1>2 DEF SaveSecret, fixed, database, TypeOK

LEMMA SaveWritesType == ASSUME TypeOK, SaveWrites PROVE TypeOK'
  <1>1. page \in Reader /\ page.of \in List /\ page.got \in [Accounts -> Nat] /\ "open" \in Step
    BY DEF TypeOK, Reader, Step
  <1>2. page' \in Reader
    BY <1>1, ReaderGoes DEF SaveWrites
  <1>3. conf' \in [torn : BOOLEAN, of : List]
    BY <1>1, WrittenIs DEF SaveWrites
  <1>4. said' \in [Accounts -> Nat]
    BY <1>1 DEF SaveWrites, TypeOK
  <1>. QED  BY <1>2, <1>3, <1>4 DEF SaveWrites, fixed, secrets, database, TypeOK

LEMMA ScanType == ASSUME TypeOK, Scan PROVE TypeOK'
  <1>1. vault' \in Vault /\ items' \in [Accounts -> Nat]
    BY LoadType DEF Scan, secrets, TypeOK
  <1>2. sup' \in Reader
    BY NobodyReads DEF Scan
  <1>3. \A a \in Accounts : Scanned(a) \in Child
    BY NobodyReads DEF Scanned, Opened, Child, TypeOK, Reader
  <1>4. child' \in [Accounts -> Child]
    BY <1>3 DEF Scan
  <1>. QED  BY <1>1, <1>2, <1>4 DEF Scan, fixed, database, TypeOK

LEMMA ConverseType == ASSUME TypeOK, Converse PROVE TypeOK'
  <1>1. PICK a \in Accounts :
          /\ chats' = IF said[a] # 0 THEN chats \cup {a} ELSE chats
          /\ db' = [db EXCEPT !.history = @ \cup {a},
                              !.wal = IF a \in db.history THEN @ ELSE @ \cup {a}]
    BY DEF Converse
  <1>2. /\ db' \in [key : Nat, history : SUBSET Accounts, wal : SUBSET Accounts]
        /\ chats' \subseteq Accounts
    BY <1>1 DEF TypeOK
  <1>. QED  BY <1>2 DEF Converse, fixed, secrets, TypeOK

LEMMA NextType == ASSUME TypeOK, [Next]_vars PROVE TypeOK'
  <1>1. CASE UNCHANGED vars
    BY <1>1 DEF vars, fixed, secrets, database, TypeOK
  <1>. QED
    BY <1>1, StartType, LockedType, GoneType, PageLoadsType, SupervisorLoadsType, PageType,
       EditType, DeleteType, SaveSecretType, SaveWritesType, ScanType, ConverseType
       DEF Next, Working, Supervising

\* The accounts, secrets and databases are always what the code has.
THEOREM TypeCorrect == Spec => []TypeOK
  <1>. QED  BY InitType, NextType, PTL DEF Spec
-----------------------------------------------------------------------------
(* A process that ended has nobody, and a platform that keeps its key has    *)
(* one                                                                       *)

LEMMA OffInit == ASSUME Init PROVE OffInv
  BY NobodyReads DEF Init, OffInv

LEMMA OffNext == ASSUME TypeOK, OffInv, [Next]_vars PROVE OffInv'
  <1>1. CASE UNCHANGED vars
    BY <1>1 DEF vars, OffInv, Running
  <1>2. CASE Start \/ StartLocked
    BY <1>2 DEF Start, StartLocked, MasterKey, OffInv, Running
  <1>3. CASE Quit \/ Crash
    BY <1>3, NobodyReads DEF Quit, Crash, Gone, OffInv
  <1>4. CASE PageLoads \/ SupervisorLoads
    BY <1>4 DEF PageLoads, SupervisorLoads, OffInv, Running
  <1>5. CASE PageOpens \/ PageCloses \/ Edit \/ Delete \/ SaveSecret \/ SaveEmpties \/ SaveWrites
    <2>1. Running /\ key' = key
      BY <1>5 DEF PageOpens, PageCloses, Edit, Delete, SaveSecret, SaveEmpties, SaveWrites,
                  LoadEnds, OffInv
    <2>. QED  BY <2>1 DEF OffInv, Running
  <1>6. CASE Scan
    <2>1. Running /\ key' = key
      BY <1>6 DEF Scan, LoadEnds, OffInv
    <2>. QED  BY <2>1 DEF OffInv, Running
  <1>7. CASE Converse
    <2>1. Running /\ key' = key
      BY <1>7 DEF Converse, OffInv
    <2>. QED  BY <2>1 DEF OffInv, Running
  <1>. QED  BY <1>1, <1>2, <1>3, <1>4, <1>5, <1>6, <1>7 DEF Next, Working, Supervising

\* What moving a secret does to it: it stays, wherever it then lies, or one
\* from elsewhere takes its place.
Stays(a) ==
    /\ Holding(a)' = Holding(a)
    /\ vault'.of[a] \in {vault.of[a], items[a]} /\ items'[a] \in {0, items[a]}
    /\ vault.of[a] # 0 => vault'.of[a] = vault.of[a]

Becomes(a, s) == vault'.of[a] = s /\ items'[a] \in {0, items[a]}

LEMMA NothingMoves ==
    ASSUME TypeOK, UNCHANGED secrets, NEW a \in Accounts
    PROVE  Stays(a)
  BY DEF Stays, Holding, secrets

LEMMA Opens ==
    ASSUME TypeOK, NEW a \in Accounts, NEW k, vault.key = k
    PROVE  /\ Stored(a, k) = vault.of[a] /\ VaultRead(k) = vault.of
           /\ Secret(a, k) = Holding(a)
  BY DEF Stored, CredRead, VaultRead, Unseals, Secret, ItemRead, Holding

LEMMA StoreIs ==
    ASSUME TypeOK, vault.key = key.cached, NEW a \in Accounts, NEW s \in Nat, Store(a, s)
    PROVE  /\ vault'.key = vault.key /\ Becomes(a, s)
           /\ \A b \in Accounts \ {a} : Stays(b)
  <1>1. VaultRead(key.cached) = vault.of
    BY Opens DEF VaultRead, Unseals
  <1>2. /\ vault'.key = vault.key
        /\ vault'.of = [vault.of EXCEPT ![a] = s]
        /\ items' = items \/ items' = [items EXCEPT ![a] = 0]
    BY <1>1 DEF Store, UpsertItem, CredWrite, ItemDeleted, StoreInVault, VaultWith, Sealed,
                TypeOK, Vault
  <1>. QED  BY <1>2 DEF Becomes, Stays, Holding, TypeOK, Vault

LEMMA MoveIs ==
    ASSUME TypeOK, vault.key = key.cached, NEW a \in Accounts, Move(a),
           vault.of[a] = 0, items[a] # 0
    PROVE  vault'.key = vault.key /\ \A b \in Accounts : Stays(b)
  <1>1. VaultRead(key.cached) = vault.of
    BY DEF VaultRead, Unseals
  <1>2. /\ vault'.key = vault.key
        /\ vault'.of = [vault.of EXCEPT ![a] = items[a]]
        /\ items' = [items EXCEPT ![a] = 0]
    BY <1>1 DEF Move, MoveToVault, UpsertItem, CredWrite, ItemDeleted, ItemRead, VaultWith,
                Sealed, TypeOK, Vault
  <1>. QED  BY <1>2 DEF Stays, Holding, TypeOK, Vault

LEMMA DropIs ==
    ASSUME TypeOK, vault.key = key.cached, NEW a \in Accounts, DropSecret(a)
    PROVE  /\ vault'.key = vault.key /\ Becomes(a, 0)
           /\ \A b \in Accounts \ {a} : Stays(b)
  <1>1. VaultRead(key.cached) = vault.of
    BY DEF VaultRead, Unseals
  <1>2. /\ vault'.key = vault.key
        /\ vault'.of = [vault.of EXCEPT ![a] = 0]
        /\ items' = [items EXCEPT ![a] = 0]
    BY <1>1 DEF DropSecret, DeleteItem, CredWrite, ItemDeleted, DropFromVault, VaultWith,
                Sealed, TypeOK, Vault
  <1>. QED  BY <1>2 DEF Becomes, Stays, Holding, TypeOK, Vault

LEMMA PutIs ==
    ASSUME TypeOK, vault.key = key.cached, NEW of \in List, NEW a \in Accounts, Put(of, a)
    PROVE  /\ vault'.key = vault.key
           /\ \A b \in Accounts \ {a} : Stays(b)
           /\ IF of[a].plain # 0 THEN Becomes(a, of[a].plain) ELSE Stays(a)
  <1>1. CASE of[a].plain # 0
    <2>1. of[a].plain \in Nat /\ Store(a, of[a].plain)
      BY <1>1 DEF Put, List
    <2>. QED  BY <1>1, <2>1, StoreIs
  <1>2. CASE of[a].plain = 0 /\ ToMove(a, key.cached)
    <2>1. vault.of[a] = 0 /\ items[a] # 0
      BY <1>2, Opens DEF ToMove, ItemRead
    <2>. QED  BY <1>2, <2>1, MoveIs DEF Put
  <1>3. CASE of[a].plain = 0 /\ ~ToMove(a, key.cached)
    BY <1>3, NothingMoves DEF Put, secrets
  <1>. QED  BY <1>1, <1>2, <1>3

LEMMA LoadIs ==
    ASSUME TypeOK, NEW k \in Nat, vault.key = k, LoadConfig(k)
    PROVE  /\ vault'.key = vault.key
           /\ \A a \in Accounts :
                 \/ Stays(a) /\ (conf.torn \/ ~conf.of[a].in \/ conf.of[a].plain = 0)
                 \/ Becomes(a, conf.of[a].plain) /\ ~conf.torn /\ conf.of[a].plain # 0
  <1>1. vault'.key = vault.key
    BY DEF LoadConfig, Sealed
  <1>2. SUFFICES ASSUME NEW a \in Accounts
                 PROVE  \/ Stays(a) /\ (conf.torn \/ ~conf.of[a].in \/ conf.of[a].plain = 0)
                        \/ Becomes(a, conf.of[a].plain) /\ ~conf.torn /\ conf.of[a].plain # 0
    BY <1>1
  <1>3. /\ vault'.of[a] = IF a \in Taken(k) THEN Found(conf.of, a, k) ELSE vault.of[a]
        /\ items'[a] = IF a \in Taken(k) /\ (OnWindows \/ conf.of[a].plain = 0) THEN 0
                       ELSE items[a]
    <2>1. Stored(a, k) = vault.of[a]
      BY Opens
    <2>. QED  BY <2>1 DEF LoadConfig, Sealed
  <1>4. /\ a \in Taken(k) <=> /\ ~conf.torn /\ conf.of[a].in
                              /\ conf.of[a].plain # 0 \/ (vault.of[a] = 0 /\ items[a] # 0)
        /\ Found(conf.of, a, k) = IF conf.of[a].plain # 0 THEN conf.of[a].plain ELSE Holding(a)
    BY Opens DEF Taken, ToPut, ToMove, ItemRead, Found
  <1>. QED  BY <1>3, <1>4 DEF Stays, Becomes, Holding

LEMMA KeyInit == ASSUME Init PROVE KeyInv
  BY DEF Init, KeyInv

LEMMA KeyNext == ASSUME TypeOK, OffInv, KeyInv, [Next]_vars PROVE KeyInv'
  <1>. SUFFICES ASSUME Without({"locked"})'
                PROVE  /\ key'.stored = 1 /\ key'.cached \in {0, 1}
                       /\ vault'.key = 1 /\ db'.key = 1
    BY DEF KeyInv
  <1>0. scenario' = scenario
    BY DEF Next, Working, Supervising, Start, PageLoads, PageOpens, SaveSecret, SaveEmpties,
           SaveWrites, SupervisorLoads, Scan, StartLocked, Quit, Crash, Gone, PageCloses,
           Edit, Delete, Converse, vars, fixed
  <1>1. /\ key.stored = 1 /\ key.cached \in {0, 1} /\ vault.key = 1 /\ db.key = 1
        /\ "locked" \notin scenario
    BY <1>0 DEF KeyInv, Without
  <1>2. CASE UNCHANGED vars
    BY <1>1, <1>2 DEF vars, secrets, database
  <1>3. CASE Start
    <2>1. vault'.key = 1
      BY <1>1, <1>3, LoadIs DEF Start, HeldKey, secrets
    <2>2. key'.stored = 1 /\ key'.cached = 1
      BY <1>1, <1>3 DEF Start, MasterKey, HeldKey
    <2>3. db'.key = 1
      BY <1>1, <1>3 DEF Start, OpenDatabase, SetAside, HeldKey, database
    <2>. QED  BY <2>1, <2>2, <2>3
  <1>4. CASE StartLocked
    BY <1>1, <1>4 DEF StartLocked, Fault
  <1>5. CASE Quit \/ Crash
    <2>1. vault' = vault /\ key' = [key EXCEPT !.cached = 0]
      BY <1>5 DEF Quit, Crash, Gone, secrets
    <2>2. db'.key = db.key
      BY <1>5 DEF Quit, Crash, TypeOK
    <2>. QED  BY <1>1, <2>1, <2>2 DEF TypeOK
  <1>6. ASSUME Running, key' = key PROVE key.cached = 1 /\ vault.key = key.cached
    BY <1>1, <1>6 DEF Running
  <1>7. CASE PageLoads
    <2>1. page \in Reader /\ page.of \in List /\ Running /\ key' = key /\ db' = db
      BY <1>7 DEF TypeOK, Reader, PageLoads, database
    <2>2. vault'.key = 1
      <3>1. CASE LoadOne(page, page')
        <4>. PICK a \in Accounts :
               \/ Put(page.of, a)
               \/ UNCHANGED secrets
          BY <2>1, <3>1, LoadOneIs
        <4>. QED  BY <1>1, <1>6, <2>1, PutIs DEF secrets
      <3>2. CASE UNCHANGED secrets
        BY <1>1, <3>2 DEF secrets
      <3>. QED  BY <1>7, <3>1, <3>2 DEF PageLoads
    <2>. QED  BY <1>1, <2>1, <2>2
  <1>8. CASE SupervisorLoads
    <2>1. sup \in Reader /\ sup.of \in List /\ Running /\ key' = key /\ db' = db
      BY <1>8 DEF TypeOK, Reader, SupervisorLoads, database
    <2>2. vault'.key = 1
      <3>1. CASE LoadOne(sup, sup')
        <4>. PICK a \in Accounts :
               \/ Put(sup.of, a)
               \/ UNCHANGED secrets
          BY <2>1, <3>1, LoadOneIs
        <4>. QED  BY <1>1, <1>6, <2>1, PutIs DEF secrets
      <3>2. CASE UNCHANGED secrets
        BY <1>1, <3>2 DEF secrets
      <3>. QED  BY <1>8, <3>1, <3>2 DEF SupervisorLoads
    <2>. QED  BY <1>1, <2>1, <2>2
  <1>9. CASE PageOpens \/ PageCloses \/ Edit \/ SaveEmpties \/ SaveWrites
    BY <1>1, <1>9 DEF PageOpens, PageCloses, Edit, SaveEmpties, SaveWrites, secrets, database
  <1>10. CASE Delete
    <2>1. Running /\ key' = key
      BY <1>10 DEF Delete, OffInv
    <2>2. PICK a \in Accounts : db' = [db EXCEPT !.history = @ \ {a}, !.wal = @ \ {a}]
                                /\ DropSecret(a)
      BY <1>10, DeleteIs
    <2>3. db'.key = db.key
      BY <2>2 DEF TypeOK
    <2>. QED  BY <1>1, <1>6, <2>1, <2>2, <2>3, DropIs
  <1>11. CASE SaveSecret
    <2>1. Running /\ key' = key /\ db' = db
      BY <1>11 DEF SaveSecret, OffInv, database
    <2>2. PICK a \in Accounts : /\ page.got[a] \in Nat
                                /\ Store(a, page.got[a]) \/ UNCHANGED secrets
      <3>1. page.todo \subseteq Accounts
        BY DEF TypeOK, Reader
      <3>. QED  BY <1>11, <3>1, SaveSecretIs
    <2>. QED  BY <1>1, <1>6, <2>1, <2>2, StoreIs DEF secrets
  <1>12. CASE Scan
    <2>1. Running /\ key' = key /\ db' = db
      BY <1>12 DEF Scan, LoadEnds, OffInv, database
    <2>2. LoadConfig(key.cached) \/ UNCHANGED secrets
      BY <1>12 DEF Scan
    <2>3. key.cached \in Nat
      BY DEF TypeOK
    <2>. QED  BY <1>1, <1>6, <2>1, <2>2, <2>3, LoadIs DEF secrets
  <1>13. CASE Converse
    <2>1. key' = key /\ vault' = vault
      BY <1>13 DEF Converse, secrets
    <2>2. db'.key = db.key
      BY <1>13 DEF Converse, TypeOK
    <2>. QED  BY <1>1, <2>1, <2>2
  <1>. QED  BY <1>2, <1>3, <1>4, <1>5, <1>7, <1>8, <1>9, <1>10, <1>11, <1>12, <1>13
            DEF Next, Working, Supervising
-----------------------------------------------------------------------------
(* The conversations *)

\* What a step leaves of the invariant, where it changes neither the database
\* nor who has a conversation.
LEMMA HistoryStays ==
    ASSUME HistoryInv, scenario' = scenario, key' = key, UNCHANGED <<database, chats>>,
           TypeOK, faults' \in Nat, faults <= faults'
    PROVE  HistoryInv'
  <1>1. HistoryAlwaysKept' <=> HistoryAlwaysKept
    BY DEF HistoryAlwaysKept, database
  <1>2. Running' <=> Running
    BY DEF Running
  <1>3. faults \in Nat
    BY DEF TypeOK
  <1>4. Without({"locked", "crash"})' <=> Without({"locked", "crash"})
    BY DEF Without
  <1>5. db' = db /\ chats' = chats
    BY DEF database
  <1>. QED  BY <1>1, <1>2, <1>3, <1>4, <1>5 DEF HistoryInv

LEMMA HistoryInit == ASSUME Init PROVE HistoryInv
  BY DEF Init, HistoryInv, HistoryAlwaysKept

LEMMA HistoryNext ==
    ASSUME TypeOK, TypeOK', OffInv, KeyInv, HistoryInv, [Next]_vars
    PROVE  HistoryInv'
  <1>0. faults \in Nat /\ faults' \in Nat
    BY DEF TypeOK
  <1>1. CASE UNCHANGED vars
    BY <1>0, <1>1, HistoryStays DEF vars, fixed
  <1>2. CASE Start
    <2>. SUFFICES ASSUME Without({"locked", "crash"})'
                  PROVE  /\ ~Running' => db'.wal = {}
                         /\ faults' = 0 => chats' \subseteq db'.history
                         /\ faults' <= 1 => HistoryAlwaysKept'
      BY DEF HistoryInv
    <2>1. /\ scenario' = scenario /\ chats' = chats /\ ~Running
          /\ key' = [stored |-> HeldKey, cached |-> HeldKey]
      BY <1>2 DEF Start, MasterKey, fixed
    <2>2. /\ db.wal = {} /\ (faults = 0 => chats \subseteq db.history)
          /\ faults <= 1 => HistoryAlwaysKept
          /\ key.stored = 1 /\ db.key = 1
      BY <2>1 DEF HistoryInv, KeyInv, Without
    <2>3. key'.stored = key.stored /\ Running'
      BY <2>1, <2>2 DEF HeldKey, Running
    <2>4. CASE UNCHANGED database /\ faults <= faults'
      BY <1>0, <2>1, <2>2, <2>3, <2>4 DEF HistoryAlwaysKept, database
    <2>5. CASE faults' = faults + 1 /\ SetAside(HeldKey)
      <3>1. bak'.key = 1 /\ bak'.history = db.history
        BY <2>2, <2>5 DEF SetAside, TypeOK
      <3>2. faults' <= 1 => chats' \subseteq bak'.history
        BY <1>0, <2>1, <2>2, <2>5, <3>1
      <3>3. faults' # 0
        BY <1>0, <2>5
      <3>. QED  BY <2>2, <2>3, <3>1, <3>2, <3>3 DEF HistoryAlwaysKept
    <2>. QED
      BY <1>0, <1>2, <2>2, <2>4, <2>5 DEF Start, Fault, OpenDatabase, HeldKey
  <1>3. CASE StartLocked
    BY <1>3 DEF StartLocked, Fault, HistoryInv, Without, fixed
  <1>4. CASE Quit
    <2>1. /\ scenario' = scenario /\ UNCHANGED <<bak, chats, faults>>
          /\ key'.stored = key.stored /\ db'.wal = {} /\ db'.history = db.history
      BY <1>4 DEF Quit, Gone, fixed, TypeOK
    <2>. QED  BY <2>1 DEF HistoryInv, HistoryAlwaysKept, Without
  <1>5. CASE Crash
    BY <1>5 DEF Crash, Fault, Gone, HistoryInv, Without, fixed
  <1>6. CASE PageLoads \/ SupervisorLoads \/ SaveSecret
    <2>1. faults <= faults'
      <3>1. page \in Reader /\ sup \in Reader
        BY DEF TypeOK
      <3>2. faults' = faults \/ faults' = faults + 1
        BY <1>6, <3>1, LoadOneIs, SaveSecretIs, FaultType DEF PageLoads, SupervisorLoads
      <3>. QED  BY <1>0, <3>2
    <2>. QED  BY <1>0, <1>6, <2>1, HistoryStays DEF PageLoads, SupervisorLoads, SaveSecret, fixed
  <1>7. CASE PageOpens \/ PageCloses \/ Edit \/ SaveEmpties \/ SaveWrites \/ Scan
    BY <1>0, <1>7, HistoryStays
       DEF PageOpens, PageCloses, Edit, SaveEmpties, SaveWrites, Scan, fixed
  <1>8. CASE Delete
    <2>1. PICK a \in Accounts :
            /\ db' = [db EXCEPT !.history = @ \ {a}, !.wal = @ \ {a}]
            /\ chats' = chats \ {a}
      BY <1>8, DeleteIs
    <2>2. db'.history = db.history \ {a} /\ db'.wal = db.wal \ {a}
      BY <2>1 DEF TypeOK
    <2>3. scenario' = scenario /\ key' = key /\ bak' = bak /\ faults' = faults
      BY <1>8 DEF Delete, fixed
    <2>4. HistoryAlwaysKept => HistoryAlwaysKept'
      BY <2>1, <2>2, <2>3 DEF HistoryAlwaysKept
    <2>. QED  BY <2>1, <2>2, <2>3, <2>4 DEF HistoryInv, Without, Running
  <1>9. CASE Converse
    <2>1. PICK a \in Accounts :
            /\ child[a].open
            /\ chats' = IF said[a] # 0 THEN chats \cup {a} ELSE chats
            /\ db' = [db EXCEPT !.history = @ \cup {a},
                                !.wal = IF a \in db.history THEN @ ELSE @ \cup {a}]
      BY <1>9 DEF Converse
    <2>2. db'.history = db.history \cup {a} /\ chats' \subseteq chats \cup {a}
      BY <2>1 DEF TypeOK
    <2>3. scenario' = scenario /\ key' = key /\ bak' = bak /\ faults' = faults
      BY <1>9 DEF Converse, fixed
    <2>4. HistoryAlwaysKept => HistoryAlwaysKept'
      BY <2>2, <2>3 DEF HistoryAlwaysKept
    <2>5. Running'
      BY <2>1, <2>3 DEF OffInv, Running
    <2>. QED  BY <2>2, <2>3, <2>4, <2>5 DEF HistoryInv, Without
  <1>. QED  BY <1>1, <1>2, <1>3, <1>4, <1>5, <1>6, <1>7, <1>8, <1>9 DEF Next, Working, Supervising

\* The conversations of an account outlive a database that was set aside.
THEOREM HistoryIsKept == Spec => []HistoryKept
  <1>1. Init => TypeOK /\ OffInv /\ KeyInv /\ HistoryInv
    BY InitType, OffInit, KeyInit, HistoryInit
  <1>2. TypeOK /\ OffInv /\ KeyInv /\ HistoryInv /\ [Next]_vars
        => (TypeOK /\ OffInv /\ KeyInv /\ HistoryInv)'
    BY NextType, OffNext, KeyNext, HistoryNext
  <1>3. HistoryInv => HistoryKept
    BY DEF HistoryInv, HistoryKept
  <1>. QED  BY <1>1, <1>2, <1>3, PTL DEF Spec
-----------------------------------------------------------------------------
(* The secrets *)

LEMMA SecretInit == ASSUME Init PROVE SecretInv
  <1>1. OneWriter
    BY NobodyReads DEF Init, OneWriter
  <1>2. ASSUME NEW a \in Accounts PROVE AccountInv(a)
    <2>1. FileInv(a) /\ SecretsInv(a)
      BY NobodyReads DEF Init, FileInv, SecretsInv
    <2>2. KeptInv(a)
      <3>1. PICK place \in [Accounts -> Places] :
              /\ vault.of[a] = IF place[a] = "vault" THEN 1 ELSE 0
              /\ items[a] = IF place[a] = "item" THEN 1 ELSE 0
              /\ conf.of[a].plain = IF place[a] = "file" THEN 1 ELSE 0
        BY DEF Init
      <3>2. place[a] \in {"file", "item", "vault"}
        BY PlacesAssumption
      <3>3. said[a] = 1 /\ ~conf.torn
        BY DEF Init
      <3>. QED  BY <3>1, <3>2, <3>3 DEF KeptInv, Holding
    <2>3. ReadInv(page, a) /\ ReadInv(sup, a) /\ PageInv(a)
      BY NobodyReads DEF Init, ReadInv, PageInv
    <2>. QED  BY <2>1, <2>2, <2>3 DEF AccountInv
  <1>. QED  BY <1>1, <1>2 DEF SecretInv

\* Numbers.
LEMMA AccountType ==
    ASSUME TypeOK, NEW a \in Accounts
    PROVE  /\ conf.of[a].plain \in Nat /\ said[a] \in Nat /\ vault.of[a] \in Nat
           /\ items[a] \in Nat /\ page.got[a] \in Nat /\ edits \in Nat
           /\ Holding(a) \in Nat
  BY DEF TypeOK, List, Vault, Reader, Holding

\* A step that moves secrets, all of which the store takes: what it leaves.
LEMMA MovedKept ==
    ASSUME TypeOK, TypeOK', NEW a \in Accounts, FileInv(a), SecretsInv(a), KeptInv(a),
           UNCHANGED <<conf, said, edits>>,
           \/ Stays(a)
           \/ ~conf.torn /\ conf.of[a].plain # 0 /\ Becomes(a, conf.of[a].plain),
           page'.got[a] <= edits + 1
    PROVE  /\ FileInv(a)' /\ SecretsInv(a)' /\ KeptInv(a)'
           /\ vault.of[a] # 0 => vault'.of[a] # 0
  <1>. USE AccountType
  <1>1. FileInv(a)'
    BY DEF FileInv
  <1>2. CASE Stays(a)
    <2>1. KeptInv(a)'
      BY <1>2 DEF KeptInv, Stays
    <2>2. SecretsInv(a)'
      BY <1>2 DEF SecretsInv, Stays
    <2>. QED  BY <1>1, <1>2, <2>1, <2>2 DEF Stays
  <1>3. CASE ~conf.torn /\ conf.of[a].plain # 0 /\ Becomes(a, conf.of[a].plain)
    <2>1. vault'.of[a] = 1 /\ said[a] <= 1 /\ items'[a] \in {0, items[a]}
      BY <1>3 DEF FileInv, Becomes
    <2>2. KeptInv(a)'
      BY <2>1 DEF KeptInv, Holding
    <2>3. SecretsInv(a)'
      BY <2>1 DEF SecretsInv
    <2>. QED  BY <1>1, <2>1, <2>2, <2>3
  <1>. QED  BY <1>2, <1>3

\* What a reader takes from the file or the store.
LEMMA FoundIs ==
    ASSUME TypeOK, NEW a \in Accounts, vault.key = key.cached, SecretsInv(a), FileInv(a),
           KeptInv(a), ~conf.torn
    PROVE  LET found == Found(conf.of, a, key.cached)
           IN  /\ found \in Nat /\ found <= edits + 1
               /\ found # 0 => said[a] <= found
  <1>1. Found(conf.of, a, key.cached) =
          IF conf.of[a].plain # 0 THEN conf.of[a].plain ELSE Holding(a)
    BY Opens DEF Found
  <1>. QED  BY <1>1, AccountType DEF FileInv, SecretsInv, KeptInv, Holding

\* What holds of an account that a step leaves alone.
LEMMA AccountStays ==
    ASSUME NEW a \in Accounts, AccountInv(a), UNCHANGED <<vault, items, conf, said, edits>>,
           page' = page \/ (page'.at = "idle" /\ page'.got[a] = 0),
           sup' = sup \/ sup'.at \in {"idle", "failed"}, edits \in Nat
    PROVE  AccountInv(a)'
  <1>1. FileInv(a)' /\ KeptInv(a)' /\ SecretsInv(a)'
    BY DEF AccountInv, FileInv, KeptInv, SecretsInv, Holding
  <1>2. ReadInv(page, a)' /\ ReadInv(sup, a)'
    BY DEF AccountInv, ReadInv
  <1>3. PageInv(a)'
    BY DEF AccountInv, PageInv
  <1>. QED  BY <1>1, <1>2, <1>3 DEF AccountInv

\* What the steps start from.
Good == TypeOK /\ OffInv /\ KeyInv /\ Quiet /\ OneWriter /\ \A a \in Accounts : AccountInv(a)

LEMMA GoodKey ==
    ASSUME Good
    PROVE  /\ key.stored = 1 /\ vault.key = 1 /\ (Running => vault.key = key.cached)
           /\ scenario \cap {"locked", "store", "race"} = {}
           /\ page \in Reader /\ sup \in Reader
  BY DEF Good, KeyInv, Quiet, Without, Running, TypeOK

\* No fault of a quiet scenario is one of the store, and nobody overlaps.
LEMMA NoStoreFault ==
    ASSUME Good
    PROVE  /\ ~Fault("store") /\ ~Fault("locked")
           /\ \A other : Free(other) <=> other.at \in {"idle", "open"}
  BY GoodKey DEF Fault, Free

LEMMA StartKeeps ==
    ASSUME Good, TypeOK', Start
    PROVE  OneWriter' /\ \A a \in Accounts : AccountInv(a)'
  <1>1. /\ UNCHANGED <<conf, page, sup, said, edits>> /\ page.at = "idle" /\ sup.at = "idle"
        /\ LoadConfig(HeldKey) /\ HeldKey \in Nat /\ vault.key = HeldKey
    <2>1. LoadConfig(HeldKey)
      BY NoStoreFault DEF Start
    <2>2. HeldKey \in Nat /\ vault.key = HeldKey
      BY GoodKey DEF HeldKey
    <2>3. page.at = "idle" /\ sup.at = "idle"
      BY DEF Start, Good, OffInv
    <2>. QED  BY <2>1, <2>2, <2>3 DEF Start
  <1>2. ASSUME NEW a \in Accounts PROVE AccountInv(a)'
    <2>1. AccountInv(a) /\ TypeOK /\ page'.got[a] <= edits + 1
      BY <1>1, <1>2 DEF Good, AccountInv, SecretsInv
    <2>2. \/ Stays(a)
          \/ ~conf.torn /\ conf.of[a].plain # 0 /\ Becomes(a, conf.of[a].plain)
      BY <1>1, <1>2, <2>1, LoadIs
    <2>3. FileInv(a)' /\ SecretsInv(a)' /\ KeptInv(a)'
      BY <1>1, <1>2, <2>1, <2>2, MovedKept DEF AccountInv
    <2>4. ReadInv(page, a)' /\ ReadInv(sup, a)' /\ PageInv(a)'
      BY <1>1, <2>1 DEF AccountInv, ReadInv, PageInv
    <2>. QED  BY <2>3, <2>4 DEF AccountInv
  <1>3. OneWriter'
    BY <1>1 DEF OneWriter
  <1>. QED  BY <1>2, <1>3


\* A reader takes one account more, and stores what it takes from the file.
LEMMA TakenIs ==
    ASSUME Good, NEW p \in Reader, NEW p2, Running, LoadOne(p, p2),
           \A a \in Accounts : ReadInv(p, a), NEW a \in Accounts
    PROVE  /\ ~conf.torn /\ p.of = conf.of /\ p.at = "load"
           /\ p2 \in Reader /\ p2.at = "load" /\ p2.of = p.of
           /\ \/ Stays(a)
              \/ conf.of[a].plain # 0 /\ Becomes(a, conf.of[a].plain)
           /\ p2.of[a].plain # 0 /\ a \notin p2.todo => vault'.of[a] # 0 /\ p2.migrated
           /\ \/ p2.got[a] = p.got[a]
              \/ /\ p2.got[a] <= edits + 1
                 /\ p2.got[a] # 0 => said[a] <= p2.got[a]
  <1>0. TypeOK /\ AccountInv(a) /\ vault.key = key.cached /\ p.got \in [Accounts -> Nat]
        /\ ReadInv(p, a)
    BY GoodKey DEF Good, Reader
  <1>1. PICK b \in Accounts :
          /\ b \in p.todo /\ p2.todo = p.todo \ {b}
          /\ p2.got = [p.got EXCEPT ![b] = Found(p.of, b, key.cached)]
          /\ Put(p.of, b)
          /\ p2.migrated = (p.migrated \/ p.of[b].plain # 0)
    BY <1>0, LoadOneIs, NoStoreFault
  <1>2. p.at = "load" /\ p2 \in Reader /\ p2.at = "load" /\ p2.of = p.of
    BY <1>0, LoadOneIs
  <1>3. ~conf.torn /\ p.of = conf.of /\ conf.of \in List
    BY <1>0, <1>2 DEF ReadInv, TypeOK
  <1>4. CASE a = b
    <2>1. IF conf.of[a].plain # 0 THEN Becomes(a, conf.of[a].plain) ELSE Stays(a)
      BY <1>0, <1>1, <1>3, <1>4, PutIs
    <2>2. /\ p2.got[a] <= edits + 1
          /\ p2.got[a] # 0 => said[a] <= p2.got[a]
      BY <1>0, <1>1, <1>3, <1>4, FoundIs DEF AccountInv
    <2>. QED  BY <1>0, <1>1, <1>2, <1>3, <1>4, <2>1, <2>2, AccountType DEF Becomes
  <1>5. CASE a # b
    <2>1. Stays(a)
      BY <1>0, <1>1, <1>3, <1>5, PutIs
    <2>2. p2.got[a] = p.got[a]
      BY <1>0, <1>1, <1>5
    <2>. QED  BY <1>0, <1>1, <1>2, <1>3, <1>5, <2>1, <2>2 DEF ReadInv, Stays
  <1>. QED  BY <1>4, <1>5

\* What is written over the file is in the store.
LEMMA ScrubbedIsStored ==
    ASSUME TypeOK, NEW p \in Reader, p.at \in {"load", "scrub"}, p.todo = {},
           NEW a \in Accounts, AccountInv(a), ReadInv(p, a)
    PROVE  said[a] <= Holding(a)
  <1>1. conf.of[a].plain # 0 => vault.of[a] # 0 /\ said[a] <= 1
    BY DEF ReadInv, AccountInv, FileInv
  <1>2. conf.of[a].plain # 0 => said[a] <= Holding(a)
    BY <1>1, AccountType DEF Holding
  <1>3. conf.of[a].plain = 0 => said[a] <= Holding(a)
    BY AccountType DEF AccountInv, KeptInv
  <1>. QED  BY <1>2, <1>3

LEMMA PageLoadsKeeps ==
    ASSUME Good, TypeOK', PageLoads
    PROVE  OneWriter' /\ \A a \in Accounts : AccountInv(a)'
  <1>0. /\ page \in Reader /\ Running /\ UNCHANGED <<sup, said, edits>> /\ TypeOK
        /\ \A a \in Accounts : ReadInv(page, a) /\ AccountInv(a)
    BY GoodKey DEF PageLoads, Good, AccountInv
  <1>1. CASE Free(sup) /\ LoadBegins(page, page') /\ UNCHANGED <<secrets, conf, faults>>
    <2>1. sup.at = "idle" /\ page'.at \in {"load", "failed"}
      BY <1>0, <1>1, NoStoreFault, BeginsIs DEF Good, OneWriter
    <2>2. OneWriter'
      BY <1>0, <2>1 DEF OneWriter
    <2>3. ASSUME NEW a \in Accounts PROVE AccountInv(a)'
      <3>1. page'.got[a] = 0 /\ UNCHANGED <<vault, items, conf>>
        BY <1>0, <1>1, BeginsIs DEF secrets
      <3>2. FileInv(a)' /\ SecretsInv(a)' /\ KeptInv(a)'
        BY <1>0, <3>1, AccountType DEF AccountInv, FileInv, SecretsInv, KeptInv, Holding
      <3>3. page'.at = "load" => /\ ~conf.torn /\ page'.of = conf.of
                                 /\ conf.of[a].in => a \in page'.todo
        BY <1>0, <1>1, BeginsIs
      <3>4. ReadInv(page, a)' /\ ReadInv(sup, a)'
        BY <1>0, <2>1, <3>1, <3>3 DEF AccountInv, FileInv, ReadInv
      <3>5. PageInv(a)'
        BY <1>0, <1>1, <2>1, <3>1, BeginsIs DEF PageInv
      <3>. QED  BY <3>2, <3>4, <3>5 DEF AccountInv
    <2>. QED  BY <2>2, <2>3
  <1>2. CASE LoadOne(page, page') /\ UNCHANGED conf
    <2>1. page.at = "load" /\ page'.at = "load" /\ page' \in Reader
      BY <1>0, <1>2, LoadOneIs
    <2>2. sup.at = "idle"
      BY <2>1 DEF Good, OneWriter
    <2>3. OneWriter'
      BY <1>0, <2>2 DEF OneWriter
    <2>4. ASSUME NEW a \in Accounts PROVE AccountInv(a)'
      <3>1. /\ ~conf.torn /\ page.of = conf.of /\ page'.of = conf.of
            /\ \/ Stays(a)
               \/ conf.of[a].plain # 0 /\ Becomes(a, conf.of[a].plain)
            /\ page'.of[a].plain # 0 /\ a \notin page'.todo => vault'.of[a] # 0 /\ page'.migrated
            /\ \/ page'.got[a] = page.got[a]
               \/ /\ page'.got[a] <= edits + 1
                  /\ page'.got[a] # 0 => said[a] <= page'.got[a]
        BY <1>0, <1>2, TakenIs
      <3>2. page'.got[a] <= edits + 1 /\ (page'.got[a] # 0 => said[a] <= page'.got[a])
        BY <1>0, <3>1 DEF AccountInv, SecretsInv, PageInv
      <3>3. FileInv(a)' /\ SecretsInv(a)' /\ KeptInv(a)'
        BY <1>0, <1>2, <3>1, <3>2, MovedKept DEF AccountInv
      <3>4. ReadInv(page, a)' /\ ReadInv(sup, a)'
        BY <1>0, <1>2, <2>1, <2>2, <3>1 DEF ReadInv
      <3>5. PageInv(a)'
        BY <1>0, <2>1, <3>2 DEF PageInv
      <3>. QED  BY <3>3, <3>4, <3>5 DEF AccountInv
    <2>. QED  BY <2>3, <2>4
  <1>3. CASE Empties(page, page') /\ UNCHANGED <<secrets, faults>>
    <2>1. /\ page.at = "load" /\ page.todo = {} /\ page.migrated
          /\ page'.at = "scrub" /\ page'.todo = {} /\ page'.of = page.of
          /\ page'.got = page.got /\ page'.migrated /\ conf'.torn /\ conf'.of = conf.of
      BY <1>0, <1>3, EmptiesIs
    <2>2. sup.at = "idle"
      BY <2>1 DEF Good, OneWriter
    <2>3. OneWriter'
      BY <1>0, <2>2 DEF OneWriter
    <2>4. ASSUME NEW a \in Accounts PROVE AccountInv(a)'
      <3>1. said[a] <= Holding(a) /\ vault' = vault /\ items' = items
        BY <1>0, <1>3, <2>1, ScrubbedIsStored DEF secrets
      <3>2. FileInv(a)' /\ SecretsInv(a)' /\ KeptInv(a)'
        BY <1>0, <2>1, <3>1 DEF AccountInv, FileInv, SecretsInv, KeptInv, Holding
      <3>3. ReadInv(page, a)' /\ ReadInv(sup, a)'
        BY <1>0, <2>1, <2>2, <3>1 DEF ReadInv
      <3>4. PageInv(a)'
        BY <1>0, <2>1 DEF AccountInv, PageInv
      <3>. QED  BY <3>2, <3>3, <3>4 DEF AccountInv
    <2>. QED  BY <2>3, <2>4
  <1>4. CASE Scrub(page, page') /\ UNCHANGED <<secrets, faults>>
    <2>1. /\ page.at = "scrub" /\ page'.at = "loaded" /\ page'.got = page.got
          /\ ~conf'.torn /\ \A a \in Accounts : conf'.of[a].plain = 0
      BY <1>0, <1>4, ScrubIs
    <2>2. sup.at = "idle"
      BY <2>1 DEF Good, OneWriter
    <2>3. OneWriter'
      BY <1>0, <2>2 DEF OneWriter
    <2>4. ASSUME NEW a \in Accounts PROVE AccountInv(a)'
      <3>0. page.todo = {}
        BY <1>0, <2>1 DEF ReadInv
      <3>1. said[a] <= Holding(a) /\ vault' = vault /\ items' = items
        BY <1>0, <1>4, <2>1, <3>0, ScrubbedIsStored DEF secrets
      <3>2. FileInv(a)' /\ SecretsInv(a)' /\ KeptInv(a)'
        BY <1>0, <2>1, <3>1 DEF AccountInv, FileInv, SecretsInv, KeptInv, Holding
      <3>3. ReadInv(page, a)' /\ ReadInv(sup, a)'
        BY <1>0, <2>1, <2>2 DEF ReadInv
      <3>4. PageInv(a)'
        BY <1>0, <2>1 DEF AccountInv, PageInv
      <3>. QED  BY <3>2, <3>3, <3>4 DEF AccountInv
    <2>. QED  BY <2>3, <2>4
  <1>. QED  BY <1>1, <1>2, <1>3, <1>4 DEF PageLoads

LEMMA SupervisorLoadsKeeps ==
    ASSUME Good, TypeOK', SupervisorLoads
    PROVE  OneWriter' /\ \A a \in Accounts : AccountInv(a)'
  <1>0. /\ sup \in Reader /\ Running /\ UNCHANGED <<page, said, edits>> /\ TypeOK
        /\ \A a \in Accounts : ReadInv(sup, a) /\ AccountInv(a)
    BY GoodKey DEF SupervisorLoads, Good, AccountInv
  <1>1. CASE Free(page) /\ LoadBegins(sup, sup') /\ UNCHANGED <<secrets, conf, faults>>
    <2>1. page.at \in {"idle", "open"} /\ sup'.at \in {"load", "failed"}
      BY <1>0, <1>1, NoStoreFault, BeginsIs
    <2>2. OneWriter'
      BY <1>0, <2>1 DEF OneWriter
    <2>3. ASSUME NEW a \in Accounts PROVE AccountInv(a)'
      <3>1. UNCHANGED <<vault, items, conf>>
        BY <1>1 DEF secrets
      <3>2. FileInv(a)' /\ SecretsInv(a)' /\ KeptInv(a)'
        BY <1>0, <3>1 DEF AccountInv, FileInv, SecretsInv, KeptInv, Holding
      <3>3. sup'.at = "load" => /\ ~conf.torn /\ sup'.of = conf.of
                                /\ conf.of[a].in => a \in sup'.todo
        BY <1>0, <1>1, BeginsIs
      <3>4. ReadInv(page, a)' /\ ReadInv(sup, a)'
        BY <1>0, <2>1, <3>1, <3>3 DEF AccountInv, FileInv, ReadInv
      <3>5. PageInv(a)'
        BY <1>0, <3>1 DEF AccountInv, PageInv
      <3>. QED  BY <3>2, <3>4, <3>5 DEF AccountInv
    <2>. QED  BY <2>2, <2>3
  <1>2. CASE LoadOne(sup, sup') /\ UNCHANGED conf
    <2>1. sup.at = "load" /\ sup'.at = "load" /\ sup' \in Reader
      BY <1>0, <1>2, LoadOneIs
    <2>2. page.at \in {"idle", "open"}
      BY <2>1 DEF Good, OneWriter
    <2>3. OneWriter'
      BY <1>0, <2>1, <2>2 DEF OneWriter
    <2>4. ASSUME NEW a \in Accounts PROVE AccountInv(a)'
      <3>1. /\ ~conf.torn /\ sup.of = conf.of /\ sup'.of = conf.of
            /\ \/ Stays(a)
               \/ conf.of[a].plain # 0 /\ Becomes(a, conf.of[a].plain)
            /\ sup'.of[a].plain # 0 /\ a \notin sup'.todo => vault'.of[a] # 0 /\ sup'.migrated
        BY <1>0, <1>2, TakenIs
      <3>2. page'.got[a] <= edits + 1
        BY <1>0 DEF AccountInv, SecretsInv
      <3>3. FileInv(a)' /\ SecretsInv(a)' /\ KeptInv(a)'
        BY <1>0, <1>2, <3>1, <3>2, MovedKept DEF AccountInv
      <3>4. ReadInv(page, a)' /\ ReadInv(sup, a)'
        BY <1>0, <1>2, <2>1, <2>2, <3>1 DEF ReadInv
      <3>5. PageInv(a)'
        BY <1>0, <1>2, <2>2 DEF AccountInv, PageInv
      <3>. QED  BY <3>3, <3>4, <3>5 DEF AccountInv
    <2>. QED  BY <2>3, <2>4
  <1>3. CASE Empties(sup, sup') /\ UNCHANGED <<secrets, faults>>
    <2>1. /\ sup.at = "load" /\ sup.todo = {} /\ sup.migrated
          /\ sup'.at = "scrub" /\ sup'.todo = {} /\ sup'.of = sup.of
          /\ sup'.migrated /\ conf'.torn /\ conf'.of = conf.of
      BY <1>0, <1>3, EmptiesIs
    <2>2. page.at \in {"idle", "open"}
      BY <2>1 DEF Good, OneWriter
    <2>3. OneWriter'
      BY <1>0, <2>1, <2>2 DEF OneWriter
    <2>4. ASSUME NEW a \in Accounts PROVE AccountInv(a)'
      <3>1. said[a] <= Holding(a) /\ vault' = vault /\ items' = items
        BY <1>0, <1>3, <2>1, ScrubbedIsStored DEF secrets
      <3>2. FileInv(a)' /\ SecretsInv(a)' /\ KeptInv(a)'
        BY <1>0, <2>1, <3>1 DEF AccountInv, FileInv, SecretsInv, KeptInv, Holding
      <3>3. ReadInv(page, a)' /\ ReadInv(sup, a)'
        BY <1>0, <2>1, <2>2, <3>1 DEF ReadInv
      <3>4. PageInv(a)'
        BY <1>0, <2>1, <2>2 DEF AccountInv, PageInv
      <3>. QED  BY <3>2, <3>3, <3>4 DEF AccountInv
    <2>. QED  BY <2>3, <2>4
  <1>4. CASE Scrub(sup, sup') /\ UNCHANGED <<secrets, faults>>
    <2>1. /\ sup.at = "scrub" /\ sup'.at = "loaded"
          /\ ~conf'.torn /\ \A a \in Accounts : conf'.of[a].plain = 0
      BY <1>0, <1>4, ScrubIs
    <2>2. page.at \in {"idle", "open"}
      BY <2>1 DEF Good, OneWriter
    <2>3. OneWriter'
      BY <1>0, <2>1, <2>2 DEF OneWriter
    <2>4. ASSUME NEW a \in Accounts PROVE AccountInv(a)'
      <3>0. sup.todo = {}
        BY <1>0, <2>1 DEF ReadInv
      <3>1. said[a] <= Holding(a) /\ vault' = vault /\ items' = items
        BY <1>0, <1>4, <2>1, <3>0, ScrubbedIsStored DEF secrets
      <3>2. FileInv(a)' /\ SecretsInv(a)' /\ KeptInv(a)'
        BY <1>0, <2>1, <3>1 DEF AccountInv, FileInv, SecretsInv, KeptInv, Holding
      <3>3. ReadInv(page, a)' /\ ReadInv(sup, a)'
        BY <1>0, <2>1, <2>2 DEF ReadInv
      <3>4. PageInv(a)'
        BY <1>0, <2>1, <2>2 DEF AccountInv, PageInv
      <3>. QED  BY <3>2, <3>3, <3>4 DEF AccountInv
    <2>. QED  BY <2>3, <2>4
  <1>. QED  BY <1>1, <1>2, <1>3, <1>4 DEF SupervisorLoads

\* Steps that move no secret: the page opens or closes, the process ends, rows
\* are added.
LEMMA StandingKeeps ==
    ASSUME Good, PageOpens \/ PageCloses \/ Quit \/ Crash \/ Converse \/ UNCHANGED vars
    PROVE  OneWriter' /\ \A a \in Accounts : AccountInv(a)'
  <1>1. /\ UNCHANGED <<vault, items, conf, said, edits>>
        /\ edits \in Nat /\ \A a \in Accounts : AccountInv(a)
    BY DEF PageOpens, PageCloses, Quit, Crash, Gone, Converse, vars, secrets, Good, TypeOK
  <1>2. CASE PageOpens
    <2>1. page \in Reader /\ LoadEnds(page) /\ sup' = sup /\ sup.at = "idle"
      BY <1>2, GoodKey DEF PageOpens, LoadEnds, Good, OneWriter
    <2>2. "open" \in Step
      BY DEF Step
    <2>3. page'.at = "open" /\ page'.got = page.got
      BY <1>2, <2>1, <2>2, ReaderGoes DEF PageOpens
    <2>4. ASSUME NEW a \in Accounts PROVE AccountInv(a)'
      <3>1. FileInv(a)' /\ SecretsInv(a)' /\ KeptInv(a)'
        BY <1>1, <2>3 DEF AccountInv, FileInv, SecretsInv, KeptInv, Holding
      <3>2. ReadInv(page, a)' /\ ReadInv(sup, a)'
        BY <2>1, <2>3 DEF ReadInv
      <3>3. conf.torn \/ conf.of[a].plain = 0
        BY <1>1, <2>1 DEF LoadEnds, AccountInv, ReadInv, PageInv
      <3>4. PageInv(a)'
        BY <1>1, <2>3, <3>3 DEF AccountInv, PageInv
      <3>. QED  BY <3>1, <3>2, <3>4 DEF AccountInv
    <2>. QED  BY <2>1, <2>3, <2>4 DEF OneWriter
  <1>3. CASE ~PageOpens
    <2>1. /\ page' = page \/ page' = Idle
          /\ sup' = sup \/ sup' = Idle
      BY <1>3 DEF PageCloses, Quit, Crash, Gone, Converse, vars
    <2>2. OneWriter'
      BY <2>1, NobodyReads DEF Good, OneWriter
    <2>3. ASSUME NEW a \in Accounts PROVE AccountInv(a)'
      <3>1. /\ page' = page \/ (page'.at = "idle" /\ page'.got[a] = 0)
            /\ sup' = sup \/ sup'.at \in {"idle", "failed"}
        BY <2>1, NobodyReads
      <3>. QED  BY <1>1, <3>1, AccountStays
    <2>. QED  BY <2>2, <2>3
  <1>. QED  BY <1>2, <1>3

LEMMA EditKeeps ==
    ASSUME Good, TypeOK', Edit
    PROVE  OneWriter' /\ \A a \in Accounts : AccountInv(a)'
  <1>1. /\ UNCHANGED <<vault, items, conf, said, sup>> /\ sup.at = "idle"
        /\ edits \in Nat /\ \A a \in Accounts : AccountInv(a)
    BY NoStoreFault DEF Edit, secrets, Good, OneWriter, TypeOK
  <1>2. /\ page.at = "open" /\ edits' = edits + 1 /\ page'.at = "save"
        /\ \A a \in Accounts : a \in page'.todo <=> page'.of[a].in /\ page'.got[a] # 0
        /\ \A a \in Accounts : page'.got[a] \in {page.got[a], edits + 2}
    BY EditIs DEF Good
  <1>3. ASSUME NEW a \in Accounts PROVE AccountInv(a)'
    <2>1. page'.got[a] \in {page.got[a], edits + 2} /\ page.got[a] \in Nat
          /\ said[a] \in Nat /\ vault.of[a] \in Nat /\ items[a] \in Nat
      BY <1>2, AccountType DEF Good
    <2>2. FileInv(a)' /\ KeptInv(a)'
      BY <1>1 DEF AccountInv, FileInv, KeptInv, Holding
    <2>3. SecretsInv(a)'
      BY <1>1, <1>2, <2>1 DEF AccountInv, SecretsInv
    <2>4. ReadInv(page, a)' /\ ReadInv(sup, a)'
      BY <1>1, <1>2 DEF ReadInv
    <2>5. page'.got[a] # 0 => said'[a] <= page'.got[a]
      BY <1>1, <2>1 DEF AccountInv, SecretsInv, PageInv
    <2>6. conf'.torn \/ conf'.of[a].plain = 0
      BY <1>1, <1>2 DEF AccountInv, PageInv
    <2>7. PageInv(a)'
      BY <1>2, <2>5, <2>6 DEF PageInv
    <2>. QED  BY <2>2, <2>3, <2>4, <2>7 DEF AccountInv
  <1>. QED  BY <1>1, <1>2, <1>3 DEF OneWriter

LEMMA DeleteKeeps ==
    ASSUME Good, TypeOK', Delete
    PROVE  OneWriter' /\ \A a \in Accounts : AccountInv(a)'
  <1>1. /\ UNCHANGED <<conf, sup>> /\ sup.at = "idle" /\ TypeOK
        /\ edits \in Nat /\ \A a \in Accounts : AccountInv(a)
    BY NoStoreFault DEF Delete, Good, OneWriter, TypeOK
  <1>2. /\ page.at = "open" /\ edits' = edits + 1 /\ page'.at = "save"
        /\ \A a \in Accounts : a \in page'.todo <=> page'.of[a].in /\ page'.got[a] # 0
    BY DeleteIs DEF Good
  <1>3. PICK b \in Accounts :
          /\ DropSecret(b)
          /\ page'.got = [page.got EXCEPT ![b] = 0]
          /\ said' = [said EXCEPT ![b] = 0]
    BY <1>1, DeleteIs
  <1>4. vault.key = key.cached
    BY <1>2, GoodKey DEF Good, OffInv
  <1>5. Becomes(b, 0) /\ \A a \in Accounts \ {b} : Stays(a)
    BY <1>1, <1>3, <1>4, DropIs
  <1>6. ASSUME NEW a \in Accounts PROVE AccountInv(a)'
    <2>0. /\ page.got[a] \in Nat /\ said[a] \in Nat /\ vault.of[a] \in Nat /\ items[a] \in Nat
          /\ Holding(a)' \in Nat
      BY <1>1, AccountType DEF TypeOK, Holding, Vault
    <2>1. /\ page'.got[a] = IF a = b THEN 0 ELSE page.got[a]
          /\ said'[a] = IF a = b THEN 0 ELSE said[a]
      BY <1>1, <1>3 DEF TypeOK, Reader
    <2>2. FileInv(a)'
      BY <1>1, <2>0, <2>1 DEF AccountInv, FileInv
    <2>3. KeptInv(a)'
      BY <1>1, <1>5, <2>0, <2>1 DEF AccountInv, KeptInv, Stays
    <2>4. SecretsInv(a)'
      BY <1>1, <1>2, <1>5, <2>0, <2>1 DEF AccountInv, SecretsInv, Stays, Becomes
    <2>5. ReadInv(page, a)' /\ ReadInv(sup, a)'
      BY <1>1, <1>2 DEF ReadInv
    <2>6. PageInv(a)'
      BY <1>1, <1>2, <2>1 DEF AccountInv, PageInv
    <2>. QED  BY <2>2, <2>3, <2>4, <2>5, <2>6 DEF AccountInv
  <1>. QED  BY <1>1, <1>2, <1>6 DEF OneWriter

LEMMA SaveSecretKeeps ==
    ASSUME Good, TypeOK', SaveSecret
    PROVE  OneWriter' /\ \A a \in Accounts : AccountInv(a)'
  <1>1. /\ UNCHANGED <<conf, sup, said, edits>> /\ page.at = "save" /\ sup.at = "idle" /\ TypeOK
        /\ edits \in Nat /\ \A a \in Accounts : AccountInv(a)
    BY DEF SaveSecret, Good, OneWriter, TypeOK
  <1>2. page'.at = "save" /\ page'.of = page.of /\ page'.got = page.got
    BY <1>1, SaveSecretIs
  <1>3. PICK b \in Accounts :
          /\ b \in page.todo /\ page'.todo = page.todo \ {b}
          /\ page.got[b] \in Nat /\ Store(b, page.got[b])
    <2>1. page.todo \subseteq Accounts
      BY <1>1 DEF TypeOK, Reader
    <2>. QED  BY <1>1, <2>1, SaveSecretIs, NoStoreFault
  <1>4. vault.key = key.cached
    BY <1>1, GoodKey DEF Good, OffInv
  <1>5. Becomes(b, page.got[b]) /\ \A a \in Accounts \ {b} : Stays(a)
    BY <1>1, <1>3, <1>4, StoreIs
  <1>6. ASSUME NEW a \in Accounts PROVE AccountInv(a)'
    <2>0. /\ page.got[a] \in Nat /\ said[a] \in Nat /\ vault.of[a] \in Nat /\ items[a] \in Nat
      BY <1>1, AccountType
    <2>1. FileInv(a)' /\ ReadInv(page, a)' /\ ReadInv(sup, a)'
      BY <1>1, <1>2 DEF AccountInv, FileInv, ReadInv
    <2>2. CASE a = b
      <3>1. page.got[a] # 0 /\ said[a] <= page.got[a] /\ vault'.of[a] = page.got[a]
            /\ items'[a] \in {0, items[a]}
        BY <1>1, <1>3, <1>5, <2>2 DEF AccountInv, PageInv, Becomes
      <3>2. KeptInv(a)'
        BY <1>1, <3>1 DEF KeptInv, Holding
      <3>3. SecretsInv(a)'
        BY <1>1, <1>2, <2>0, <3>1 DEF AccountInv, SecretsInv
      <3>4. PageInv(a)'
        BY <1>1, <1>2, <1>3, <2>2, <3>1 DEF AccountInv, PageInv
      <3>. QED  BY <2>1, <3>2, <3>3, <3>4 DEF AccountInv
    <2>3. CASE a # b
      <3>1. Stays(a)
        BY <1>5, <2>3
      <3>2. KeptInv(a)'
        BY <1>1, <3>1 DEF AccountInv, KeptInv, Stays
      <3>3. SecretsInv(a)'
        BY <1>1, <1>2, <2>0, <3>1 DEF AccountInv, SecretsInv, Stays
      <3>4. PageInv(a)'
        BY <1>1, <1>2, <1>3, <2>3, <3>1 DEF AccountInv, PageInv, Stays
      <3>. QED  BY <2>1, <3>2, <3>3, <3>4 DEF AccountInv
    <2>. QED  BY <2>2, <2>3
  <1>. QED  BY <1>1, <1>6 DEF OneWriter

LEMMA SaveEmptiesKeeps ==
    ASSUME Good, TypeOK', SaveEmpties
    PROVE  OneWriter' /\ \A a \in Accounts : AccountInv(a)'
  <1>1. /\ UNCHANGED <<vault, items, sup, said, edits>> /\ page.at = "save" /\ page.todo = {}
        /\ sup.at = "idle" /\ TypeOK /\ \A a \in Accounts : AccountInv(a)
    BY DEF SaveEmpties, Good, OneWriter, secrets
  <1>2. /\ page'.at = "write" /\ page'.todo = {} /\ page'.of = page.of /\ page'.got = page.got
        /\ conf'.torn /\ conf'.of = conf.of
    <2>1. page \in Reader /\ "write" \in Step
      BY <1>1 DEF TypeOK, Step
    <2>. QED  BY <1>1, <2>1, ReaderGoes DEF SaveEmpties, TypeOK
  <1>3. ASSUME NEW a \in Accounts PROVE AccountInv(a)'
    <2>1. said[a] <= Holding(a)
      <3>1. conf.torn \/ conf.of[a].plain = 0
        BY <1>1 DEF AccountInv, PageInv
      <3>. QED  BY <1>1, <3>1, AccountType DEF AccountInv, KeptInv
    <2>2. FileInv(a)' /\ SecretsInv(a)' /\ KeptInv(a)'
      BY <1>1, <1>2, <2>1 DEF AccountInv, FileInv, SecretsInv, KeptInv, Holding
    <2>3. ReadInv(page, a)' /\ ReadInv(sup, a)' /\ PageInv(a)'
      BY <1>1, <1>2 DEF AccountInv, ReadInv, PageInv
    <2>. QED  BY <2>2, <2>3 DEF AccountInv
  <1>. QED  BY <1>1, <1>3 DEF OneWriter

LEMMA SaveWritesKeeps ==
    ASSUME Good, TypeOK', SaveWrites
    PROVE  OneWriter' /\ \A a \in Accounts : AccountInv(a)'
  <1>1. /\ UNCHANGED <<vault, items, sup, edits>> /\ page.at = "write" /\ sup.at = "idle"
        /\ TypeOK /\ \A a \in Accounts : AccountInv(a)
    BY DEF SaveWrites, Good, OneWriter, secrets
  <1>2. /\ page'.at = "open" /\ page'.got = page.got
        /\ ~conf'.torn /\ \A a \in Accounts : conf'.of[a].plain = 0
    <2>1. page \in Reader /\ page.of \in List /\ "open" \in Step
      BY <1>1 DEF TypeOK, Reader, Step
    <2>. QED  BY <2>1, ReaderGoes, WrittenIs DEF SaveWrites
  <1>3. ASSUME NEW a \in Accounts PROVE AccountInv(a)'
    <2>0. /\ page.got[a] \in Nat /\ said[a] \in Nat /\ vault.of[a] \in Nat /\ items[a] \in Nat
          /\ edits \in Nat
      BY <1>1, AccountType
    <2>1. said'[a] = IF ~page.of[a].in THEN 0
                     ELSE IF page.got[a] # 0 THEN page.got[a] ELSE said[a]
      BY DEF SaveWrites
    <2>2. said[a] <= Holding(a)
      <3>1. conf.torn \/ conf.of[a].plain = 0
        BY <1>1 DEF AccountInv, PageInv
      <3>. QED  BY <1>1, <3>1, AccountType DEF AccountInv, KeptInv
    <2>3. page.of[a].in /\ page.got[a] # 0 => vault.of[a] = page.got[a]
      BY <1>1 DEF AccountInv, PageInv
    <2>4. said'[a] <= Holding(a)
      BY <2>0, <2>1, <2>2, <2>3 DEF Holding
    <2>5. FileInv(a)' /\ KeptInv(a)'
      BY <1>1, <1>2, <2>4 DEF FileInv, KeptInv, Holding
    <2>6. SecretsInv(a)'
      BY <1>1, <1>2, <2>0, <2>1 DEF AccountInv, SecretsInv
    <2>7. ReadInv(page, a)' /\ ReadInv(sup, a)'
      BY <1>1, <1>2 DEF ReadInv
    <2>8. PageInv(a)'
      BY <1>1, <1>2, <2>0, <2>1 DEF AccountInv, PageInv
    <2>. QED  BY <2>5, <2>6, <2>7, <2>8 DEF AccountInv
  <1>. QED  BY <1>1, <1>3 DEF OneWriter

LEMMA ScanKeeps ==
    ASSUME Good, TypeOK', Scan
    PROVE  OneWriter' /\ \A a \in Accounts : AccountInv(a)'
  <1>1. /\ UNCHANGED <<conf, page, said, edits>> /\ page.at \in {"idle", "open"}
        /\ sup'.at = "idle" /\ TypeOK /\ \A a \in Accounts : AccountInv(a)
        /\ LoadConfig(key.cached) \/ UNCHANGED secrets
    BY NobodyReads DEF Scan, LoadEnds, Good, OneWriter
  <1>2. vault.key = key.cached /\ key.cached \in Nat
    BY GoodKey DEF Scan, LoadEnds, Good, OffInv, TypeOK
  <1>3. ASSUME NEW a \in Accounts PROVE AccountInv(a)'
    <2>1. \/ Stays(a)
          \/ ~conf.torn /\ conf.of[a].plain # 0 /\ Becomes(a, conf.of[a].plain)
      BY <1>1, <1>2, LoadIs, NothingMoves
    <2>2. page'.got[a] <= edits + 1
      BY <1>1 DEF AccountInv, SecretsInv
    <2>3. FileInv(a)' /\ SecretsInv(a)' /\ KeptInv(a)'
      BY <1>1, <2>1, <2>2, MovedKept DEF AccountInv
    <2>4. ReadInv(page, a)' /\ ReadInv(sup, a)'
      BY <1>1 DEF ReadInv
    <2>5. PageInv(a)'
      BY <1>1 DEF AccountInv, PageInv
    <2>. QED  BY <2>3, <2>4, <2>5 DEF AccountInv
  <1>. QED  BY <1>1, <1>3 DEF OneWriter

LEMMA SecretNext ==
    ASSUME TypeOK, TypeOK', OffInv, KeyInv, SecretInv, [Next]_vars
    PROVE  SecretInv'
  <1>. SUFFICES ASSUME Quiet' PROVE OneWriter' /\ \A a \in Accounts : AccountInv(a)'
    BY DEF SecretInv
  <1>1. scenario' = scenario
    BY DEF Next, Working, Supervising, Start, PageLoads, PageOpens, SaveSecret, SaveEmpties,
           SaveWrites, SupervisorLoads, Scan, StartLocked, Quit, Crash, Gone, PageCloses,
           Edit, Delete, Converse, vars, fixed
  <1>2. Good
    BY <1>1 DEF SecretInv, Quiet, Without, Good
  <1>3. ~StartLocked
    BY <1>2, NoStoreFault DEF StartLocked
  <1>. QED
    BY <1>2, <1>3, StartKeeps, PageLoadsKeeps, SupervisorLoadsKeeps, StandingKeeps, EditKeeps,
       DeleteKeeps, SaveSecretKeeps, SaveEmptiesKeeps, SaveWritesKeeps, ScanKeeps
       DEF Next, Working, Supervising

LEMMA SecretInvKeeps == ASSUME TypeOK, KeyInv, SecretInv PROVE SecretKept
  <1>. SUFFICES ASSUME Quiet PROVE SecretAlwaysKept /\ SecretInBackup
    BY DEF SecretKept, Quiet
  <1>1. /\ vault.key = HeldKey
        /\ \A a \in Accounts : FileInv(a) /\ KeptInv(a)
    BY DEF KeyInv, Quiet, Without, HeldKey, SecretInv, AccountInv
  <1>2. \A a \in Accounts : Stored(a, HeldKey) = vault.of[a] /\ Recoverable(a) = Holding(a)
    BY <1>1, Opens DEF Recoverable
  <1>3. SecretAlwaysKept
    BY <1>1, <1>2 DEF SecretAlwaysKept, KeptInv
  <1>4. ASSUME NEW a \in Accounts, ItemRead(a) = 0
        PROVE  said[a] <= Archived(a)
    <2>1. CASE conf.of[a].plain # 0
      <3>1. conf.of[a].plain = 1 /\ said[a] <= 1
        BY <1>1, <2>1, AccountType DEF FileInv
      <3>. QED  BY <3>1 DEF Archived
    <2>2. CASE conf.of[a].plain = 0
      <3>1. said[a] <= Holding(a) /\ Archived(a) = vault.of[a]
        BY <1>1, <1>2, <2>2, AccountType DEF KeptInv, Archived
      <3>2. Holding(a) = vault.of[a]
        BY <1>4 DEF Holding, ItemRead
      <3>. QED  BY <3>1, <3>2
    <2>. QED  BY <2>1, <2>2
  <1>. QED  BY <1>3, <1>4 DEF SecretInBackup

\* The invariant: one key, one writer, and every secret in the file or the
\* store while it is moved from one to the other.
SecretsSafe == TypeOK /\ OffInv /\ KeyInv /\ SecretInv

THEOREM SecretsInvariant == Spec => []SecretsSafe
  <1>1. Init => SecretsSafe
    BY InitType, OffInit, KeyInit, SecretInit DEF SecretsSafe
  <1>2. SecretsSafe /\ [Next]_vars => SecretsSafe'
    BY NextType, OffNext, KeyNext, SecretNext DEF SecretsSafe
  <1>. QED  BY <1>1, <1>2, PTL DEF Spec

\* No secret that was saved is lost while it is moved, wherever the process
\* dies, and a backup has it.
THEOREM SecretsAreKept == Spec => []SecretKept
  <1>1. SecretsSafe => SecretKept
    BY SecretInvKeeps DEF SecretsSafe
  <1>. QED  BY <1>1, SecretsInvariant, PTL
=============================================================================
