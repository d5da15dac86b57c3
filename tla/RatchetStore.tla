----------------------------- MODULE RatchetStore -----------------------------
(***************************************************************************)
(* The 1:1 session of DoubleRatchet, statement by statement.  dr_encrypt   *)
(* and dr_decrypt load the ratchet row, work on a copy and write it back;  *)
(* the kept message keys are rows of another table, written one by one     *)
(* before it; the plaintext goes to email_body after both                  *)
(* (email_download_pending_bodies).  There is no transaction and no lock   *)
(* around a call, and the calls come from different threads: sendMessage   *)
(* from the UI isolate, decrypting from the account's Download isolate     *)
(* (childEntryPoint), attachments encrypted by its SendTask isolate.       *)
(*                                                                         *)
(* A crash drops the calls under way.  A statement on a busy database      *)
(* fails, which only dr_encrypt looks at.  A restored backup brings back   *)
(* the signal_session and signal_skipped_key rows as they were exported.   *)
(***************************************************************************)
EXTENDS DoubleRatchet

CONSTANTS
    Encryptors,     \* threads of an account that encrypt
    Decryptors,     \* threads of an account that decrypt
    Scenarios       \* the sets of faults a behaviour may meet

ASSUME ScenariosAssumption ==
    Scenarios \subseteq SUBSET {"crash", "busy", "restore"}

Threads == Encryptors \cup Decryptors

VARIABLES
    call,       \* call[p][t]: what thread t of party p is doing
    backup,     \* backup[p]: the exported rows, or NoBackup
    faults,     \* what may go wrong in this behaviour
    raced       \* history: two calls of an account have met in the wrong place

storeVars == <<vars, call, backup, faults, raced>>

Idle == [op |-> "idle"]
NoBackup == [open |-> FALSE]

StoreInit ==
    /\ Init
    /\ call = [p \in Parties |-> [t \in Threads |-> Idle]]
    /\ backup = [p \in Parties |-> NoBackup]
    /\ faults \in Scenarios
    /\ raced = FALSE

Enter(p, t, c) == call' = [call EXCEPT ![p][t] = c]

\* Another call of p works on a copy of the row, or decrypts.
Copied(p, t) ==
    \E u \in Threads \ {t} : call[p][u].op \notin {"idle", "plaintext"}
Decrypting(p, t) ==
    \E u \in Threads \ {t} : call[p][u].op \notin {"idle", "encrypt"}

\* What a table may hold after p's statement: the new rows, or the old ones
\* when the database was busy.
Written(table, p, rows) ==
    {[table EXCEPT ![p] = rows]}
    \cup (IF "busy" \in faults THEN {table} ELSE {})

\* signal_session_initiate_with_id: the row is new, nobody else knows it yet.
StoreInitiate ==
    /\ Initiate
    /\ UNCHANGED <<call, backup, faults, raced>>
-----------------------------------------------------------------------------
(* dr_encrypt *)

BeginEncrypt(p, t) ==
    /\ call[p][t] = Idle
    /\ open[p]
    /\ sent[p] < MaxSend
    /\ CanSend(row[p])
    /\ Enter(p, t, [op |-> "encrypt", row |-> row[p]])
    /\ UNCHANGED <<vars, backup, faults, raced>>

\* Plausible bug: the mail goes out although saveSession failed.
EndEncryptUnsaved(p, t) ==
    LET r == call[p][t].row
    IN  /\ call[p][t].op = "encrypt"
        /\ row' \in Written(row, p, AfterSend(r, Fresh(p)))
        /\ gen' = [gen EXCEPT ![p] = IF UsesFresh(r) THEN @ + 1 ELSE @]
        /\ net' = net \cup {Mail(p, "msg", Envelope(r, Fresh(p)))}
        /\ sent' = [sent EXCEPT ![p] = @ + 1]
        /\ Enter(p, t, Idle)
        /\ raced' = (raced \/ Copied(p, t))
        /\ UNCHANGED <<open, skipped, delivered, backup, faults>>

\* saveSession writes every column of the copy.  A mail a crash keeps from
\* being queued after this is one that is never read.
EndEncrypt(p, t) ==
    LET r == call[p][t].row
    IN  /\ call[p][t].op = "encrypt"
        /\ row' = [row EXCEPT ![p] = AfterSend(r, Fresh(p))]
        /\ gen' = [gen EXCEPT ![p] = IF UsesFresh(r) THEN @ + 1 ELSE @]
        /\ net' = net \cup {Mail(p, "msg", Envelope(r, Fresh(p)))}
        /\ sent' = [sent EXCEPT ![p] = @ + 1]
        /\ Enter(p, t, Idle)
        /\ raced' = (raced \/ Copied(p, t))
        /\ UNCHANGED <<open, skipped, delivered, backup, faults>>

EncryptFails(p, t) ==
    /\ "busy" \in faults
    /\ call[p][t].op = "encrypt"
    /\ Enter(p, t, Idle)
    /\ UNCHANGED <<vars, backup, faults, raced>>
-----------------------------------------------------------------------------
(* signal_session_decrypt and dr_decrypt *)

\* loadSession (after dr_initialize has saved the responder's row for a first
\* SESSION_INIT) and findSkippedKey.
BeginDecrypt(p, t, m) ==
    /\ call[p][t] = Idle
    /\ Readable(p, m)
    /\ m \notin delivered[p]
    /\ open' = [open EXCEPT ![p] = TRUE]
    /\ row' = [row EXCEPT ![p] = RowFor(p, m)]
    /\ Enter(p, t, [op |-> IF StoredKeys(p, m) # {} THEN "stored" ELSE "chain",
                    mail |-> m, row |-> RowFor(p, m), opened |-> ~open[p],
                    keys |-> IF StoredKeys(p, m) # {} THEN StoredKeys(p, m)
                             ELSE KeptKeys(RowFor(p, m), m)])
    /\ raced' = (raced \/ Decrypting(p, t))
    /\ UNCHANGED <<skipped, gen, sent, net, delivered, backup, faults>>

Opens(c) ==
    IF c.op = "stored" THEN \E k \in c.keys : k.mk = c.mail.mk
                       ELSE ChainOpens(c.row, c.mail)

DecryptFails(p, t) ==
    /\ call[p][t].op \in {"stored", "chain"}
    /\ ~Opens(call[p][t])
    /\ Enter(p, t, Idle)
    /\ UNCHANGED <<vars, backup, faults, raced>>

\* deleteSkippedKey.
DeleteKey(p, t) ==
    LET c == call[p][t]
    IN  /\ c.op = "stored" /\ Opens(c)
        /\ skipped' \in Written(skipped, p, DropUsedKey(p, c.mail))
        /\ Enter(p, t, [op |-> "plaintext", mail |-> c.mail])
        /\ UNCHANGED <<open, row, gen, sent, net, delivered, backup, faults,
                       raced>>

\* insertSkippedKey, a statement per key, in the order of the indices.
InsertKey(p, t) ==
    LET c == call[p][t]
    IN  /\ c.op \in {"chain", "keys"} /\ (c.op = "chain" => Opens(c))
        /\ \E k \in c.keys :
              /\ \A j \in c.keys : k.dh = j.dh => k.n <= j.n
              /\ skipped' \in Written(skipped, p, StoreKeys(skipped[p], {k}))
              /\ Enter(p, t, [c EXCEPT !.op = "keys", !.keys = @ \ {k}])
        /\ UNCHANGED <<open, row, gen, sent, net, delivered, backup, faults,
                       raced>>

\* Plausible bug: only the receiving half of the row is written.
SaveRecvColumns(p, r, m) == [AfterRecv(r, m) EXCEPT !.sendN = row[p].sendN]

SavedRow(p, r, m) == AfterRecv(r, m)

SaveRow(p, t) ==
    LET c == call[p][t]
    IN  /\ c.op \in {"chain", "keys"} /\ (c.op = "chain" => Opens(c))
        /\ c.keys = {}
        /\ row' \in Written(row, p, SavedRow(p, c.row, c.mail))
        /\ Enter(p, t, [op |-> "plaintext", mail |-> c.mail])
        /\ raced' = (raced \/ (row' # row /\ Copied(p, t)))
        /\ UNCHANGED <<open, skipped, gen, sent, net, delivered, backup,
                       faults>>

\* The caller stores the plaintext and marks the mail processed.
StorePlaintext(p, t) ==
    /\ call[p][t].op = "plaintext"
    /\ delivered' = [delivered EXCEPT ![p] = @ \cup {call[p][t].mail}]
    /\ Enter(p, t, Idle)
    /\ UNCHANGED <<open, row, skipped, gen, sent, net, backup, faults, raced>>
-----------------------------------------------------------------------------
(* Faults *)

Crash(p) ==
    /\ "crash" \in faults
    /\ call' = [call EXCEPT ![p] = [t \in Threads |-> Idle]]
    /\ UNCHANGED <<vars, backup, faults, raced>>

Quiet(p) == \A t \in Threads : call[p][t] = Idle

\* exportSnapshot, with the workers drained.
Export(p) ==
    /\ "restore" \in faults
    /\ Quiet(p) /\ open[p]
    /\ backup[p] = NoBackup
    /\ backup' = [backup EXCEPT ![p] = [open |-> TRUE, row |-> row[p],
                                        skipped |-> skipped[p],
                                        delivered |-> delivered[p]]]
    /\ UNCHANGED <<vars, call, faults, raced>>

\* restoreTables puts the rows back column by column, the mail's with them.
Restore(p) ==
    /\ Quiet(p)
    /\ backup[p] # NoBackup
    /\ row' = [row EXCEPT ![p] = backup[p].row]
    /\ skipped' = [skipped EXCEPT ![p] = backup[p].skipped]
    /\ delivered' = [delivered EXCEPT ![p] = backup[p].delivered]
    /\ UNCHANGED <<open, gen, sent, net, call, backup, faults, raced>>

StoreNext ==
    \/ StoreInitiate
    \/ \E p \in Parties :
          \/ \E t \in Encryptors : 
                BeginEncrypt(p, t) \/ EndEncrypt(p, t) \/ EncryptFails(p, t)
          \/ \E t \in Decryptors :
                \/ \E m \in net : BeginDecrypt(p, t, m)
                \/ DecryptFails(p, t) \/ DeleteKey(p, t) \/ InsertKey(p, t)
                \/ SaveRow(p, t) \/ StorePlaintext(p, t)
          \/ Crash(p) \/ Export(p) \/ Restore(p)

StoreSpec == StoreInit /\ [][StoreNext]_storeVars
-----------------------------------------------------------------------------
(* Properties *)

\* The copies the threads hold are rows the table could hold.
StoreTypeOK ==
    /\ TypeOK
    /\ raced \in BOOLEAN
    /\ \A p \in Parties : \A t \in Threads :
          /\ call[p][t].op \in
                {"idle", "encrypt", "stored", "chain", "keys", "plaintext"}
          /\ call[p][t].op \in {"encrypt", "stored", "chain", "keys"} =>
                call[p][t].row \in RatchetRow
          /\ call[p][t].op \in {"stored", "chain", "keys", "plaintext"} =>
                call[p][t].mail \in net
          /\ call[p][t].op \in {"stored", "chain", "keys"} =>
                call[p][t].keys \subseteq StoredKey

\* Mail whose plaintext is on its way counts as read; keys inserted ahead of
\* their row, and a first row until its SESSION_INIT is read, do not count yet.
OnItsWay(p) ==
    {call[p][t].mail : t \in {u \in Threads : call[p][u].op = "plaintext"}}
Inserting(p) ==
    UNION {KeptKeys(call[p][t].row, call[p][t].mail) :
              t \in {u \in Threads : call[p][u].op = "keys"}}

Opening(p) ==
    \E t \in Threads :
        call[p][t].op \in {"stored", "chain", "keys"} /\ call[p][t].opened

\* The tables as a caller sees them.
Calls == INSTANCE DoubleRatchet
             WITH open <- [p \in Parties |-> open[p] /\ ~Opening(p)],
                  skipped <- [p \in Parties |-> skipped[p] \ Inserting(p)],
                  delivered <- [p \in Parties |-> delivered[p] \cup OnItsWay(p)]

\* The UI isolate may encrypt in the middle of a decryption: until a row is
\* written under another call's copy of it, or two decryptions of an account
\* meet, the statements of every call are as good as one step of DoubleRatchet,
\* if none fails.
ImplementsCalls ==
    /\ Calls!Init
    /\ [][faults = {} /\ ~raced' => [Calls!Next]_Calls!vars]_storeVars

\* Whatever crashes, whatever statement fails and however the calls of an
\* account interleave, no message key encrypts two different messages, unless a
\* backup is resumed or two calls met as above.
NoKeyTwice == "restore" \notin faults /\ ~raced => NoKeyReuse

\* Nothing is claimed of a raced behaviour: TLC follows none any further.
Unraced == ~raced

=============================================================================
