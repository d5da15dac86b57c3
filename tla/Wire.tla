-------------------------------- MODULE Wire --------------------------------
(***************************************************************************)
(* What becomes of a text between the keyboard and the two screens: it is  *)
(* sealed, put into a json envelope, a zip entry, base64 and an armor in a *)
(* mail's text, carried by mail servers, parsed, opened, stored as a mail  *)
(* again, and parsed again to be shown (email_core_utils.cpp,              *)
(* email_oemailim.cpp, session_messages.cpp).                              *)
(*                                                                         *)
(* A content is a text inside of layers.  A text is the set of the things  *)
(* in it that some step of the way reacts to; one that was changed, or     *)
(* replaced by another, is "altered".                                      *)
(***************************************************************************)
EXTENDS Naturals, Sequences, FiniteSets, Functions

CONSTANTS
    Forms,          \* the kinds of message, see AllForms
    Texts,          \* sets of features, see AllFeatures
    Faults,         \* what can fail, see AllFaults
    MaxFaults       \* bound: faults

AllForms == {
    "signal",       \* 1:1 text: sealed when it is written
    "group",        \* group text: sealed when it is sent
    "file",         \* 1:1 note with files
    "groupfile" }   \* group note with files

AllFeatures == {
    "escapes",      \* three or more of an equals sign and two hex digits
    "line",         \* the first line of the armor
    "pasted",       \* a whole armored body
    "word",         \* a name of the group protocol, as "mls_welcome"
    "header",       \* a json object with a signal_header and a version
    "object",       \* a json object with a plaintext
    "long",         \* more than 64 KB
    "dense" }       \* less, but more with its quotes and line breaks escaped

AllFaults == {
    "crash",        \* the sender's process dies with the task still there
    "cut",          \* it dies when the task is deleted and the rest is not done
    "busy",         \* the sender's database refuses to rewrite the sent copy
    "key" }         \* the receiver has no key that opens the mail

ConstantsFit ==
    /\ Forms \subseteq AllForms /\ Texts \subseteq SUBSET AllFeatures
    /\ Faults \subseteq AllFaults /\ MaxFaults \in Nat

VARIABLES
    form, text,     \* what was written
    at,             \* the sender: "typed", "failed", "task", "taken", "archived",
                    \* "deleted", "done"
    copy,           \* the body of its sent copy, or Nothing
    mail,           \* the mail on its way, or NoMail
    stage,          \* the receiver: "waiting", "stored", "refused", "opened", "sealed"
    got,            \* the body of its row, or Nothing
    faults          \* those that happened

vars == <<form, text, at, copy, mail, stage, got, faults>>
-----------------------------------------------------------------------------
(* Contents *)

Content(layers, features) == [in |-> layers, text |-> features]
Nothing == Content(<<"nothing">>, {})
Invalid == Content(<<"invalid">>, {})
Wrap(layer, c) == [c EXCEPT !.in = <<layer>> \o @]
Has(layer, c) == c.in # <<>> /\ Head(c.in) = layer
Peel(layer, c) == IF Has(layer, c) THEN [c EXCEPT !.in = Tail(@)] ELSE Invalid
Altered(c) == [c EXCEPT !.text = @ \cup {"altered"}]

\* Base64 and ciphertexts hide what is in the text.
Readable(c) == Range(c.in) \cap {"base64", "sealed"} = {}
Holds(feature, c) == Readable(c) /\ feature \in c.text

IsGroup == form \in {"group", "groupfile"}
IsFile == form \in {"file", "groupfile"}
Noted(c) == IF IsFile THEN Wrap("meta", c) ELSE c
Said == Content(<<>>, text)
-----------------------------------------------------------------------------
(* The sender's layers *)

\* A group's text and every note with files wait unsealed.
TaskBody ==
    IF form = "signal" THEN Wrap("sealed", Said)
    ELSE IF IsGroup THEN Wrap("task", Noted(Said)) ELSE Noted(Said)

\* group_prepare_outgoing and signalEncrypt; a 1:1 text goes as it is.
SealedForGroup(body) == Wrap("sealed", Peel("task", body))
SealedForPeer(body) == Wrap("sealed", body)
Outgoing ==
    CASE IsGroup -> SealedForGroup(TaskBody)
      [] form = "file" -> SealedForPeer(TaskBody)
      [] OTHER -> TaskBody

Zip(c) == Wrap("zip", c)
Base64(c) == Wrap("base64", c)
WireBody(payload) == Wrap("armor", Base64(Zip(Wrap("envelope", payload))))

\* What the sender keeps: of a group's message the ciphertext, until it is
\* rewritten.
LocalBody == IF IsGroup THEN Outgoing ELSE Noted(Said)

\* An older release put its notice into the text, and the zip into a file.
Armored == [marked |-> TRUE, parts |-> <<[kind |-> "text", body |-> WireBody(Outgoing)]>>]
Attached ==
    [marked |-> FALSE,
     parts |-> <<[kind |-> "text", body |-> Content(<<>>, {})],
                 [kind |-> "oim", body |-> Zip(Wrap("envelope", Outgoing))]>>]

\* The servers: the text is quoted, in base64 or plain, and the header that
\* says so may get lost (QQ), or a page for browsers be added.
Carried(m, encoding, labelled, paged) ==
    [marked |-> m.marked, encoding |-> encoding, labelled |-> labelled,
     parts |-> IF paged THEN Append(m.parts, [kind |-> "html", body |-> Content(<<>>, {})])
               ELSE m.parts]
NoMail == Carried([marked |-> FALSE, parts |-> <<>>], "plain", TRUE, FALSE)

\* A body as it is stored, a mail of one part.
Stored(body) == Carried([marked |-> FALSE, parts |-> <<[kind |-> "text", body |-> body]>>],
                        "plain", TRUE, FALSE)
-----------------------------------------------------------------------------
(* The receiver's layers *)

\* The text of a part before it is looked at: it is undone what the header
\* says, so that a text without the header keeps its form.
Quoted(m) == ~m.labelled /\ m.encoding = "quoted"
Garbled(m) == ~m.labelled /\ m.encoding = "base64"

\* A text with three escapes is taken for a quoted one that lost its header.
Escaped(m, body) == Quoted(m) \/ Holds("escapes", body)
Unquoted(m, body) == IF Quoted(m) THEN body ELSE Altered(body)

\* Plausible bug: the text is believed to be what the header says.
TextOfLabelled(m, body) == IF Garbled(m) \/ Quoted(m) THEN Content(<<>>, {"altered"}) ELSE body

TextOf(m, body) ==
    IF Garbled(m) THEN Content(<<>>, {"altered"})
    ELSE IF Escaped(m, body) THEN Unquoted(m, body) ELSE body

Unzip(c) == Peel("zip", c)
Unbase64(c) == Peel("base64", c)

\* oim_decode_wire_body.  Lines of the armor that the user wrote count as
\* well: a whole body yields what is in it, and all else is an error.
FoundArmor(body) == Has("armor", body) \/ Holds("line", body) \/ Holds("pasted", body)
Foreign == Content(<<"sealed">>, {"altered"})
DecodeWire(body) ==
    IF Has("armor", body)
    THEN Peel("envelope", Unzip(Unbase64(Peel("armor", body))))
    ELSE IF body.in = <<>> /\ "line" \notin body.text THEN Foreign ELSE Invalid

\* extractParts: the first text wins, and the file of an older release takes
\* its place.
PartText(m, part, before) ==
    CASE part.kind = "text" /\ before.text = Nothing ->
            LET body == TextOf(m, part.body)
            IN IF FoundArmor(body) THEN [text |-> DecodeWire(body), typed |-> TRUE]
               ELSE [before EXCEPT !.text = body]
      [] part.kind = "oim" -> [before EXCEPT !.text = Unzip(part.body)]
      [] OTHER -> before

Extracted(m) ==
    LET upTo[n \in 0 .. Len(m.parts)] ==
            IF n = 0 THEN [text |-> Nothing, typed |-> FALSE]
            ELSE PartText(m, m.parts[n], upTo[n - 1])
    IN upTo[Len(m.parts)]

\* oim_parse_protocol_mail: the type comes from the armor.
IsProtocol(m) == m.marked /\ Extracted(m).typed /\ Extracted(m).text # Invalid

\* The answers of signal_session_encrypt and signal_session_decrypt are cut at
\* the size of a buffer, and then not understood; base64 adds less to a
\* ciphertext than escapes may add to a text.  Other buffers grow with the mail.
Overflows == form = "signal" /\ "long" \in text
OverflowsOpened == form = "signal" /\ "dense" \in text
OpenedBody(payload) == Peel("sealed", payload)
-----------------------------------------------------------------------------
(* The screens: displayOf, of a stored body *)

Shown(as, c) == [as |-> as, text |-> c.text]
Marker(as) == [as |-> as, text |-> {}]

\* parse_stored_body_text: what cannot be parsed is empty.
StoredText(body) ==
    LET extracted == Extracted(Stored(body)).text
    IN IF body = Nothing \/ extracted \in {Invalid, Nothing} THEN Content(<<>>, {"altered"})
       ELSE extracted

\* The text of a group message, which may be stored within a json object.
GroupText(c) ==
    IF Has("task", c) THEN Peel("task", c)
    ELSE IF Holds("object", c) THEN Content(<<>>, {"altered"}) ELSE c

DisplayOf(body) ==
    LET stored == StoredText(body)
        shown == IF form = "group" THEN GroupText(stored) ELSE stored
    IN CASE IsFile /\ Has("meta", stored) -> Shown("file", stored)
         [] Has("sealed", shown) -> Marker(IF form = "groupfile" THEN "json" ELSE "sealed")
         [] Holds("word", shown) -> Marker("handshake")
         [] Holds("header", shown) -> Marker("sealed")
         [] OTHER -> Shown("text", shown)
-----------------------------------------------------------------------------
Init ==
    /\ form \in Forms /\ text \in Texts
    /\ at = "typed" /\ copy = Nothing /\ mail = NoMail
    /\ stage = "waiting" /\ got = Nothing /\ faults = <<>>

Fault(f) == f \in Faults /\ Len(faults) < MaxFaults /\ faults' = Append(faults, f)

\* A text that cannot be sealed is not queued: the user is told.
Write ==
    /\ at = "typed"
    /\ at' = IF Overflows THEN "failed" ELSE "task"
    /\ UNCHANGED <<form, text, copy, mail, stage, got, faults>>

\* send_email: SMTP quotes the text, Graph leaves it to the server.  A mail
\* sent again carries the same and is left out.
Send(encoding, labelled, paged) ==
    /\ at = "task"
    /\ mail' = IF mail = NoMail THEN Carried(Armored, encoding, labelled, paged) ELSE mail
    /\ at' = "taken"
    /\ UNCHANGED <<form, text, copy, stage, got, faults>>

SendOlder ==
    /\ at = "task" /\ mail = NoMail
    /\ mail' = Carried(Attached, "base64", TRUE, FALSE)
    /\ at' = "taken"
    /\ UNCHANGED <<form, text, copy, stage, got, faults>>

\* email_insert_sent_email: a second insertion of the same id does nothing.
InsertSent ==
    /\ at = "taken"
    /\ copy' = IF copy = Nothing THEN LocalBody ELSE copy
    /\ at' = "archived"
    /\ UNCHANGED <<form, text, mail, stage, got, faults>>

\* group_after_sent puts the plaintext in the place of the ciphertext.
Rewritten == Peel("task", TaskBody)

\* The task is deleted before.
AfterSent ==
    /\ at = "deleted"
    /\ copy' = IF IsGroup THEN Rewritten ELSE copy
    /\ at' = "done"
    /\ UNCHANGED <<form, text, mail, stage, got, faults>>

AfterSentFails ==
    /\ at = "deleted" /\ IsGroup /\ (Fault("busy") \/ Fault("cut"))
    /\ at' = "done"
    /\ UNCHANGED <<form, text, copy, mail, stage, got>>

DeleteTask ==
    /\ at = "archived" /\ at' = "deleted"
    /\ UNCHANGED <<form, text, copy, mail, stage, got, faults>>

Crash ==
    /\ at \in {"taken", "archived"} /\ Fault("crash")
    /\ at' = "task"
    /\ UNCHANGED <<form, text, copy, mail, stage, got>>

\* The first phase of email_download_pending_bodies.
Store ==
    /\ mail # NoMail /\ stage = "waiting"
    /\ IF IsProtocol(mail)
       THEN stage' = "stored" /\ got' = Extracted(mail).text
       ELSE stage' = "refused" /\ UNCHANGED got
    /\ UNCHANGED <<form, text, at, copy, mail, faults>>

\* The second: the row gets the plaintext.
Open ==
    /\ stage = "stored"
    /\ IF OverflowsOpened THEN stage' = "sealed" /\ UNCHANGED got
       ELSE stage' = "opened" /\ got' = OpenedBody(got)
    /\ UNCHANGED <<form, text, at, copy, mail, faults>>

OpenFails ==
    /\ stage = "stored" /\ Fault("key")
    /\ stage' = "sealed"
    /\ UNCHANGED <<form, text, at, copy, mail, got>>

Sending ==
    \/ Write
    \/ \E encoding \in {"quoted", "base64", "plain"}, labelled, paged \in BOOLEAN :
          Send(encoding, labelled, paged)
    \/ SendOlder
    \/ InsertSent \/ AfterSent \/ DeleteTask
Receiving == Store \/ Open
Failing == Crash \/ AfterSentFails \/ OpenFails

Next == Sending \/ Receiving \/ Failing

\* The outbox and the download run for ever.
Fairness == WF_vars(Sending) /\ WF_vars(Receiving)
Spec == Init /\ [][Next]_vars
FairSpec == Spec /\ Fairness
-----------------------------------------------------------------------------
(* Properties *)

AsWritten == [as |-> IF IsFile THEN "file" ELSE "text", text |-> text]

\* What changes a text, or its place on the screen.
Reacting ==
    CASE form = "signal" -> {"escapes", "line", "pasted", "word", "header", "dense"}
      [] form = "group" -> {"escapes", "line", "pasted", "word", "header", "object"}
      [] OTHER -> {"escapes", "line", "pasted"}

\* A mail of this release whose text a server left decodable.
Legible(m) == m.marked /\ ~Garbled(m)

\* In the end both show what was written, if it was sent, the mail could be
\* decoded, the key was there, the copy could be rewritten and nothing on the
\* way reacts to the text.
BothShowIt ==
    <>[](Legible(mail) /\ Range(faults) \subseteq {"crash"} /\ text \cap Reacting = {} =>
            DisplayOf(copy) = AsWritten /\ DisplayOf(got) = AsWritten)

\* The sender sees what it wrote: not so.  A text that something on the way
\* reacts to is altered, and the ciphertext of a group's message stays if the
\* process dies after the task was deleted.
OwnTextShown == at = "done" => DisplayOf(copy) = AsWritten

TypeOK ==
    /\ form \in Forms /\ text \in Texts
    /\ at \in {"typed", "failed", "task", "taken", "archived", "deleted", "done"}
    /\ stage \in {"waiting", "stored", "refused", "opened", "sealed"}
    /\ \A c \in {copy, got} : c.text \subseteq AllFeatures \cup {"altered"}
    /\ Range(faults) \subseteq Faults
=============================================================================
