----------------------------- MODULE DraftContent -----------------------------
(***************************************************************************)
(* What is inside a draft: the message DraftWriter builds from a revision  *)
(* (_message_bytes), the hash by which it recognises changes of another    *)
(* client (_server_hash), what it reads back (_snapshot), and the revision *)
(* mail_update_draft makes of what it read and what the request names      *)
(* (_updated_draft).                                                       *)
(*                                                                         *)
(* One draft with one message on the server.  The single IMAP commands,    *)
(* failures and crashes of the same methods are the subject of DraftSync,  *)
(* in which a hash stands for a content; here an update is two steps, the  *)
(* inspection and the replacement, between which the other client may      *)
(* change the message.  content_hash stands for the content it hashes.     *)
(***************************************************************************)
EXTENDS MessageText, FiniteSets

CONSTANTS
    Subjects,      \* To, Cc, Bcc and the subject, as one value
    Contents,      \* contents drafts are created with
    Requests,      \* what requests of mail_update_draft name
    Files,         \* attachments, by id and by content
    Staged,        \* those of them the store has a row of
    ForeignTexts,  \* payloads another client writes
    Damaged,       \* the content of an attachment that was changed
    Keep,          \* a field a request does not name
    None, NoJob,
    MaxBody,       \* MAX_BODY_SIZE of mailparse.py
    MaxLine,       \* max_line_length of the email policy
    MaxEdits,      \* bound on the changes of the other client
    MaxUpdates     \* bound on requests of mail_update_draft

\* A subject with white space in front does not come back from the server as it is.
Envelope == [subject : Subjects, padded : BOOLEAN]

Content == [head : Envelope, body : Text, html : Text \cup {None}, files : SUBSET Files]

Request == [head : Envelope \cup {Keep}, body : Text \cup {Keep}, html : Text \cup {Keep},
            files : (SUBSET Files) \cup {Keep}]

ASSUME ContentAssumption ==
    /\ Contents \subseteq Content /\ Requests \subseteq Request
    /\ Staged \subseteq Files
    /\ ForeignTexts \subseteq Text
    /\ IsFiniteSet(Files) /\ Damaged \notin Files
    /\ None \notin Files \cup {Damaged} \cup Content \cup Nat
    /\ None \notin [length : Nat \cup {None}, text : Text]
    /\ MaxBody \in Nat \ {0} /\ MaxLine \in Nat \ {0}
    /\ MaxEdits \in Nat /\ MaxUpdates \in Nat

VARIABLES
    message,  \* the message of the draft in the drafts folder
    record,   \* the draft in the store: its content_hash and its status
    job,      \* the update that has inspected the message
    touched,  \* history: another client changed the message
    edits, updates

vars == <<message, record, job, touched, edits, updates>>
counters == <<edits, updates>>

-----------------------------------------------------------------------------
(* The message of a revision *)

\* Headers of a part the gateway did not write are None.
TextPart(kind, data, length, seal) ==
    [kind |-> kind, data |-> data, length |-> length, seal |-> seal, id |-> None]

FilePart(data, seal, id) ==
    [kind |-> "file", data |-> data, length |-> None, seal |-> seal, id |-> id]

InlinePart == [kind |-> "inline", data |-> Damaged, length |-> None, seal |-> None, id |-> None]

IsText(part) == part.kind \in {"plain", "html"}

\* Mutant of TextSeal: the line breaks are hashed as they are.
TextSealOfBytes(data, length) == [length |-> length, text |-> data]

\* X-Noema-Part-Sha256
TextSeal(data, length) == [length |-> length, text |-> Lf(data)]

\* A text in the payload of the chosen transfer encoding; the seal is computed
\* before the message is brought to the form of the wire.
Written(kind, text, encoding) ==
    TextPart(kind,
             IF encoding = "base64" THEN Lines(text) ELSE Crlf(Lines(text)),
             Size(text),
             TextSeal(Lines(text), Size(text)))

\* Per text, email.message chooses 7bit, 8bit or quoted-printable, which keep the
\* line breaks of the wire, or base64, which does not.
Encodings == [plain : {"lines", "base64"}, html : {"lines", "base64"}]

LongLine(text) ==
    \E first, last \in DOMAIN Lf(text) :
        LET line == SubSeq(Lf(text), first, last)
        IN  "lf" \notin ToSet(line) /\ Size(line) > MaxLine

\* base64 is only for a text with a long line, and there only if quoted-printable
\* is longer.
Chosen(encoding, content) ==
    /\ encoding.plain = "base64" => LongLine(content.body)
    /\ encoding.html = "base64" => content.html # None /\ LongLine(content.html)

AsReceived(head) == [head EXCEPT !.padded = FALSE]

Compose(content, encoding) ==
    LET files == SetToSeq(content.files)
    IN  [declared |-> content,
         seal     |-> content.head,
         head     |-> AsReceived(content.head),
         parts    |-> <<Written("plain", content.body, encoding.plain)>>
                      \o (IF content.html = None THEN <<>>
                          ELSE <<Written("html", content.html, encoding.html)>>)
                      \o [i \in DOMAIN files |-> FilePart(files[i], files[i], files[i])]]

-----------------------------------------------------------------------------
(* Reading it back *)

\* _server_hash finds the seals of the envelope and of every part intact.
Trusted(m) ==
    /\ m.seal = m.head
    /\ \A i \in DOMAIN m.parts :
          LET part == m.parts[i]
          IN  /\ part.kind = "file" => part.seal = part.data
              /\ IsText(part) => part.seal = TextSeal(part.data, part.length)

\* Otherwise it is the hash of the bytes of the message, which is no content's.
ServerHash(m) == IF Trusted(m) THEN m.declared ELSE None

\* A part with a declared length is cut to it.
ReadBack(part) ==
    CASE part.length # None -> Cut(part.data, part.length)
      [] part.length = None /\ part.data # <<>> /\ Last(part.data) = "lf" -> Front(part.data)
      [] OTHER -> part.data

PartsOf(m, kind) ==
    FlattenSeq([i \in DOMAIN m.parts |->
        IF m.parts[i].kind = kind THEN <<m.parts[i]>> ELSE <<>>])

Snapshot(m) ==
    LET plain == PartsOf(m, "plain")
        html  == PartsOf(m, "html")
    IN  [head  |-> m.head,
         body  |-> IF plain = <<>> THEN <<>> ELSE ReadBack(plain[1]),
         html  |-> IF html = <<>> THEN None ELSE ReadBack(html[1]),
         files |-> {part.id : part \in ToSet(PartsOf(m, "file"))} \ {None}]

\* Mutant of Merge: attachments the request does not name are left out.
MergeFiles(snapshot, request) ==
    [head  |-> IF request.head = Keep THEN snapshot.head ELSE request.head,
     body  |-> IF request.body = Keep THEN snapshot.body ELSE request.body,
     html  |-> IF request.html = Keep THEN snapshot.html ELSE request.html,
     files |-> IF request.files = Keep THEN {} ELSE request.files]

\* _updated_draft: fields the request does not name are those of the server.
Merge(snapshot, request) ==
    [field \in DOMAIN snapshot |->
        IF request[field] = Keep THEN snapshot[field] ELSE request[field]]

\* mail_read of the drafts folder shows the plain text parts.
ShownBody(m) ==
    LET plain == PartsOf(m, "plain")
    IN  BoundedText([i \in DOMAIN plain |-> plain[i].data], MaxBody)

-----------------------------------------------------------------------------
(* The gateway: mail_update_draft and mail_get_draft_summary *)

Synced == record.status = "synced_to_gmx"

InSync == ServerHash(message) = record.content

ContentInit ==
    \E content \in Contents, encoding \in Encodings :
        /\ Chosen(encoding, content)
        /\ message = Compose(content, encoding)
        /\ record = [content |-> content, status |-> "synced_to_gmx"]
        /\ job = NoJob
        /\ touched = FALSE
        /\ edits = 0 /\ updates = 0

Close(status) ==
    /\ record' = [record EXCEPT !.status = status]
    /\ job' = NoJob
    /\ UNCHANGED <<message, touched, edits>>

\* inspect_draft in mail_update_draft, and what the backend makes of its snapshot.
Inspect(request) ==
    LET next == Merge(Snapshot(message), request)
    IN  /\ job = NoJob /\ Synced
        /\ updates < MaxUpdates
        /\ updates' = updates + 1
        /\ \/ ~InSync /\ Close("modified")
           \/ InSync /\ ~(next.files \subseteq Staged) /\ Close("failed")
           \/ /\ InSync /\ next.files \subseteq Staged
              /\ job' = [request |-> request, next |-> next]
              /\ UNCHANGED <<message, record, touched, edits>>

\* Mutant of Replace: the message is not verified once more.
ReplaceUnverified(encoding) ==
    LET new == Compose(job.next, encoding)
    IN  /\ job # NoJob /\ Chosen(encoding, job.next)
        /\ \/ ServerHash(new) # job.next /\ Close("invalidated")
           \/ /\ ServerHash(new) = job.next
              /\ message' = new
              /\ record' = [record EXCEPT !.content = job.next]
              /\ job' = NoJob /\ touched' = FALSE
              /\ UNCHANGED edits
        /\ UNCHANGED updates

\* update_draft: the prior message is verified before the APPEND (modified) and
\* both messages after it (invalidated; both stay, and the draft is closed).
Replace(encoding) ==
    LET new == Compose(job.next, encoding)
    IN  /\ job # NoJob /\ Chosen(encoding, job.next)
        /\ \/ ~InSync /\ Close("modified")
           \/ ~(InSync /\ ServerHash(new) = job.next) /\ Close("invalidated")
           \/ /\ InSync /\ ServerHash(new) = job.next
              /\ message' = new
              /\ record' = [record EXCEPT !.content = job.next]
              /\ job' = NoJob /\ touched' = FALSE
              /\ UNCHANGED edits
        /\ UNCHANGED updates

\* An error of the server or the connection ends the update.
Fail ==
    /\ job # NoJob
    /\ Close("failed")
    /\ UNCHANGED updates

\* mail_get_draft_summary of a draft that was changed.
Summarize ==
    /\ job = NoJob /\ Synced
    /\ ~InSync
    /\ Close("modified")
    /\ UNCHANGED updates

-----------------------------------------------------------------------------
(* The other client, which leaves the headers of the draft alone *)

Change(new) ==
    /\ edits < MaxEdits
    /\ edits' = edits + 1
    /\ message' = new /\ message' # message
    /\ touched' = TRUE
    /\ UNCHANGED <<record, job, updates>>

ChangePart(i, part) == Change([message EXCEPT !.parts[i] = part])

EditHead == \E subject \in Subjects :
    Change([message EXCEPT !.head = [subject |-> subject, padded |-> FALSE]])

EditText == \E i \in DOMAIN message.parts, text \in ForeignTexts :
    IsText(message.parts[i]) /\ ChangePart(i, [message.parts[i] EXCEPT !.data = text])

\* The same text, with the line breaks in the other form.
EditBreaks == \E i \in DOMAIN message.parts :
    /\ IsText(message.parts[i])
    /\ \E form \in {Lf(message.parts[i].data), Crlf(Lf(message.parts[i].data))} :
          ChangePart(i, [message.parts[i] EXCEPT !.data = form])

DamageFile == \E i \in DOMAIN message.parts :
    /\ message.parts[i].kind = "file"
    /\ ChangePart(i, [message.parts[i] EXCEPT !.data = Damaged])

\* A part that is written anew, without its X-Noema headers.
StripHeaders == \E i \in DOMAIN message.parts :
    ChangePart(i, [message.parts[i] EXCEPT !.length = None, !.seal = None, !.id = None])

RemovePart == \E i \in DOMAIN message.parts :
    Change([message EXCEPT !.parts = RemoveAt(message.parts, i)])

ForeignParts ==
    {InlinePart, FilePart(Damaged, None, None)}
    \cup {TextPart(kind, text, None, None) : kind \in {"plain", "html"}, text \in ForeignTexts}

AddPart == \E part \in ForeignParts :
    Change([message EXCEPT !.parts = Append(message.parts, part)])

OtherClient ==
    \/ EditHead \/ EditText \/ EditBreaks \/ DamageFile
    \/ StripHeaders \/ RemovePart \/ AddPart

ContentNext ==
    \/ \E request \in Requests : Inspect(request)
    \/ \E encoding \in Encodings : Replace(encoding)
    \/ Fail \/ Summarize \/ OtherClient

ContentSpec == ContentInit /\ [][ContentNext]_vars

-----------------------------------------------------------------------------
(* Properties *)

\* The envelope, the texts and the attachments of a message are those of a content.
Ours(m, content) ==
    /\ m.head = content.head
    /\ \A i \in DOMAIN m.parts :
          LET part == m.parts[i]
          IN  /\ part.kind = "plain" => Lf(part.data) = Lines(content.body)
              /\ part.kind = "html"  => content.html # None /\ Lf(part.data) = Lines(content.html)
              /\ part.kind = "file"  => part.data \in content.files

\* The hash tells the gateway's own message from a changed one, whatever the
\* transfer encoding made of its line breaks: as long as nobody else changed it
\* the message is in sync, and in sync it shows no envelope, text or attachment
\* the gateway did not write.  Exempt is a subject with white space in front.
InSyncIsOurs ==
    Synced =>
        /\ ~touched /\ ~record.content.head.padded => InSync
        /\ InSync => Ours(message, record.content)

\* An update replaces no message in which another client has changed the
\* envelope, a text or an attachment or added one, also not when the change came
\* between the inspection and the replacement.
EditsAreNotOverwritten ==
    [][edits' = edits /\ message' # message => Ours(message, record.content)]_vars

Breaks(text) == Cardinality({i \in DOMAIN Lf(text) : Lf(text)[i] = "lf"})

\* The new text is the old one up to the form of its line breaks and one at its
\* end, but for at most one character per line break at its end, in the place of
\* which the trace of a character cut in half may stand.
Shortened(old, new) ==
    \E after \in {Lf(new), Lf(Whole(new))} :
        IsPrefix(after, Lines(old)) /\ Len(after) + Breaks(old) >= Len(Lf(old))

\* Fields a request does not name are carried from revision to revision; a text
\* loses no more than one character per line break.
KeptFieldsSurvive ==
    [][edits' = edits /\ message' # message /\ ~touched =>
          LET named == job.request
              old == record.content
              new == record'.content
          IN  /\ named.head = Keep => new.head = old.head
              /\ named.files = Keep => new.files = old.files
              /\ named.body = Keep => Shortened(old.body, new.body)
              /\ named.html = Keep => \/ old.html = None /\ new.html = None
                                      \/ old.html # None /\ Shortened(old.html, new.html)]_vars

\* What mail_read shows of any message is within the bound, is a prefix of the
\* texts, and says that it is truncated just when something is missing.
ReadIsHonest ==
    LET plain  == PartsOf(message, "plain")
        bodies == Joined([i \in DOMAIN plain |-> plain[i].data])
        shown  == ShownBody(message)
    IN  /\ Size(shown.text) <= MaxBody
        /\ IsPrefix(Whole(shown.text), bodies)
        /\ shown.truncated <=> shown.text # bodies

\* What is read back of a message is what was written, as the docstring at
\* draft_writer.py:76 and tests/test_integration.py:279 have it, so that an update
\* which does not name a text keeps it.  Not so with more than one line: see the
\* run body_lost.
KeptTextsSurvive ==
    [][edits' = edits /\ message' # message /\ ~touched /\ job.request.body = Keep =>
          Lf(record'.content.body) = Lf(record.content.body)]_vars

\* A change of the other client is noticed, as
\* docs/adr/ADR-003-draft-identitaet.md:40 has it.  Not so of a part that is
\* removed: see the run edit_missed.
EveryEditIsNoticed ==
    Synced /\ InSync =>
        /\ Snapshot(message).files = record.content.files
        /\ (Snapshot(message).html = None) <=> (record.content.html = None)
=============================================================================
