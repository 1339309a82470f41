------------------------------ MODULE MailMove ------------------------------
(***************************************************************************)
(* mail_move of GatewayBackend (backend.py) with MailMover.move            *)
(* (mail_mover.py): a message goes from a source folder to a target folder *)
(* by UID MOVE or, on a server without it, by UID COPY, UID STORE and      *)
(* UID EXPUNGE.  The server, the two folders and the other mail client are *)
(* outside the gateway.                                                    *)
(*                                                                         *)
(* The write lock admits one move at a time.  One IMAP command is one      *)
(* step.  A command is answered OK, is refused (NO), or its answer is lost *)
(* (timeout, connection, BAD) whether or not the server has done it.  A    *)
(* request has no idempotency key: the client repeats it with the same     *)
(* UID.  Server UIDs are not reused, so a message of the source folder is  *)
(* named by its UID.                                                       *)
(***************************************************************************)
EXTENDS Integers

CONSTANTS
    Mails,        \* the messages of the source folder
    NoMail,
    MaxRequests,  \* bound on mail_move requests
    MaxExternal,  \* bound on the steps of the other client
    MaxCrash      \* bound on crashes

ASSUME MoveAssumption ==
    /\ NoMail \notin Mails
    /\ MaxRequests \in Nat /\ MaxExternal \in Nat /\ MaxCrash \in Nat

VARIABLES
    source,        \* messages in the source folder
    marked,        \* those of them flagged \Deleted
    copies,        \* how often a message is in the target folder
    supportsMove,  \* capability MOVE of the server
    step,          \* the next command of the running move
    job,           \* the message it moves
    reply,         \* the last answer: message and outcome
    touched,       \* history: messages the other client flagged or took
    unfinished,    \* history: messages a move of which broke off
    requests, externals, crashes

folders == <<source, marked, copies>>
control == <<step, job, reply, unfinished>>
others == <<supportsMove, touched, requests, externals, crashes>>
vars == <<folders, control, others>>

-----------------------------------------------------------------------------

Steps == {"idle", "down", "select", "list", "check", "move", "copy", "store", "expunge"}

\* The commands after which a move that ends early may have changed a folder.
Writing == {"move", "copy", "store", "expunge"}

\* not_found: no such folder or message; duplicated: "move incomplete: message
\* duplicated"; failed: every other error.
Outcomes == {"moved", "not_found", "duplicated", "failed"}

Reply == [mail : Mails, outcome : Outcomes]

NoReply == [mail |-> NoMail, outcome |-> "none"]

MoveInit ==
    /\ source = Mails
    /\ marked = {}
    /\ copies = [m \in Mails |-> 0]
    /\ supportsMove \in BOOLEAN
    /\ step = "idle" /\ job = NoMail
    /\ reply = NoReply
    /\ touched = {} /\ unfinished = {}
    /\ requests = 0 /\ externals = 0 /\ crashes = 0

\* Mutant of Answer: the mover stays bound to the message.
AnswerHoldingJob(outcome) ==
    /\ step' = "idle" /\ UNCHANGED job
    /\ reply' = [mail |-> job, outcome |-> outcome]
    /\ unfinished' = IF outcome # "moved" /\ step \in Writing
                     THEN unfinished \cup {job} ELSE unfinished

\* The connection is closed and the lock is free again.
Answer(outcome) ==
    /\ step' = "idle" /\ job' = NoMail
    /\ reply' = [mail |-> job, outcome |-> outcome]
    /\ unfinished' = IF outcome # "moved" /\ step \in Writing
                     THEN unfinished \cup {job} ELSE unfinished

Continue(next) == step' = next /\ UNCHANGED <<job, reply, unfinished>>

\* What can become of a command: done, refused, or its answer is lost.
Command(effect, done, refused) ==
    /\ \/ effect /\ done
       \/ UNCHANGED folders /\ refused
       \/ (effect \/ UNCHANGED folders) /\ Answer("failed")
    /\ UNCHANGED others

-----------------------------------------------------------------------------
(* What the commands do on the server; a UID that is gone is accepted. *)

ServerMove ==
    /\ source' = source \ {job}
    /\ marked' = marked \ {job}
    /\ copies' = [copies EXCEPT ![job] = IF job \in source THEN @ + 1 ELSE @]

ServerCopy ==
    /\ copies' = [copies EXCEPT ![job] = IF job \in source THEN @ + 1 ELSE @]
    /\ UNCHANGED <<source, marked>>

ServerMark ==
    /\ marked' = marked \cup ({job} \cap source)
    /\ UNCHANGED <<source, copies>>

\* EXPUNGE without a UID set; the gateway does not use it here.
ServerExpungeAll ==
    /\ source' = source \ marked
    /\ marked' = {}
    /\ UNCHANGED copies

ServerExpunge ==
    /\ source' = source \ ({job} \cap marked)
    /\ marked' = marked \ {job}
    /\ UNCHANGED copies

-----------------------------------------------------------------------------
(* MailMover.move *)

Request(m) ==
    /\ step = "idle"
    /\ requests < MaxRequests
    /\ requests' = requests + 1
    /\ step' = "select" /\ job' = m
    /\ UNCHANGED <<folders, reply, unfinished, supportsMove, touched, externals, crashes>>

Select == step = "select" /\ Command(UNCHANGED folders, Continue("list"), Answer("not_found"))

List == step = "list" /\ Command(UNCHANGED folders, Continue("check"), Answer("not_found"))

\* UID FETCH of the message, then the choice of the command.
Check ==
    /\ step = "check"
    /\ Command(UNCHANGED folders,
               IF job \notin source THEN Answer("not_found")
               ELSE Continue(IF supportsMove THEN "move" ELSE "copy"),
               Answer("not_found"))

Move == step = "move" /\ Command(ServerMove, Answer("moved"), Answer("failed"))

\* Mutant of Copy: a refused COPY is not noticed.
CopyUnchecked ==
    step = "copy" /\ Command(ServerCopy, Continue("store"), Continue("store"))

\* Mutant of Copy: a copy whose answer is missing is ordered once more.
CopyAgain ==
    step = "copy" /\ Command(ServerCopy, Continue("copy") \/ Continue("store"), Answer("failed"))

Copy == step = "copy" /\ Command(ServerCopy, Continue("store"), Answer("failed"))

Store == step = "store" /\ Command(ServerMark, Continue("expunge"), Answer("duplicated"))

\* Mutant of Expunge: a refused EXPUNGE is answered like a done one.
ExpungeUnchecked ==
    step = "expunge" /\ Command(ServerExpunge, Answer("moved"), Answer("moved"))

\* Mutant of Expunge: EXPUNGE without the UID.
ExpungeAll ==
    step = "expunge" /\ Command(ServerExpungeAll, Answer("moved"), Answer("duplicated"))

Expunge == step = "expunge" /\ Command(ServerExpunge, Answer("moved"), Answer("duplicated"))

-----------------------------------------------------------------------------
(* Crash, restart and the other client *)

Crash ==
    /\ step # "down" /\ crashes < MaxCrash
    /\ crashes' = crashes + 1
    /\ step' = "down" /\ job' = NoMail
    /\ unfinished' = IF step \in Writing THEN unfinished \cup {job} ELSE unfinished
    /\ UNCHANGED <<folders, reply, supportsMove, touched, requests, externals>>

Restart ==
    /\ step = "down"
    /\ Continue("idle")
    /\ UNCHANGED <<folders, others>>

OtherClient(m) ==
    /\ externals < MaxExternal
    /\ externals' = externals + 1
    /\ touched' = touched \cup {m}
    /\ \/ m \in source /\ source' = source \ {m} /\ marked' = marked \ {m} /\ UNCHANGED copies
       \/ m \in source \ marked /\ marked' = marked \cup {m} /\ UNCHANGED <<source, copies>>
       \/ copies[m] > 0 /\ copies' = [copies EXCEPT ![m] = @ - 1] /\ UNCHANGED <<source, marked>>
    /\ UNCHANGED <<control, supportsMove, requests, crashes>>

MoveStep == Select \/ List \/ Check \/ Move \/ Copy \/ Store \/ Expunge

MoveNext ==
    \/ \E m \in Mails : Request(m) \/ OtherClient(m)
    \/ MoveStep \/ Crash \/ Restart

MoveSpec == MoveInit /\ [][MoveNext]_vars

-----------------------------------------------------------------------------
(* Properties *)

MoveTypeOK ==
    /\ source \in SUBSET Mails
    /\ marked \in SUBSET source
    /\ copies \in [Mails -> Nat]
    /\ supportsMove \in BOOLEAN
    /\ step \in Steps
    /\ job \in Mails \cup {NoMail}
    /\ job = NoMail <=> step \in {"idle", "down"}
    /\ reply \in Reply \cup {NoReply}
    /\ touched \in SUBSET Mails /\ unfinished \in SUBSET Mails
    /\ requests \in 0..MaxRequests /\ externals \in 0..MaxExternal /\ crashes \in 0..MaxCrash

\* A message nobody else took is in one of the folders, whatever command was
\* refused, whatever answer was lost and wherever the gateway crashed; where it
\* is flagged \Deleted, so that any client's EXPUNGE removes it, the copy exists.
NothingLost ==
    \A m \in Mails \ touched :
        /\ m \in source \/ copies[m] > 0
        /\ m \in marked => copies[m] > 0

\* As long as no move of a message broke off, it is in exactly one folder, once,
\* between moves: a repeated request does not copy it again.
ExactlyOneFolder ==
    \A m \in Mails \ (touched \cup unfinished) :
        m # job => copies[m] = IF m \in source THEN 0 ELSE 1

\* "moved" is answered only for a message that left the source folder and is in
\* the target folder, unless the other client interfered.
MovedIsMoved ==
    reply.outcome = "moved" /\ reply.mail \notin touched =>
        reply.mail \notin source /\ copies[reply.mail] > 0

\* The gateway takes only the named message out of the source folder, however
\* many others are flagged there.
OnlyNamedLeaves == [][externals' = externals => source \ source' \subseteq {job}]_vars
=============================================================================
