----------------------------- MODULE MailReading -----------------------------
(***************************************************************************)
(* mail_search, mail_read, mail_get_thread and mail_list_folders of        *)
(* GatewayBackend with ImapReadOnlyClient (imap_client.py).  They take no  *)
(* lock: while a session goes through the folder command by command, mail  *)
(* arrives, and mail_move and other clients take messages away.            *)
(*                                                                         *)
(* A command is answered OK, is refused (NO), or its answer is lost        *)
(* (timeout, connection).  Of a message the UID, the Message-ID and the    *)
(* References and In-Reply-To matter.                                      *)
(***************************************************************************)
EXTENDS Integers, Sequences, FiniteSets

CONSTANTS
    MaxUid,      \* bound on UIDs
    Ids,         \* Message-IDs
    NoId,        \* the empty one of a message without the header
    header,      \* the Message-ID and the references of a message, by UID
    MaxLimit,    \* bound on the limit of a search
    MaxFolders,  \* bound on folders
    MaxChanges   \* bound on changes of the folder

Uids == 1..MaxUid

ASSUME ReadingAssumption ==
    /\ MaxUid \in Nat /\ MaxLimit \in Nat \ {0} /\ MaxFolders \in Nat /\ MaxChanges \in Nat
    /\ NoId \notin Ids
    /\ header \in [Uids -> [id : Ids \cup {NoId}, refs : SUBSET Ids]]

VARIABLES
    folder,   \* UIDs of the messages in the folder
    top,      \* the highest UID given so far
    step,     \* the next step of the session
    call,     \* the request it serves
    hits,     \* UIDs it has still to fetch
    messages, \* UIDs of the messages it has
    pending,  \* Message-IDs fetch_thread has still to visit
    found,    \* Message-IDs it has visited
    uncounted, \* the number of folders it has still to count
    reply,    \* the outcome of the last call, and the UIDs it showed
    stayed,   \* history: messages in the folder ever since the SEARCH
    changes

work == <<hits, messages, pending, found, uncounted>>
session == <<step, call, work, reply>>
environment == <<folder, top, changes>>
vars == <<environment, session, stayed>>

-----------------------------------------------------------------------------

Steps == {"idle", "examine", "seed", "search", "fetch", "link", "list", "count"}

\* The UID of mail_read and mail_get_thread, the limit of mail_search.
Call == [op : {"mail_read", "mail_get_thread"}, uid : Uids]
        \cup [op : {"mail_search"}, limit : 1..MaxLimit]
        \cup [op : {"mail_list_folders"}]

NoCall == [op |-> "none"]

\* not_found: no such folder or message; failed: every other error.
NoReply == [outcome |-> "none", mails |-> {}]

ReadingInit ==
    /\ folder \in SUBSET Uids
    /\ top \in Uids /\ \A u \in folder : u <= top
    /\ step = "idle" /\ call = NoCall
    /\ hits = {} /\ messages = {}
    /\ pending = <<>> /\ found = {} /\ uncounted = 0
    /\ reply = NoReply
    /\ stayed = {}
    /\ changes = 0

\* The connection is closed.
Answer(outcome, mails) ==
    /\ step' = "idle"
    /\ reply' = [outcome |-> outcome, mails |-> mails]
    /\ UNCHANGED <<call, work>>

Fail(outcome) == Answer(outcome, {}) /\ UNCHANGED stayed

-----------------------------------------------------------------------------
(* A session *)

Request(c) ==
    /\ step = "idle"
    /\ step' = (IF c.op = "mail_list_folders" THEN "list" ELSE "examine") /\ call' = c
    /\ hits' = {} /\ messages' = {} /\ pending' = <<>> /\ found' = {} /\ uncounted' = 0
    /\ reply' = NoReply /\ stayed' = {}
    /\ UNCHANGED environment

\* Any command can end the session: its answer is lost.
Lost ==
    /\ step \in {"examine", "seed", "search", "fetch", "list", "count"}
    /\ Fail("failed")
    /\ UNCHANGED environment

\* EXAMINE, which leaves the folder read-only.
Examine ==
    /\ step = "examine"
    /\ \/ Fail("not_found")
       \/ /\ step' = IF call.op = "mail_search" THEN "search" ELSE "seed"
          /\ UNCHANGED <<call, work, reply, stayed>>
    /\ UNCHANGED environment

\* UID FETCH of the message the request names.
FetchSeed ==
    /\ step = "seed"
    /\ \/ Fail("not_found")
       \/ /\ call.uid \in folder /\ call.op = "mail_read"
          /\ Answer("ok", {call.uid}) /\ UNCHANGED stayed
       \/ /\ call.uid \in folder /\ call.op = "mail_get_thread"
          /\ step' = "search"
          /\ UNCHANGED <<call, work, reply, stayed>>
    /\ UNCHANGED environment

\* UID SEARCH: all messages, or the first ones, up to the limit, of those that
\* match the query.
Search ==
    /\ step = "search"
    /\ \/ Fail("failed")
       \/ /\ step' = "fetch"
          /\ stayed' = folder
          /\ hits' \in SUBSET folder
          /\ \/ call.op = "mail_search" /\ Cardinality(hits') <= call.limit
             \/ call.op = "mail_get_thread" /\ hits' = folder
          /\ UNCHANGED <<call, messages, pending, found, uncounted, reply>>
    /\ UNCHANGED environment

IsNext(u) == u \in hits /\ \A w \in hits : u <= w

Take(u) == messages' = messages \cup {u}

Skip == call.op = "mail_search" /\ UNCHANGED messages

\* Mutant of FetchNext: a message mail_get_thread does not get is asked for again.
FetchAgain(u) ==
    /\ step = "fetch" /\ IsNext(u)
    /\ \/ /\ \/ u \in folder /\ Take(u)
             \/ call.op = "mail_get_thread" /\ u = call.uid /\ Take(u)
             \/ Skip
          /\ hits' = hits \ {u}
          /\ UNCHANGED <<step, call, pending, found, uncounted, reply, stayed>>
       \/ call.op = "mail_get_thread" /\ u # call.uid /\ UNCHANGED <<session, stayed>>
    /\ UNCHANGED environment

\* UID FETCH of the next hit: mail_search goes on without a message it does not
\* get, mail_get_thread gives up; it does not fetch the message it started from.
FetchNext(u) ==
    /\ step = "fetch" /\ IsNext(u)
    /\ \/ /\ \/ u \in folder /\ Take(u)
             \/ call.op = "mail_get_thread" /\ u = call.uid /\ Take(u)
             \/ Skip
          /\ hits' = hits \ {u}
          /\ UNCHANGED <<step, call, pending, found, uncounted, reply, stayed>>
       \/ call.op = "mail_get_thread" /\ u # call.uid /\ Fail("not_found")
    /\ UNCHANGED environment

SearchEnds ==
    /\ step = "fetch" /\ hits = {} /\ call.op = "mail_search"
    /\ Answer("ok", messages)
    /\ UNCHANGED <<environment, stayed>>

-----------------------------------------------------------------------------
(* The thread of a message: fetch_thread *)

IdOf(u) == header[u].id

\* Mutant of KnownIds: messages without an id count as messages with the same one.
AllIds == {IdOf(u) : u \in messages}

KnownIds == {IdOf(u) : u \in messages} \ {NoId}

\* Mutant of Adjacent: only from an answer to what it answers.
Cited(id) ==
    {other \in KnownIds : \E u \in messages : IdOf(u) = id /\ other \in header[u].refs}

\* The messages that name each other, by id, whichever names the other.
Adjacent(id) ==
    {other \in KnownIds :
        \E u \in messages :
            \/ IdOf(u) = id /\ other \in header[u].refs
            \/ IdOf(u) = other /\ id \in header[u].refs}

\* Without an id, or gone before the SEARCH, the message is its own thread.
Link ==
    /\ step = "fetch" /\ hits = {} /\ call.op = "mail_get_thread"
    /\ IF IdOf(call.uid) \in KnownIds
       THEN /\ step' = "link"
            /\ pending' = <<IdOf(call.uid)>>
            /\ UNCHANGED <<call, hits, messages, found, uncounted, reply>>
       ELSE Answer("ok", {call.uid})
    /\ UNCHANGED <<environment, stayed>>

\* The orders in which the elements of a set can come.
Orders(S) == {s \in [1..Cardinality(S) -> S] : \A x \in S : \E i \in DOMAIN s : s[i] = x}

\* The last pending id; an id may be pending several times.
Visit ==
    /\ step = "link" /\ pending # <<>>
    /\ LET current == pending[Len(pending)]
           rest    == SubSeq(pending, 1, Len(pending) - 1)
       IN  \/ current \in found /\ pending' = rest /\ UNCHANGED found
           \/ /\ current \notin found
              /\ found' = found \cup {current}
              /\ \E next \in Orders(Adjacent(current) \ found') : pending' = rest \o next
    /\ UNCHANGED <<environment, step, call, hits, messages, uncounted, reply, stayed>>

ThreadEnds ==
    /\ step = "link" /\ pending = <<>>
    /\ Answer("ok", {u \in messages : IdOf(u) \in found})
    /\ UNCHANGED <<environment, stayed>>

-----------------------------------------------------------------------------
(* The folders: list_folders *)

\* LIST; only folders that can be selected are counted.
ListFolders ==
    /\ step = "list"
    /\ \/ Fail("failed")
       \/ /\ step' = "count"
          /\ uncounted' \in 0..MaxFolders
          /\ UNCHANGED <<call, hits, messages, pending, found, reply, stayed>>
    /\ UNCHANGED environment

\* STATUS of one folder; the listing fails with one that is gone by now.
CountFolder ==
    /\ step = "count" /\ uncounted > 0
    /\ \/ Fail("failed")
       \/ /\ uncounted' = uncounted - 1
          /\ UNCHANGED <<step, call, hits, messages, pending, found, reply, stayed>>
    /\ UNCHANGED environment

ListingEnds ==
    /\ step = "count" /\ uncounted = 0
    /\ Answer("ok", {})
    /\ UNCHANGED <<environment, stayed>>

-----------------------------------------------------------------------------
(* The folder *)

Arrive ==
    /\ changes < MaxChanges /\ changes' = changes + 1
    /\ top < MaxUid
    /\ top' = top + 1
    /\ folder' = folder \cup {top'}
    /\ UNCHANGED <<session, stayed>>

\* mail_move, or another client.
Leave(u) ==
    /\ changes < MaxChanges /\ changes' = changes + 1
    /\ u \in folder
    /\ folder' = folder \ {u} /\ stayed' = stayed \ {u}
    /\ UNCHANGED <<top, session>>

ReadStep ==
    \/ Examine \/ FetchSeed \/ Search \/ (\E u \in Uids : FetchNext(u)) \/ SearchEnds
    \/ Link \/ Visit \/ ThreadEnds
    \/ ListFolders \/ CountFolder \/ ListingEnds

ReadingNext ==
    \/ \E c \in Call : Request(c)
    \/ ReadStep \/ Lost
    \/ Arrive \/ \E u \in Uids : Leave(u)

ReadingSpec == ReadingInit /\ [][ReadingNext]_vars

\* As long as no command times out, each is answered.
FairReadingSpec == ReadingSpec /\ WF_vars(ReadStep)

-----------------------------------------------------------------------------
(* Properties *)

ReadingTypeOK ==
    /\ folder \subseteq Uids /\ top \in Uids
    /\ step \in Steps
    /\ call \in Call \cup {NoCall}
    /\ hits \subseteq Uids /\ messages \subseteq Uids
    /\ pending \in Seq(Ids) /\ found \subseteq Ids /\ uncounted \in 0..MaxFolders
    /\ reply.outcome \in {"none", "ok", "not_found", "failed"} /\ reply.mails \subseteq Uids
    /\ stayed \subseteq folder
    /\ changes \in 0..MaxChanges

Related(u, v) ==
    /\ NoId \notin {IdOf(u), IdOf(v)}
    /\ IdOf(u) = IdOf(v) \/ IdOf(v) \in header[u].refs \/ IdOf(u) \in header[v].refs

\* The messages of a set that hang together with u within the set: those no set
\* can leave out that holds u, the messages with its id and, with a message,
\* every one related to it.
Thread(mails, u) ==
    {v \in mails :
        \A closed \in SUBSET mails :
            /\ \A w \in mails : w = u \/ (IdOf(w) = IdOf(u) /\ Related(w, u)) => w \in closed
            /\ \A w \in closed, x \in mails : Related(w, x) => x \in closed
            => v \in closed}

\* A thread misses no message that was in the folder all the time and hangs
\* together with the one asked for, whatever arrived or left meanwhile, and shows
\* none that does not hang together with it.
ThreadIsWhole ==
    reply.outcome = "ok" /\ call.op = "mail_get_thread" =>
        /\ Thread(stayed, call.uid) \subseteq reply.mails
        /\ reply.mails \subseteq Thread(messages \cup {call.uid}, call.uid)

\* A session ends, also in a folder whose messages refer to each other in a
\* circle or vanish under it.
ReadsEnd == step # "idle" ~> step = "idle"
=============================================================================
