--------------------------- MODULE MailReadingProofs ---------------------------
(***************************************************************************)
(* Safety of MailReading for any folder and any headers: the search of     *)
(* fetch_thread yields exactly the thread.  While hits are fetched, what   *)
(* stayed in the folder is fetched or a hit (FetchAgrees).  In the search, *)
(* every id visited or pending is the id of messages of the thread         *)
(* (LinkIsSound), and whatever is adjacent to a visited id is visited or   *)
(* pending (LinkIsComplete), so that nothing is left out when no id is     *)
(* pending any more.                                                       *)
(***************************************************************************)
EXTENDS MailReading, FiniteSetTheorems, SequenceTheorems, TLAPS

Pending == {pending[i] : i \in DOMAIN pending}

InThread(id) ==
    \A u \in messages : IdOf(u) = id => u \in Thread(messages \cup {call.uid}, call.uid)

ThreadCall == call.op = "mail_get_thread"

FetchAgrees ==
    /\ step # "idle" => call \in Call
    /\ step \in {"fetch", "link"} /\ ThreadCall => stayed \subseteq messages \cup hits
    /\ step = "link" => ThreadCall /\ hits = {}
    /\ step \notin {"idle", "link"} => found = {}
    /\ step \in {"list", "count"} => call.op = "mail_list_folders"

LinkIsSound ==
    step = "link" =>
        /\ IdOf(call.uid) \in KnownIds
        /\ Pending \subseteq KnownIds /\ found \subseteq KnownIds
        /\ \A id \in Pending \cup found : InThread(id)

LinkIsComplete ==
    step = "link" =>
        /\ IdOf(call.uid) \in Pending \cup found
        /\ \A id \in found : Adjacent(id) \subseteq Pending \cup found

ReplyIsFinal == reply.outcome = "ok" => step = "idle" /\ call \in Call

ReadingInv ==
    /\ ReadingTypeOK
    /\ FetchAgrees
    /\ LinkIsSound
    /\ LinkIsComplete
    /\ ThreadIsWhole
    /\ ReplyIsFinal

-----------------------------------------------------------------------------
(* Threads *)

\* The message asked for, and those with its id, are in the thread.
LEMMA ThreadHasRoots ==
  ASSUME NEW mails, NEW u, NEW v \in mails, v = u \/ (IdOf(v) = IdOf(u) /\ Related(v, u))
  PROVE  v \in Thread(mails, u)
  BY DEF Thread

\* A thread is closed under the relation of its messages.
LEMMA ThreadIsClosed ==
  ASSUME NEW mails, NEW u, NEW v \in Thread(mails, u), NEW w \in mails, Related(v, w)
  PROVE  w \in Thread(mails, u)
<1>1. v \in mails
  BY DEF Thread
<1>2. SUFFICES ASSUME NEW closed \in SUBSET mails,
                      \A x \in mails : x = u \/ (IdOf(x) = IdOf(u) /\ Related(x, u)) => x \in closed,
                      \A x \in closed, y \in mails : Related(x, y) => y \in closed
               PROVE  w \in closed
  BY Zenon DEF Thread
<1>3. v \in closed
  BY <1>2, Zenon DEF Thread
<1> QED BY <1>2, <1>3

\* A closed set of messages that holds the roots holds the thread.
LEMMA ThreadIsLeast ==
  ASSUME NEW mails, NEW u, NEW closed \in SUBSET mails,
         \A x \in mails : x = u \/ (IdOf(x) = IdOf(u) /\ Related(x, u)) => x \in closed,
         \A x \in closed, y \in mails : Related(x, y) => y \in closed
  PROVE  Thread(mails, u) \subseteq closed
  BY Zenon DEF Thread

\* Messages that leave take nothing into the thread.
LEMMA ThreadIsMonotonic ==
  ASSUME NEW mails, NEW others, NEW u, others \subseteq mails
  PROVE  Thread(others, u) \subseteq Thread(mails, u)
<1> DEFINE closed == Thread(mails, u) \cap others
<1>1. closed \in SUBSET others
  OBVIOUS
<1>2. \A x \in others : x = u \/ (IdOf(x) = IdOf(u) /\ Related(x, u)) => x \in closed
  BY ThreadHasRoots
<1>3. \A x \in closed, y \in others : Related(x, y) => y \in closed
  BY ThreadIsClosed
<1> HIDE DEF closed
<1>4. Thread(others, u) \subseteq closed
  BY <1>1, <1>2, <1>3, ThreadIsLeast
<1> QED BY <1>4 DEF closed

-----------------------------------------------------------------------------
(* Steps of a session *)

\* The ids of the messages at hand are ids, and finitely many.
LEMMA KnownIdsAreFinite ==
  ASSUME ReadingTypeOK
  PROVE  KnownIds \subseteq Ids /\ IsFiniteSet(KnownIds)
<1>1. KnownIds \subseteq Ids
  BY ReadingAssumption DEF ReadingTypeOK, KnownIds, IdOf
<1>2. IsFiniteSet(messages)
  <2>1. IsFiniteSet(1..MaxUid)
    BY ReadingAssumption, FS_Interval
  <2>2. messages \subseteq 1..MaxUid
    BY DEF ReadingTypeOK, Uids
  <2> QED BY <2>1, <2>2, FS_Subset
<1> DEFINE all == {IdOf(u) : u \in messages}
<1>3. [u \in messages |-> IdOf(u)] \in Surjection(messages, all)
  BY DEF Surjection
<1> HIDE DEF all
<1>4. IsFiniteSet(all)
  BY <1>2, <1>3, FS_Surjection
<1>5. KnownIds \subseteq all
  BY DEF KnownIds, all
<1> QED BY <1>1, <1>4, <1>5, FS_Subset

\* An order of a finite set is a sequence of its elements.
LEMMA OrdersAreSequences ==
  ASSUME NEW S, IsFiniteSet(S), NEW s \in Orders(S)
  PROVE  /\ s \in Seq(S) /\ Len(s) = Cardinality(S) /\ DOMAIN s = 1..Len(s)
         /\ \A i \in 1..Len(s) : s[i] \in S
         /\ \A x \in S : \E i \in 1..Len(s) : s[i] = x
<1>1. Cardinality(S) \in Nat
  BY FS_CardinalityType
<1> QED BY <1>1 DEF Orders

\* The state before the first request satisfies the invariant.
LEMMA InitEstablishes == ReadingInit => ReadingInv
  BY ReadingAssumption
  DEF ReadingInit, ReadingInv, ReadingTypeOK, FetchAgrees, LinkIsSound, LinkIsComplete,
      ThreadIsWhole, ReplyIsFinal, NoReply, Steps

\* A session that fails keeps the invariant.
LEMMA FailPreserves ==
  ASSUME ReadingInv, UNCHANGED environment,
         NEW outcome \in {"failed", "not_found"}, Fail(outcome)
  PROVE  ReadingInv'
  BY DEF ReadingInv, Fail, Answer, environment, work, ReadingTypeOK, FetchAgrees, LinkIsSound,
         LinkIsComplete, ThreadIsWhole, ReplyIsFinal, Steps

\* A listing of the folders fetches nothing.
LEMMA ListingPreserves ==
  ASSUME ReadingInv, ListFolders \/ CountFolder \/ ListingEnds
  PROVE  ReadingInv'
<1> USE DEF environment, work, ReadingTypeOK, FetchAgrees, LinkIsSound, LinkIsComplete,
            ThreadIsWhole, ReplyIsFinal, Steps
<1>1. CASE ListFolders
  <2>1. CASE Fail("failed")
    BY <1>1, <2>1, FailPreserves DEF ListFolders
  <2>2. CASE ~Fail("failed")
    BY <1>1, <2>2 DEF ReadingInv, ListFolders
  <2> QED BY <2>1, <2>2
<1>2. CASE CountFolder
  <2>1. CASE Fail("failed")
    BY <1>2, <2>1, FailPreserves DEF CountFolder
  <2>2. CASE ~Fail("failed")
    <3>1. /\ step = "count" /\ call.op = "mail_list_folders"
          /\ uncounted' \in 0..MaxFolders
          /\ UNCHANGED <<step, call, hits, messages, pending, found, reply, stayed, environment>>
      BY <1>2, <2>2, ReadingAssumption DEF ReadingInv, CountFolder
    <3> QED BY <3>1 DEF ReadingInv
  <2> QED BY <2>1, <2>2
<1>3. CASE ListingEnds
  BY <1>3 DEF ReadingInv, ListingEnds, Answer
<1> QED BY <1>1, <1>2, <1>3

\* A request starts with empty hands.
LEMMA RequestPreserves ==
  ASSUME ReadingInv, NEW c \in Call, Request(c)
  PROVE  ReadingInv'
  BY ReadingAssumption
  DEF ReadingInv, Request, environment, ReadingTypeOK, FetchAgrees, LinkIsSound,
         LinkIsComplete, ThreadIsWhole, ReplyIsFinal, NoReply, Steps

\* EXAMINE, the first FETCH and the SEARCH: the history begins with the hits.
LEMMA OpeningPreserves ==
  ASSUME ReadingInv, Examine \/ FetchSeed \/ Search
  PROVE  ReadingInv'
<1> USE DEF environment, work, ReadingTypeOK, FetchAgrees, LinkIsSound, LinkIsComplete,
            ThreadIsWhole, ReplyIsFinal, Steps
<1>1. CASE Examine
  <2>1. CASE Fail("not_found")
    BY <1>1, <2>1, FailPreserves DEF Examine
  <2>2. CASE ~Fail("not_found")
    BY <1>1, <2>2 DEF ReadingInv, Examine
  <2> QED BY <2>1, <2>2
<1>2. CASE FetchSeed
  <2>1. CASE Fail("not_found")
    BY <1>2, <2>1, FailPreserves DEF FetchSeed
  <2>2. CASE /\ step = "seed" /\ call.uid \in folder /\ call.op = "mail_read"
             /\ Answer("ok", {call.uid}) /\ UNCHANGED <<stayed, environment>>
    BY <2>2 DEF ReadingInv, Answer
  <2>3. CASE /\ step = "seed" /\ step' = "search"
             /\ UNCHANGED <<call, work, reply, stayed, environment>>
    BY <2>3 DEF ReadingInv
  <2> QED BY <1>2, <2>1, <2>2, <2>3 DEF FetchSeed
<1>3. CASE Search
  <2>1. CASE Fail("failed")
    BY <1>3, <2>1, FailPreserves DEF Search
  <2>2. CASE ~Fail("failed")
    BY <1>3, <2>2 DEF ReadingInv, Search, ThreadCall
  <2> QED BY <2>1, <2>2
<1> QED BY <1>1, <1>2, <1>3

\* A message is no longer a hit once it is fetched or, for a search, given up.
LEMMA FetchNextPreserves ==
  ASSUME ReadingInv, NEW u \in Uids, FetchNext(u)
  PROVE  ReadingInv'
<1>1. CASE Fail("not_found")
  BY <1>1, FailPreserves DEF FetchNext
<1>2. CASE ~Fail("not_found")
  <2>1. /\ hits' = hits \ {u}
        /\ \/ messages' = messages \cup {u}
           \/ call.op = "mail_search" /\ messages' = messages
        /\ UNCHANGED <<environment, step, call, pending, found, uncounted, reply, stayed>>
        /\ step = "fetch"
    BY <1>2 DEF FetchNext, Take, Skip
  <2> QED BY <2>1
      DEF ReadingInv, environment, ReadingTypeOK, FetchAgrees, LinkIsSound, LinkIsComplete,
          ThreadIsWhole, ReplyIsFinal, ThreadCall
<1> QED BY <1>1, <1>2

\* A search has no thread to show.
LEMMA SearchEndsPreserves ==
  ASSUME ReadingInv, SearchEnds
  PROVE  ReadingInv'
  BY DEF ReadingInv, SearchEnds, Answer, work, environment, ReadingTypeOK, FetchAgrees, LinkIsSound,
         LinkIsComplete, ThreadIsWhole, ReplyIsFinal, ThreadCall, Steps

-----------------------------------------------------------------------------
(* The search of the thread *)

\* The messages with the id of the one asked for are in its thread.
LEMMA SeedIsInThread ==
  ASSUME IdOf(call.uid) # NoId
  PROVE  InThread(IdOf(call.uid))
<1> SUFFICES ASSUME NEW u \in messages, IdOf(u) = IdOf(call.uid)
             PROVE  u \in Thread(messages \cup {call.uid}, call.uid)
  BY DEF InThread
<1>1. Related(u, call.uid)
  BY DEF Related
<1> QED BY <1>1, ThreadHasRoots

\* What is adjacent to an id of the thread is an id of the thread.
LEMMA AdjacentIsInThread ==
  ASSUME NEW id \in KnownIds, InThread(id), NEW other \in Adjacent(id)
  PROVE  InThread(other)
<1> DEFINE mails == messages \cup {call.uid}
           thread == Thread(mails, call.uid)
<1>1. SUFFICES ASSUME NEW v \in messages, IdOf(v) = other
               PROVE  v \in thread
  BY DEF InThread
<1>2. id # NoId /\ other # NoId
  BY DEF Adjacent, KnownIds
<1>3. \A w \in messages : IdOf(w) = id => w \in thread
  BY DEF InThread
<1>4. PICK u \in messages : \/ IdOf(u) = id /\ other \in header[u].refs
                            \/ IdOf(u) = other /\ id \in header[u].refs
  BY DEF Adjacent
<1> HIDE DEF thread
<1>5. CASE IdOf(u) = id /\ other \in header[u].refs
  <2>1. u \in thread /\ Related(u, v)
    BY <1>1, <1>2, <1>3, <1>5 DEF Related
  <2> QED BY <2>1, <1>1, ThreadIsClosed DEF thread
<1>6. CASE IdOf(u) = other /\ id \in header[u].refs
  <2>1. PICK w \in messages : IdOf(w) = id
    BY DEF KnownIds
  <2>2. w \in thread /\ Related(w, u)
    BY <1>2, <1>3, <1>6, <2>1 DEF Related
  <2>3. u \in thread
    BY <2>2, ThreadIsClosed DEF thread
  <2>4. Related(u, v)
    BY <1>1, <1>2, <1>6 DEF Related
  <2> QED BY <2>3, <2>4, <1>1, ThreadIsClosed DEF thread
<1> QED BY <1>4, <1>5, <1>6

\* A message that no message at hand shares its id with is its own thread.
LEMMA LonelyThread ==
  ASSUME IdOf(call.uid) \notin KnownIds, stayed \subseteq messages
  PROVE  /\ Thread(stayed, call.uid) \subseteq {call.uid}
         /\ {call.uid} \subseteq Thread(messages \cup {call.uid}, call.uid)
<1> DEFINE closed == {call.uid} \cap stayed
<1>1. closed \in SUBSET stayed
  OBVIOUS
<1>2. \A x \in stayed : Related(x, call.uid) => IdOf(x) # IdOf(call.uid)
  BY DEF KnownIds, Related
<1>3. \A y \in stayed : call.uid \in stayed => ~Related(call.uid, y)
  BY DEF KnownIds, Related
<1>4. \A x \in stayed : x = call.uid \/ (IdOf(x) = IdOf(call.uid) /\ Related(x, call.uid)) => x \in closed
  BY <1>2
<1>5. \A x \in closed, y \in stayed : Related(x, y) => y \in closed
  BY <1>3
<1> HIDE DEF closed
<1>6. Thread(stayed, call.uid) \subseteq closed
  BY <1>1, <1>4, <1>5, ThreadIsLeast
<1>7. call.uid \in Thread(messages \cup {call.uid}, call.uid)
  BY ThreadHasRoots
<1> QED BY <1>6, <1>7 DEF closed

\* When no id is pending, the messages whose id was visited are the thread.
LEMMA VisitedIsThread ==
  ASSUME ReadingInv, step = "link", pending = <<>>
  PROVE  LET shown == {u \in messages : IdOf(u) \in found}
         IN  /\ Thread(stayed, call.uid) \subseteq shown
             /\ shown \subseteq Thread(messages \cup {call.uid}, call.uid)
<1> DEFINE shown == {u \in messages : IdOf(u) \in found}
           closed == shown \cap stayed
<1>1. /\ stayed \subseteq messages
      /\ \A id \in found : InThread(id)
      /\ IdOf(call.uid) \in found
      /\ found \subseteq KnownIds
      /\ \A id \in found : Adjacent(id) \subseteq found
  BY DEF ReadingInv, FetchAgrees, LinkIsSound, LinkIsComplete, Pending
<1>2. shown \subseteq Thread(messages \cup {call.uid}, call.uid)
  BY <1>1 DEF InThread
<1>3. closed \in SUBSET stayed
  OBVIOUS
<1>4. \A x \in stayed : x = call.uid \/ (IdOf(x) = IdOf(call.uid) /\ Related(x, call.uid)) => x \in closed
  BY <1>1
<1>5. ASSUME NEW x \in closed, NEW y \in stayed, Related(x, y)
      PROVE  y \in closed
  <2>1. IdOf(x) \in found /\ x \in messages /\ y \in messages
    BY <1>1, <1>5
  <2>2. IdOf(y) \in KnownIds
    BY <2>1, <1>5 DEF Related, KnownIds
  <2>3. IdOf(y) = IdOf(x) \/ IdOf(y) \in Adjacent(IdOf(x))
    BY <1>5, <2>1, <2>2 DEF Related, Adjacent
  <2>4. IdOf(y) \in found
    BY <1>1, <2>1, <2>3
  <2> QED BY <2>1, <2>4, <1>5
<1> HIDE DEF closed
<1>6. Thread(stayed, call.uid) \subseteq closed
  BY <1>3, <1>4, <1>5, ThreadIsLeast
<1> QED BY <1>2, <1>6 DEF closed

\* The search of the thread begins with the id of the message asked for.
LEMMA LinkPreserves ==
  ASSUME ReadingInv, Link
  PROVE  ReadingInv'
<1>1. /\ step = "fetch" /\ hits = {} /\ found = {} /\ ThreadCall
      /\ call \in Call /\ call.uid \in Uids
      /\ stayed \subseteq messages
      /\ UNCHANGED <<call, hits, messages, found, uncounted, stayed, folder, top, changes>>
  BY DEF ReadingInv, Link, Answer, FetchAgrees, ThreadCall, Call, environment, work
<1>2. KnownIds' = KnownIds /\ IdOf(call.uid)' = IdOf(call.uid) /\ ThreadCall'
  BY <1>1 DEF KnownIds, IdOf, ThreadCall
<1>3. CASE IdOf(call.uid) \in KnownIds
  <2>1. step' = "link" /\ pending' = <<IdOf(call.uid)>> /\ reply' = reply
    BY <1>3 DEF Link
  <2>2. Pending' = {IdOf(call.uid)}
    BY <2>1 DEF Pending
  <2>3. InThread(IdOf(call.uid))'
    <3>1. InThread(IdOf(call.uid))
      BY <1>3, SeedIsInThread DEF KnownIds
    <3> QED BY <3>1, <1>1 DEF InThread, IdOf, Thread, Related
  <2>4. IdOf(call.uid) \in Ids
    BY <1>3, KnownIdsAreFinite DEF ReadingInv
  <2>5. ReadingTypeOK'
    BY <1>1, <2>1, <2>4 DEF ReadingInv, ReadingTypeOK, Steps
  <2>6. FetchAgrees'
    BY <1>1, <1>2, <2>1 DEF FetchAgrees
  <2>7. LinkIsSound'
    BY <1>1, <1>2, <1>3, <2>1, <2>2, <2>3 DEF LinkIsSound
  <2>8. LinkIsComplete'
    BY <1>1, <1>2, <2>1, <2>2 DEF LinkIsComplete
  <2>9. ThreadIsWhole' /\ ReplyIsFinal'
    BY <1>1, <2>1 DEF ReadingInv, ThreadIsWhole, ReplyIsFinal
  <2> QED BY <2>5, <2>6, <2>7, <2>8, <2>9 DEF ReadingInv
<1>4. CASE IdOf(call.uid) \notin KnownIds
  <2>1. /\ step' = "idle" /\ pending' = pending
        /\ reply' = [outcome |-> "ok", mails |-> {call.uid}]
    BY <1>4 DEF Link, Answer, work
  <2>2. ThreadIsWhole'
    BY <1>1, <1>4, <2>1, LonelyThread DEF ThreadIsWhole, Thread, Related, IdOf
  <2>3. ReadingTypeOK'
    BY <1>1, <2>1 DEF ReadingInv, ReadingTypeOK, Steps
  <2>4. FetchAgrees' /\ LinkIsSound' /\ LinkIsComplete' /\ ReplyIsFinal'
    BY <1>1, <2>1 DEF ReadingInv, FetchAgrees, LinkIsSound, LinkIsComplete, ReplyIsFinal
  <2> QED BY <2>2, <2>3, <2>4 DEF ReadingInv
<1> QED BY <1>3, <1>4

\* A sequence without its last element.
LEMMA FrontOfSequence ==
  ASSUME NEW S, NEW s \in Seq(S), s # <<>>
  PROVE  /\ Len(s) \in Nat \ {0} /\ s[Len(s)] \in S
         /\ SubSeq(s, 1, Len(s) - 1) \in Seq(S)
         /\ Len(SubSeq(s, 1, Len(s) - 1)) = Len(s) - 1
         /\ \A i \in 1..Len(SubSeq(s, 1, Len(s) - 1)) : SubSeq(s, 1, Len(s) - 1)[i] = s[i]
<1> DEFINE n == Len(s) - 1
<1>1. n \in Nat /\ Len(s) = n + 1 /\ s[Len(s)] \in S
  OBVIOUS
<1>2. \A i \in 1..n : s[i] \in S
  BY <1>1
<1> HIDE DEF n
<1>3. /\ SubSeq(s, 1, n) \in Seq(S)
      /\ Len(SubSeq(s, 1, n)) = IF 1 <= n THEN n - 1 + 1 ELSE 0
      /\ \A i \in 1..(n - 1 + 1) : SubSeq(s, 1, n)[i] = s[1 + i - 1]
  BY <1>1, <1>2, SubSeqProperties
<1>4. n - 1 + 1 = n /\ (IF 1 <= n THEN n - 1 + 1 ELSE 0) = n /\ \A i \in 1..n : 1 + i - 1 = i
  BY <1>1
<1>5. Len(SubSeq(s, 1, n)) = n /\ \A i \in 1..n : SubSeq(s, 1, n)[i] = s[i]
  BY <1>3, <1>4
<1> QED BY <1>1, <1>3, <1>5 DEF n

\* A visit takes one id from the pending ones, and adds those adjacent to it.
LEMMA VisitPreserves ==
  ASSUME ReadingInv, Visit
  PROVE  ReadingInv'
<1> DEFINE current == pending[Len(pending)]
           rest    == SubSeq(pending, 1, Len(pending) - 1)
           Rest    == {rest[i] : i \in 1..Len(rest)}
<1>1. /\ step = "link" /\ pending # <<>> /\ pending \in Seq(Ids) /\ found \subseteq Ids
      /\ UNCHANGED <<step, call, hits, messages, uncounted, reply, stayed, folder, top, changes>>
  BY DEF ReadingInv, ReadingTypeOK, Visit, environment
<1>2. /\ Len(pending) \in Nat \ {0} /\ current \in Ids
      /\ rest \in Seq(Ids) /\ Len(rest) = Len(pending) - 1
      /\ \A i \in 1..Len(rest) : rest[i] = pending[i]
  BY <1>1, FrontOfSequence
<1>3. Pending = Rest \cup {current}
  BY <1>1, <1>2 DEF Pending
<1>4. current \in Pending /\ current \in KnownIds /\ InThread(current)
  BY <1>1, <1>3 DEF ReadingInv, LinkIsSound
<1>5. KnownIds \subseteq Ids /\ IsFiniteSet(KnownIds)
  BY KnownIdsAreFinite DEF ReadingInv
<1>6. /\ KnownIds' = KnownIds /\ ThreadCall' = ThreadCall
      /\ \A id : Adjacent(id)' = Adjacent(id)
      /\ \A id : InThread(id)' = InThread(id)
      /\ IdOf(call.uid)' = IdOf(call.uid)
  BY <1>1 DEF KnownIds, IdOf, ThreadCall, Adjacent, InThread, Thread, Related
<1>7. FetchAgrees' /\ ThreadIsWhole' /\ ReplyIsFinal'
  BY <1>1, <1>6 DEF ReadingInv, FetchAgrees, ThreadIsWhole, ReplyIsFinal
<1>8. ASSUME pending' \in Seq(Ids), found' \subseteq Ids,
             Pending' \cup found' \subseteq Pending \cup found \cup Adjacent(current),
             Pending \cup found \subseteq Pending' \cup found',
             found' \subseteq found \cup {current},
             current \in found' \ found => Adjacent(current) \subseteq Pending' \cup found'
      PROVE  ReadingInv'
  <2>1. \A id \in Adjacent(current) : id \in KnownIds /\ InThread(id)
    BY <1>4, AdjacentIsInThread DEF Adjacent
  <2>2. ReadingTypeOK'
    BY <1>1, <1>8 DEF ReadingInv, ReadingTypeOK
  <2>3. LinkIsSound'
    BY <1>1, <1>6, <1>8, <2>1 DEF ReadingInv, LinkIsSound
  <2>4. LinkIsComplete'
    BY <1>1, <1>6, <1>8 DEF ReadingInv, LinkIsComplete
  <2> QED BY <1>7, <2>2, <2>3, <2>4 DEF ReadingInv
<1>9. CASE current \in found
  <2>1. pending' = rest /\ found' = found
    BY <1>9 DEF Visit
  <2>2. Pending' = Rest
    <3>1. DOMAIN rest = 1..Len(rest)
      BY <1>2
    <3> QED BY <2>1, <3>1 DEF Pending
  <2> QED BY <1>1, <1>2, <1>3, <1>8, <1>9, <2>1, <2>2
<1>10. CASE current \notin found
  <2> DEFINE news == Adjacent(current) \ found'
  <2>1. found' = found \cup {current}
    BY <1>10 DEF Visit
  <2>2. PICK next \in Orders(news) : pending' = rest \o next
    BY <1>10 DEF Visit
  <2>3. news \subseteq KnownIds
    BY DEF Adjacent
  <2>4. IsFiniteSet(news)
    BY <2>3, <1>5, FS_Subset
  <2> HIDE DEF news
  <2>5. /\ next \in Seq(news) /\ next \in Seq(Ids)
        /\ \A i \in 1..Len(next) : next[i] \in news
        /\ \A x \in news : \E i \in 1..Len(next) : next[i] = x
    BY <2>2, <2>3, <2>4, <1>5, OrdersAreSequences
  <2>6. pending' \in Seq(Ids)
    BY <1>2, <2>2, <2>5
  <2>7. Pending' = Rest \cup news
    <3>1. DOMAIN (rest \o next) = 1..(Len(rest) + Len(next))
      BY <1>2, <2>5
    <3>2. \A i \in 1..Len(rest) : (rest \o next)[i] = rest[i]
      BY <1>2, <2>5
    <3>3. \A i \in 1..Len(next) : (rest \o next)[Len(rest) + i] = next[i]
      BY <1>2, <2>5
    <3>4. Len(rest) \in Nat /\ Len(next) \in Nat
      BY <1>2, <2>5
    <3>5. Pending' = {(rest \o next)[i] : i \in 1..(Len(rest) + Len(next))}
      BY <2>2, <3>1 DEF Pending
    <3> HIDE DEF rest
    <3>6. ASSUME NEW x \in Pending' PROVE x \in Rest \cup news
      <4>1. PICK i \in 1..(Len(rest) + Len(next)) : x = (rest \o next)[i]
        BY <3>5
      <4>2. CASE i <= Len(rest)
        BY <3>2, <3>4, <4>1, <4>2
      <4>3. CASE i > Len(rest)
        <5>1. i - Len(rest) \in 1..Len(next) /\ i = Len(rest) + (i - Len(rest))
          BY <3>4, <4>1, <4>3
        <5>2. x = next[i - Len(rest)]
          BY <3>3, <4>1, <5>1
        <5> QED BY <2>5, <5>1, <5>2
      <4> QED BY <3>4, <4>2, <4>3
    <3>7. ASSUME NEW x \in Rest PROVE x \in Pending'
      BY <3>2, <3>4, <3>5
    <3>8. ASSUME NEW x \in news PROVE x \in Pending'
      <4>1. PICK i \in 1..Len(next) : next[i] = x
        BY <2>5
      <4>2. Len(rest) + i \in 1..(Len(rest) + Len(next))
        BY <3>4
      <4> QED BY <3>3, <3>5, <4>1, <4>2
    <3> QED BY <3>6, <3>7, <3>8
  <2>8. found' \subseteq Ids
    BY <1>1, <1>2, <2>1
  <2> QED BY <1>3, <1>8, <2>1, <2>6, <2>7, <2>8 DEF news
<1> QED BY <1>9, <1>10

\* The messages shown are the thread.
LEMMA ThreadEndsPreserves ==
  ASSUME ReadingInv, ThreadEnds
  PROVE  ReadingInv'
<1> DEFINE shown == {u \in messages : IdOf(u) \in found}
<1>1. /\ step = "link" /\ pending = <<>> /\ step' = "idle"
      /\ reply' = [outcome |-> "ok", mails |-> shown]
      /\ UNCHANGED <<call, hits, messages, pending, found, uncounted, stayed, folder, top, changes>>
  BY DEF ThreadEnds, Answer, environment, work
<1>2. /\ Thread(stayed, call.uid) \subseteq shown
      /\ shown \subseteq Thread(messages \cup {call.uid}, call.uid)
  BY <1>1, VisitedIsThread
<1>3. shown \subseteq Uids /\ call \in Call
  BY <1>1 DEF ReadingInv, ReadingTypeOK, FetchAgrees
<1> HIDE DEF shown
<1>4. ThreadIsWhole'
  BY <1>1, <1>2 DEF ThreadIsWhole, Thread, Related, IdOf
<1>5. ReadingTypeOK' /\ ReplyIsFinal'
  BY <1>1, <1>3 DEF ReadingInv, ReadingTypeOK, ReplyIsFinal, Steps
<1>6. FetchAgrees' /\ LinkIsSound' /\ LinkIsComplete'
  BY <1>1 DEF FetchAgrees, LinkIsSound, LinkIsComplete
<1> QED BY <1>4, <1>5, <1>6 DEF ReadingInv

-----------------------------------------------------------------------------
(* The folder *)

\* The search of a thread knows the messages it has, not the folder.
LEMMA SearchIsKept ==
  ASSUME ReadingInv, UNCHANGED session, stayed' \subseteq stayed
  PROVE  FetchAgrees' /\ LinkIsSound' /\ LinkIsComplete'
<1>1. /\ KnownIds' = KnownIds /\ ThreadCall' = ThreadCall /\ Pending' = Pending
      /\ \A id : Adjacent(id)' = Adjacent(id)
      /\ \A id : InThread(id)' = InThread(id)
      /\ IdOf(call.uid)' = IdOf(call.uid)
  BY DEF session, work, KnownIds, IdOf, ThreadCall, Adjacent, InThread, Thread, Related, Pending
<1>2. UNCHANGED <<step, call, hits, messages, found>>
  BY DEF session, work
<1>3. FetchAgrees'
  BY <1>1, <1>2 DEF ReadingInv, FetchAgrees
<1>4. LinkIsSound'
  BY <1>1, <1>2 DEF ReadingInv, LinkIsSound
<1>5. LinkIsComplete'
  BY <1>1, <1>2 DEF ReadingInv, LinkIsComplete
<1> QED BY <1>3, <1>4, <1>5

\* Mail that arrives is not part of the history of a session.
LEMMA ArrivePreserves ==
  ASSUME ReadingInv, Arrive
  PROVE  ReadingInv'
<1>1. /\ folder \subseteq folder' /\ folder' \subseteq Uids /\ top' \in Uids
      /\ changes' \in 0..MaxChanges
      /\ UNCHANGED <<step, call, hits, messages, pending, found, uncounted, reply, stayed>>
  BY ReadingAssumption DEF ReadingInv, ReadingTypeOK, Arrive, session, work, Uids
<1>2. ReadingTypeOK'
  BY <1>1 DEF ReadingInv, ReadingTypeOK
<1>3. ReplyIsFinal'
  BY <1>1 DEF ReadingInv, ReplyIsFinal
<1>4. FetchAgrees' /\ LinkIsSound' /\ LinkIsComplete'
  BY <1>1, SearchIsKept DEF session, work
<1>5. ThreadIsWhole'
  BY <1>1 DEF ReadingInv, ThreadIsWhole, Thread, Related, IdOf
<1> QED BY <1>2, <1>3, <1>4, <1>5 DEF ReadingInv

\* A thread needs not show a message that left.
LEMMA LeavePreserves ==
  ASSUME ReadingInv, NEW u \in Uids, Leave(u)
  PROVE  ReadingInv'
<1>1. /\ folder' \subseteq folder /\ stayed' \subseteq stayed /\ stayed' \subseteq folder'
      /\ changes' \in 0..MaxChanges
      /\ UNCHANGED <<top, step, call, hits, messages, pending, found, uncounted, reply>>
  BY ReadingAssumption DEF ReadingInv, ReadingTypeOK, Leave, session, work
<1>2. ReadingTypeOK'
  BY <1>1 DEF ReadingInv, ReadingTypeOK
<1>3. ReplyIsFinal'
  BY <1>1 DEF ReadingInv, ReplyIsFinal
<1>4. FetchAgrees' /\ LinkIsSound' /\ LinkIsComplete'
  BY <1>1, SearchIsKept DEF session, work
<1>5. ThreadIsWhole'
  <2>1. Thread(stayed', call.uid) \subseteq Thread(stayed, call.uid)
    BY <1>1, ThreadIsMonotonic
  <2>2. Thread(stayed, call.uid)' = Thread(stayed', call.uid)
    BY <1>1 DEF Thread, Related, IdOf
  <2>3. Thread(messages \cup {call.uid}, call.uid)' = Thread(messages \cup {call.uid}, call.uid)
    BY <1>1 DEF Thread, Related, IdOf
  <2> QED BY <1>1, <2>1, <2>2, <2>3 DEF ReadingInv, ThreadIsWhole
<1> QED BY <1>2, <1>3, <1>4, <1>5 DEF ReadingInv

-----------------------------------------------------------------------------

\* Every step keeps the invariant.
LEMMA StepPreserves == ReadingInv /\ [ReadingNext]_vars => ReadingInv'
<1> SUFFICES ASSUME ReadingInv, [ReadingNext]_vars
             PROVE  ReadingInv'
  OBVIOUS
<1>1. ASSUME NEW c \in Call, Request(c) PROVE ReadingInv'
  BY <1>1, RequestPreserves
<1>2. CASE Examine \/ FetchSeed \/ Search
  BY <1>2, OpeningPreserves
<1>3. ASSUME NEW u \in Uids, FetchNext(u) PROVE ReadingInv'
  BY <1>3, FetchNextPreserves
<1>4. CASE SearchEnds
  BY <1>4, SearchEndsPreserves
<1>5. CASE Link
  BY <1>5, LinkPreserves
<1>6. CASE Visit
  BY <1>6, VisitPreserves
<1>7. CASE ThreadEnds
  BY <1>7, ThreadEndsPreserves
<1>8. CASE ListFolders \/ CountFolder \/ ListingEnds
  BY <1>8, ListingPreserves
<1>9. CASE Lost
  BY <1>9, FailPreserves DEF Lost
<1>10. CASE Arrive
  BY <1>10, ArrivePreserves
<1>11. ASSUME NEW u \in Uids, Leave(u) PROVE ReadingInv'
  BY <1>11, LeavePreserves
<1>12. CASE UNCHANGED vars
  <2>1. UNCHANGED <<session, stayed, environment>>
    BY <1>12 DEF vars
  <2>2. FetchAgrees' /\ LinkIsSound' /\ LinkIsComplete'
    BY <2>1, SearchIsKept
  <2>3. ReadingTypeOK' /\ ReplyIsFinal'
    BY <2>1 DEF session, work, environment, ReadingInv, ReadingTypeOK, ReplyIsFinal
  <2>4. ThreadIsWhole'
    BY <2>1 DEF session, work, ReadingInv, ThreadIsWhole, Thread, Related, IdOf
  <2> QED BY <2>2, <2>3, <2>4 DEF ReadingInv
<1> QED BY <1>1, <1>2, <1>3, <1>4, <1>5, <1>6, <1>7, <1>8, <1>9, <1>10, <1>11, <1>12
    DEF ReadingNext, ReadStep

\* The inductive invariant of reading.
LEMMA ReadingInvariant == ReadingSpec => []ReadingInv
<1> QED BY InitEstablishes, StepPreserves, PTL DEF ReadingSpec

\* What a session holds are UIDs and ids, and no message stayed that is not there.
THEOREM ReadingTypeCorrect == ReadingSpec => []ReadingTypeOK
<1>1. ReadingInv => ReadingTypeOK
  BY DEF ReadingInv
<1> QED BY <1>1, ReadingInvariant, PTL

\* mail_get_thread shows what hangs together, whatever the folder does meanwhile.
THEOREM ThreadsAreWhole == ReadingSpec => []ThreadIsWhole
<1>1. ReadingInv => ThreadIsWhole
  BY DEF ReadingInv
<1> QED BY <1>1, ReadingInvariant, PTL
=============================================================================
