--------------------------- MODULE MailMoveProofs ---------------------------
(***************************************************************************)
(* Proofs about MailMove, for any number of messages, requests, crashes    *)
(* and steps of the other client.  The invariants of the runs say nothing  *)
(* of the message being moved; the inductive form adds where it is at each *)
(* command (JobPlace) and how many copies of it there are (CopyCount).     *)
(***************************************************************************)
EXTENDS MailMove, TLAPS

\* Unless the other client took it, the message is in the source folder up to the
\* command that marks or moves it, and marked when it is to be expunged.
JobPlace ==
    job \in Mails \ touched =>
        /\ step \in {"move", "copy", "store"} => job \in source
        /\ step \in {"store", "expunge"} => copies[job] > 0
        /\ step = "expunge" => job \in marked

\* One copy after COPY; before it, and for every other message, one in all.
CopyCount ==
    \A m \in Mails \ (touched \cup unfinished) :
        copies[m] = IF m \in source /\ ~(m = job /\ step \in {"store", "expunge"}) THEN 0 ELSE 1

MoveInv == MoveTypeOK /\ NothingLost /\ MovedIsMoved /\ JobPlace /\ CopyCount

\* The inductive form holds at the start.
LEMMA InitHolds == MoveInit => MoveInv
BY MoveAssumption
   DEF MoveInit, MoveInv, MoveTypeOK, Steps, Reply, NoReply, Outcomes, NothingLost, MovedIsMoved, JobPlace, CopyCount

\* What an answer leaves behind.
LEMMA AnswerEffect ==
    ASSUME MoveInv, NEW outcome \in Outcomes, Answer(outcome), job \in Mails, UNCHANGED others,
           source' \in SUBSET Mails, marked' \in SUBSET source', copies' \in [Mails -> Nat],
           NothingLost',
           \A m \in Mails \ (touched \cup unfinished') :
              copies'[m] = IF m \in source' THEN 0 ELSE 1,
           outcome = "moved" /\ job \notin touched => job \notin source' /\ copies'[job] > 0
    PROVE  MoveInv'
BY MoveAssumption
   DEF Answer, MoveInv, MoveTypeOK, Steps, Reply, NoReply, Outcomes, NothingLost, MovedIsMoved, JobPlace, CopyCount, others

\* The commands that change no folder.
LEMMA ReadingStep ==
    ASSUME MoveInv, Select \/ List \/ Check
    PROVE  MoveInv'
<1> USE DEF Select, List, Check, Command, folders
<1>1. job \in Mails /\ step \in {"select", "list", "check"} /\ UNCHANGED others /\ UNCHANGED folders
  BY MoveAssumption DEF MoveInv, MoveTypeOK
<1>2. CASE Answer("not_found") \/ Answer("failed")
  <2>1. PICK outcome \in {"not_found", "failed"} : Answer(outcome)
    BY <1>2
  <2> QED
    BY <1>1, <2>1, AnswerEffect
       DEF Answer, Outcomes, MoveInv, MoveTypeOK, NothingLost, CopyCount, others
<1>3. CASE \/ Continue("list") \/ Continue("check")
           \/ job \in source /\ (Continue("move") \/ Continue("copy"))
  BY <1>1, <1>3
     DEF Continue, MoveInv, MoveTypeOK, Steps, NothingLost, MovedIsMoved, JobPlace, CopyCount, others
<1> QED
  BY <1>1, <1>2, <1>3

\* What a command that writes does, each of its outcomes.
LEMMA MoveHolds ==
    ASSUME MoveInv, Move
    PROVE  MoveInv'
<1> USE DEF Move, Command
<1>1. job \in Mails /\ step = "move" /\ UNCHANGED others
  BY MoveAssumption DEF MoveInv, MoveTypeOK
<1>2. PICK outcome \in {"moved", "failed"} : Answer(outcome)
  BY <1>1
<1>3. (outcome = "moved" => ServerMove) /\ (ServerMove \/ UNCHANGED folders)
  BY <1>1, <1>2 DEF Answer
<1>4. CASE ServerMove
  <2>1. source' \in SUBSET Mails /\ marked' \in SUBSET source' /\ copies' \in [Mails -> Nat]
    BY <1>1, <1>4 DEF ServerMove, MoveInv, MoveTypeOK
  <2>2. /\ job \notin touched => job \in source
        /\ job \notin source'
        /\ \A m \in Mails : copies[m] \in Nat
    BY <1>1, <1>4 DEF ServerMove, MoveInv, MoveTypeOK, JobPlace
  <2>3. /\ \A m \in Mails \ {job} : copies'[m] = copies[m] /\ (m \in source' <=> m \in source)
        /\ job \in source => copies'[job] = copies[job] + 1
        /\ job \notin source => copies'[job] = copies[job]
    BY <1>1, <1>4 DEF ServerMove, MoveInv, MoveTypeOK
  <2>4. marked' \subseteq marked /\ unfinished \subseteq unfinished' /\ UNCHANGED touched
    BY <1>1, <1>2, <1>4 DEF ServerMove, Answer, others
  <2>5. NothingLost'
    BY <1>1, <2>2, <2>3, <2>4, <1>4 DEF NothingLost, MoveInv, ServerMove
  <2>6. \A m \in Mails \ (touched \cup unfinished') : copies'[m] = IF m \in source' THEN 0 ELSE 1
    BY <1>1, <2>2, <2>3, <2>4 DEF MoveInv, CopyCount
  <2> QED
    BY <1>1, <1>2, <2>1, <2>2, <2>3, <2>5, <2>6, AnswerEffect DEF Outcomes
<1>5. CASE UNCHANGED folders /\ outcome = "failed"
  BY <1>1, <1>2, <1>5, AnswerEffect
     DEF Answer, Outcomes, folders, others, MoveInv, MoveTypeOK, NothingLost, CopyCount, Writing
<1> QED
  BY <1>2, <1>3, <1>4, <1>5

\* UID MOVE, UID COPY, UID STORE and UID EXPUNGE may each break off with nothing
\* done; the folders are those of before, and the message counts as unfinished.
LEMMA NothingDone ==
    ASSUME MoveInv, NEW outcome \in {"duplicated", "failed"}, Answer(outcome), step \in Writing,
           UNCHANGED folders, UNCHANGED others
    PROVE  MoveInv'
<1>1. job \in Mails
  BY MoveAssumption DEF MoveInv, MoveTypeOK, Writing
<1>2. UNCHANGED <<source, marked, copies, touched>> /\ unfinished' = unfinished \cup {job}
  BY DEF folders, others, Answer
<1>3. NothingLost'
  BY <1>2 DEF MoveInv, NothingLost
<1>4. \A m \in Mails \ (touched \cup unfinished') : copies'[m] = IF m \in source' THEN 0 ELSE 1
  BY <1>2 DEF MoveInv, CopyCount
<1> QED
  BY <1>1, <1>2, <1>3, <1>4, AnswerEffect DEF Outcomes, MoveInv, MoveTypeOK

\* A copy that is confirmed leads to the marking, one whose answer is lost ends the move.
LEMMA CopyHolds ==
    ASSUME MoveInv, Copy
    PROVE  MoveInv'
<1> USE DEF Copy, Command
<1>1. job \in Mails /\ step = "copy" /\ UNCHANGED others
  BY MoveAssumption DEF MoveInv, MoveTypeOK
<1>2. CASE ServerCopy
  <2>1. UNCHANGED <<source, marked, touched>>
    BY <1>1, <1>2 DEF ServerCopy, others
  <2>2. copies' \in [Mails -> Nat] /\ \A m \in Mails \ {job} : copies'[m] = copies[m]
    BY <1>1, <1>2 DEF ServerCopy, MoveInv, MoveTypeOK
  <2>3. job \notin touched => job \in source /\ copies'[job] = copies[job] + 1
    BY <1>1, <1>2 DEF ServerCopy, MoveInv, MoveTypeOK, JobPlace
  <2>4. \A m \in Mails : copies[m] \in Nat
    BY DEF MoveInv, MoveTypeOK
  <2>5. NothingLost'
    BY <1>1, <2>1, <2>2, <2>3, <2>4 DEF MoveInv, NothingLost
  <2>6. CASE Continue("store")
    <3>1. step' = "store" /\ UNCHANGED <<job, reply, unfinished>>
      BY <2>6 DEF Continue
    <3>2. CopyCount'
      BY <1>1, <2>1, <2>2, <2>3, <3>1 DEF MoveInv, CopyCount
    <3>3. JobPlace'
      BY <1>1, <2>1, <2>3, <2>4, <3>1 DEF MoveInv, JobPlace
    <3>4. MovedIsMoved'
      BY <1>1, <2>1, <2>2, <2>3, <2>4, <3>1 DEF MoveInv, MovedIsMoved, MoveTypeOK, Reply, NoReply
    <3> QED
      BY <1>1, <2>1, <2>2, <2>5, <3>1, <3>2, <3>3, <3>4 DEF MoveInv, MoveTypeOK, Steps, others
  <2>7. CASE Answer("failed")
    <3>1. unfinished' = unfinished \cup {job}
      BY <1>1, <2>7 DEF Answer, Writing
    <3>2. \A m \in Mails \ (touched \cup unfinished') : copies'[m] = IF m \in source' THEN 0 ELSE 1
      BY <1>1, <2>1, <2>2, <3>1 DEF MoveInv, CopyCount
    <3> QED
      BY <1>1, <2>1, <2>2, <2>5, <2>7, <3>2, AnswerEffect DEF Outcomes, MoveInv, MoveTypeOK
  <2> QED
    BY <2>6, <2>7, NothingDone, <1>1 DEF Writing
<1> QED
  BY <1>1, <1>2, NothingDone DEF Writing

\* The message is marked only after its copy.
LEMMA StoreHolds ==
    ASSUME MoveInv, Store
    PROVE  MoveInv'
<1> USE DEF Store, Command
<1>1. job \in Mails /\ step = "store" /\ UNCHANGED others
  BY MoveAssumption DEF MoveInv, MoveTypeOK
<1>2. CASE ServerMark
  <2>1. UNCHANGED <<source, copies, touched>> /\ marked' = marked \cup ({job} \cap source)
    BY <1>1, <1>2 DEF ServerMark, others
  <2>2. job \notin touched => job \in source /\ copies[job] > 0
    BY <1>1 DEF MoveInv, JobPlace
  <2>3. NothingLost'
    BY <1>1, <2>1, <2>2 DEF MoveInv, NothingLost
  <2>4. marked' \in SUBSET source'
    BY <2>1 DEF MoveInv, MoveTypeOK
  <2>5. CASE Continue("expunge")
    <3>1. step' = "expunge" /\ UNCHANGED <<job, reply, unfinished>>
      BY <2>5 DEF Continue
    <3>2. CopyCount'
      BY <1>1, <2>1, <3>1 DEF MoveInv, CopyCount
    <3>3. JobPlace'
      BY <1>1, <2>1, <2>2, <3>1 DEF MoveInv, JobPlace
    <3>4. MovedIsMoved'
      BY <2>1, <3>1 DEF MoveInv, MovedIsMoved
    <3> QED
      BY <1>1, <2>1, <2>3, <2>4, <3>1, <3>2, <3>3, <3>4 DEF MoveInv, MoveTypeOK, Steps, others
  <2>6. CASE Answer("failed")
    <3>1. unfinished' = unfinished \cup {job}
      BY <1>1, <2>6 DEF Answer, Writing
    <3>2. \A m \in Mails \ (touched \cup unfinished') : copies'[m] = IF m \in source' THEN 0 ELSE 1
      BY <1>1, <2>1, <3>1 DEF MoveInv, CopyCount
    <3> QED
      BY <1>1, <2>1, <2>3, <2>4, <2>6, <3>2, AnswerEffect DEF Outcomes, MoveInv, MoveTypeOK
  <2> QED
    BY <2>5, <2>6, NothingDone, <1>1 DEF Writing
<1> QED
  BY <1>1, <1>2, NothingDone DEF Writing

\* What leaves the source folder here was marked, and has its copy.
LEMMA ExpungeHolds ==
    ASSUME MoveInv, Expunge
    PROVE  MoveInv'
<1> USE DEF Expunge, Command
<1>1. job \in Mails /\ step = "expunge" /\ UNCHANGED others
  BY MoveAssumption DEF MoveInv, MoveTypeOK
<1>2. CASE ServerExpunge
  <2>1. PICK outcome \in {"moved", "duplicated", "failed"} : Answer(outcome)
    BY <1>1
  <2>2. UNCHANGED <<copies, touched>> /\ source' = source \ ({job} \cap marked) /\ marked' = marked \ {job}
    BY <1>1, <1>2 DEF ServerExpunge, others
  <2>3. job \notin touched => job \in marked /\ copies[job] > 0
    BY <1>1 DEF MoveInv, JobPlace
  <2>4. NothingLost'
    BY <1>1, <2>2, <2>3 DEF MoveInv, NothingLost
  <2>5. unfinished \subseteq unfinished'
    BY <2>1 DEF Answer
  <2>6. \A m \in Mails \ (touched \cup unfinished') : copies'[m] = IF m \in source' THEN 0 ELSE 1
    BY <1>1, <2>2, <2>3, <2>5 DEF MoveInv, CopyCount
  <2>7. source' \in SUBSET Mails /\ marked' \in SUBSET source' /\ copies' \in [Mails -> Nat]
    BY <2>2 DEF MoveInv, MoveTypeOK
  <2> QED
    BY <1>1, <2>1, <2>2, <2>3, <2>4, <2>6, <2>7, AnswerEffect DEF Outcomes
<1> QED
  BY <1>1, <1>2, NothingDone DEF Writing

\* A request, a crash, a restart and a step of the other client.
LEMMA OtherStepsHold ==
    ASSUME MoveInv, Crash \/ Restart \/ \E m \in Mails : Request(m) \/ OtherClient(m)
    PROVE  MoveInv'
<1> USE MoveAssumption DEF MoveInv
<1>1. CASE Crash
  <2>1. step' = "down" /\ job' = NoMail /\ UNCHANGED folders /\ UNCHANGED <<touched, reply>>
    BY <1>1 DEF Crash
  <2>2. MoveTypeOK'
    BY <1>1 DEF Crash, MoveTypeOK, Steps, folders, Writing
  <2>3. CopyCount'
    BY <1>1, <2>1 DEF Crash, CopyCount, folders, Writing
  <2> QED
    BY <2>1, <2>2, <2>3 DEF NothingLost, MovedIsMoved, JobPlace, folders
<1>2. CASE Restart
  BY <1>2 DEF Restart, Continue, MoveTypeOK, Steps, NothingLost, MovedIsMoved, JobPlace, CopyCount,
     folders, others
<1>3. CASE \E m \in Mails : Request(m)
  BY <1>3 DEF Request, MoveTypeOK, Steps, NothingLost, MovedIsMoved, JobPlace, CopyCount, folders
<1>4. CASE \E m \in Mails : OtherClient(m)
  <2>1. PICK m \in Mails : OtherClient(m)
    BY <1>4
  <2>2. /\ \A q \in Mails \ {m} :
              copies'[q] = copies[q] /\ (q \in source' <=> q \in source) /\ (q \in marked' <=> q \in marked)
        /\ touched' = touched \cup {m} /\ UNCHANGED control /\ UNCHANGED <<supportsMove, requests, crashes>>
    BY <2>1 DEF OtherClient, MoveTypeOK
  <2>3. source' \in SUBSET Mails /\ marked' \in SUBSET source' /\ copies' \in [Mails -> Nat]
    BY <2>1 DEF OtherClient, MoveTypeOK
  <2>4. externals' \in 0..MaxExternal
    BY <2>1 DEF OtherClient, MoveTypeOK
  <2>5. MoveTypeOK'
    BY <2>2, <2>3, <2>4 DEF MoveTypeOK, control
  <2>6. NothingLost' /\ CopyCount'
    BY <2>2 DEF NothingLost, CopyCount, control
  <2>7. MovedIsMoved'
    BY <2>2 DEF MovedIsMoved, MoveTypeOK, Reply, NoReply, control
  <2>8. JobPlace'
    BY <2>2 DEF JobPlace, control
  <2> QED
    BY <2>5, <2>6, <2>7, <2>8
<1> QED
  BY <1>1, <1>2, <1>3, <1>4

\* The inductive form holds throughout.
LEMMA MoveInvariant == MoveSpec => []MoveInv
<1>1. MoveInv /\ UNCHANGED vars => MoveInv'
  BY DEF MoveInv, MoveTypeOK, NothingLost, MovedIsMoved, JobPlace, CopyCount, vars, folders, control, others
<1>2. MoveInv /\ [MoveNext]_vars => MoveInv'
  BY <1>1, ReadingStep, MoveHolds, CopyHolds, StoreHolds, ExpungeHolds, OtherStepsHold
     DEF MoveNext, MoveStep
<1> QED
  BY <1>2, InitHolds, PTL DEF MoveSpec

\* Folders, control and answers stay in their sets, and a flag \Deleted is that of
\* a message of the source folder.
THEOREM MoveTypeCorrect == MoveSpec => []MoveTypeOK
BY MoveInvariant, PTL DEF MoveInv

\* A message nobody else took is in one of the folders, and is flagged \Deleted
\* only where its copy exists, however commands and the gateway fail.
THEOREM NothingIsLost == MoveSpec => []NothingLost
BY MoveInvariant, PTL DEF MoveInv

\* As long as no move of a message broke off, it is in exactly one folder, once.
THEOREM OneFolderOnly == MoveSpec => []ExactlyOneFolder
<1>1. MoveInv => ExactlyOneFolder
  BY DEF MoveInv, CopyCount, ExactlyOneFolder
<1> QED
  BY <1>1, MoveInvariant, PTL

\* "moved" is answered only for a message that is in the target folder only.
THEOREM MovedMeansMoved == MoveSpec => []MovedIsMoved
BY MoveInvariant, PTL DEF MoveInv

\* The gateway takes only the named message out of the source folder.
THEOREM OnlyNamedMessagesLeave == MoveSpec => OnlyNamedLeaves
<1>1. [MoveNext]_vars => (externals' = externals => source \ source' \subseteq {job})
  <2>1. CASE MoveStep
    BY <2>1 DEF MoveStep, Select, List, Check, Move, Copy, Store, Expunge, Command, ServerMove,
       ServerCopy, ServerMark, ServerExpunge, folders
  <2>2. CASE \E m \in Mails : OtherClient(m)
    BY <2>2 DEF OtherClient
  <2> QED
    BY <2>1, <2>2 DEF MoveNext, Request, Crash, Restart, folders, vars
<1> QED
  BY <1>1, PTL DEF MoveSpec, OnlyNamedLeaves
=============================================================================
