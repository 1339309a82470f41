------------------------- MODULE GatewayServerProofs -------------------------
(***************************************************************************)
(* Safety of GatewayServer for any number of calls: the worker that holds  *)
(* the lock is the one the lock names (LockAgrees), a draft in the making  *)
(* has such a worker as long as the store is open (BegunHasWorker), and    *)
(* what the request thread records and answers is what it learned from its *)
(* worker (ReplyAgrees).                                                   *)
(***************************************************************************)
EXTENDS GatewayServer, TLAPS

LockAgrees == \A c \in Calls : worker[c] = "locked" <=> lock = c

BegunHasWorker == StoreOpen => \A c \in Calls : Begun(c) => worker[c] = "locked"

\* A worker without the lock has begun nothing; one that ended with success left no draft in the making or failed.
WorkerAgrees ==
    \A c \in Calls :
        /\ handler[c] = "none" => worker[c] = "none"
        /\ worker[c] \in {"none", "started"} => draft[c] = "none"
        /\ worker[c] = "ok" => draft[c] \in {"none", "complete"}

ReplyAgrees ==
    \A c \in Calls :
        /\ handler[c] \in {"none", "waiting", "recording"} => record[c] = "none"
        /\ handler[c] \in {"recording", "answering"} => verdict[c] # "none"
        /\ handler[c] = "answering" => record[c] = verdict[c]
        /\ answer[c] # "none" =>
              handler[c] = "answered" /\ record[c] # "none" /\ answer[c] \in {record[c], "error"}
        /\ "ok" \in {verdict[c], record[c]} => worker[c] = "ok"

ServerInv ==
    /\ ServerTypeOK
    /\ LockAgrees
    /\ BegunHasWorker
    /\ WorkerAgrees
    /\ ReplyAgrees

-----------------------------------------------------------------------------

\* The empty server satisfies the invariant.
LEMMA InitEstablishes == ServerInit => ServerInv
<1> SUFFICES ASSUME ServerInit
             PROVE  ServerInv
  OBVIOUS
<1> USE ServerAssumption DEF ServerInit
<1>1. ServerTypeOK
  <2>1. auditFailures \in 0..MaxAuditFailures /\ lock \in Calls \cup {NoCall}
    OBVIOUS
  <2>2. /\ verdict \in [Calls -> Outcomes \cup {"none"}]
        /\ record \in [Calls -> Outcomes \cup {"none"}]
        /\ answer \in [Calls -> Outcomes \cup {"none"}]
    OBVIOUS
  <2> QED BY <2>1, <2>2 DEF ServerTypeOK
<1>2. LockAgrees
  <2>1. \A c \in Calls : worker[c] = "none" /\ lock # c
    OBVIOUS
  <2> QED BY <2>1 DEF LockAgrees
<1>3. BegunHasWorker /\ WorkerAgrees /\ ReplyAgrees
  BY DEF BegunHasWorker, WorkerAgrees, ReplyAgrees, Begun
<1> QED BY <1>1, <1>2, <1>3 DEF ServerInv

\* Worker threads keep the invariant: only the holder of the lock gives it up.
LEMMA WorkerStepPreserves ==
  ASSUME ServerInv, NEW c \in Calls, WorkerStep(c)
  PROVE  ServerInv'
<1> USE ServerAssumption
    DEF ServerInv, Running, StoreOpen, Begun, process, books
<1>1. ServerTypeOK'
  BY DEF WorkerStep, Acquire, Begin, Complete, End, Raise, Read, Release, ServerTypeOK
<1>2. LockAgrees'
  <2>1. CASE Acquire(c)
    BY <2>1 DEF Acquire, ServerTypeOK, LockAgrees
  <2>2. CASE Begin(c)
    BY <2>2 DEF Begin, ServerTypeOK, LockAgrees
  <2>3. CASE Complete(c) \/ End(c) \/ Raise(c)
    BY <2>3 DEF Complete, End, Raise, Release, ServerTypeOK, LockAgrees
  <2>4. CASE Read(c)
    BY <2>4 DEF Read, ServerTypeOK, LockAgrees
  <2> QED BY <2>1, <2>2, <2>3, <2>4 DEF WorkerStep
<1>3. BegunHasWorker'
  BY DEF WorkerStep, Acquire, Begin, Complete, End, Raise, Read, Release, ServerTypeOK,
         BegunHasWorker
<1>4. WorkerAgrees'
  <2>1. CASE Acquire(c)
    BY <2>1 DEF Acquire, ServerTypeOK, WorkerAgrees
  <2>4. CASE Read(c)
    BY <2>4 DEF Read, ServerTypeOK, WorkerAgrees
  <2>2. CASE Begin(c) \/ Complete(c)
    BY <2>2 DEF Begin, Complete, Release, ServerTypeOK, WorkerAgrees
  <2>3. CASE End(c) \/ Raise(c)
    BY <2>3 DEF End, Raise, Release, ServerTypeOK, WorkerAgrees
  <2> QED BY <2>1, <2>2, <2>3, <2>4 DEF WorkerStep
<1>5. ReplyAgrees'
  BY DEF WorkerStep, Acquire, Begin, Complete, End, Raise, Read, Release, ServerTypeOK,
         ReplyAgrees
<1> QED BY <1>1, <1>2, <1>3, <1>4, <1>5

\* Request threads keep the invariant: they never touch the lock or a draft.
LEMMA HandlerStepPreserves ==
  ASSUME ServerInv, NEW c \in Calls, Receive(c) \/ Refuse(c) \/ HandlerStep(c)
  PROVE  ServerInv'
<1> USE ServerAssumption
    DEF ServerInv, Running, StoreOpen, Begun, process, books, Outcomes
<1>1. CASE Receive(c) \/ Refuse(c)
  BY <1>1 DEF Receive, Refuse, ServerTypeOK, LockAgrees, BegunHasWorker, WorkerAgrees, ReplyAgrees
<1>2. CASE Get(c) \/ Timeout(c)
  BY <1>2 DEF Get, Timeout, ServerTypeOK, LockAgrees, BegunHasWorker, WorkerAgrees, ReplyAgrees
<1>3. CASE Record(c)
  BY <1>3 DEF Record, ServerTypeOK, LockAgrees, BegunHasWorker, WorkerAgrees, ReplyAgrees
<1>4. CASE RecordFails(c)
  BY <1>4 DEF RecordFails, ServerTypeOK, LockAgrees, BegunHasWorker, WorkerAgrees, ReplyAgrees
<1>5. CASE Answer(c)
  <2>1. PICK outcome \in {verdict[c], "error"} : answer' = [answer EXCEPT ![c] = outcome]
    BY <1>5 DEF Answer
  <2> USE <1>5, <2>1 DEF Answer
  <2>2. ServerTypeOK' /\ LockAgrees' /\ BegunHasWorker' /\ WorkerAgrees'
    BY DEF ServerTypeOK, LockAgrees, BegunHasWorker, WorkerAgrees
  <2>3. ReplyAgrees'
    BY DEF ServerTypeOK, ReplyAgrees
  <2> QED BY <2>2, <2>3
<1> QED BY <1>1, <1>2, <1>3, <1>4, <1>5 DEF HandlerStep

\* The main thread keeps the invariant: a store that is closed stays closed.
LEMMA MainStepPreserves ==
  ASSUME ServerInv, Stop \/ CloseBackend \/ CloseStores \/ Kill
  PROVE  ServerInv'
<1> USE ServerAssumption
    DEF ServerInv, Running, StoreOpen, Begun, process, books, Outcomes
<1>1. CASE CloseBackend
  BY <1>1 DEF CloseBackend, ServerTypeOK, LockAgrees, BegunHasWorker, WorkerAgrees, ReplyAgrees
<1>2. CASE Stop \/ CloseStores \/ Kill
  <2> USE <1>2 DEF Stop, CloseStores, Kill
  <2>1. ServerTypeOK'
    BY DEF ServerTypeOK
  <2>2. (StoreOpen' => StoreOpen) /\ UNCHANGED <<lock, handler, worker, draft, books>>
    OBVIOUS
  <2> QED BY <2>1, <2>2 DEF LockAgrees, BegunHasWorker, WorkerAgrees, ReplyAgrees
<1> QED BY <1>1, <1>2

\* The invariant is inductive.
LEMMA StepPreserves == ServerInv /\ [ServerNext]_vars => ServerInv'
<1> SUFFICES ASSUME ServerInv, [ServerNext]_vars
             PROVE  ServerInv'
  OBVIOUS
<1>1. CASE UNCHANGED vars
  BY <1>1
  DEF vars, process, books, ServerInv, ServerTypeOK, LockAgrees, BegunHasWorker,
      WorkerAgrees, ReplyAgrees, StoreOpen, Begun
<1>2. CASE ServerNext
  BY <1>2, WorkerStepPreserves, HandlerStepPreserves, MainStepPreserves DEF ServerNext
<1> QED BY <1>1, <1>2

\* Every reachable state satisfies the invariant.
LEMMA ServerInvariant == ServerSpec => []ServerInv
  BY InitEstablishes, StepPreserves, PTL DEF ServerSpec

-----------------------------------------------------------------------------

\* Threads, drafts and books stay in their sets, and whatever a request thread records is an outcome.
THEOREM ServerTypeCorrect == ServerSpec => []ServerTypeOK
<1>1. ServerInv => ServerTypeOK
  BY DEF ServerInv
<1> QED BY <1>1, ServerInvariant, PTL

\* The write lock of backend.py covers a draft from its creation to its end, also
\* when the client's request has timed out and the process is being stopped.
THEOREM DraftsInTheMakingAreLocked == ServerSpec => []BegunIsLocked
<1>1. ServerInv => BegunIsLocked
  BY DEF ServerInv, LockAgrees, BegunHasWorker, BegunIsLocked
<1> QED BY <1>1, ServerInvariant, PTL

\* _write_response sends what _audit has recorded, or an error in the place of what it
\* cannot encode, and never anything before the record.
THEOREM EveryAnswerIsRecorded == ServerSpec => []AnswersAreRecorded
<1>1. ServerInv => AnswersAreRecorded
  BY DEF ServerInv, ReplyAgrees, WorkerAgrees, AnswersAreRecorded
<1> QED BY <1>1, ServerInvariant, PTL

\* backend.close waits for the lock, and whoever works on a draft holds it.
THEOREM StopNeverFailsAWorker == ServerSpec => StopSparesWorkers
<1> DEFINE Spared ==
      \A c \in Calls : Begun(c) /\ worker[c] = "locked" /\ draft'[c] = "failed" =>
          worker'[c] = "error"
<1>1. ServerInv /\ [ServerNext]_vars => [Spared]_vars
  <2> SUFFICES ASSUME ServerInv, ServerNext, NEW c \in Calls,
                      Begun(c), worker[c] = "locked", draft'[c] = "failed"
               PROVE  worker'[c] = "error"
    OBVIOUS
  <2> USE ServerAssumption DEF ServerInv, ServerTypeOK, Begun, process, books
  <2>1. ASSUME NEW d \in Calls, WorkerStep(d)
        PROVE  worker'[c] = "error"
    <3>1. ~(Acquire(d) \/ Begin(d) \/ End(d) \/ Raise(d) \/ Read(d))
      BY DEF Acquire, Begin, End, Raise, Read
    <3>2. CASE Complete(d)
      BY <3>2 DEF Complete, Release
    <3> QED BY <2>1, <3>1, <3>2 DEF WorkerStep
  <2>2. ASSUME NEW d \in Calls, Receive(d) \/ Refuse(d) \/ HandlerStep(d)
        PROVE  draft' = draft
    BY <2>2 DEF HandlerStep, Receive, Refuse, Get, Timeout, Record, RecordFails, Answer
  <2>3. ~CloseBackend
    BY DEF CloseBackend, LockAgrees
  <2>4. ASSUME Stop \/ CloseStores \/ Kill
        PROVE  draft' = draft
    BY <2>4 DEF Stop, CloseStores, Kill
  <2> QED BY <2>1, <2>2, <2>3, <2>4 DEF ServerNext
<1> QED BY <1>1, ServerInvariant, PTL DEF ServerSpec, StopSparesWorkers
=============================================================================
