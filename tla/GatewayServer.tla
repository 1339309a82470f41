---------------------------- MODULE GatewayServer ----------------------------
(***************************************************************************)
(* The threads of the gateway: the socket server (server.py) with a        *)
(* request thread and a worker thread per call, the write lock of the      *)
(* backend (backend.py), the audit log (audit.py), and the orderly stop of *)
(* the process (app.py).                                                   *)
(*                                                                         *)
(* A call that writes takes the lock; a creation begins a draft (new or    *)
(* staged) and ends with it complete or failed.  What the calls do in      *)
(* between is the subject of DraftSync and MailMove.  The request thread   *)
(* waits for the worker no longer than the request timeout; the worker is  *)
(* not stopped.  All these threads are daemon threads: the process does    *)
(* not wait for them.                                                      *)
(***************************************************************************)
EXTENDS Integers

CONSTANTS
    Calls,            \* the calls of clients, each on a connection of its own
    NoCall,
    MaxAuditFailures  \* bound on INSERTs into the audit log that fail

ASSUME ServerAssumption ==
    /\ NoCall \notin Calls
    /\ MaxAuditFailures \in Nat

VARIABLES
    main,           \* the main thread: serving, or how far the stop has come
    killed,         \* history: the process did not end by its own steps
    lock,           \* the call whose worker holds the write lock
    handler,        \* per call, the request thread
    worker,         \* per call, the worker thread
    draft,          \* per writing call, the draft it creates
    verdict,        \* per call, the outcome the request thread knows
    record,         \* per call, the outcome in the audit log
    answer,         \* per call, the outcome the client was sent
    auditFailures   \* INSERTs that failed so far

vars == <<main, killed, lock, handler, worker, draft, verdict, record, answer, auditFailures>>
process == <<main, killed, lock>>
books == <<verdict, record, answer, auditFailures>>

-----------------------------------------------------------------------------

Outcomes == {"ok", "error", "timeout"}

ServerInit ==
    /\ main = "serving" /\ killed = FALSE
    /\ lock = NoCall
    /\ handler = [c \in Calls |-> "none"]
    /\ worker = [c \in Calls |-> "none"]
    /\ draft = [c \in Calls |-> "none"]
    /\ verdict = [c \in Calls |-> "none"]
    /\ record = [c \in Calls |-> "none"]
    /\ answer = [c \in Calls |-> "none"]
    /\ auditFailures = 0

Running == main # "exited"

\* run_gateway leaves its with-statement: the audit log is closed first.
AuditOpen == main \notin {"audit_closed", "stores_closed", "exited"}
StoreOpen == main \notin {"stores_closed", "exited"}

\* new or staged.
Begun(c) == draft[c] = "begun"

-----------------------------------------------------------------------------
(* Worker threads: dispatch to the backend, the result into the queue *)

\* A call of a writing method waits for the write lock.
Acquire(c) ==
    /\ Running
    /\ worker[c] = "started"
    /\ lock = NoCall
    /\ lock' = c
    /\ worker' = [worker EXCEPT ![c] = "locked"]
    /\ UNCHANGED <<main, killed, handler, draft, books>>

\* mail_create_draft stores a draft that is new, then staged.
Begin(c) ==
    /\ worker[c] = "locked" /\ draft[c] = "none"
    /\ StoreOpen
    /\ draft' = [draft EXCEPT ![c] = "begun"]
    /\ UNCHANGED <<process, handler, worker, books>>

\* Mutant of Release: the lock stays with a call that raised.
KeepLockOnError(c, outcome) ==
    /\ worker' = [worker EXCEPT ![c] = outcome]
    /\ lock' = IF outcome = "ok" THEN NoCall ELSE lock

Release(c, outcome) ==
    /\ worker' = [worker EXCEPT ![c] = outcome]
    /\ lock' = NoCall

\* The call ends; the except clause resolves the draft of a call that raised.
Complete(c) ==
    /\ worker[c] = "locked" /\ Begun(c)
    /\ StoreOpen
    /\ \/ draft' = [draft EXCEPT ![c] = "complete"] /\ Release(c, "ok")
       \/ draft' = [draft EXCEPT ![c] = "failed"] /\ Release(c, "error")
    /\ UNCHANGED <<main, killed, handler, books>>

\* The call ends without a draft in the making: a replay, an update of a draft
\* that is synced, a move, an error before the draft is stored.
End(c) ==
    /\ Running
    /\ worker[c] = "locked" /\ draft[c] = "none"
    /\ Release(c, "ok") \/ Release(c, "error")
    /\ UNCHANGED <<main, killed, handler, draft, books>>

\* The store was closed under a call: it raises, and so does its except clause.
Raise(c) ==
    /\ Running
    /\ worker[c] = "locked" /\ Begun(c)
    /\ ~StoreOpen
    /\ Release(c, "error")
    /\ UNCHANGED <<main, killed, handler, draft, books>>

\* A call of a reading method works without the lock.
Read(c) ==
    /\ Running
    /\ worker[c] = "started"
    /\ \E outcome \in {"ok", "error"} : worker' = [worker EXCEPT ![c] = outcome]
    /\ UNCHANGED <<process, handler, draft, books>>

-----------------------------------------------------------------------------
(* Request threads: _handle_line *)

\* A connection that is open goes on being served while the process stops.
Receive(c) ==
    /\ Running
    /\ handler[c] = "none"
    /\ handler' = [handler EXCEPT ![c] = "waiting"]
    /\ worker' = [worker EXCEPT ![c] = "started"]
    /\ UNCHANGED <<process, draft, books>>

\* A line that is no valid request is refused without a worker.
Refuse(c) ==
    /\ Running
    /\ handler[c] = "none"
    /\ handler' = [handler EXCEPT ![c] = "recording"]
    /\ verdict' = [verdict EXCEPT ![c] = "error"]
    /\ UNCHANGED <<process, worker, draft, record, answer, auditFailures>>

\* The worker's outcome is in the queue.
Get(c) ==
    /\ Running
    /\ handler[c] = "waiting" /\ worker[c] \in {"ok", "error"}
    /\ handler' = [handler EXCEPT ![c] = "recording"]
    /\ verdict' = [verdict EXCEPT ![c] = worker[c]]
    /\ UNCHANGED <<process, worker, draft, record, answer, auditFailures>>

\* Mutant of Timeout: a request thread waits for a worker with the lock without limit.
TimeoutUnlessLocked(c) ==
    /\ Running
    /\ handler[c] = "waiting" /\ lock # c
    /\ handler' = [handler EXCEPT ![c] = "recording"]
    /\ verdict' = [verdict EXCEPT ![c] = "timeout"]
    /\ UNCHANGED <<process, worker, draft, record, answer, auditFailures>>

\* Mutant of Timeout: the lock is taken from a worker nobody waits for any more.
TimeoutFreesLock(c) ==
    /\ Running
    /\ handler[c] = "waiting"
    /\ handler' = [handler EXCEPT ![c] = "recording"]
    /\ verdict' = [verdict EXCEPT ![c] = "timeout"]
    /\ lock' = IF lock = c THEN NoCall ELSE lock
    /\ UNCHANGED <<main, killed, worker, draft, record, answer, auditFailures>>

\* The queue stayed empty for the request timeout; the worker goes on, or has
\* ended and comes too late with its outcome.
Timeout(c) ==
    /\ Running
    /\ handler[c] = "waiting"
    /\ handler' = [handler EXCEPT ![c] = "recording"]
    /\ verdict' = [verdict EXCEPT ![c] = "timeout"]
    /\ UNCHANGED <<process, worker, draft, record, answer, auditFailures>>

\* Mutant of Record: the state of the worker is recorded, not the verdict.
RecordWorker(c) ==
    /\ Running
    /\ handler[c] = "recording"
    /\ AuditOpen
    /\ record' = [record EXCEPT ![c] = worker[c]]
    /\ handler' = [handler EXCEPT ![c] = "answering"]
    /\ UNCHANGED <<process, worker, draft, verdict, answer, auditFailures>>

Record(c) ==
    /\ Running
    /\ handler[c] = "recording"
    /\ AuditOpen
    /\ record' = [record EXCEPT ![c] = verdict[c]]
    /\ handler' = [handler EXCEPT ![c] = "answering"]
    /\ UNCHANGED <<process, worker, draft, verdict, answer, auditFailures>>

\* Mutant of RecordFails: the answer is given although nothing was recorded.
AnswerAnyway(c) ==
    /\ Running
    /\ handler[c] = "recording"
    /\ \/ ~AuditOpen /\ UNCHANGED auditFailures
       \/ auditFailures < MaxAuditFailures /\ auditFailures' = auditFailures + 1
    /\ handler' = [handler EXCEPT ![c] = "answering"]
    /\ UNCHANGED <<process, worker, draft, verdict, record, answer>>

\* A result that cannot be recorded becomes an error, which is recorded in turn;
\* an error that cannot be recorded ends the request thread without an answer.
RecordFails(c) ==
    /\ Running
    /\ handler[c] = "recording"
    /\ \/ ~AuditOpen /\ UNCHANGED auditFailures
       \/ auditFailures < MaxAuditFailures /\ auditFailures' = auditFailures + 1
    /\ IF verdict[c] = "ok"
       THEN verdict' = [verdict EXCEPT ![c] = "error"] /\ UNCHANGED handler
       ELSE handler' = [handler EXCEPT ![c] = "broken"] /\ UNCHANGED verdict
    /\ UNCHANGED <<process, worker, draft, record, answer>>

\* A response that cannot be encoded, for a lone surrogate in its text or in the
\* id of the request, is answered as an error; that is recorded no more.
Answer(c) ==
    /\ Running
    /\ handler[c] = "answering"
    /\ \E outcome \in {verdict[c], "error"} : answer' = [answer EXCEPT ![c] = outcome]
    /\ handler' = [handler EXCEPT ![c] = "answered"]
    /\ UNCHANGED <<process, worker, draft, verdict, record, auditFailures>>

-----------------------------------------------------------------------------
(* The main thread *)

\* SIGTERM ends serve_forever; server_close removes the socket.
Stop ==
    /\ main = "serving"
    /\ main' = "stopping"
    /\ UNCHANGED <<killed, lock, handler, worker, draft, books>>

\* Mutant of CloseBackend: without the write lock.
CloseUnlocked ==
    /\ main = "stopping"
    /\ draft' = [c \in Calls |-> IF Begun(c) THEN "failed" ELSE draft[c]]
    /\ main' = "backend_closed"
    /\ UNCHANGED <<killed, lock, handler, worker, books>>

\* backend.close: fail_incomplete under the write lock.
CloseBackend ==
    /\ main = "stopping"
    /\ lock = NoCall
    /\ draft' = [c \in Calls |-> IF Begun(c) THEN "failed" ELSE draft[c]]
    /\ main' = "backend_closed"
    /\ UNCHANGED <<killed, lock, handler, worker, books>>

\* AuditLog.close, DraftStore.close, and the end of the interpreter.
CloseStores ==
    /\ \/ main = "backend_closed" /\ main' = "audit_closed"
       \/ main = "audit_closed" /\ main' = "stores_closed"
       \/ main = "stores_closed" /\ main' = "exited"
    /\ UNCHANGED <<killed, lock, handler, worker, draft, books>>

\* A crash, or SIGKILL when the stop takes longer than systemd waits.
Kill ==
    /\ Running
    /\ main' = "exited" /\ killed' = TRUE
    /\ UNCHANGED <<lock, handler, worker, draft, books>>

-----------------------------------------------------------------------------

WorkerStep(c) == Acquire(c) \/ Begin(c) \/ Complete(c) \/ End(c) \/ Raise(c) \/ Read(c)

HandlerStep(c) == Get(c) \/ Timeout(c) \/ Record(c) \/ RecordFails(c) \/ Answer(c)

ServerNext ==
    \/ \E c \in Calls : Receive(c) \/ Refuse(c) \/ WorkerStep(c) \/ HandlerStep(c)
    \/ Stop \/ CloseBackend \/ CloseStores \/ Kill

ServerSpec == ServerInit /\ [][ServerNext]_vars

\* Request threads run and time out, and the main thread runs.
FairServerSpec ==
    /\ ServerSpec
    /\ \A c \in Calls : WF_vars(HandlerStep(c))
    /\ WF_vars(CloseBackend) /\ WF_vars(CloseStores)

\* Workers end too, as every IMAP command does.
FairWorkers == \A c \in Calls : WF_vars(WorkerStep(c))

-----------------------------------------------------------------------------
(* Properties *)

ServerTypeOK ==
    /\ main \in {"serving", "stopping", "backend_closed", "audit_closed", "stores_closed", "exited"}
    /\ killed \in BOOLEAN
    /\ lock \in Calls \cup {NoCall}
    /\ handler \in [Calls -> {"none", "waiting", "recording", "answering", "answered", "broken"}]
    /\ worker \in [Calls -> {"none", "started", "locked", "ok", "error"}]
    /\ draft \in [Calls -> {"none", "begun", "complete", "failed"}]
    /\ verdict \in [Calls -> Outcomes \cup {"none"}]
    /\ record \in [Calls -> Outcomes \cup {"none"}]
    /\ answer \in [Calls -> Outcomes \cup {"none"}]
    /\ auditFailures \in 0..MaxAuditFailures

\* While the store is open a draft is new or staged only under the lock of the
\* call that began it, whether or not that call's client is still waiting: no
\* other writer, and no stop, ever meets a draft in the making.
BegunIsLocked ==
    StoreOpen => \A c \in Calls : Begun(c) => lock = c

\* A client is told nothing before the audit log has an outcome of its call, and
\* then that outcome, or an error in its place if the response could not be
\* encoded; success is recorded only of a call whose draft is neither in the making
\* nor failed.
AnswersAreRecorded ==
    \A c \in Calls :
        /\ answer[c] # "none" => record[c] # "none" /\ answer[c] \in {record[c], "error"}
        /\ record[c] = "ok" => draft[c] \in {"none", "complete"}

\* backend.close fails no draft under a call that is still working on it: a draft
\* that is failed was failed by the call itself.
StopSparesWorkers ==
    [][\A c \in Calls : Begun(c) /\ worker[c] = "locked" /\ draft'[c] = "failed" =>
          worker'[c] = "error"]_vars

\* Every call is answered or its connection given up, however long its worker
\* takes or waits for the lock, also if it hangs, unless the process ends.
CallsEnd ==
    \A c \in Calls :
        handler[c] = "waiting" ~> handler[c] \in {"answered", "broken"} \/ main = "exited"

\* A stop ends, also with calls at work and in wait for the lock, if no worker
\* hangs with it.
StopEnds == FairWorkers => (main = "stopping" ~> main = "exited")
=============================================================================
