------------------------------ MODULE Primary ------------------------------
(***************************************************************************)
(* The primary master, src/master/master.cpp.                              *)
(*                                                                         *)
(* One thread per client connection runs handle_client; it takes its two   *)
(* ids, writes the job to jobs_log, schedules it on a compute node, writes *)
(* the outcome to jobs_log and answers.  The UDP thread writes the results *)
(* compute nodes publish and keeps the pool of live nodes; the monitor     *)
(* thread evicts silent nodes.  insert_job_log and update_job_log hold     *)
(* db_mutex over the SQL statement AND over the call that replicates it,   *)
(* so a step that starts a write waits for every replication under way.    *)
(*                                                                         *)
(* Neither reads what SQLite says: a write that fails leaves no row, or    *)
(* the row as it was, and the thread goes on as if nothing were amiss.     *)
(*                                                                         *)
(* The module is an open system: what a compute node answers, which nodes  *)
(* have room and whether the backup can be reached are chosen freely here  *)
(* and supplied by the other components in module Cluster.                 *)
(***************************************************************************)
EXTENDS JobsLog

CONSTANTS Nodes,       \* compute nodes
          NoNode,      \* the target of a thread that has none
          MaxRetries,  \* int max_retries = 3
          MaxRestarts, \* bound: restarts of the primary explored
          ForeignSids, \* ids of RESULT datagrams for jobs another master numbered
          DatabaseMayFail \* the file may not open, or a statement fail, once the process runs

ASSUME NodesAssumption == NoNode \notin Nodes
ASSUME PrimaryAssumption ==
  /\ MaxRetries \in Nat \ {0}
  /\ MaxRestarts \in Nat
  /\ ForeignSids \subseteq Nat
  /\ DatabaseMayFail \in BOOLEAN

VARIABLES
  pUp,           \* the process runs
  pRestarts,     \* how often it was restarted
  pLog,          \* jobs_log in master_logs.db, the only state on disk
  pNextSid,      \* next_submission_id
  pNextReceipt,  \* next_receipt_id
  pThread,       \* per job, the thread that serves its request
  pPool,         \* keys of compute_nodes
  pUdp,          \* the update the UDP thread is replicating: none or one
  replication    \* replicate requests sent and not yet handled by the backup

pVars == <<pUp, pRestarts, pLog, pNextSid, pNextReceipt, pThread, pPool, pUdp,
           replication>>

(***************************************************************************)
(* idle: the request has not arrived.  inserting, logging: waiting for     *)
(* db_mutex.  replicatingInsert, replicatingOutcome: in                    *)
(* replicate_to_backup, holding it.  scheduling: about to call             *)
(* reserve_compute_node.  calling: in forward_to_compute.  replying: about *)
(* to send the answer.  done: answered.  rejected: answered with a parse   *)
(* error.  gone: the process died under it.  `unwritten' is history: a     *)
(* write of the thread failed.                                             *)
(***************************************************************************)
Pcs == {"idle", "inserting", "replicatingInsert", "scheduling", "calling",
        "logging", "replicatingOutcome", "replying", "done", "rejected",
        "gone"}

Thread == [pc : Pcs, sid : Nat, receipt : Nat, attempt : Nat,
           target : Nodes \cup {NoNode}, response : Responses, unwritten : BOOLEAN]

InsertMessage == [action : {"insert"}, row : Row]
UpdateMessage == [action : {"update"}, sid : Nat, forwarding : Forwardings,
                  response : Responses, delivery : Deliveries]
Replication == InsertMessage \cup UpdateMessage

InsertOf(row) == [action |-> "insert", row |-> row]
UpdateOf(sid, forwarding, response, delivery) ==
  [action |-> "update", sid |-> sid, forwarding |-> forwarding,
   response |-> response, delivery |-> delivery]

IdleThread == [pc |-> "idle", sid |-> 0, receipt |-> 0, attempt |-> 0,
               target |-> NoNode, response |-> Pending, unwritten |-> FALSE]

Live(j) == pThread[j].pc \notin {"idle", "done", "rejected", "gone"}

\* Mutant of DbMutexFree: log_master's caller has taken the mutex already, and
\* it is not a recursive one.
DbMutexTakenTwice ==
  /\ pUdp = {}
  /\ \A j \in Jobs :
       pThread[j].pc \notin {"replicatingInsert", "replicatingOutcome", "logging"}

DbMutexFree ==
  /\ pUdp = {}
  /\ \A j \in Jobs : pThread[j].pc \notin {"replicatingInsert", "replicatingOutcome"}

\* The column pair log_master writes for a thread's outcome.
OutcomeOf(t) == IF t.response.kind = "FATAL" THEN "FAILED" ELSE "FORWARDED"

\* Mutant of RowOf: the counter is read again instead of the thread's id.
RowOfCounter(j) == NewRow(pNextSid, pThread[j].receipt, j)

RowOf(j) == NewRow(pThread[j].sid, pThread[j].receipt, j)

\* Mutant of OutcomeUpdate: the two statuses in each other's place, strings both.
OutcomeUpdateSwapped(j) ==
  UpdateOf(pThread[j].sid, "DIRECT", pThread[j].response, OutcomeOf(pThread[j]))

OutcomeUpdate(j) ==
  UpdateOf(pThread[j].sid, OutcomeOf(pThread[j]), pThread[j].response, "DIRECT")

\* The process has just started; `pool' is who has sent a heartbeat.
InitWith(pool) ==
  /\ pUp = TRUE
  /\ pRestarts = 0
  /\ pLog = <<>>
  /\ pNextSid = NextSubmission(<<>>)
  /\ pNextReceipt = NextReceipt(<<>>)
  /\ pThread = [j \in Jobs |-> IdleThread]
  /\ pPool = pool
  /\ pUdp = {}
  /\ replication = {}

Init == \E pool \in SUBSET Nodes : InitWith(pool)

-----------------------------------------------------------------------------
(***************************************************************************)
(* handle_client                                                           *)
(***************************************************************************)

Goto(j, pc) == pThread' = [pThread EXCEPT ![j].pc = pc]

\* Mutant of TakeIds: load() instead of fetch_add(1) for the submission id.
TakeReceiptOnly ==
  /\ pNextSid' = pNextSid
  /\ pNextReceipt' = pNextReceipt + 1

\* The two fetch_adds, before the payload is parsed.
TakeIds ==
  /\ pNextSid' = pNextSid + 1
  /\ pNextReceipt' = pNextReceipt + 1

\* The request is read and parsed; the thread waits for db_mutex.
Accept(j) ==
  /\ pUp
  /\ pThread[j].pc = "idle"
  /\ TakeIds
  /\ pThread' = [pThread EXCEPT ![j].pc = "inserting",
                                ![j].sid = pNextSid,
                                ![j].receipt = pNextReceipt]
  /\ UNCHANGED <<pUp, pRestarts, pLog, pPool, pUdp, replication>>

\* Parsing throws: the ids are spent and the client gets the parse error.
Reject(j) ==
  /\ pUp
  /\ pThread[j].pc = "idle"
  /\ TakeIds
  /\ Goto(j, "rejected")
  /\ UNCHANGED <<pUp, pRestarts, pLog, pPool, pUdp, replication>>

\* insert_job_log: the INSERT.
Insert(j) ==
  /\ pUp
  /\ pThread[j].pc = "inserting"
  /\ DbMutexFree
  /\ pLog' = Append(pLog, RowOf(j))
  /\ Goto(j, "replicatingInsert")
  /\ UNCHANGED <<pUp, pRestarts, pNextSid, pNextReceipt, pPool, pUdp, replication>>

\* The file does not open, and insert_job_log returns; or the INSERT fails and
\* is replicated all the same.  The job is scheduled without a row.
InsertFails(j) ==
  /\ DatabaseMayFail
  /\ pUp
  /\ pThread[j].pc = "inserting"
  /\ DbMutexFree
  /\ \E next \in {"scheduling", "replicatingInsert"} :
       pThread' = [pThread EXCEPT ![j].pc = next, ![j].unwritten = TRUE]
  /\ UNCHANGED <<pUp, pRestarts, pLog, pNextSid, pNextReceipt, pPool, pUdp, replication>>

\* replicate_to_backup: `sent' is FALSE when the backup cannot be reached;
\* nobody looks at the result.
Replicate(message, sent) ==
  replication' = IF sent THEN replication \cup {message} ELSE replication

ReplicateInsert(j, sent) ==
  /\ pUp
  /\ pThread[j].pc = "replicatingInsert"
  /\ Replicate(InsertOf(RowOf(j)), sent)
  /\ Goto(j, "scheduling")
  /\ UNCHANGED <<pUp, pRestarts, pLog, pNextSid, pNextReceipt, pPool, pUdp>>

\* One more failed attempt: the loop goes on, or the job has failed.
Retry(j) ==
  pThread' =
    [pThread EXCEPT
       ![j].attempt = @ + 1,
       ![j].target = NoNode,
       ![j].pc = IF pThread[j].attempt + 1 < MaxRetries THEN "scheduling" ELSE "logging",
       ![j].response = IF pThread[j].attempt + 1 < MaxRetries THEN @ ELSE Fatal]

\* reserve_compute_node finds n; which nodes have room is left open.
Reserve(j, n) ==
  /\ pUp
  /\ pThread[j].pc = "scheduling"
  /\ n \in pPool
  /\ pThread' = [pThread EXCEPT ![j].pc = "calling", ![j].target = n]
  /\ UNCHANGED <<pUp, pRestarts, pLog, pNextSid, pNextReceipt, pPool, pUdp, replication>>

\* No node is registered, or none has room: sleep 500 ms and try again.
ReserveNone(j) ==
  /\ pUp
  /\ pThread[j].pc = "scheduling"
  /\ Retry(j)
  /\ UNCHANGED <<pUp, pRestarts, pLog, pNextSid, pNextReceipt, pPool, pUdp, replication>>

\* Mutant of ForwardReturns: the node's answer is taken for a failure.
ForwardReturnsRetry(j, response) ==
  /\ pUp
  /\ pThread[j].pc = "calling"
  /\ Retry(j)
  /\ UNCHANGED <<pUp, pRestarts, pLog, pNextSid, pNextReceipt, pPool, pUdp, replication>>

\* forward_to_compute returns a compute node's text.
ForwardReturns(j, response) ==
  /\ pUp
  /\ pThread[j].pc = "calling"
  /\ pThread' = [pThread EXCEPT ![j].pc = "logging",
                                ![j].target = NoNode,
                                ![j].response = response]
  /\ UNCHANGED <<pUp, pRestarts, pLog, pNextSid, pNextReceipt, pPool, pUdp, replication>>

\* forward_to_compute returns a transport failure: the node is erased.
ForwardFails(j) ==
  /\ pUp
  /\ pThread[j].pc = "calling"
  /\ pPool' = pPool \ {pThread[j].target}
  /\ Retry(j)
  /\ UNCHANGED <<pUp, pRestarts, pLog, pNextSid, pNextReceipt, pUdp, replication>>

\* log_master: the UPDATE with the outcome, marked DIRECT.
LogOutcome(j) ==
  /\ pUp
  /\ pThread[j].pc = "logging"
  /\ DbMutexFree
  /\ pLog' = Updated(pLog, pThread[j].sid, OutcomeOf(pThread[j]),
                     pThread[j].response, "DIRECT")
  /\ Goto(j, "replicatingOutcome")
  /\ UNCHANGED <<pUp, pRestarts, pNextSid, pNextReceipt, pPool, pUdp, replication>>

\* The same of the UPDATE: the client is answered all the same.
LogFails(j) ==
  /\ DatabaseMayFail
  /\ pUp
  /\ pThread[j].pc = "logging"
  /\ DbMutexFree
  /\ \E next \in {"replying", "replicatingOutcome"} :
       pThread' = [pThread EXCEPT ![j].pc = next, ![j].unwritten = TRUE]
  /\ UNCHANGED <<pUp, pRestarts, pLog, pNextSid, pNextReceipt, pPool, pUdp, replication>>

ReplicateOutcome(j, sent) ==
  /\ pUp
  /\ pThread[j].pc = "replicatingOutcome"
  /\ Replicate(OutcomeUpdate(j), sent)
  /\ Goto(j, "replying")
  /\ UNCHANGED <<pUp, pRestarts, pLog, pNextSid, pNextReceipt, pPool, pUdp>>

\* send_socket_payload of "MASTER RESPONSE: " + response.
Reply(j) ==
  /\ pUp
  /\ pThread[j].pc = "replying"
  /\ Goto(j, "done")
  /\ UNCHANGED <<pUp, pRestarts, pLog, pNextSid, pNextReceipt, pPool, pUdp, replication>>

-----------------------------------------------------------------------------
(***************************************************************************)
(* The UDP thread and the monitor thread                                   *)
(***************************************************************************)

\* The pattern ^RESULT:(\d+):(.*)$ matches a text of one line only: the text
\* of a completed execution spans lines and is dropped.
OneLine(response) == response.kind = "ERROR"

\* RESULT:<sid>:<response> arrives and is written with delivery PENDING.
ResultArrives(sid, response) ==
  /\ pUp
  /\ DbMutexFree
  /\ IF OneLine(response)
     THEN /\ pLog' = Updated(pLog, sid, "FORWARDED", response, "PENDING")
          /\ pUdp' = {UpdateOf(sid, "FORWARDED", response, "PENDING")}
     ELSE UNCHANGED <<pLog, pUdp>>
  /\ UNCHANGED <<pUp, pRestarts, pNextSid, pNextReceipt, pThread, pPool, replication>>

\* Its UPDATE fails, and is replicated or not.
ResultFails(sid, response) ==
  /\ DatabaseMayFail
  /\ pUp
  /\ DbMutexFree
  /\ OneLine(response)
  /\ \/ pUdp' = {UpdateOf(sid, "FORWARDED", response, "PENDING")}
     \/ UNCHANGED pUdp
  /\ UNCHANGED <<pUp, pRestarts, pLog, pNextSid, pNextReceipt, pThread, pPool, replication>>

ReplicateResult(sent) ==
  /\ pUp
  /\ \E m \in pUdp : Replicate(m, sent)
  /\ pUdp' = {}
  /\ UNCHANGED <<pUp, pRestarts, pLog, pNextSid, pNextReceipt, pThread, pPool>>

Heartbeat(n) ==
  /\ pUp
  /\ pUdp = {}
  /\ pPool' = pPool \cup {n}
  /\ UNCHANGED <<pUp, pRestarts, pLog, pNextSid, pNextReceipt, pThread, pUdp, replication>>

\* dead_compute_monitor: n has been silent for heartbeat_timeout.
Evict(n) ==
  /\ pUp
  /\ n \in pPool
  /\ pPool' = pPool \ {n}
  /\ UNCHANGED <<pUp, pRestarts, pLog, pNextSid, pNextReceipt, pThread, pUdp, replication>>

-----------------------------------------------------------------------------
(***************************************************************************)
(* Process failure                                                         *)
(***************************************************************************)

\* The process dies: its threads, its pool and an update it was replicating
\* are lost; jobs_log and what was sent remain.
Crash ==
  /\ pUp
  /\ pUp' = FALSE
  /\ pThread' = [j \in Jobs |-> IF Live(j) THEN [pThread[j] EXCEPT !.pc = "gone"]
                                           ELSE pThread[j]]
  /\ pPool' = {}
  /\ pUdp' = {}
  /\ UNCHANGED <<pRestarts, pLog, pNextSid, pNextReceipt, replication>>

\* Mutant of Restart: init_db recreates the table.
RestartClean ==
  /\ ~pUp
  /\ pRestarts < MaxRestarts
  /\ pUp' = TRUE
  /\ pRestarts' = pRestarts + 1
  /\ pLog' = <<>>
  /\ pNextSid' = NextSubmission(<<>>)
  /\ pNextReceipt' = NextReceipt(<<>>)
  /\ UNCHANGED <<pThread, pPool, pUdp, replication>>

\* main: init_sequence_counters reads the log; nothing resumes its rows.
Restart ==
  /\ ~pUp
  /\ pRestarts < MaxRestarts
  /\ pUp' = TRUE
  /\ pRestarts' = pRestarts + 1
  /\ pNextSid' = NextSubmission(pLog)
  /\ pNextReceipt' = NextReceipt(pLog)
  /\ UNCHANGED <<pLog, pThread, pPool, pUdp, replication>>

\* The environment: the backup takes a replicate request off the network, or
\* dies with those on their way.
ReplicaTaken ==
  /\ \/ \E m \in replication : replication' = replication \ {m}
     \/ replication' = {}
  /\ UNCHANGED <<pUp, pRestarts, pLog, pNextSid, pNextReceipt, pThread, pPool, pUdp>>

ClientStep(j) ==
  \/ Accept(j)
  \/ Reject(j)
  \/ Insert(j)
  \/ InsertFails(j)
  \/ \E sent \in BOOLEAN : ReplicateInsert(j, sent)
  \/ \E n \in Nodes : Reserve(j, n)
  \/ ReserveNone(j)
  \/ \E response \in Computed : ForwardReturns(j, response)
  \/ ForwardFails(j)
  \/ LogOutcome(j)
  \/ LogFails(j)
  \/ \E sent \in BOOLEAN : ReplicateOutcome(j, sent)
  \/ Reply(j)

UdpStep ==
  \/ \E sid \in SidsOf(pLog) \cup ForeignSids, response \in Computed :
       ResultArrives(sid, response) \/ ResultFails(sid, response)
  \/ \E sent \in BOOLEAN : ReplicateResult(sent)
  \/ \E n \in Nodes : Heartbeat(n)

Next ==
  \/ \E j \in Jobs : ClientStep(j)
  \/ UdpStep
  \/ \E n \in Nodes : Evict(n)
  \/ Crash
  \/ Restart
  \/ ReplicaTaken

Spec == Init /\ [][Next]_pVars

-----------------------------------------------------------------------------
(***************************************************************************)
(* Properties                                                              *)
(***************************************************************************)

\* Every variable has its type.
TypeOK ==
  /\ pUp \in BOOLEAN
  /\ pRestarts \in Nat
  /\ pLog \in Seq(Row)
  /\ pNextSid \in Nat
  /\ pNextReceipt \in Nat
  /\ pThread \in [Jobs -> Thread]
  /\ pPool \subseteq Nodes
  /\ pUdp \subseteq UpdateMessage
  /\ replication \subseteq Replication

\* submission_id is the key every UPDATE selects rows by, and nothing in the
\* schema makes it unique: concurrent requests, requests that burn an id
\* without writing a row, and restarts that recompute the counter from the
\* log (master.cpp:241-260) must never give two rows the same id.
SubmissionsUnique ==
  \A i, k \in DOMAIN pLog : pLog[i].sid = pLog[k].sid => i = k

Scheduled == {"scheduling", "calling", "logging", "replicatingOutcome",
              "replying", "done"}

\* A job reaches the scheduler only once its row, under the id it will be
\* executed as, is in jobs_log, so a crash during its execution leaves a trace
\* of it; unless SQLite refused a write of it, which the code does not notice
\* (master.cpp:485 before 491, 272, 279).
WriteAhead ==
  \A j \in Jobs :
    pThread[j].pc \in Scheduled /\ ~pThread[j].unwritten =>
      \E i \in DOMAIN pLog : pLog[i].sid = pThread[j].sid /\ pLog[i].job = j

\* By the time a client can read its answer the log holds that answer, or the
\* text of a RESULT of its id that arrived after it, and never PENDING, unless
\* SQLite refused a write of it (master.cpp:521 before 523, 297, 304, 551).
AnsweredIsRecorded ==
  \A j \in Jobs :
    pThread[j].pc \in {"replicatingOutcome", "replying", "done"} /\ ~pThread[j].unwritten =>
      \A i \in DOMAIN pLog :
        pLog[i].sid = pThread[j].sid =>
          \/ /\ pLog[i].response = pThread[j].response
             /\ pLog[i].delivery = "DIRECT"
          \/ /\ OneLine(pLog[i].response)
             /\ pLog[i].delivery = "PENDING"

\* A write of the request with this id failed.
Unwritten(sid) == \E j \in Jobs : pThread[j].unwritten /\ pThread[j].sid = sid

\* What a request thread sends to the backup is about a row this log already
\* holds, and an insert carries that row's job and receipt: the backup can be
\* behind the primary, never ahead of it.  Nothing is said of a request that
\* SQLite refused a write of, which is replicated all the same, nor of the
\* update for a RESULT, which the UDP thread passes on whether or not this
\* primary has the row (master.cpp:277-287, 301-310: SQL first, then the
\* replication; 551).
ReplicationFollowsLog ==
  \A m \in replication \cup pUdp :
    IF m.action = "insert"
    THEN \/ \E i \in DOMAIN pLog : /\ pLog[i].sid = m.row.sid
                                  /\ pLog[i].job = m.row.job
                                  /\ pLog[i].receipt = m.row.receipt
         \/ Unwritten(m.row.sid)
    ELSE m.delivery = "PENDING" \/ m.sid \in SidsOf(pLog) \/ Unwritten(m.sid)

\* No row is removed, changes whose row it is, or has its outcome turned back
\* into PENDING.
RowsStay ==
  /\ Len(pLog) <= Len(pLog')
  /\ \A i \in DOMAIN pLog :
       /\ pLog'[i].sid = pLog[i].sid
       /\ pLog'[i].job = pLog[i].job
       /\ pLog[i].response # Pending => pLog'[i].response # Pending

\* Every step leaves the rows there are as they are but for their outcome, a
\* crash and a restart included (master.cpp:262-311, 361-388).
RowsArePermanent == [][RowsStay]_pVars
=============================================================================
