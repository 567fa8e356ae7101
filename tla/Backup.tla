------------------------------- MODULE Backup -------------------------------
(***************************************************************************)
(* The backup master, src/master/backup.cpp.                               *)
(*                                                                         *)
(* A connection is either a replicate request of the primary, applied to   *)
(* the backup's own jobs_log whether or not it is promoted, or a client's  *)
(* fallback request, served only by a promoted backup.  Three more threads *)
(* run: the UDP thread stores RESULT datagrams and keeps the pool,         *)
(* primary_monitor_loop promotes after consecutive failed health checks,   *)
(* and recover_pending_jobs_loop, once promoted, delivers or replays every *)
(* row whose delivery status is PENDING.                                   *)
(*                                                                         *)
(* load_pending_jobs does not take db_mutex.  While its SELECT is open, an *)
(* INSERT or UPDATE of another connection fails with SQLITE_BUSY (there is *)
(* no busy handler) and is dropped, because no caller reads the result of  *)
(* sqlite3_exec; operator Store says so.                                   *)
(***************************************************************************)
EXTENDS JobsLog, Functions

CONSTANTS Nodes, NoNode,
          MaxRetries,        \* attempts per job, 3 in the code
          FailureThreshold,  \* primary_failure_threshold
          PrimaryConfigured, \* what backup_config.json may say: is there a primary
          MaxBackupRestarts, \* bound: restarts of the backup explored
          ReplicaSids,       \* the submission ids an arbitrary primary gives
          ReplicaReceipts,   \* the receipt ids it gives
          CallbackLengths    \* bound: how many callbacks are made for a job

ASSUME BackupAssumption ==
  /\ NoNode \notin Nodes
  /\ MaxRetries \in Nat \ {0}
  /\ FailureThreshold \in Nat \ {0}
  /\ PrimaryConfigured \subseteq BOOLEAN
  /\ MaxBackupRestarts \in Nat
  /\ ReplicaSids \subseteq Nat \ {0}
  /\ ReplicaReceipts \subseteq Nat
  /\ CallbackLengths \subseteq Nat

VARIABLES
  bConfigured,   \* primary_address is in backup_config.json
  bUp,           \* the process runs
  bRestarts,     \* how often it was restarted
  promoted,      \* promoted_to_master
  bFailures,     \* consecutive_failures of primary_monitor_loop
  bLog,          \* the backup's jobs_log
  bNextSid,      \* next_submission_id
  bNextReceipt,  \* next_receipt_id
  bThread,       \* per job, the thread that serves its fallback request
  bPool,         \* keys of compute_nodes
  rThread,       \* recover_pending_jobs_loop
  callbacks      \* per job, the texts sent to its callback listener

roleVars   == <<bConfigured, bUp, bRestarts, promoted, bFailures>>
idVars     == <<bNextSid, bNextReceipt>>
bVars == <<roleVars, bLog, idVars, bThread, bPool, rThread, callbacks>>

(***************************************************************************)
(* Threads of client requests.  idle: no request.  probing: in             *)
(* primary_is_reachable.  inserting .. replying: as in Primary.  standby:  *)
(* answered BACKUP STANDBY.                                                *)
(***************************************************************************)
RequestPcs == {"idle", "probing", "inserting", "scheduling", "calling",
               "logging", "replying", "done", "standby", "rejected", "gone"}

Request == [pc : RequestPcs, sid : Nat, receipt : Nat, attempt : Nat,
            target : Nodes \cup {NoNode}, response : Responses]

IdleRequest == [pc |-> "idle", sid |-> 0, receipt |-> 0, attempt |-> 0,
                target |-> NoNode, response |-> Pending]

(***************************************************************************)
(* The recovery thread works through the rows of one scan, from the first  *)
(* to the last: `queue' holds the copies it has not done with, each at its *)
(* position in the log.                                                    *)
(***************************************************************************)
Recovery(queues) ==
  [pc : {"idle", "scanning", "scheduling", "calling", "delivering", "recording"},
   queue : queues, attempt : Nat, target : Nodes \cup {NoNode},
   response : Responses, delivered : BOOLEAN]

First(queue) == queue[Min(DOMAIN queue)]
Rest(queue) == Restrict(queue, DOMAIN queue \ {Min(DOMAIN queue)})

IdleRecovery == [pc |-> "idle", queue |-> <<>>, attempt |-> 0,
                 target |-> NoNode, response |-> Pending, delivered |-> FALSE]

\* The process has just started; `pool' is who has sent a heartbeat.
InitWith(pool) ==
  /\ bConfigured \in PrimaryConfigured
  /\ bUp = TRUE
  /\ bRestarts = 0
  /\ promoted = FALSE
  /\ bFailures = 0
  /\ bLog = <<>>
  /\ bNextSid = NextSubmission(<<>>)
  /\ bNextReceipt = NextReceipt(<<>>)
  /\ bThread = [j \in Jobs |-> IdleRequest]
  /\ bPool = pool
  /\ rThread = IdleRecovery
  /\ callbacks = [j \in Jobs |-> <<>>]

Init == \E pool \in SUBSET Nodes : InitWith(pool)

\* A write of any thread but the recovery thread.
Store(log) == bLog' = IF rThread.pc = "scanning" THEN bLog ELSE log

-----------------------------------------------------------------------------
(***************************************************************************)
(* Replication and the UDP thread                                          *)
(***************************************************************************)

\* Mutant of ApplyInsert: the backup numbers the replicated job itself.
ApplyInsertRenumbered(row) ==
  Store(Append(bLog, NewRow(bNextSid + Len(bLog), row.receipt, row.job)))

ApplyInsert(row) ==
  Store(Append(bLog, NewRow(row.sid, row.receipt, row.job)))

ApplyUpdate(m) == Store(Updated(bLog, m.sid, m.forwarding, m.response, m.delivery))

\* The replicate branch of handle_client, promoted or not.
ReplicaArrives(m) ==
  /\ bUp
  /\ \/ m.action = "insert" /\ ApplyInsert(m.row)
     \/ m.action = "update" /\ ApplyUpdate(m)
  /\ UNCHANGED <<roleVars, idVars, bThread, bPool, rThread, callbacks>>

\* RESULT:<sid>:<response>, of any number of lines, with delivery PENDING.
ResultArrives(sid, response) ==
  /\ bUp
  /\ Store(Updated(bLog, sid, "FORWARDED", response, "PENDING"))
  /\ UNCHANGED <<roleVars, idVars, bThread, bPool, rThread, callbacks>>

Heartbeat(n) ==
  /\ bUp
  /\ bPool' = bPool \cup {n}
  /\ UNCHANGED <<roleVars, bLog, idVars, bThread, rThread, callbacks>>

\* dead_compute_monitor
Evict(n) ==
  /\ bUp
  /\ n \in bPool
  /\ bPool' = bPool \ {n}
  /\ UNCHANGED <<roleVars, bLog, idVars, bThread, rThread, callbacks>>

-----------------------------------------------------------------------------
(***************************************************************************)
(* primary_monitor_loop                                                    *)
(***************************************************************************)

\* Mutants of HealthCheck: one failure too few, and a counter that is reset by
\* every check.
HealthCheckEarly(reachable) ==
  /\ bUp
  /\ bConfigured
  /\ ~promoted
  /\ bFailures' = IF reachable THEN 0 ELSE bFailures + 1
  /\ promoted' = (~reachable /\ bFailures + 2 >= FailureThreshold)
  /\ UNCHANGED <<bConfigured, bUp, bRestarts, bLog, idVars, bThread, bPool, rThread, callbacks>>

HealthCheckReset(reachable) ==
  /\ bUp
  /\ bConfigured
  /\ ~promoted
  /\ bFailures' = 0
  /\ promoted' = (~reachable /\ bFailures + 1 >= FailureThreshold)
  /\ UNCHANGED <<bConfigured, bUp, bRestarts, bLog, idVars, bThread, bPool, rThread, callbacks>>

HealthCheck(reachable) ==
  /\ bUp
  /\ bConfigured
  /\ ~promoted
  /\ bFailures' = IF reachable THEN 0 ELSE bFailures + 1
  /\ promoted' = (~reachable /\ bFailures + 1 >= FailureThreshold)
  /\ UNCHANGED <<bConfigured, bUp, bRestarts, bLog, idVars, bThread, bPool, rThread, callbacks>>

NoPrimary ==
  /\ bUp
  /\ ~bConfigured
  /\ ~promoted
  /\ promoted' = TRUE
  /\ UNCHANGED <<bConfigured, bUp, bRestarts, bFailures, bLog, idVars, bThread, bPool, rThread, callbacks>>

-----------------------------------------------------------------------------
(***************************************************************************)
(* handle_client for a client's request                                    *)
(***************************************************************************)

Goto(j, pc) == bThread' = [bThread EXCEPT ![j].pc = pc]

\* The two fetch_adds.
TakeIds ==
  /\ bNextSid' = bNextSid + 1
  /\ bNextReceipt' = bNextReceipt + 1

Admit(j) ==
  /\ TakeIds
  /\ bThread' = [bThread EXCEPT ![j].pc = "inserting",
                                ![j].sid = bNextSid,
                                ![j].receipt = bNextReceipt]

\* promoted_to_master is read: TRUE, the request is taken.
Accept(j) ==
  /\ bUp
  /\ promoted
  /\ bThread[j].pc = "idle"
  /\ Admit(j)
  /\ UNCHANGED <<roleVars, bLog, bPool, rThread, callbacks>>

\* Parsing throws after the ids are taken.
Reject(j) ==
  /\ bUp
  /\ promoted
  /\ bThread[j].pc = "idle"
  /\ TakeIds
  /\ Goto(j, "rejected")
  /\ UNCHANGED <<roleVars, bLog, bPool, rThread, callbacks>>

\* FALSE: one connection attempt to the primary decides.
StartProbe(j) ==
  /\ bUp
  /\ ~promoted
  /\ bThread[j].pc = "idle"
  /\ Goto(j, "probing")
  /\ UNCHANGED <<roleVars, bLog, idVars, bPool, rThread, callbacks>>

\* Mutant of ProbeReturns: no return after BACKUP STANDBY.
ProbeReturnsServes(j, reachable) ==
  /\ bUp
  /\ bThread[j].pc = "probing"
  /\ Admit(j)
  /\ promoted' = (promoted \/ ~reachable)
  /\ UNCHANGED <<bConfigured, bUp, bRestarts, bFailures, bLog, bPool, rThread, callbacks>>

ProbeReturns(j, reachable) ==
  /\ bUp
  /\ bThread[j].pc = "probing"
  /\ IF reachable
     THEN /\ Goto(j, "standby")
          /\ UNCHANGED <<promoted, idVars>>
     ELSE /\ promoted' = TRUE
          /\ Admit(j)
  /\ UNCHANGED <<bConfigured, bUp, bRestarts, bFailures, bLog, bPool, rThread, callbacks>>

\* Unreachable, and then the payload does not parse: promoted all the same.
ProbeRejects(j) ==
  /\ bUp
  /\ bThread[j].pc = "probing"
  /\ promoted' = TRUE
  /\ TakeIds
  /\ Goto(j, "rejected")
  /\ UNCHANGED <<bConfigured, bUp, bRestarts, bFailures, bLog, bPool, rThread, callbacks>>

Insert(j) ==
  /\ bUp
  /\ bThread[j].pc = "inserting"
  /\ Store(Append(bLog, NewRow(bThread[j].sid, bThread[j].receipt, j)))
  /\ Goto(j, "scheduling")
  /\ UNCHANGED <<roleVars, idVars, bPool, rThread, callbacks>>

Retry(j) ==
  bThread' =
    [bThread EXCEPT
       ![j].attempt = @ + 1,
       ![j].target = NoNode,
       ![j].pc = IF bThread[j].attempt + 1 < MaxRetries THEN "scheduling" ELSE "logging",
       ![j].response = IF bThread[j].attempt + 1 < MaxRetries THEN @ ELSE Fatal]

Reserve(j, n) ==
  /\ bUp
  /\ bThread[j].pc = "scheduling"
  /\ n \in bPool
  /\ bThread' = [bThread EXCEPT ![j].pc = "calling", ![j].target = n]
  /\ UNCHANGED <<roleVars, bLog, idVars, bPool, rThread, callbacks>>

ReserveNone(j) ==
  /\ bUp
  /\ bThread[j].pc = "scheduling"
  /\ Retry(j)
  /\ UNCHANGED <<roleVars, bLog, idVars, bPool, rThread, callbacks>>

ForwardReturns(j, response) ==
  /\ bUp
  /\ bThread[j].pc = "calling"
  /\ bThread' = [bThread EXCEPT ![j].pc = "logging",
                                ![j].target = NoNode,
                                ![j].response = response]
  /\ UNCHANGED <<roleVars, bLog, idVars, bPool, rThread, callbacks>>

ForwardFails(j) ==
  /\ bUp
  /\ bThread[j].pc = "calling"
  /\ bPool' = bPool \ {bThread[j].target}
  /\ Retry(j)
  /\ UNCHANGED <<roleVars, bLog, idVars, rThread, callbacks>>

\* Mutant of LogOutcome: the two statuses in each other's place, strings both.
LogOutcomeSwapped(j) ==
  /\ bUp
  /\ bThread[j].pc = "logging"
  /\ Store(Updated(bLog, bThread[j].sid, "DIRECT", bThread[j].response,
                   IF bThread[j].response = Fatal THEN "FAILED" ELSE "FORWARDED"))
  /\ Goto(j, "replying")
  /\ UNCHANGED <<roleVars, idVars, bPool, rThread, callbacks>>

\* log_master
LogOutcome(j) ==
  /\ bUp
  /\ bThread[j].pc = "logging"
  /\ Store(Updated(bLog, bThread[j].sid,
                   IF bThread[j].response = Fatal THEN "FAILED" ELSE "FORWARDED",
                   bThread[j].response, "DIRECT"))
  /\ Goto(j, "replying")
  /\ UNCHANGED <<roleVars, idVars, bPool, rThread, callbacks>>

Reply(j) ==
  /\ bUp
  /\ bThread[j].pc = "replying"
  /\ Goto(j, "done")
  /\ UNCHANGED <<roleVars, bLog, idVars, bPool, rThread, callbacks>>

-----------------------------------------------------------------------------
(***************************************************************************)
(* recover_pending_jobs_loop                                               *)
(***************************************************************************)

PendingRows(log) == Restrict(log, {i \in DOMAIN log : log[i].delivery = "PENDING"})

\* Mutant of Turn: rows without a stored response are not replayed.
TurnStoredOnly(queue) ==
  IF DOMAIN queue = {} \/ First(queue).response = Pending THEN IdleRecovery
  ELSE [IdleRecovery EXCEPT !.queue = queue,
                            !.response = First(queue).response,
                            !.pc = "delivering"]

\* The loop turns to the first row of `queue': a stored response goes to the
\* client, anything else is replayed; no row left ends the pass.  The test of
\* an empty forward_payload never fails: both masters' INSERTs have one.
Turn(queue) ==
  IF DOMAIN queue = {} THEN IdleRecovery
  ELSE [IdleRecovery EXCEPT
          !.queue = queue,
          !.response = First(queue).response,
          !.pc = IF First(queue).response = Pending THEN "scheduling" ELSE "delivering"]

\* load_pending_jobs: the SELECT opens and sees the log as it is now.
StartScan ==
  /\ bUp
  /\ promoted
  /\ rThread.pc = "idle"
  /\ rThread' = [rThread EXCEPT !.pc = "scanning", !.queue = PendingRows(bLog)]
  /\ UNCHANGED <<roleVars, bLog, idVars, bThread, bPool, callbacks>>

EndScan ==
  /\ bUp
  /\ rThread.pc = "scanning"
  /\ rThread' = Turn(rThread.queue)
  /\ UNCHANGED <<roleVars, bLog, idVars, bThread, bPool, callbacks>>

\* A failed attempt of replay_to_compute; after the last the row is left
\* PENDING for the next pass.
ReplayRetry ==
  rThread' = IF rThread.attempt + 1 < MaxRetries
             THEN [rThread EXCEPT !.attempt = @ + 1, !.target = NoNode,
                                  !.pc = "scheduling"]
             ELSE Turn(Rest(rThread.queue))

ReplayReserve(n) ==
  /\ bUp
  /\ rThread.pc = "scheduling"
  /\ n \in bPool
  /\ rThread' = [rThread EXCEPT !.pc = "calling", !.target = n]
  /\ UNCHANGED <<roleVars, bLog, idVars, bThread, bPool, callbacks>>

ReplayReserveNone ==
  /\ bUp
  /\ rThread.pc = "scheduling"
  /\ ReplayRetry
  /\ UNCHANGED <<roleVars, bLog, idVars, bThread, bPool, callbacks>>

ReplayReturns(response) ==
  /\ bUp
  /\ rThread.pc = "calling"
  /\ rThread' = [rThread EXCEPT !.pc = "delivering", !.target = NoNode,
                                !.response = response]
  /\ UNCHANGED <<roleVars, bLog, idVars, bThread, bPool, callbacks>>

ReplayFails ==
  /\ bUp
  /\ rThread.pc = "calling"
  /\ bPool' = bPool \ {rThread.target}
  /\ ReplayRetry
  /\ UNCHANGED <<roleVars, bLog, idVars, bThread, callbacks>>

\* Mutant of Deliver: the result of the send is not looked at.
DeliverUnchecked(ok) ==
  /\ bUp
  /\ rThread.pc = "delivering"
  /\ rThread' = [rThread EXCEPT !.pc = "recording", !.delivered = TRUE]
  /\ callbacks' =
       IF ok THEN [callbacks EXCEPT ![First(rThread.queue).job] =
                                      Append(@, rThread.response)]
       ELSE callbacks
  /\ UNCHANGED <<roleVars, bLog, idVars, bThread, bPool>>

\* deliver_to_client: `ok' is FALSE when the callback cannot be reached or the
\* send fails.  TRUE says that the connection took the text, not that the
\* client read it: it may die with the text unread.
Deliver(ok) ==
  /\ bUp
  /\ rThread.pc = "delivering"
  /\ rThread' = [rThread EXCEPT !.pc = "recording", !.delivered = ok]
  /\ callbacks' =
       IF ok THEN [callbacks EXCEPT ![First(rThread.queue).job] =
                                      Append(@, rThread.response)]
       ELSE callbacks
  /\ UNCHANGED <<roleVars, bLog, idVars, bThread, bPool>>

\* Mutants of Record: the text of the copy in the place of the replay's, the
\* row left PENDING, and an undelivered row left as it was found.
RecordOfCopy ==
  /\ bUp
  /\ rThread.pc = "recording"
  /\ bLog' = Updated(bLog, First(rThread.queue).sid, "RECOVERED",
                     First(rThread.queue).response,
                     IF rThread.delivered THEN "DELIVERED" ELSE "UNDELIVERED")
  /\ rThread' = Turn(Rest(rThread.queue))
  /\ UNCHANGED <<roleVars, idVars, bThread, bPool, callbacks>>

RecordUnmarked ==
  /\ bUp
  /\ rThread.pc = "recording"
  /\ bLog' = Updated(bLog, First(rThread.queue).sid, "RECOVERED", rThread.response,
                     "PENDING")
  /\ rThread' = Turn(Rest(rThread.queue))
  /\ UNCHANGED <<roleVars, idVars, bThread, bPool, callbacks>>

RecordDeliveredOnly ==
  /\ bUp
  /\ rThread.pc = "recording"
  /\ bLog' = IF rThread.delivered
             THEN Updated(bLog, First(rThread.queue).sid, "RECOVERED",
                          rThread.response, "DELIVERED")
             ELSE bLog
  /\ rThread' = Turn(Rest(rThread.queue))
  /\ UNCHANGED <<roleVars, idVars, bThread, bPool, callbacks>>

\* update_job_log with RECOVERED; there is no second try of a delivery.
Record ==
  /\ bUp
  /\ rThread.pc = "recording"
  /\ bLog' = Updated(bLog, First(rThread.queue).sid, "RECOVERED", rThread.response,
                     IF rThread.delivered THEN "DELIVERED" ELSE "UNDELIVERED")
  /\ rThread' = Turn(Rest(rThread.queue))
  /\ UNCHANGED <<roleVars, idVars, bThread, bPool, callbacks>>

-----------------------------------------------------------------------------
(***************************************************************************)
(* Process failure                                                         *)
(***************************************************************************)

Live(j) == bThread[j].pc \notin {"idle", "done", "standby", "rejected", "gone"}

\* Only jobs_log survives; callbacks are the clients' memory.
Crash ==
  /\ bUp
  /\ bUp' = FALSE
  /\ promoted' = FALSE
  /\ bFailures' = 0
  /\ bThread' = [j \in Jobs |-> IF Live(j) THEN [bThread[j] EXCEPT !.pc = "gone"]
                                           ELSE bThread[j]]
  /\ bPool' = {}
  /\ rThread' = IdleRecovery
  /\ UNCHANGED <<bConfigured, bRestarts, bLog, idVars, callbacks>>

\* main: the counters are computed from the log, here and nowhere else.
Restart ==
  /\ ~bUp
  /\ bRestarts < MaxBackupRestarts
  /\ bUp' = TRUE
  /\ bRestarts' = bRestarts + 1
  /\ bNextSid' = NextSubmission(bLog)
  /\ bNextReceipt' = NextReceipt(bLog)
  /\ UNCHANGED <<bConfigured, promoted, bFailures, bLog, bThread, bPool, rThread, callbacks>>

-----------------------------------------------------------------------------
(***************************************************************************)
(* The backup with an arbitrary primary, arbitrary nodes and clients       *)
(***************************************************************************)

\* A job's client has turned to the primary or to the backup, not to both.
Unseen(j) == bThread[j].pc = "idle" /\ \A i \in DOMAIN bLog : bLog[i].job # j

RequestStep(j) ==
  \/ Unseen(j) /\ (Accept(j) \/ Reject(j) \/ StartProbe(j))
  \/ \E reachable \in {FALSE, bConfigured} : ProbeReturns(j, reachable)
  \/ ProbeRejects(j)
  \/ Insert(j)
  \/ \E n \in Nodes : Reserve(j, n)
  \/ ReserveNone(j)
  \/ \E response \in Computed : ForwardReturns(j, response)
  \/ ForwardFails(j)
  \/ LogOutcome(j)
  \/ Reply(j)

RecoveryStep ==
  \/ StartScan
  \/ EndScan
  \/ \E n \in Nodes : ReplayReserve(n)
  \/ ReplayReserveNone
  \/ \E response \in Computed : ReplayReturns(response)
  \/ ReplayFails
  \/ \E ok \in BOOLEAN : Deliver(ok) /\ \A j \in Jobs : Len(callbacks'[j]) \in CallbackLengths
  \/ Record

\* The rows the backup numbered itself.
OwnRows == {i \in DOMAIN bLog : bThread[bLog[i].job].sid = bLog[i].sid}

\* Requests of a primary that numbers its jobs apart from one another,
\* whatever ids the backup has given out, and sends each row once.
InsertComes(j, sid, receipt) ==
  /\ Unseen(j)
  /\ \A i \in DOMAIN bLog \ OwnRows : bLog[i].sid # sid
  /\ ReplicaArrives([action |-> "insert", row |-> NewRow(sid, receipt, j)])

UpdateComes(sid, response) ==
  ReplicaArrives([action |-> "update", sid |-> sid,
                  forwarding |-> IF response = Fatal THEN "FAILED" ELSE "FORWARDED",
                  response |-> response, delivery |-> "DIRECT"])

ReplicaStep ==
  /\ bConfigured
  /\ \/ \E j \in Jobs, sid \in ReplicaSids, receipt \in ReplicaReceipts :
          InsertComes(j, sid, receipt)
     \/ \E sid \in SidsOf(bLog), response \in Computed \cup {Fatal} :
          UpdateComes(sid, response)

UdpStep ==
  \/ \E sid \in SidsOf(bLog), response \in Computed : ResultArrives(sid, response)
  \/ \E n \in Nodes : Heartbeat(n)

Next ==
  \/ \E j \in Jobs : RequestStep(j)
  \/ RecoveryStep
  \/ ReplicaStep
  \/ UdpStep
  \/ \E n \in Nodes : Evict(n)
  \/ \E reachable \in BOOLEAN : HealthCheck(reachable)
  \/ NoPrimary
  \/ Crash
  \/ Restart

Spec == Init /\ [][Next]_bVars

-----------------------------------------------------------------------------
(***************************************************************************)
(* Properties                                                              *)
(***************************************************************************)

\* Every variable has its type.
TypeOK ==
  /\ bConfigured \in BOOLEAN
  /\ bUp \in BOOLEAN
  /\ bRestarts \in Nat
  /\ promoted \in BOOLEAN
  /\ bFailures \in Nat
  /\ bLog \in Seq(Row)
  /\ bNextSid \in Nat
  /\ bNextReceipt \in Nat
  /\ bThread \in [Jobs -> Request]
  /\ bPool \subseteq Nodes
  /\ rThread \in Recovery([DOMAIN rThread.queue -> Row])
  /\ callbacks \in [Jobs -> Seq(Responses)]

\* A backup that has not promoted leaves the cluster alone: no callback is
\* made, no row is marked RECOVERED, no recovery pass runs and no request is
\* past the health check, through any order of crash, restart, health check
\* and client request (backup.cpp:434, 710-717).
StandbyIsPassive ==
  /\ ~promoted =>
       /\ rThread = IdleRecovery
       /\ \A j \in Jobs : ~Live(j) \/ bThread[j].pc = "probing"
  /\ (bUp /\ ~promoted /\ bRestarts = 0) =>
       /\ \A j \in Jobs : callbacks[j] = <<>>
       /\ \A i \in DOMAIN bLog : bLog[i].forwarding # "RECOVERED"

\* Of two rows of the backup's log with one submission id one is of a request
\* it numbered itself and the other a replica, whatever becomes of INSERTs
\* dropped during a scan, replicas with ids of the primary's numbering and
\* restarts that recompute the counter.  It speaks of rows: of two requests one
\* may have lost its INSERT, and its id is then given again after a restart
\* (backup.cpp:295-314, 719).
SubmissionsUnique ==
  \A i, k \in DOMAIN bLog :
    bLog[i].sid = bLog[k].sid => i = k \/ (i \in OwnRows <=> k \notin OwnRows)

\* No row is removed or changes whose row it is, and none that has a text is
\* turned back into one without.
OutcomesStay ==
  /\ Len(bLog) <= Len(bLog')
  /\ \A i \in DOMAIN bLog :
       /\ bLog'[i].sid = bLog[i].sid
       /\ bLog'[i].job = bLog[i].job
       /\ bLog[i].response # Pending => bLog'[i].response # Pending

\* A recovery pass decides on copies of rows that other threads write
\* meanwhile, and records what it did by submission id, on rows that are not
\* the copy's too.  Still no step undoes an outcome, which the next pass would
\* take for a job to replay though its client may have been answered
\* (backup.cpp:437-472, 678-700, 789).
OutcomesArePermanent == [][OutcomesStay]_bVars
=============================================================================
