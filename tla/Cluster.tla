------------------------------ MODULE Cluster ------------------------------
(***************************************************************************)
(* The whole system: clients, the primary, the backup and the compute      *)
(* nodes, each the module of its name, joined where the program joins      *)
(* them.                                                                   *)
(*                                                                         *)
(*  - A job's client connects to the primary and, only if that connection  *)
(*    is refused, to the backup (client.cpp:314-334); its callback         *)
(*    listener takes what a promoted backup recovers (client.cpp:98-140).  *)
(*  - A master's call to forward_to_compute is a connection of a compute   *)
(*    node; the call returns what the node answers, or a transport failure *)
(*    when the node is down or dies before it answers, or (CallsMayBreak)  *)
(*    when the connection fails though the node lives: what it is running  *)
(*    for the caller it then runs to the end.                              *)
(*  - Replicate requests and RESULT datagrams travel with no order among   *)
(*    them: a replicate request is a connection with a thread of its own.  *)
(*    A datagram that is never taken is lost.                              *)
(*                                                                         *)
(* A call that fails though its peer is up (a health check that times out, *)
(* a replicate request that cannot be sent, a client that cannot connect)  *)
(* is a fault, counted and bounded by MaxFaults.  Broken calls of compute  *)
(* nodes are not counted.  The primary's database works here.              *)
(***************************************************************************)
EXTENDS JobsLog

CONSTANTS Nodes, NoNode, MaxRetries, MaxRestarts, MaxBackupRestarts,
          MaxNodeRestarts, FailureThreshold,
          PrimaryMayCrash, BackupMayCrash, NodesMayCrash, \* which processes may die
          Fallback,     \* clients have a backup address
          MaxFaults,    \* bound: calls that fail though the peer is up
          WarmStart,    \* both pools hold every node at the start
          NodesMayBeFull, \* a registered node may lack room
          CallsMayBreak \* a connection to a living node may fail

\* The threads that call compute nodes: one per request, and the recovery thread.
Callers == ({"primary", "backup"} \X Jobs) \cup {<<"recovery">>}

ASSUME ClusterAssumption ==
  /\ IsFiniteSet(Jobs)
  /\ NoNode \notin Nodes \cup Jobs \cup Callers
  /\ MaxRetries \in Nat \ {0}
  /\ FailureThreshold \in Nat \ {0}
  /\ {MaxRestarts, MaxBackupRestarts, MaxNodeRestarts} \subseteq Nat
  /\ MaxFaults \in Nat
  /\ {PrimaryMayCrash, BackupMayCrash, NodesMayCrash, Fallback, WarmStart,
      NodesMayBeFull, CallsMayBreak} \subseteq BOOLEAN

VARIABLES
  pUp, pRestarts, pLog, pNextSid, pNextReceipt, pThread, pPool, pUdp, replication,
  bConfigured, bUp, bRestarts, promoted, bFailures, bLog, bNextSid, bNextReceipt, bThread,
  bPool, rThread, callbacks,
  nodeUp, nodeRestarts, run, results,
  faults  \* calls that failed so far though the peer was up

\* The ids the masters give.  No job is submitted twice, so there are no more
\* than jobs; the receipts of a restarted primary start from its row ids.
Sids == 1001..(1000 + Cardinality(Jobs))
Receipts == (1..(2 * Cardinality(Jobs))) \cup (2001..(2000 + Cardinality(Jobs)))

P == INSTANCE Primary WITH ForeignSids <- Sids, DatabaseMayFail <- FALSE
B == INSTANCE Backup WITH PrimaryConfigured <- {TRUE}, ReplicaSids <- Sids,
                     ReplicaReceipts <- Receipts, CallbackLengths <- Nat
N == INSTANCE ComputeNode

pVars == <<pUp, pRestarts, pLog, pNextSid, pNextReceipt, pThread, pPool, pUdp,
           replication>>
bVars == <<bConfigured, bUp, bRestarts, promoted, bFailures, bLog, bNextSid, bNextReceipt,
           bThread, bPool, rThread, callbacks>>
nVars == <<nodeUp, nodeRestarts, run, results>>
vars == <<pVars, bVars, nVars, faults>>

Init ==
  /\ P!InitWith(IF WarmStart THEN Nodes ELSE {})
  /\ B!InitWith(IF WarmStart THEN Nodes ELSE {})
  /\ N!Init
  /\ faults = 0

\* What a caller finds out about a peer that is up or down: the truth, or one
\* more fault.
Learns(peerUp, reachable) ==
  \/ reachable = peerUp /\ UNCHANGED faults
  \/ /\ peerUp
     /\ ~reachable
     /\ faults < MaxFaults
     /\ faults' = faults + 1

-----------------------------------------------------------------------------
(***************************************************************************)
(* Clients                                                                 *)
(***************************************************************************)

\* The primary takes the connection, whatever it makes of the payload.
Submit(j) ==
  /\ bThread[j].pc = "idle"
  /\ P!Accept(j) \/ P!Reject(j)
  /\ UNCHANGED <<bVars, nVars, faults>>

\* Mutant of FallBack: a client whose connection ends without an answer
\* submits the job to the backup as well.
FallBackResubmit(j) ==
  /\ Fallback
  /\ ~pUp
  /\ pThread[j].pc \in {"idle", "gone"}
  /\ B!Accept(j) \/ B!Reject(j) \/ B!StartProbe(j)
  /\ UNCHANGED <<pVars, nVars, faults>>

\* The connection to the primary fails; the client turns to the backup.
FallBack(j) ==
  /\ Fallback
  /\ Learns(pUp, FALSE)
  /\ pThread[j].pc = "idle"
  /\ B!Accept(j) \/ B!Reject(j) \/ B!StartProbe(j)
  /\ UNCHANGED <<pVars, nVars>>

-----------------------------------------------------------------------------
(***************************************************************************)
(* Calls of compute nodes                                                  *)
(***************************************************************************)

IsOpen(r) == run[r].connection \in {"open", "answered"}

OpenRuns(caller) == {r \in Runs : run[r].caller = caller /\ IsOpen(r)}

\* The connection is made and the payload read by the node.
Connect(caller, target, sid, job) ==
  /\ OpenRuns(caller) = {}
  /\ \E r \in Runs : N!Start(r, caller, target, sid, job)
  /\ UNCHANGED <<pVars, bVars, faults>>

\* The node's text has been read.
Answered(caller, r) ==
  /\ r \in OpenRuns(caller)
  /\ run[r].connection = "answered"
  /\ N!Hangup({r})
  /\ UNCHANGED <<nodeUp, nodeRestarts, results, faults>>

\* The node is down, or died before it answered; or the connection fails,
\* before the payload is read or at any time after.
Failed(caller, target) ==
  /\ \/ /\ OpenRuns(caller) = {}
        /\ target \notin nodeUp \/ CallsMayBreak
        /\ UNCHANGED run
     \/ \E r \in OpenRuns(caller) : /\ run[r].pc = "lost"
                                    /\ run[r].connection = "open"
                                    /\ N!Hangup({r})
     \/ CallsMayBreak /\ \E r \in OpenRuns(caller) : N!Break(r)
  /\ UNCHANGED <<nodeUp, nodeRestarts, results, faults>>

PrimaryCalls(j) ==
  /\ pThread[j].pc = "calling"
  /\ \/ Connect(<<"primary", j>>, pThread[j].target, pThread[j].sid, j)
     \/ \E r \in Runs : /\ Answered(<<"primary", j>>, r)
                        /\ P!ForwardReturns(j, N!ResponseOf(r))
                        /\ UNCHANGED bVars
     \/ /\ Failed(<<"primary", j>>, pThread[j].target)
        /\ P!ForwardFails(j)
        /\ UNCHANGED bVars

BackupCalls(j) ==
  /\ bThread[j].pc = "calling"
  /\ \/ Connect(<<"backup", j>>, bThread[j].target, bThread[j].sid, j)
     \/ \E r \in Runs : /\ Answered(<<"backup", j>>, r)
                        /\ B!ForwardReturns(j, N!ResponseOf(r))
                        /\ UNCHANGED pVars
     \/ /\ Failed(<<"backup", j>>, bThread[j].target)
        /\ B!ForwardFails(j)
        /\ UNCHANGED pVars

\* The payload replayed is the stored one: the row's submission id and job.
RecoveryCalls ==
  /\ rThread.pc = "calling"
  /\ \/ Connect(<<"recovery">>, rThread.target, B!First(rThread.queue).sid,
                B!First(rThread.queue).job)
     \/ \E r \in Runs : /\ Answered(<<"recovery">>, r)
                        /\ B!ReplayReturns(N!ResponseOf(r))
                        /\ UNCHANGED pVars
     \/ /\ Failed(<<"recovery">>, rThread.target)
        /\ B!ReplayFails
        /\ UNCHANGED pVars

-----------------------------------------------------------------------------
(***************************************************************************)
(* The masters' other steps                                                *)
(***************************************************************************)

\* reserve_compute_node may find nothing: no node is registered, or none of
\* the registered has room.
NoRoomIn(pool) == pool = {} \/ NodesMayBeFull

Replicates(sent) == Learns(bUp, sent)

PrimaryStep(j) ==
  /\ \/ /\ \/ P!Insert(j)
           \/ \E n \in Nodes : P!Reserve(j, n)
           \/ NoRoomIn(pPool) /\ P!ReserveNone(j)
           \/ P!LogOutcome(j)
           \/ P!Reply(j)
        /\ UNCHANGED faults
     \/ \E sent \in BOOLEAN : P!ReplicateInsert(j, sent) /\ Replicates(sent)
     \/ \E sent \in BOOLEAN : P!ReplicateOutcome(j, sent) /\ Replicates(sent)
  /\ UNCHANGED <<bVars, nVars>>

BackupStep(j) ==
  /\ \/ /\ \/ B!Insert(j)
           \/ \E n \in Nodes : B!Reserve(j, n)
           \/ NoRoomIn(bPool) /\ B!ReserveNone(j)
           \/ B!LogOutcome(j)
           \/ B!Reply(j)
        /\ UNCHANGED faults
     \/ \E reachable \in BOOLEAN : B!ProbeReturns(j, reachable) /\ Learns(pUp, reachable)
     \/ B!ProbeRejects(j) /\ Learns(pUp, FALSE)
  /\ UNCHANGED <<pVars, nVars>>

RecoveryStep ==
  /\ \/ B!StartScan
     \/ B!EndScan
     \/ \E n \in Nodes : B!ReplayReserve(n)
     \/ NoRoomIn(bPool) /\ B!ReplayReserveNone
     \/ \E ok \in BOOLEAN : B!Deliver(ok)
     \/ B!Record
  /\ UNCHANGED <<pVars, nVars, faults>>

MonitorStep ==
  /\ \E reachable \in BOOLEAN : B!HealthCheck(reachable) /\ Learns(pUp, reachable)
  /\ UNCHANGED <<pVars, nVars>>

ReplicaArrives(m) ==
  /\ m \in replication
  /\ B!ReplicaArrives(m)
  /\ replication' = replication \ {m}
  /\ UNCHANGED <<pUp, pRestarts, pLog, pNextSid, pNextReceipt, pThread, pPool, pUdp>>
  /\ UNCHANGED <<nVars, faults>>

TakeResult(m) ==
  /\ m \in results
  /\ results' = results \ {m}
  /\ IF m.to = "primary"
     THEN P!ResultArrives(m.sid, m.response) /\ UNCHANGED bVars
     ELSE B!ResultArrives(m.sid, m.response) /\ UNCHANGED pVars
  /\ UNCHANGED <<nodeUp, nodeRestarts, run, faults>>

ReplicateResult ==
  /\ \E sent \in BOOLEAN : P!ReplicateResult(sent) /\ Replicates(sent)
  /\ UNCHANGED <<bVars, nVars>>

-----------------------------------------------------------------------------
(***************************************************************************)
(* The pools.  A node that is down is evicted by either master some time   *)
(* later.  The eviction of a live node whose heartbeats were lost adds     *)
(* nothing: a master may find no node with room at any time.               *)
(***************************************************************************)

Heartbeat(n) ==
  /\ n \in nodeUp
  /\ \/ n \notin pPool /\ P!Heartbeat(n) /\ UNCHANGED bVars
     \/ n \notin bPool /\ B!Heartbeat(n) /\ UNCHANGED pVars
  /\ UNCHANGED <<nVars, faults>>

Evict(n) ==
  /\ n \notin nodeUp
  /\ \/ P!Evict(n) /\ UNCHANGED bVars
     \/ B!Evict(n) /\ UNCHANGED pVars
  /\ UNCHANGED <<nVars, faults>>

-----------------------------------------------------------------------------
NodeStep ==
  /\ \E r \in Runs :
       \/ \E kind \in RunKinds : N!Finish(r, kind)
       \/ N!Answer(r)
       \/ N!Publish(r)
  /\ UNCHANGED <<pVars, bVars, faults>>

\* A master's death ends its connections; the nodes carry on.
RunsOfMaster(names) ==
  {r \in Runs : run[r].caller \in Callers /\ run[r].caller[1] \in names /\ IsOpen(r)}

PrimaryCrash ==
  /\ PrimaryMayCrash
  /\ P!Crash
  /\ N!Hangup(RunsOfMaster({"primary"}))
  /\ UNCHANGED <<bVars, nodeUp, nodeRestarts, results, faults>>

\* Replicate requests on their way die with the backup.
BackupCrash ==
  /\ BackupMayCrash
  /\ B!Crash
  /\ N!Hangup(RunsOfMaster({"backup", "recovery"}))
  /\ replication' = {}
  /\ UNCHANGED <<pUp, pRestarts, pLog, pNextSid, pNextReceipt, pThread, pPool, pUdp>>
  /\ UNCHANGED <<nodeUp, nodeRestarts, results, faults>>

Crash ==
  \/ PrimaryCrash
  \/ BackupCrash
  \/ NodesMayCrash /\ (\E n \in Nodes : N!Crash(n)) /\ UNCHANGED <<pVars, bVars, faults>>

Restart ==
  \/ P!Restart /\ UNCHANGED <<bVars, nVars, faults>>
  \/ B!Restart /\ UNCHANGED <<pVars, nVars, faults>>
  \/ (\E n \in Nodes : N!Restart(n)) /\ UNCHANGED <<pVars, bVars, faults>>

Next ==
  \/ \E j \in Jobs : \/ Submit(j)
                     \/ FallBack(j)
                     \/ PrimaryStep(j)
                     \/ PrimaryCalls(j)
                     \/ BackupStep(j)
                     \/ BackupCalls(j)
  \/ RecoveryStep
  \/ RecoveryCalls
  \/ MonitorStep
  \/ \E m \in replication : ReplicaArrives(m)
  \/ \E m \in results : TakeResult(m)
  \/ ReplicateResult
  \/ \E n \in Nodes : Heartbeat(n) \/ Evict(n)
  \/ NodeStep
  \/ Crash
  \/ Restart

Spec == Init /\ [][Next]_vars

(***************************************************************************)
(* Fairness.  Every thread of a live process goes on, connections are      *)
(* answered by live nodes, heartbeats and replicate requests that were     *)
(* sent arrive.  Nothing is assumed of clients, of crashes and restarts,   *)
(* of RESULT datagrams, or of a master that finds no node with room,       *)
(* except that it does not happen to the recovery thread for ever.         *)
(***************************************************************************)
RecoveryReserves ==
  /\ \E n \in Nodes : B!ReplayReserve(n)
  /\ UNCHANGED <<pVars, nVars, faults>>

Fairness ==
  /\ \A j \in Jobs : /\ WF_vars(PrimaryStep(j))
                     /\ WF_vars(PrimaryCalls(j))
                     /\ WF_vars(BackupStep(j))
                     /\ WF_vars(BackupCalls(j))
  /\ WF_vars(RecoveryStep)
  /\ SF_vars(RecoveryReserves)
  /\ WF_vars(RecoveryCalls)
  /\ WF_vars(MonitorStep)
  /\ WF_vars(\E m \in replication : ReplicaArrives(m))
  /\ WF_vars(ReplicateResult)
  /\ WF_vars(\E n \in Nodes : Heartbeat(n))
  /\ WF_vars(NodeStep)

FairSpec == Spec /\ Fairness

\* Nothing but the backup's monitor thread is known to go on.
MonitoredSpec == Spec /\ WF_vars(MonitorStep)

-----------------------------------------------------------------------------
(***************************************************************************)
(* Safety                                                                  *)
(***************************************************************************)

\* Every variable has its type.
TypeOK == P!TypeOK /\ B!TypeOK /\ N!TypeOK

\* What the client of j has been sent: the reply of a master, and callbacks.
SentTo(j) ==
  {callbacks[j][k] : k \in DOMAIN callbacks[j]}
    \cup {t.response : t \in {u \in {pThread[j], bThread[j]} : u.pc = "done"}}

\* The ids the masters gave j.
SidsOfJob(j) == {pThread[j].sid, bThread[j].sid} \ {0}

OwnText(j, response) == response.run # 0 => run[response.run].job = j

\* A row marked DELIVERED holds a text that was sent, whole, on a connection to
\* its client's listener, or to the listener of a job with the same id: the
\* record, an UPDATE by submission id, marks both rows.  Whether the client
\* lived to read it nobody knows (backup.cpp:262-276, 442-449, 463-472).
DeliveredMeansSent ==
  \A i \in DOMAIN bLog :
    bLog[i].delivery = "DELIVERED" =>
      \E k \in DOMAIN bLog :
        /\ bLog[k].sid = bLog[i].sid
        /\ \E c \in DOMAIN callbacks[bLog[k].job] :
             callbacks[bLog[k].job][c] = bLog[i].response

\* The RESULTs the nodes published under an id of j.
Reports(j) == {r \in Runs : run[r].pc = "done" /\ run[r].sid \in SidsOfJob(j)}

\* A client can be called back more than once for a job, but every callback
\* after the first has a cause of its own: a RESULT a node published under the
\* job's id, which may be that of another job with this id, or the same RESULT
\* replicated by the primary, which stores single line texts only, or a
\* restart of the backup between the callback and its record (backup.cpp:789,
\* master.cpp:551, backup.cpp:463-472).
DeliveriesBounded ==
  \A j \in Jobs :
    Len(callbacks[j]) <=
      1 + bRestarts + Cardinality(Reports(j))
        + Cardinality({r \in Reports(j) : run[r].kind = "ERROR"})

\* A master's request thread sends a job out again only if the node died
\* before it answered, or the connection broke under the call, when the first
\* run may go on beside the second: of all its runs at most one is neither
\* (master.cpp:491-515, 405-417, is_transport_failure 114-119).
OneAnswerPerRequest ==
  \A j \in Jobs, m \in {"primary", "backup"} :
    Cardinality({r \in Runs : /\ run[r].caller = <<m, j>>
                              /\ run[r].pc # "lost"
                              /\ run[r].connection # "broken"}) <= 1

\* A replay that is answered is not repeated in the same life of the backup:
\* once the answer is recorded, no late replicate request, RESULT or further
\* pass makes the recovery thread run the job again.  Replays whose connection
\* broke do not count: the row stays PENDING, and though the node finishes the
\* job it is replayed once more, until a RESULT has stored its text
\* (backup.cpp:426-477, 608-620).
ReplayedOnce ==
  \A j \in Jobs :
    Cardinality({r \in N!RunsOf(j) :
                   /\ run[r].caller = <<"recovery">>
                   /\ run[r].connection = "closed"
                   /\ run[r].pc \in {"publishing", "done"}}) <= 1 + bRestarts

\* The row of bLog is the backup's own request.
OwnRow(i) == bThread[bLog[i].job].sid = bLog[i].sid

\* What the backup's log holds besides its own requests is behind the
\* primary's log, never ahead of it or different: each such row is a row of
\* the primary, and is there once.
BackupFollowsPrimary ==
  \A i \in DOMAIN bLog :
    ~OwnRow(i) =>
      /\ \E k \in DOMAIN pLog :
           /\ bLog[i].sid = pLog[k].sid
           /\ bLog[i].job = pLog[k].job
           /\ bLog[i].receipt = pLog[k].receipt
      /\ \A l \in DOMAIN bLog :
           ~OwnRow(l) /\ bLog[i].sid = bLog[l].sid => i = l

\* What was sent to the client of j, or stored in a row of j in either log.
TextsOf(j) ==
  SentTo(j) \cup {pLog[i].response : i \in {k \in DOMAIN pLog : pLog[k].job = j}}
              \cup {bLog[i].response : i \in {k \in DOMAIN bLog : bLog[k].job = j}}

\* Everything but the TCP answer finds its row by submission id alone, yet
\* requests, RESULT datagrams, replicate requests and a failover may
\* interleave as they like: no client is given, and no row holds, the output
\* of another client's job, unless the two jobs were given one submission id
\* by different masters, which number their jobs independently, or by two
\* lives of the backup, which loses INSERTs during a scan.  The primary never
\* is the cause alone.
ForeignOnlyByCollision ==
  \A j \in Jobs : \A response \in TextsOf(j) :
    ~OwnText(j, response) =>
      LET k == run[response.run].job
      IN  \E s \in SidsOfJob(j) \cap SidsOfJob(k) :
            \/ ~(pThread[j].sid = s <=> pThread[k].sid = s)
            \/ bRestarts > 0 /\ bThread[j].sid = s /\ bThread[k].sid = s

\* The backup takes over from a primary that never died only after as many
\* false alarms as the threshold asks for, or two that concern one client: its
\* connection to the primary fails, and so does the one check the backup makes
\* for it, whatever the threshold (backup.cpp:479-514, 710-717,
\* client.cpp:314-328).
PromotionHasCause ==
  promoted /\ pUp /\ pRestarts = 0 =>
    \/ faults >= FailureThreshold
    \/ faults >= 2 /\ \E j \in Jobs : bThread[j].pc # "idle"

-----------------------------------------------------------------------------
(***************************************************************************)
(* Refinement                                                              *)
(***************************************************************************)

\* The open primary and the open backup were given every environment: what
\* they do here is what their own specifications allow, so what is shown of
\* each alone is true of it in the cluster.
PrimaryRefined == P!Spec
BackupRefined  == B!Spec

TakenAs(j) == IF pThread[j].sid # 0 THEN pThread[j].sid ELSE bThread[j].sid

ExecutedAs(r) == [of |-> {run[r].job} \ {NoNode}, kind |-> run[r].kind]

DirectAnswer(j) ==
  IF pThread[j].pc = "done" THEN pThread[j].response
  ELSE IF bThread[j].pc = "done" THEN bThread[j].response ELSE Pending

S == INSTANCE JobService WITH Numbers  <- Sids,
                              number   <- [j \in Jobs |-> TakenAs(j)],
                              executed <- [r \in Runs |-> ExecutedAs(r)],
                              direct   <- [j \in Jobs |-> DirectAnswer(j)]

\* Two masters, replays, late RESULTs, lost replication and crashes leave the
\* cluster a job service: no client has more than one direct answer or one of
\* another's job, no callback carries a failure, an unfinished execution or
\* the output of a job with another number, and nothing runs that no client
\* has asked for (master.cpp:479-523, backup.cpp:426-477, 719-757).
ServesJobs == S!Spec

-----------------------------------------------------------------------------
(***************************************************************************)
(* Liveness                                                                *)
(***************************************************************************)

\* A dead primary is noticed: it comes back or the backup promotes
\* (backup.cpp:479-514).
PromotionFollows == (~pUp /\ bUp) ~> (promoted \/ pUp \/ ~bUp)

\* Every request either master took ends in an answer or with the master's
\* death, whatever the db_mutex, the retries and the replication do.
RequestsEnd ==
  \A j \in Jobs : /\ P!Live(j) ~> ~P!Live(j)
                  /\ B!Live(j) ~> ~B!Live(j)

\* Once the backup is promoted, every PENDING row is dealt with: it is
\* answered, or a delivery to its client is tried, in whatever order the passes
\* take the rows, which end early at the first that cannot be replayed.  Unless
\* the nodes are gone for good (backup.cpp:426-477).
PendingIsSettled ==
  []<>(nodeUp # {}) =>
    \A j \in Jobs :
      (promoted /\ \E i \in DOMAIN bLog : bLog[i].job = j /\ bLog[i].delivery = "PENDING")
        ~> \/ ~bUp
           \/ \A i \in DOMAIN bLog : bLog[i].job = j => bLog[i].delivery # "PENDING"

-----------------------------------------------------------------------------
(***************************************************************************)
(* What comments and the design document say                               *)
(***************************************************************************)

\* Something under way may yet write a row with the submission id of j: a node
\* that runs it, a RESULT, an update the primary has sent or is about to send.
MayBeWritten(j) ==
  \/ \E r \in N!RunsOf(j) : run[r].pc \in {"executing", "answering", "publishing"}
  \/ \E m \in results : m.sid = pThread[j].sid
  \/ \E m \in replication \cup pUdp : m.action = "update" /\ m.sid = pThread[j].sid

\* designdoc.md, "Primary failure before client receives response": a job
\* whose client was cut off is one the backup recovers, so its row is PENDING
\* or was dealt with by the recovery thread.  While a RESULT, which makes it
\* PENDING, may still come, that is not decided.
CutOffIsRecoverable ==
  \A j \in Jobs :
    pThread[j].pc = "gone" /\ ~MayBeWritten(j) =>
      \A i \in DOMAIN bLog :
        bLog[i].sid = pThread[j].sid => bLog[i].delivery # "DIRECT"

\* master.cpp:550: the primary persists a completion that is reported to it.
CompletionIsPersisted ==
  [][ \A m \in results \ results' :
        m.to = "primary" =>
          \E i \in DOMAIN pLog : pLog'[i].sid = m.sid /\ pLog'[i].response = m.response ]_vars

\* designdoc.md, table jobs_log: submission_id is the cluster's job id.
SubmissionIdIsClusterWide ==
  \A i, k \in DOMAIN bLog : bLog[i].sid = bLog[k].sid => bLog[i].job = bLog[k].job
=============================================================================
