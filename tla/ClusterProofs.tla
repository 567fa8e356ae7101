--------------------------- MODULE ClusterProofs ---------------------------
(***************************************************************************)
(* Theorems about the whole system, for any number of jobs, nodes and      *)
(* executions, any retries, restarts and faults.                           *)
(*                                                                         *)
(* The masters keep the invariants they have alone, because each of their  *)
(* steps here is one that their own specifications allow.  What that needs *)
(* is in turn an invariant of the cluster: a replicate request is a row of *)
(* the primary the backup does not have, a RESULT is the text of a         *)
(* finished run, and the ids are no more than the jobs.                    *)
(***************************************************************************)
EXTENDS Cluster, JobsLogProofs, FiniteSetTheorems

PP == INSTANCE PrimaryProofs WITH ForeignSids <- Sids, DatabaseMayFail <- FALSE
BP == INSTANCE BackupProofs WITH PrimaryConfigured <- {TRUE}, ReplicaSids <- Sids,
                                 ReplicaReceipts <- Receipts, CallbackLengths <- Nat

-----------------------------------------------------------------------------
(***************************************************************************)
(* The inductive invariant                                                 *)
(***************************************************************************)

Unserved == {"idle", "probing", "standby", "rejected"}

\* A job has one client, which turns to one master; a thread has an id from
\* the moment its request is taken.
OneMaster ==
  \A j \in Jobs :
    /\ pThread[j].pc = "idle" \/ bThread[j].pc = "idle"
    /\ pThread[j].pc \in Unserved <=> pThread[j].sid = 0
    /\ bThread[j].pc \in Unserved => bThread[j].sid = 0
    /\ bThread[j].pc \notin Unserved \cup {"gone"} => bThread[j].sid # 0

Taken == {j \in Jobs : TakenAs(j) # 0}

Refused(j) == pThread[j].pc = "rejected" \/ bThread[j].pc = "rejected"

\* The requests an id was spent on: taken, or thrown out by the parser.
Spent == Taken \cup {j \in Jobs : Refused(j)}

\* No counter is further than the requests seen, whichever master saw them.
NumbersAreCounted ==
  LET top == 1000 + Cardinality(Spent)
  IN  /\ {pNextSid, bNextSid} \subseteq 1001..(top + 1)
      /\ \A j \in Taken : TakenAs(j) \in 1001..top

ReceiptsAreCounted ==
  LET n == Cardinality(Spent)
  IN  /\ pNextReceipt \in (1..(Cardinality(Jobs) + 1 + n)) \cup (2001..(2001 + n))
      /\ \A j \in Jobs : pThread[j].sid # 0 => pThread[j].receipt \in Receipts

\* The row is of a job the primary took and has passed on.
Copied(row) ==
  LET t == pThread[row.job]
  IN  /\ t.pc \notin Unserved \cup {"inserting", "replicatingInsert"}
      /\ t.sid = row.sid
      /\ t.receipt = row.receipt
      /\ \E k \in DOMAIN pLog : /\ pLog[k].sid = row.sid
                                /\ pLog[k].job = row.job
                                /\ pLog[k].receipt = row.receipt

\* A row is of the request it was made for; a job has one in either log.
RowsAreTaken ==
  /\ \A i \in DOMAIN pLog :
       LET t == pThread[pLog[i].job]
       IN  /\ t.pc \notin Unserved \cup {"inserting"}
           /\ t.sid = pLog[i].sid
           /\ t.receipt = pLog[i].receipt
  /\ \A i \in DOMAIN bLog :
       \/ bThread[bLog[i].job].sid # 0 /\ bThread[bLog[i].job].sid = bLog[i].sid
       \/ Copied(bLog[i])
  /\ \A i, k \in DOMAIN bLog : bLog[i].job = bLog[k].job => i = k

\* The text is what a run for submission id sid came to.
Output(response, sid) ==
  \E r \in Runs : /\ run[r].sid = sid
                  /\ run[r].kind \in RunKinds
                  /\ response = N!ResponseOf(r)

OwnOutput(response, caller) ==
  \E r \in Runs : /\ run[r].caller = caller
                  /\ run[r].kind \in RunKinds
                  /\ response = N!ResponseOf(r)

\* An update tells the outcome of the row's own request, or a RESULT.
Outcome(m) ==
  \/ /\ m.delivery \in {"DIRECT", "PENDING"}
     /\ m.forwarding = "FORWARDED"
     /\ Output(m.response, m.sid)
  \/ /\ m.delivery = "DIRECT"
     /\ m.forwarding = "FAILED"
     /\ m.response = Fatal

\* Of what the primary sends, an insert is a row the backup has not got.
MessagesAreTrue ==
  /\ \A m \in replication \cup pUdp :
       IF m.action = "insert"
       THEN /\ m.row = NewRow(m.row.sid, m.row.receipt, m.row.job)
            /\ Copied(m.row)
            /\ \A i \in DOMAIN bLog : bLog[i].job # m.row.job
       ELSE Outcome(m)
  /\ \A m \in results : Output(m.response, m.sid)

Settled == {"logging", "replicatingOutcome", "replying", "done"}

\* What a thread holds is the text of a run of its own; it has one by the time
\* it logs an outcome.
ThreadsHoldOwn ==
  \A j \in Jobs :
    /\ pThread[j].pc \in Settled => pThread[j].response # Pending
    /\ bThread[j].pc \in Settled => bThread[j].response # Pending
    /\ pThread[j].response \in {Pending, Fatal} \/ OwnOutput(pThread[j].response, <<"primary", j>>)
    /\ bThread[j].response \in {Pending, Fatal} \/ OwnOutput(bThread[j].response, <<"backup", j>>)

\* A run is of a request that was taken, and has a text when it has ended.
RunsAreTaken ==
  \A r \in Runs :
    IF run[r].pc = "unused" THEN run[r] = N!Unused
    ELSE /\ run[r].caller \in Callers
         /\ run[r].job \in Taken
         /\ run[r].sid = TakenAs(run[r].job)
         /\ run[r].caller # <<"recovery">> => run[r].caller[2] = run[r].job
         /\ run[r].connection = "answered" \/ run[r].pc \in {"answering", "publishing", "done"}
              => run[r].kind \in RunKinds
         /\ run[r].pc = "executing" => run[r].kind = "PENDING"

PcOf(caller) == IF caller[1] = "primary" THEN pThread[caller[2]].pc ELSE bThread[caller[2]].pc

\* The threads that serve requests.
RequestCallers == {"primary", "backup"} \X Jobs

Early == {"idle", "probing", "inserting", "replicatingInsert", "scheduling", "calling"}

\* The runs whose text a caller has been told, or may yet be.
Heard(caller) == {r \in Runs : /\ run[r].caller = caller
                               /\ run[r].pc # "lost"
                               /\ run[r].connection # "broken"}

\* A thread calls one node at a time, and calls another only when the one before
\* was lost or the connection to it broke.
Apart(caller) ==
  /\ OpenRuns(caller) # {} => PcOf(caller) = "calling"
  /\ \A r, q \in OpenRuns(caller) : r = q
  /\ PcOf(caller) \in Early =>
       \A r \in Runs : run[r].caller = caller /\ run[r].connection = "closed" => run[r].pc = "lost"
  /\ \A r, q \in Heard(caller) : r = q

CallsAreApart == \A caller \in RequestCallers : Apart(caller)

Joined ==
  /\ bConfigured = TRUE
  /\ N!TypeOK
  /\ OneMaster
  /\ NumbersAreCounted
  /\ ReceiptsAreCounted
  /\ RowsAreTaken
  /\ MessagesAreTrue
  /\ ThreadsHoldOwn
  /\ RunsAreTaken
  /\ CallsAreApart

IInv == PP!IInv /\ BP!IInv /\ Joined

-----------------------------------------------------------------------------
(***************************************************************************)
(* The instances.  What is proved of a master alone is about a module of   *)
(* its own, which says the same in its own copies of the definitions.      *)
(***************************************************************************)

\* There are finitely many jobs, so their number is a natural one.
LEMMA JobsAreCounted == Cardinality(Jobs) \in Nat
BY ClusterAssumption, FS_CardinalityType

\* What the masters' modules assume of their parameters.
LEMMA PrimaryParameters ==
  /\ NoNode \notin Nodes
  /\ MaxRetries \in Nat \ {0}
  /\ MaxRestarts \in Nat
  /\ Sids \subseteq Nat
  /\ FALSE \in BOOLEAN
BY JobsAreCounted, ClusterAssumption DEF Sids

\* The instance of Backup meets the assumptions of Backup.
LEMMA BackupParameters ==
  /\ NoNode \notin Nodes
  /\ MaxRetries \in Nat \ {0}
  /\ FailureThreshold \in Nat \ {0}
  /\ {TRUE} \subseteq BOOLEAN
  /\ MaxBackupRestarts \in Nat
  /\ Sids \subseteq Nat \ {0}
  /\ Receipts \subseteq Nat
  /\ Nat \subseteq Nat
BY JobsAreCounted, ClusterAssumption DEF Sids, Receipts

\* The primary's module, and its copy in PrimaryProofs, have one type
\* invariant.
LEMMA PrimaryTypes == PP!TypeOK <=> P!TypeOK
BY DEF PP!TypeOK, P!TypeOK, PP!Row, P!Row, PP!Thread, P!Thread, PP!Pcs, P!Pcs,
       PP!UpdateMessage, P!UpdateMessage, PP!InsertMessage, P!InsertMessage, PP!Replication, P!Replication,
       PP!Responses, P!Responses, PP!Kinds, P!Kinds, PP!Forwardings, P!Forwardings,
       PP!Deliveries, P!Deliveries

\* The same for the backup.
LEMMA BackupTypes == BP!TypeOK <=> B!TypeOK
BY DEF BP!TypeOK, B!TypeOK, BP!Row, B!Row, BP!Request, B!Request, BP!RequestPcs, B!RequestPcs,
       BP!Recovery, B!Recovery, BP!Responses, B!Responses, BP!Kinds, B!Kinds,
       BP!Forwardings, B!Forwardings, BP!Deliveries, B!Deliveries

\* The two copies of the primary's module start alike.
LEMMA PrimaryInit == P!Init = PP!Init
BY DEF P!Init, PP!Init, P!InitWith, PP!InitWith, P!NextSubmission, PP!NextSubmission,
       P!NextReceipt, PP!NextReceipt, P!IdleThread, PP!IdleThread, P!Pending, PP!Pending,
       P!SidsOf, PP!SidsOf

\* The same for the backup.
LEMMA BackupInit == B!Init = BP!Init
BY DEF B!Init, BP!Init, B!InitWith, BP!InitWith, B!NextSubmission, BP!NextSubmission,
       B!NextReceipt, BP!NextReceipt, B!IdleRequest, BP!IdleRequest, B!Pending, BP!Pending,
       B!SidsOf, BP!SidsOf, B!IdleRecovery, BP!IdleRecovery

\* A step of the primary's module is one of the copy its proofs are about.
LEMMA PrimaryNext == P!Next => PP!Next
<1>1. ASSUME NEW j \in Jobs, P!ClientStep(j) PROVE PP!ClientStep(j)
  BY <1>1 DEF P!ClientStep, PP!ClientStep, P!Accept, PP!Accept, P!Reject, PP!Reject,
    P!Insert, PP!Insert, P!InsertFails, PP!InsertFails, P!LogFails, PP!LogFails,
    P!ReplicateInsert, PP!ReplicateInsert, P!Reserve, PP!Reserve,
    P!ReserveNone, PP!ReserveNone, P!ForwardReturns, PP!ForwardReturns,
    P!ForwardFails, PP!ForwardFails, P!LogOutcome, PP!LogOutcome,
    P!ReplicateOutcome, PP!ReplicateOutcome, P!Reply, PP!Reply, P!TakeIds, PP!TakeIds,
    P!Goto, PP!Goto, P!RowOf, PP!RowOf, P!NewRow, PP!NewRow, P!Pending, PP!Pending,
    P!Fatal, PP!Fatal, P!DbMutexFree, PP!DbMutexFree, P!InsertOf, PP!InsertOf,
    P!UpdateOf, PP!UpdateOf, P!OutcomeOf, PP!OutcomeOf, P!OutcomeUpdate, PP!OutcomeUpdate,
    P!Replicate, PP!Replicate, P!Retry, PP!Retry, P!Updated, PP!Updated, P!Computed, PP!Computed
<1>2. P!UdpStep => PP!UdpStep
  BY DEF P!UdpStep, PP!UdpStep, P!ResultArrives, PP!ResultArrives,
    P!ResultFails, PP!ResultFails, P!Updated, PP!Updated,
    P!UpdateOf, PP!UpdateOf, P!OneLine, PP!OneLine, P!DbMutexFree, PP!DbMutexFree,
    P!ReplicateResult, PP!ReplicateResult, P!Replicate, PP!Replicate, P!Heartbeat, PP!Heartbeat,
    P!SidsOf, PP!SidsOf, P!Computed, PP!Computed
<1>3. ASSUME NEW n \in Nodes, P!Evict(n) PROVE PP!Evict(n)
  BY <1>3 DEF P!Evict, PP!Evict
<1>4. P!Crash => PP!Crash
  BY DEF P!Crash, PP!Crash, P!Live, PP!Live
<1>5. P!Restart => PP!Restart
  BY DEF P!Restart, PP!Restart, P!NextSubmission, PP!NextSubmission, P!Max, PP!Max,
    P!SidsOf, PP!SidsOf, P!NextReceipt, PP!NextReceipt
<1>6. P!ReplicaTaken => PP!ReplicaTaken
  BY DEF P!ReplicaTaken, PP!ReplicaTaken
<1> QED
  BY <1>1, <1>2, <1>3, <1>4, <1>5, <1>6 DEF P!Next, PP!Next

\* The same for the backup.
LEMMA BackupNext == B!Next => BP!Next
<1>1. ASSUME NEW j \in Jobs, B!RequestStep(j) PROVE BP!RequestStep(j)
  BY <1>1 DEF B!RequestStep, BP!RequestStep, B!Unseen, BP!Unseen, B!Accept, BP!Accept,
    B!Reject, BP!Reject, B!StartProbe, BP!StartProbe, B!ProbeReturns, BP!ProbeReturns,
    B!ProbeRejects, BP!ProbeRejects, B!Insert, BP!Insert, B!Reserve, BP!Reserve,
    B!ReserveNone, BP!ReserveNone, B!ForwardReturns, BP!ForwardReturns,
    B!ForwardFails, BP!ForwardFails, B!LogOutcome, BP!LogOutcome, B!Reply, BP!Reply,
    B!Admit, BP!Admit, B!TakeIds, BP!TakeIds, B!Goto, BP!Goto, B!Store, BP!Store,
    B!NewRow, BP!NewRow, B!Pending, BP!Pending, B!Fatal, BP!Fatal, B!Retry, BP!Retry,
    B!Updated, BP!Updated, B!Computed, BP!Computed,
    B!roleVars, BP!roleVars, B!idVars, BP!idVars
<1>2. B!RecoveryStep => BP!RecoveryStep
  BY DEF B!RecoveryStep, BP!RecoveryStep, B!StartScan, BP!StartScan, B!EndScan, BP!EndScan,
    B!ReplayReserve, BP!ReplayReserve, B!ReplayReserveNone, BP!ReplayReserveNone,
    B!ReplayReturns, BP!ReplayReturns, B!ReplayFails, BP!ReplayFails, B!ReplayRetry, BP!ReplayRetry,
    B!Deliver, BP!Deliver, B!Record, BP!Record, B!PendingRows, BP!PendingRows,
    B!Turn, BP!Turn, B!First, BP!First, B!Rest, BP!Rest, B!Restrict, BP!Restrict, B!Min, BP!Min,
    B!IdleRecovery, BP!IdleRecovery, B!Pending, BP!Pending, B!Updated, BP!Updated,
    B!Computed, BP!Computed, B!roleVars, BP!roleVars, B!idVars, BP!idVars
<1>3. B!ReplicaStep => BP!ReplicaStep
  BY DEF B!ReplicaStep, BP!ReplicaStep, B!InsertComes, BP!InsertComes, B!Unseen, BP!Unseen,
    B!OwnRows, BP!OwnRows, B!ReplicaArrives, BP!ReplicaArrives, B!ApplyInsert, BP!ApplyInsert,
    B!ApplyUpdate, BP!ApplyUpdate, B!UpdateComes, BP!UpdateComes, B!NewRow, BP!NewRow,
    B!Store, BP!Store, B!Updated, BP!Updated, B!SidsOf, BP!SidsOf, B!Computed, BP!Computed,
    B!Fatal, BP!Fatal, B!Pending, BP!Pending, B!roleVars, BP!roleVars, B!idVars, BP!idVars
<1>4. B!UdpStep => BP!UdpStep
  BY DEF B!UdpStep, BP!UdpStep, B!ResultArrives, BP!ResultArrives, B!Heartbeat, BP!Heartbeat,
    B!Store, BP!Store, B!Updated, BP!Updated, B!SidsOf, BP!SidsOf, B!Computed, BP!Computed,
    B!roleVars, BP!roleVars, B!idVars, BP!idVars
<1>5. ASSUME NEW n \in Nodes, B!Evict(n) PROVE BP!Evict(n)
  BY <1>5 DEF B!Evict, BP!Evict, B!roleVars, BP!roleVars, B!idVars, BP!idVars
<1>6. ASSUME NEW reachable \in BOOLEAN, B!HealthCheck(reachable) PROVE BP!HealthCheck(reachable)
  BY <1>6 DEF B!HealthCheck, BP!HealthCheck, B!idVars, BP!idVars
<1>7. B!NoPrimary => BP!NoPrimary
  BY DEF B!NoPrimary, BP!NoPrimary, B!idVars, BP!idVars
<1>8. B!Crash => BP!Crash
  BY DEF B!Crash, BP!Crash, B!Live, BP!Live, B!IdleRecovery, BP!IdleRecovery,
    B!Pending, BP!Pending, B!idVars, BP!idVars
<1>9. B!Restart => BP!Restart
  BY DEF B!Restart, BP!Restart, B!NextSubmission, BP!NextSubmission, B!Max, BP!Max,
    B!SidsOf, BP!SidsOf, B!NextReceipt, BP!NextReceipt
<1> QED
  BY <1>1, <1>2, <1>3, <1>4, <1>5, <1>6, <1>7, <1>8, <1>9 DEF B!Next, BP!Next

\* One vocabulary for the tables of both masters, and for the messages.
LEMMA Vocabulary ==
  /\ P!Row = Row /\ B!Row = Row
  /\ P!Responses = Responses /\ B!Responses = Responses
  /\ P!Computed = Computed /\ B!Computed = Computed /\ N!Computed = Computed
  /\ P!Pending = Pending /\ B!Pending = Pending
  /\ P!Fatal = Fatal /\ B!Fatal = Fatal
  /\ P!Forwardings = Forwardings /\ P!Deliveries = Deliveries
BY DEF P!Row, B!Row, Row, P!Responses, B!Responses, Responses, P!Kinds, B!Kinds, Kinds,
       P!Computed, B!Computed, N!Computed, Computed, P!Pending, B!Pending, Pending,
       P!Fatal, B!Fatal, Fatal, P!Forwardings, B!Forwardings, Forwardings,
       P!Deliveries, B!Deliveries, Deliveries

\* One SQL statement, by whichever module's name it is called.
LEMMA Statements ==
  /\ \A sid, receipt, job : /\ P!NewRow(sid, receipt, job) = NewRow(sid, receipt, job)
                            /\ B!NewRow(sid, receipt, job) = NewRow(sid, receipt, job)
  /\ \A log, sid, forwarding, response, delivery :
       /\ P!Updated(log, sid, forwarding, response, delivery)
            = Updated(log, sid, forwarding, response, delivery)
       /\ B!Updated(log, sid, forwarding, response, delivery)
            = Updated(log, sid, forwarding, response, delivery)
  /\ \A log : /\ P!NextSubmission(log) = NextSubmission(log)
              /\ B!NextSubmission(log) = NextSubmission(log)
              /\ P!NextReceipt(log) = NextReceipt(log)
              /\ P!SidsOf(log) = SidsOf(log)
              /\ B!SidsOf(log) = SidsOf(log)
<1>1. \A sid, receipt, job : /\ P!NewRow(sid, receipt, job) = NewRow(sid, receipt, job)
                             /\ B!NewRow(sid, receipt, job) = NewRow(sid, receipt, job)
  BY DEF P!NewRow, B!NewRow, NewRow, P!Pending, B!Pending, Pending
<1>2. \A log, sid, forwarding, response, delivery :
       /\ P!Updated(log, sid, forwarding, response, delivery)
            = Updated(log, sid, forwarding, response, delivery)
       /\ B!Updated(log, sid, forwarding, response, delivery)
            = Updated(log, sid, forwarding, response, delivery)
  BY DEF P!Updated, B!Updated, Updated
<1>3. \A log : /\ P!NextSubmission(log) = NextSubmission(log)
               /\ B!NextSubmission(log) = NextSubmission(log)
               /\ P!NextReceipt(log) = NextReceipt(log)
               /\ P!SidsOf(log) = SidsOf(log)
               /\ B!SidsOf(log) = SidsOf(log)
  BY DEF P!NextSubmission, B!NextSubmission, NextSubmission, P!Max, B!Max, Max,
         P!SidsOf, B!SidsOf, SidsOf, P!NextReceipt, NextReceipt
<1> QED
  BY <1>1, <1>2, <1>3

\* The invariant has the types in it.
LEMMA Typed == IInv => TypeOK
<1> SUFFICES ASSUME IInv PROVE TypeOK
  OBVIOUS
<1>1. P!TypeOK
  BY PrimaryTypes DEF IInv, PP!IInv
<1>2. B!TypeOK
  BY BP!TypesOfInvariant, BackupParameters, RunsAssumption, BackupTypes DEF IInv
<1> QED
  BY <1>1, <1>2 DEF TypeOK, IInv, Joined

-----------------------------------------------------------------------------
(***************************************************************************)
(* What a step does to the threads, the logs, the messages and the runs    *)
(***************************************************************************)

\* What a thread learns: nothing that settles it, the failure of its last
\* attempt, or the text of a run of its own.
Learned(t, u, caller) ==
  \/ u.response = t.response /\ (u.pc \in Settled => t.pc \in Settled)
  \/ u.response = Fatal
  \/ OwnOutput(u.response, caller)

PrimaryThreadMoves(j) ==
  \/ pThread'[j] = pThread[j]
  \/ /\ pThread[j].pc \notin Unserved
     /\ pThread'[j].pc \notin Unserved \cup {"inserting"}
     /\ pThread'[j].pc = "replicatingInsert" => pThread[j].pc = "inserting"
     /\ pThread'[j].sid = pThread[j].sid
     /\ pThread'[j].receipt = pThread[j].receipt
     /\ Learned(pThread[j], pThread'[j], <<"primary", j>>)

BackupThreadMoves(j) ==
  \/ bThread'[j] = bThread[j]
  \/ /\ bThread'[j].sid = bThread[j].sid
     /\ \/ /\ bThread[j].pc \in {"idle", "probing"}
           /\ pThread[j].pc = "idle"
           /\ bThread'[j].pc \in {"probing", "standby", "gone"}
           /\ bThread'[j].response = bThread[j].response
        \/ /\ bThread[j].pc \notin Unserved \cup {"gone"}
           /\ bThread'[j].pc \notin Unserved \cup {"inserting"}
           /\ Learned(bThread[j], bThread'[j], <<"backup", j>>)

\* A request is taken, by the primary, by the backup.
PrimaryTakes(j) ==
  /\ pThread[j].pc = "idle"
  /\ bThread[j].pc = "idle"
  /\ pThread'[j].pc = "inserting"
  /\ pThread'[j].sid = pNextSid
  /\ pThread'[j].receipt = pNextReceipt
  /\ pThread'[j].response = pThread[j].response
  /\ \A k \in Jobs \ {j} : pThread'[k] = pThread[k]
  /\ pNextSid' = pNextSid + 1
  /\ pNextReceipt' = pNextReceipt + 1
  /\ UNCHANGED <<pLog, pUdp, replication, bVars, nVars>>

BackupTakes(j) ==
  /\ pThread[j].pc = "idle"
  /\ bThread[j].pc \in {"idle", "probing"}
  /\ bThread'[j].pc = "inserting"
  /\ bThread'[j].sid = bNextSid
  /\ bThread'[j].response = bThread[j].response
  /\ \A k \in Jobs \ {j} : bThread'[k] = bThread[k]
  /\ bNextSid' = bNextSid + 1
  /\ UNCHANGED <<pVars, bConfigured, bLog, rThread, callbacks, nVars>>

\* A request does not parse: an id is spent, and no thread has it.
PrimaryRefuses(j) ==
  /\ pThread[j].pc = "idle"
  /\ bThread[j].pc = "idle"
  /\ pThread'[j].pc = "rejected"
  /\ pThread'[j].sid = pThread[j].sid
  /\ pThread'[j].receipt = pThread[j].receipt
  /\ pThread'[j].response = pThread[j].response
  /\ \A k \in Jobs \ {j} : pThread'[k] = pThread[k]
  /\ pNextSid' = pNextSid + 1
  /\ pNextReceipt' = pNextReceipt + 1
  /\ UNCHANGED <<pLog, pUdp, replication, bVars, nVars>>

BackupRefuses(j) ==
  /\ pThread[j].pc = "idle"
  /\ bThread[j].pc \in {"idle", "probing"}
  /\ bThread'[j].pc = "rejected"
  /\ bThread'[j].sid = bThread[j].sid
  /\ bThread'[j].response = bThread[j].response
  /\ \A k \in Jobs \ {j} : bThread'[k] = bThread[k]
  /\ bNextSid' = bNextSid + 1
  /\ UNCHANGED <<pVars, bConfigured, bLog, rThread, callbacks, nVars>>

\* No id is taken; a counter stays, or is computed by a process that starts.
IdsStay ==
  /\ \A j \in Jobs : PrimaryThreadMoves(j) /\ BackupThreadMoves(j)
  /\ pNextSid' \in {pNextSid, NextSubmission(pLog)}
  /\ pNextReceipt' \in {pNextReceipt, NextReceipt(pLog)}
  /\ bNextSid' \in {bNextSid, NextSubmission(bLog)}

RequestsMove ==
  \/ \E j \in Jobs : PrimaryTakes(j) \/ BackupTakes(j)
  \/ \E j \in Jobs : PrimaryRefuses(j) \/ BackupRefuses(j)
  \/ IdsStay

UpdatedBy(log, m) == Updated(log, m.sid, m.forwarding, m.response, m.delivery)

PrimaryLogMoves ==
  \/ pLog' = pLog
  \/ \E j \in Jobs : /\ pThread[j].pc = "inserting"
                     /\ pThread'[j].pc = "replicatingInsert"
                     /\ pLog' = Append(pLog, NewRow(pThread[j].sid, pThread[j].receipt, j))
  \/ \E m \in P!UpdateMessage : Outcome(m) /\ pLog' = UpdatedBy(pLog, m)

Recorded == B!First(rThread.queue)

BackupLogMoves ==
  \/ bLog' = bLog
  \/ \E j \in Jobs : /\ bThread[j].pc = "inserting"
                     /\ bThread'[j].pc = "scheduling"
                     /\ bLog' = Append(bLog, NewRow(bThread[j].sid, bThread[j].receipt, j))
                     /\ UNCHANGED <<rThread, callbacks>>
  \/ \E m \in replication : /\ m.action = "insert"
                            /\ bLog' = Append(bLog, m.row)
                            /\ replication' = replication \ {m}
                            /\ UNCHANGED <<rThread, callbacks>>
  \/ \E m \in P!UpdateMessage : /\ Outcome(m)
                                /\ bLog' = UpdatedBy(bLog, m)
                                /\ UNCHANGED <<rThread, callbacks>>
  \/ B!Record

ReplicationMoves ==
  /\ \A m \in replication' \ replication :
       \/ \E j \in Jobs : /\ pThread[j].pc = "replicatingInsert"
                          /\ pThread'[j].pc = "scheduling"
                          /\ m = P!InsertOf(NewRow(pThread[j].sid, pThread[j].receipt, j))
                          /\ UNCHANGED bLog
       \/ m \in P!UpdateMessage /\ Outcome(m)
  /\ \A m \in pUdp' \ pUdp : m \in P!UpdateMessage /\ Outcome(m)

ResultsMove ==
  \A m \in results' \ results :
    \E r \in Runs : /\ run[r].pc = "publishing"
                    /\ m.sid = run[r].sid
                    /\ m.response = N!ResponseOf(r)

\* Who may start run r, for which job, and under which id.
Calls(caller, sid, job) ==
  \/ /\ caller = <<"primary", job>>
     /\ job \in Jobs
     /\ pThread[job].pc = "calling"
     /\ sid = pThread[job].sid
  \/ /\ caller = <<"backup", job>>
     /\ job \in Jobs
     /\ bThread[job].pc = "calling"
     /\ sid = bThread[job].sid
  \/ /\ caller = <<"recovery">>
     /\ rThread.pc = "calling"
     /\ \E i \in DOMAIN bLog : sid = bLog[i].sid /\ job = bLog[i].job

RunMoves(r) ==
  \/ run'[r] = run[r]
  \/ /\ run[r].pc = "unused"
     /\ \E caller \in Callers, n \in Nodes, sid \in Nat, job \in Jobs :
          /\ Calls(caller, sid, job)
          /\ run'[r] = [pc |-> "executing", node |-> n, sid |-> sid, job |-> job,
                        caller |-> caller, kind |-> "PENDING", connection |-> "open"]
  \/ /\ run[r].pc # "unused"
     /\ run'[r].pc # "unused"
     /\ run'[r].sid = run[r].sid
     /\ run'[r].job = run[r].job
     /\ run'[r].caller = run[r].caller
     /\ \/ /\ run[r].pc = "executing"
           /\ run'[r].pc = "answering"
           /\ run'[r].kind \in RunKinds
           /\ run'[r].connection = run[r].connection
        \/ /\ run'[r].kind = run[r].kind
           /\ run'[r].pc = "executing" => run[r].pc = "executing"
           /\ run'[r].pc \in {"answering", "publishing", "done"}
                => run[r].pc \in {"answering", "publishing", "done"}
           /\ run'[r].connection = "answered"
                => run[r].connection = "answered" \/ run[r].pc = "answering"

RunsMove == \A r \in Runs : RunMoves(r)

Moves ==
  /\ RequestsMove
  /\ PrimaryLogMoves
  /\ BackupLogMoves
  /\ ReplicationMoves
  /\ ResultsMove
  /\ RunsMove
  /\ bConfigured' = bConfigured

-----------------------------------------------------------------------------
(***************************************************************************)
(* Every step of the cluster makes such moves                              *)
(***************************************************************************)

\* The steps of a request's thread once it is taken.
PrimaryWorks(j) ==
  \/ P!Insert(j)
  \/ \E sent \in BOOLEAN : P!ReplicateInsert(j, sent)
  \/ \E n \in Nodes : P!Reserve(j, n)
  \/ P!ReserveNone(j)
  \/ P!ForwardFails(j)
  \/ \E response : OwnOutput(response, <<"primary", j>>) /\ P!ForwardReturns(j, response)
  \/ P!LogOutcome(j)
  \/ \E sent \in BOOLEAN : P!ReplicateOutcome(j, sent)
  \/ P!Reply(j)

BackupWorks(j) ==
  \/ B!Insert(j)
  \/ \E n \in Nodes : B!Reserve(j, n)
  \/ B!ReserveNone(j)
  \/ B!ForwardFails(j)
  \/ \E response : OwnOutput(response, <<"backup", j>>) /\ B!ForwardReturns(j, response)
  \/ B!LogOutcome(j)
  \/ B!Reply(j)
  \/ pThread[j].pc = "idle" /\ B!StartProbe(j)
  \/ B!ProbeReturns(j, TRUE)

\* A step of a request thread of the primary moves that thread alone,
\* forwards.
LEMMA PrimaryThreadAdvances ==
  ASSUME IInv, NEW j \in Jobs, PrimaryWorks(j)
  PROVE  \A k \in Jobs : PrimaryThreadMoves(k)
<1>1. pThread \in [Jobs -> P!Thread]
  BY Typed DEF TypeOK, P!TypeOK
<1>2. \A k \in Jobs \ {j} : pThread'[k] = pThread[k]
  BY <1>1 DEF PrimaryWorks, P!Insert, P!ReplicateInsert, P!Reserve, P!ReserveNone,
    P!ForwardFails, P!ForwardReturns, P!LogOutcome, P!ReplicateOutcome, P!Reply, P!Goto, P!Retry
<1> SUFFICES PrimaryThreadMoves(j)
  BY <1>2 DEF PrimaryThreadMoves
<1> USE DEF PrimaryThreadMoves, Learned, Settled, Unserved, P!Thread
<1>3. CASE P!Insert(j) \/ \E sent \in BOOLEAN : P!ReplicateInsert(j, sent)
  BY <1>1, <1>3 DEF P!Insert, P!ReplicateInsert, P!Goto
<1>4. CASE \E n \in Nodes : P!Reserve(j, n)
  <2>1. PICK n \in Nodes : P!Reserve(j, n)
    BY <1>4
  <2>2. pThread'[j] = [pThread[j] EXCEPT !.pc = "calling", !.target = n]
    BY <1>1, <2>1 DEF P!Reserve
  <2> QED
    BY <1>1, <2>1, <2>2 DEF P!Reserve
<1>5. CASE P!ReserveNone(j) \/ P!ForwardFails(j)
  BY <1>1, <1>5, Vocabulary DEF P!ReserveNone, P!ForwardFails, P!Retry
<1>6. CASE \E response : OwnOutput(response, <<"primary", j>>) /\ P!ForwardReturns(j, response)
  <2>1. PICK response : OwnOutput(response, <<"primary", j>>) /\ P!ForwardReturns(j, response)
    BY <1>6
  <2>2. pThread'[j] = [pThread[j] EXCEPT !.pc = "logging", !.target = NoNode, !.response = response]
    BY <1>1, <2>1 DEF P!ForwardReturns
  <2> QED
    BY <1>1, <2>1, <2>2 DEF P!ForwardReturns
<1>7. CASE P!LogOutcome(j) \/ \E sent \in BOOLEAN : P!ReplicateOutcome(j, sent)
  BY <1>1, <1>7 DEF P!LogOutcome, P!ReplicateOutcome, P!Goto
<1>8. CASE P!Reply(j)
  BY <1>1, <1>8 DEF P!Reply, P!Goto
<1> QED
  BY <1>3, <1>4, <1>5, <1>6, <1>7, <1>8 DEF PrimaryWorks

\* The same for a request thread of the backup.
LEMMA BackupThreadAdvances ==
  ASSUME IInv, NEW j \in Jobs, BackupWorks(j)
  PROVE  \A k \in Jobs : BackupThreadMoves(k)
<1>1. bThread \in [Jobs -> B!Request]
  BY Typed DEF TypeOK, B!TypeOK
<1>2. \A k \in Jobs \ {j} : bThread'[k] = bThread[k]
  BY <1>1 DEF BackupWorks, B!Insert, B!Reserve, B!ReserveNone, B!ForwardFails, B!ForwardReturns,
    B!LogOutcome, B!Reply, B!StartProbe, B!ProbeReturns, B!Goto, B!Retry
<1> SUFFICES BackupThreadMoves(j)
  BY <1>2 DEF BackupThreadMoves
<1> USE DEF BackupThreadMoves, Learned, Settled, Unserved, B!Request
<1>3. CASE B!Insert(j)
  BY <1>1, <1>3 DEF B!Insert, B!Goto
<1>4. CASE \E n \in Nodes : B!Reserve(j, n)
  <2>1. PICK n \in Nodes : B!Reserve(j, n)
    BY <1>4
  <2>2. bThread'[j] = [bThread[j] EXCEPT !.pc = "calling", !.target = n]
    BY <1>1, <2>1 DEF B!Reserve
  <2> QED
    BY <1>1, <2>1, <2>2 DEF B!Reserve
<1>5. CASE B!ReserveNone(j) \/ B!ForwardFails(j)
  BY <1>1, <1>5, Vocabulary DEF B!ReserveNone, B!ForwardFails, B!Retry
<1>6. CASE \E response : OwnOutput(response, <<"backup", j>>) /\ B!ForwardReturns(j, response)
  <2>1. PICK response : OwnOutput(response, <<"backup", j>>) /\ B!ForwardReturns(j, response)
    BY <1>6
  <2>2. bThread'[j] = [bThread[j] EXCEPT !.pc = "logging", !.target = NoNode, !.response = response]
    BY <1>1, <2>1 DEF B!ForwardReturns
  <2> QED
    BY <1>1, <2>1, <2>2 DEF B!ForwardReturns
<1>7. CASE B!LogOutcome(j) \/ B!Reply(j)
  BY <1>1, <1>7 DEF B!LogOutcome, B!Reply, B!Goto
<1>8. CASE \/ pThread[j].pc = "idle" /\ B!StartProbe(j)
           \/ B!ProbeReturns(j, TRUE)
  <2>1. pThread[j].pc = "idle"
    BY <1>8 DEF B!ProbeReturns, IInv, Joined, OneMaster
  <2> QED
    BY <1>1, <1>8, <2>1 DEF B!StartProbe, B!ProbeReturns, B!Goto
<1> QED
  BY <1>3, <1>4, <1>5, <1>6, <1>7, <1>8 DEF BackupWorks

\* A process that dies leaves its threads as they are, or gone.
LEMMA ThreadsDie ==
  ASSUME IInv
  PROVE  /\ P!Crash => \A j \in Jobs : PrimaryThreadMoves(j)
         /\ B!Crash => \A j \in Jobs : BackupThreadMoves(j)
<1>1. pThread \in [Jobs -> P!Thread] /\ bThread \in [Jobs -> B!Request]
  BY Typed DEF TypeOK, P!TypeOK, B!TypeOK
<1>2. ASSUME P!Crash, NEW j \in Jobs PROVE PrimaryThreadMoves(j)
  BY <1>1, <1>2 DEF P!Crash, P!Live, PrimaryThreadMoves, Learned, Settled, Unserved, P!Thread, P!Pcs
<1>3. ASSUME B!Crash, NEW j \in Jobs PROVE BackupThreadMoves(j)
  <2>1. bThread[j].pc = "probing" => pThread[j].pc = "idle"
    BY DEF IInv, Joined, OneMaster
  <2> QED
    BY <1>1, <1>3, <2>1 DEF B!Crash, B!Live, BackupThreadMoves, Learned, Settled, Unserved, B!Request
<1> QED
  BY <1>2, <1>3

\* A run's text is a response of the right kind.
LEMMA OutputIsComputed ==
  ASSUME NEW response, NEW r \in Runs, run[r].kind \in RunKinds, response = N!ResponseOf(r)
  PROVE  /\ response \in Computed
         /\ response \in Responses
         /\ response # Pending
         /\ response # Fatal
         /\ response.kind # "FATAL"
<1>1. response \in Computed
  BY DEF N!ResponseOf, Computed
<1>2. response.kind \in {"OUTPUT", "ERROR"}
  BY RunsAssumption DEF N!ResponseOf
<1> QED
  BY <1>1, <1>2, ComputedIsOutcome DEF Fatal

\* A request thread has runs for its own job only, under its own id.
LEMMA OwnOutputIsOutput ==
  ASSUME IInv, NEW j \in Jobs, NEW response
  PROVE  /\ pThread[j].pc \notin Unserved /\ OwnOutput(response, <<"primary", j>>)
              => Output(response, pThread[j].sid)
         /\ bThread[j].pc \notin Unserved \cup {"gone"} /\ OwnOutput(response, <<"backup", j>>)
              => Output(response, bThread[j].sid)
<1> USE DEF Joined, IInv
<1>1. ASSUME NEW m \in {"primary", "backup"}, NEW r \in Runs, run[r].caller = <<m, j>>
      PROVE  run[r].sid = TakenAs(j)
  <2>1. <<m, j>> \in Callers /\ <<m, j>> # <<"recovery">> /\ <<m, j>>[2] = j
    BY DEF Callers
  <2>2. run[r].pc # "unused"
    BY <1>1, <2>1, ClusterAssumption DEF RunsAreTaken, N!Unused
  <2> QED
    BY <1>1, <2>1, <2>2 DEF RunsAreTaken
<1>2. pThread[j].pc \notin Unserved => TakenAs(j) = pThread[j].sid
  BY DEF OneMaster, TakenAs, Unserved
<1>3. bThread[j].pc \notin Unserved \cup {"gone"} => TakenAs(j) = bThread[j].sid
  BY DEF OneMaster, TakenAs, Unserved
<1> QED
  BY <1>1, <1>2, <1>3 DEF OwnOutput, Output

\* The UPDATE for an outcome is a message the primary may send.
LEMMA UpdatesAreTyped ==
  ASSUME NEW sid \in Nat, NEW response, Output(response, sid) \/ response = Fatal
  PROVE  \A f \in {"FORWARDED", "FAILED"}, d \in {"DIRECT", "PENDING"} :
            /\ P!UpdateOf(sid, f, response, d) \in P!UpdateMessage
            /\ P!UpdateOf(sid, f, response, d).action = "update"
            /\ P!UpdateOf(sid, f, response, d).sid = sid
            /\ P!UpdateOf(sid, f, response, d).forwarding = f
            /\ P!UpdateOf(sid, f, response, d).response = response
            /\ P!UpdateOf(sid, f, response, d).delivery = d
<1>1. response \in P!Responses
  BY OutputIsComputed, Vocabulary DEF Output, Fatal, Responses, Kinds
<1> QED
  BY <1>1 DEF P!UpdateOf, P!UpdateMessage, P!Forwardings, P!Deliveries

\* What the primary logs and replicates for a request is the outcome of its
\* own run.
LEMMA PrimaryOutcome ==
  ASSUME IInv, NEW j \in Jobs, pThread[j].pc \in {"logging", "replicatingOutcome"}
  PROVE  /\ P!OutcomeUpdate(j) \in P!UpdateMessage
         /\ Outcome(P!OutcomeUpdate(j))
         /\ P!OutcomeUpdate(j).sid = pThread[j].sid
         /\ P!OutcomeUpdate(j).forwarding = P!OutcomeOf(pThread[j])
         /\ P!OutcomeUpdate(j).response = pThread[j].response
         /\ P!OutcomeUpdate(j).delivery = "DIRECT"
<1>1. pThread[j].sid \in Nat
  BY Typed DEF TypeOK, P!TypeOK, P!Thread
<1>2. pThread[j].response = Fatal \/ OwnOutput(pThread[j].response, <<"primary", j>>)
  BY DEF IInv, Joined, ThreadsHoldOwn, Settled
<1>3. CASE pThread[j].response = Fatal
  <2>1. P!OutcomeOf(pThread[j]) = "FAILED"
    BY <1>3 DEF P!OutcomeOf, Fatal
  <2> QED
    BY <1>1, <1>3, <2>1, UpdatesAreTyped DEF P!OutcomeUpdate, Outcome
<1>4. CASE OwnOutput(pThread[j].response, <<"primary", j>>)
  <2>1. Output(pThread[j].response, pThread[j].sid)
    BY <1>4, OwnOutputIsOutput DEF Unserved
  <2>2. pThread[j].response.kind # "FATAL"
    BY <2>1, OutputIsComputed DEF Output
  <2>3. P!OutcomeOf(pThread[j]) = "FORWARDED"
    BY <2>2 DEF P!OutcomeOf
  <2> QED
    BY <1>1, <2>1, <2>3, UpdatesAreTyped DEF P!OutcomeUpdate, Outcome
<1> QED
  BY <1>2, <1>3, <1>4

\* What the backup logs for a request of its own is an update of the same
\* form.
LEMMA BackupOutcome ==
  ASSUME IInv, NEW j \in Jobs, bThread[j].pc = "logging"
  PROVE  \E m \in P!UpdateMessage :
           /\ Outcome(m)
           /\ m.sid = bThread[j].sid
           /\ m.forwarding = IF bThread[j].response = Fatal THEN "FAILED" ELSE "FORWARDED"
           /\ m.response = bThread[j].response
           /\ m.delivery = "DIRECT"
<1>1. bThread[j].sid \in Nat
  BY Typed DEF TypeOK, B!TypeOK, B!Request
<1>2. bThread[j].response = Fatal \/ OwnOutput(bThread[j].response, <<"backup", j>>)
  BY DEF IInv, Joined, ThreadsHoldOwn, Settled
<1>3. CASE bThread[j].response = Fatal
  <2> DEFINE m == P!UpdateOf(bThread[j].sid, "FAILED", Fatal, "DIRECT")
  <2>1. /\ m \in P!UpdateMessage
        /\ m.sid = bThread[j].sid
        /\ m.forwarding = "FAILED"
        /\ m.response = Fatal
        /\ m.delivery = "DIRECT"
    BY <1>1, UpdatesAreTyped
  <2> HIDE DEF m
  <2> QED
    BY <1>3, <2>1 DEF Outcome
<1>4. CASE OwnOutput(bThread[j].response, <<"backup", j>>)
  <2> DEFINE m == P!UpdateOf(bThread[j].sid, "FORWARDED", bThread[j].response, "DIRECT")
  <2>1. Output(bThread[j].response, bThread[j].sid)
    BY <1>4, OwnOutputIsOutput DEF Unserved
  <2>2. bThread[j].response # Fatal
    BY <2>1, OutputIsComputed DEF Output
  <2>3. /\ m \in P!UpdateMessage
        /\ m.sid = bThread[j].sid
        /\ m.forwarding = "FORWARDED"
        /\ m.response = bThread[j].response
        /\ m.delivery = "DIRECT"
    BY <1>1, <2>1, UpdatesAreTyped
  <2> HIDE DEF m
  <2> QED
    BY <2>1, <2>2, <2>3 DEF Outcome
<1> QED
  BY <1>2, <1>3, <1>4

\* A RESULT that arrives is the update of a finished run.
LEMMA ResultOutcome ==
  ASSUME IInv, NEW n \in results
  PROVE  LET m == P!UpdateOf(n.sid, "FORWARDED", n.response, "PENDING")
         IN  /\ m \in P!UpdateMessage
             /\ Outcome(m)
             /\ m.sid = n.sid
             /\ m.forwarding = "FORWARDED"
             /\ m.response = n.response
             /\ m.delivery = "PENDING"
<1>1. Output(n.response, n.sid)
  BY DEF IInv, Joined, MessagesAreTrue
<1>2. n.sid \in Nat
  BY DEF IInv, Joined, N!TypeOK, N!Result
<1> QED
  BY <1>1, <1>2, UpdatesAreTyped DEF Outcome

\* What stands still makes such a move.
LEMMA StandingStill ==
  /\ UNCHANGED <<pThread, pNextSid, pNextReceipt, bThread, bNextSid>> => RequestsMove
  /\ UNCHANGED pLog => PrimaryLogMoves
  /\ UNCHANGED bLog => BackupLogMoves
  /\ replication' \subseteq replication /\ pUdp' \subseteq pUdp => ReplicationMoves
  /\ results' \subseteq results => ResultsMove
  /\ UNCHANGED run => RunsMove
<1>1. UNCHANGED <<pThread, pNextSid, pNextReceipt, bThread, bNextSid>> => RequestsMove
  BY DEF RequestsMove, IdsStay, PrimaryThreadMoves, BackupThreadMoves
<1>2. UNCHANGED run => RunsMove
  BY DEF RunsMove, RunMoves
<1> QED
  BY <1>1, <1>2 DEF PrimaryLogMoves, BackupLogMoves, ReplicationMoves, ResultsMove

\* The next lemmas show, action by action, that a step is one of the moves.
\* Submit: the primary takes the job, or cannot parse it.
LEMMA SubmitMoves ==
  ASSUME IInv, NEW j \in Jobs, Submit(j)
  PROVE  Moves
<1>1. pThread \in [Jobs -> P!Thread]
  BY Typed DEF TypeOK, P!TypeOK
<1>2. CASE P!Accept(j)
  <2>1. PrimaryTakes(j)
    BY <1>1, <1>2 DEF Submit, P!Accept, P!TakeIds, PrimaryTakes, P!Thread
  <2> QED
    BY <2>1, StandingStill DEF Moves, RequestsMove, PrimaryTakes, bVars, nVars
<1>3. CASE P!Reject(j)
  <2>1. PrimaryRefuses(j)
    BY <1>1, <1>3 DEF Submit, P!Reject, P!TakeIds, P!Goto, PrimaryRefuses, P!Thread
  <2> QED
    BY <2>1, StandingStill DEF Moves, RequestsMove, PrimaryRefuses, bVars, nVars
<1> QED
  BY <1>2, <1>3 DEF Submit

\* FallBack: the backup takes the job, or cannot parse it, or asks after the
\* primary first.
LEMMA FallBackMoves ==
  ASSUME IInv, NEW j \in Jobs, FallBack(j)
  PROVE  Moves
<1>1. bThread \in [Jobs -> B!Request]
  BY Typed DEF TypeOK, B!TypeOK
<1>2. CASE B!Accept(j)
  <2>1. BackupTakes(j)
    BY <1>1, <1>2 DEF FallBack, B!Accept, B!Admit, B!TakeIds, BackupTakes, B!Request, B!roleVars
  <2> QED
    BY <2>1, StandingStill DEF Moves, RequestsMove, BackupTakes, pVars, nVars
<1>3. CASE B!StartProbe(j)
  <2>1. BackupWorks(j)
    BY <1>3 DEF FallBack, BackupWorks
  <2>2. /\ UNCHANGED <<pVars, nVars>>
        /\ UNCHANGED <<bConfigured, bLog, bNextSid>>
    BY <1>3 DEF FallBack, B!StartProbe, B!roleVars, B!idVars
  <2>3. RequestsMove
    BY <2>1, <2>2, BackupThreadAdvances DEF RequestsMove, IdsStay, PrimaryThreadMoves, pVars
  <2> QED
    BY <2>2, <2>3, StandingStill DEF Moves, pVars, nVars
<1>4. CASE B!Reject(j)
  <2>1. BackupRefuses(j)
    BY <1>1, <1>4 DEF FallBack, B!Reject, B!TakeIds, B!Goto, BackupRefuses, B!Request, B!roleVars
  <2> QED
    BY <2>1, StandingStill DEF Moves, RequestsMove, BackupRefuses, pVars, nVars
<1> QED
  BY <1>2, <1>3, <1>4 DEF FallBack

\* The step of a request's thread at the primary: the log has its row, then
\* its outcome, and the backup is told of either after it.
LEMMA PrimaryWorksMoves ==
  ASSUME IInv, NEW j \in Jobs, PrimaryWorks(j), UNCHANGED bVars
  PROVE  RequestsMove /\ PrimaryLogMoves /\ BackupLogMoves /\ ReplicationMoves
<1>1. pThread \in [Jobs -> P!Thread]
  BY Typed DEF TypeOK, P!TypeOK
<1>2. UNCHANGED <<pNextSid, pNextReceipt, pUdp>>
  BY DEF PrimaryWorks, P!Insert, P!ReplicateInsert, P!Reserve, P!ReserveNone, P!ForwardFails,
    P!ForwardReturns, P!LogOutcome, P!ReplicateOutcome, P!Reply
<1>3. RequestsMove
  BY <1>2, PrimaryThreadAdvances DEF RequestsMove, IdsStay, BackupThreadMoves, bVars
<1>4. PrimaryLogMoves
  <2>1. CASE P!Insert(j)
    <3>1. pLog' = Append(pLog, NewRow(pThread[j].sid, pThread[j].receipt, j))
      BY <2>1, Statements DEF P!Insert, P!RowOf
    <3>2. pThread[j].pc = "inserting" /\ pThread'[j].pc = "replicatingInsert"
      BY <1>1, <2>1 DEF P!Insert, P!Goto, P!Thread
    <3> QED
      BY <3>1, <3>2 DEF PrimaryLogMoves
  <2>2. CASE P!LogOutcome(j)
    <3>1. pThread[j].pc \in {"logging", "replicatingOutcome"}
      BY <2>2 DEF P!LogOutcome
    <3>2. pLog' = UpdatedBy(pLog, P!OutcomeUpdate(j))
      BY <2>2, <3>1, PrimaryOutcome, Statements DEF P!LogOutcome, UpdatedBy
    <3> QED
      BY <3>1, <3>2, PrimaryOutcome DEF PrimaryLogMoves
  <2>3. CASE ~P!Insert(j) /\ ~P!LogOutcome(j)
    <3>1. pLog' = pLog
      BY <2>3 DEF PrimaryWorks, P!ReplicateInsert, P!Reserve, P!ReserveNone, P!ForwardFails,
        P!ForwardReturns, P!ReplicateOutcome, P!Reply
    <3> QED
      BY <3>1 DEF PrimaryLogMoves
  <2> QED
    BY <2>1, <2>2, <2>3
<1>5. ReplicationMoves
  <2>1. CASE \E sent \in BOOLEAN : P!ReplicateInsert(j, sent)
    <3>1. PICK sent \in BOOLEAN : P!ReplicateInsert(j, sent)
      BY <2>1
    <3>2. \A m \in replication' \ replication :
            m = P!InsertOf(NewRow(pThread[j].sid, pThread[j].receipt, j))
      BY <3>1, Statements DEF P!ReplicateInsert, P!Replicate, P!RowOf
    <3>3. pThread[j].pc = "replicatingInsert" /\ pThread'[j].pc = "scheduling"
      BY <1>1, <3>1 DEF P!ReplicateInsert, P!Goto, P!Thread
    <3> QED
      BY <1>2, <3>2, <3>3 DEF ReplicationMoves, bVars
  <2>2. CASE \E sent \in BOOLEAN : P!ReplicateOutcome(j, sent)
    <3>1. /\ pThread[j].pc \in {"logging", "replicatingOutcome"}
          /\ \A m \in replication' \ replication : m = P!OutcomeUpdate(j)
      BY <2>2 DEF P!ReplicateOutcome, P!Replicate
    <3> QED
      BY <1>2, <3>1, PrimaryOutcome DEF ReplicationMoves
  <2>3. CASE /\ ~\E sent \in BOOLEAN : P!ReplicateInsert(j, sent)
             /\ ~\E sent \in BOOLEAN : P!ReplicateOutcome(j, sent)
    <3>1. replication' = replication
      BY <2>3 DEF PrimaryWorks, P!Insert, P!Reserve, P!ReserveNone, P!ForwardFails,
        P!ForwardReturns, P!LogOutcome, P!Reply
    <3> QED
      BY <1>2, <3>1 DEF ReplicationMoves
  <2> QED
    BY <2>1, <2>2, <2>3
<1>6. BackupLogMoves
  BY DEF BackupLogMoves, bVars
<1> QED
  BY <1>3, <1>4, <1>5, <1>6

\* A request thread of the backup writes its own row and its own outcome.
LEMMA BackupWorksMoves ==
  ASSUME IInv, NEW j \in Jobs, BackupWorks(j), UNCHANGED pVars
  PROVE  RequestsMove /\ PrimaryLogMoves /\ BackupLogMoves /\ ReplicationMoves
         /\ bConfigured' = bConfigured
<1>1. bThread \in [Jobs -> B!Request]
  BY Typed DEF TypeOK, B!TypeOK
<1>2. UNCHANGED <<bNextSid, bConfigured, rThread, callbacks>>
  BY DEF BackupWorks, B!Insert, B!Reserve, B!ReserveNone, B!ForwardFails, B!ForwardReturns,
    B!LogOutcome, B!Reply, B!StartProbe, B!ProbeReturns, B!roleVars, B!idVars
<1>3. RequestsMove
  BY <1>2, BackupThreadAdvances DEF RequestsMove, IdsStay, PrimaryThreadMoves, pVars
<1>4. BackupLogMoves
  <2>1. CASE B!Insert(j)
    <3>1. \/ bLog' = bLog
          \/ bLog' = Append(bLog, NewRow(bThread[j].sid, bThread[j].receipt, j))
      BY <2>1, Statements DEF B!Insert, B!Store
    <3>2. bThread[j].pc = "inserting" /\ bThread'[j].pc = "scheduling"
      BY <1>1, <2>1 DEF B!Insert, B!Goto, B!Request
    <3> QED
      BY <1>2, <3>1, <3>2 DEF BackupLogMoves
  <2>2. CASE B!LogOutcome(j)
    <3>1. bThread[j].pc = "logging"
      BY <2>2 DEF B!LogOutcome
    <3>2. PICK m \in P!UpdateMessage :
            /\ Outcome(m)
            /\ m.sid = bThread[j].sid
            /\ m.forwarding = IF bThread[j].response = Fatal THEN "FAILED" ELSE "FORWARDED"
            /\ m.response = bThread[j].response
            /\ m.delivery = "DIRECT"
      BY <3>1, BackupOutcome
    <3>3. bLog' = bLog \/ bLog' = UpdatedBy(bLog, m)
      BY <2>2, <3>2, Statements, Vocabulary DEF B!LogOutcome, B!Store, UpdatedBy
    <3> QED
      BY <1>2, <3>2, <3>3 DEF BackupLogMoves
  <2>3. CASE ~B!Insert(j) /\ ~B!LogOutcome(j)
    <3>1. bLog' = bLog
      BY <2>3 DEF BackupWorks, B!Reserve, B!ReserveNone, B!ForwardFails, B!ForwardReturns,
        B!Reply, B!StartProbe, B!ProbeReturns
    <3> QED
      BY <3>1 DEF BackupLogMoves
  <2> QED
    BY <2>1, <2>2, <2>3
<1> QED
  BY <1>2, <1>3, <1>4, StandingStill DEF pVars

\* A connection that ends leaves its run what it was.
LEMMA HangupMoves ==
  ASSUME IInv, NEW rs, N!Hangup(rs)
  PROVE  RunsMove
<1>1. run \in [Runs -> N!Run]
  BY DEF IInv, Joined, N!TypeOK
<1> SUFFICES ASSUME NEW r \in Runs PROVE RunMoves(r)
  BY DEF RunsMove
<1>2. run'[r] = run[r] \/ run'[r] = [run[r] EXCEPT !.connection = "closed"]
  BY DEF N!Hangup
<1>3. run[r].pc = "unused" => [run[r] EXCEPT !.connection = "closed"] = run[r]
  BY DEF IInv, Joined, RunsAreTaken, N!Unused
<1> QED
  BY <1>1, <1>2, <1>3 DEF RunMoves, N!Run

\* So does one that breaks.
LEMMA BreakMoves ==
  ASSUME IInv, NEW caller, NEW q \in OpenRuns(caller), N!Break(q)
  PROVE  RunsMove
<1>1. run \in [Runs -> N!Run]
  BY DEF IInv, Joined, N!TypeOK
<1>2. q \in Runs /\ run[q].pc # "unused"
  BY DEF OpenRuns, IsOpen, IInv, Joined, RunsAreTaken, N!Unused
<1> SUFFICES ASSUME NEW r \in Runs PROVE RunMoves(r)
  BY DEF RunsMove
<1>3. run'[r] = run[r] \/ (r = q /\ run'[r] = [run[r] EXCEPT !.connection = "broken"])
  BY <1>1, <1>2 DEF N!Break
<1> QED
  BY <1>1, <1>2, <1>3 DEF RunMoves, N!Run

\* So does a call that fails.
LEMMA FailedMoves ==
  ASSUME IInv, NEW caller, NEW target, Failed(caller, target)
  PROVE  RunsMove
BY HangupMoves, BreakMoves, StandingStill DEF Failed

\* Connect: a run starts, for the job and under the id of its caller.
LEMMA ConnectMoves ==
  ASSUME IInv, NEW caller \in Callers, NEW target, NEW sid \in Nat, NEW job \in Jobs,
         Calls(caller, sid, job), Connect(caller, target, sid, job)
  PROVE  Moves
<1>1. PICK r \in Runs : N!Start(r, caller, target, sid, job)
  BY DEF Connect
<1>2. run \in [Runs -> N!Run] /\ target \in Nodes
  BY <1>1 DEF IInv, Joined, N!TypeOK, N!Start
<1>3. RunsMove
  BY <1>1, <1>2 DEF N!Start, N!NextRun, RunsMove, RunMoves
<1> QED
  BY <1>1, <1>3, StandingStill DEF Connect, Moves, N!Start, pVars, bVars

\* NodeStep: one run goes on.
LEMMA NodeStepMoves ==
  ASSUME IInv, NodeStep
  PROVE  Moves
<1>1. run \in [Runs -> N!Run]
  BY DEF IInv, Joined, N!TypeOK
<1>2. PICK r \in Runs : \/ \E kind \in RunKinds : N!Finish(r, kind)
                        \/ N!Answer(r)
                        \/ N!Publish(r)
  BY DEF NodeStep
<1>3. RunsMove
  <2>1. \A q \in Runs \ {r} : run'[q] = run[q]
    BY <1>1, <1>2 DEF N!Finish, N!Answer, N!Publish
  <2>2. RunMoves(r)
    BY <1>1, <1>2 DEF N!Finish, N!Answer, N!Publish, RunMoves, N!Run
  <2> QED
    BY <2>1, <2>2 DEF RunsMove, RunMoves
<1>4. ResultsMove
  BY <1>2 DEF N!Finish, N!Answer, N!Publish, ResultsMove
<1> QED
  BY <1>3, <1>4, StandingStill DEF NodeStep, Moves, pVars, bVars

\* A node that dies takes the runs it has not finished with it.
LEMMA NodeCrashMoves ==
  ASSUME IInv, NEW n \in Nodes, N!Crash(n)
  PROVE  RunsMove
<1>1. run \in [Runs -> N!Run]
  BY DEF IInv, Joined, N!TypeOK
<1> SUFFICES ASSUME NEW r \in Runs PROVE RunMoves(r)
  BY DEF RunsMove
<1>2. \/ run'[r] = run[r]
      \/ run'[r] = [run[r] EXCEPT !.pc = "lost"] /\ run[r].node = n
  BY DEF N!Crash
<1>3. run[r].pc = "unused" => run[r].node # n
  BY ClusterAssumption DEF IInv, Joined, RunsAreTaken, N!Unused
<1> QED
  BY <1>1, <1>2, <1>3 DEF RunMoves, N!Run


\* PrimaryStep.
LEMMA PrimaryStepMoves ==
  ASSUME IInv, NEW j \in Jobs, PrimaryStep(j)
  PROVE  Moves
<1>1. PrimaryWorks(j) /\ UNCHANGED <<bVars, nVars>>
  BY DEF PrimaryStep, PrimaryWorks
<1> QED
  BY <1>1, PrimaryWorksMoves, StandingStill DEF Moves, bVars, nVars

\* A node's text that has been read is a run's of the thread that reads it.
LEMMA AnswerIsOwn ==
  ASSUME IInv, NEW caller, NEW r \in Runs, Answered(caller, r)
  PROVE  OwnOutput(N!ResponseOf(r), caller) /\ RunsMove
<1>1. run[r].caller = caller /\ run[r].connection = "answered"
  BY DEF Answered, OpenRuns
<1>2. run[r].kind \in RunKinds
  BY <1>1 DEF IInv, Joined, RunsAreTaken, N!Unused
<1> QED
  BY <1>1, <1>2, HangupMoves DEF Answered, OwnOutput

\* PrimaryCalls: a run starts, or its text reaches the thread.
LEMMA PrimaryCallsMoves ==
  ASSUME IInv, NEW j \in Jobs, PrimaryCalls(j)
  PROVE  Moves
<1>1. CASE Connect(<<"primary", j>>, pThread[j].target, pThread[j].sid, j)
  <2>1. /\ <<"primary", j>> \in Callers
        /\ pThread[j].sid \in Nat
        /\ Calls(<<"primary", j>>, pThread[j].sid, j)
    BY Typed DEF Callers, TypeOK, P!TypeOK, P!Thread, Calls, PrimaryCalls
  <2> QED
    BY <1>1, <2>1, ConnectMoves
<1>2. ASSUME NEW r \in Runs, Answered(<<"primary", j>>, r),
             P!ForwardReturns(j, N!ResponseOf(r)), UNCHANGED bVars
      PROVE  Moves
  <2>1. OwnOutput(N!ResponseOf(r), <<"primary", j>>) /\ RunsMove
    BY <1>2, AnswerIsOwn
  <2>2. PrimaryWorks(j)
    BY <1>2, <2>1 DEF PrimaryWorks
  <2> QED
    BY <1>2, <2>1, <2>2, PrimaryWorksMoves, StandingStill DEF Moves, Answered, bVars
<1>3. CASE Failed(<<"primary", j>>, pThread[j].target) /\ P!ForwardFails(j) /\ UNCHANGED bVars
  <2>1. PrimaryWorks(j)
    BY <1>3 DEF PrimaryWorks
  <2>2. RunsMove
    BY <1>3, FailedMoves
  <2> QED
    BY <1>3, <2>1, <2>2, PrimaryWorksMoves, StandingStill DEF Moves, Failed, bVars
<1> QED
  BY <1>1, <1>2, <1>3 DEF PrimaryCalls

\* BackupStep; an id is taken when the probe finds the primary gone, and
\* spent if the request does not parse.
LEMMA BackupStepMoves ==
  ASSUME IInv, NEW j \in Jobs, BackupStep(j)
  PROVE  Moves
<1>1. CASE BackupWorks(j)
  BY <1>1, BackupWorksMoves, StandingStill DEF Moves, BackupStep, nVars
<1>2. CASE B!ProbeReturns(j, FALSE)
  <2>1. bThread \in [Jobs -> B!Request]
    BY Typed DEF TypeOK, B!TypeOK
  <2>2. bThread[j].pc = "probing" /\ pThread[j].pc = "idle"
    BY <1>2 DEF B!ProbeReturns, IInv, Joined, OneMaster
  <2>3. BackupTakes(j)
    BY <1>2, <2>1, <2>2 DEF BackupStep, B!ProbeReturns, B!Admit, B!TakeIds, BackupTakes, B!Request
  <2> QED
    BY <2>3, StandingStill DEF Moves, RequestsMove, BackupTakes, pVars, nVars
<1>3. CASE B!ProbeRejects(j)
  <2>1. bThread \in [Jobs -> B!Request]
    BY Typed DEF TypeOK, B!TypeOK
  <2>2. bThread[j].pc = "probing" /\ pThread[j].pc = "idle"
    BY <1>3 DEF B!ProbeRejects, IInv, Joined, OneMaster
  <2>3. BackupRefuses(j)
    BY <1>3, <2>1, <2>2 DEF BackupStep, B!ProbeRejects, B!TakeIds, B!Goto, BackupRefuses, B!Request
  <2> QED
    BY <2>3, StandingStill DEF Moves, RequestsMove, BackupRefuses, pVars, nVars
<1> QED
  BY <1>1, <1>2, <1>3 DEF BackupStep, BackupWorks

\* BackupCalls, like PrimaryCalls.
LEMMA BackupCallsMoves ==
  ASSUME IInv, NEW j \in Jobs, BackupCalls(j)
  PROVE  Moves
<1>1. CASE Connect(<<"backup", j>>, bThread[j].target, bThread[j].sid, j)
  <2>1. /\ <<"backup", j>> \in Callers
        /\ bThread[j].sid \in Nat
        /\ Calls(<<"backup", j>>, bThread[j].sid, j)
    BY Typed DEF Callers, TypeOK, B!TypeOK, B!Request, Calls, BackupCalls
  <2> QED
    BY <1>1, <2>1, ConnectMoves
<1>2. ASSUME NEW r \in Runs, Answered(<<"backup", j>>, r),
             B!ForwardReturns(j, N!ResponseOf(r)), UNCHANGED pVars
      PROVE  Moves
  <2>1. OwnOutput(N!ResponseOf(r), <<"backup", j>>) /\ RunsMove
    BY <1>2, AnswerIsOwn
  <2>2. BackupWorks(j)
    BY <1>2, <2>1 DEF BackupWorks
  <2> QED
    BY <1>2, <2>1, <2>2, BackupWorksMoves, StandingStill DEF Moves, Answered
<1>3. CASE Failed(<<"backup", j>>, bThread[j].target) /\ B!ForwardFails(j) /\ UNCHANGED pVars
  <2>1. BackupWorks(j)
    BY <1>3 DEF BackupWorks
  <2>2. RunsMove
    BY <1>3, FailedMoves
  <2> QED
    BY <1>3, <2>1, <2>2, BackupWorksMoves, StandingStill DEF Moves, Failed
<1> QED
  BY <1>1, <1>2, <1>3 DEF BackupCalls


\* The recovery thread: it writes to the log only when it records.
RecoveryWorks ==
  \/ B!StartScan
  \/ B!EndScan
  \/ \E n \in Nodes : B!ReplayReserve(n)
  \/ B!ReplayReserveNone
  \/ \E response \in Computed : B!ReplayReturns(response)
  \/ B!ReplayFails
  \/ \E ok \in BOOLEAN : B!Deliver(ok)
  \/ B!Record

\* The recovery thread writes to the log when it records, and then only.
LEMMA RecoveryWorksMoves ==
  ASSUME RecoveryWorks
  PROVE  BackupLogMoves /\ UNCHANGED <<bThread, bNextSid, bConfigured>>
<1>1. bLog' = bLog \/ B!Record
  BY DEF RecoveryWorks, B!StartScan, B!EndScan, B!ReplayReserve, B!ReplayReserveNone,
    B!ReplayReturns, B!ReplayFails, B!Deliver
<1>2. UNCHANGED <<bThread, bNextSid, bConfigured>>
  BY DEF RecoveryWorks, B!StartScan, B!EndScan, B!ReplayReserve, B!ReplayReserveNone,
    B!ReplayReturns, B!ReplayFails, B!Deliver, B!Record, B!roleVars, B!idVars
<1> QED
  BY <1>1, <1>2 DEF BackupLogMoves

\* RecoveryStep.
LEMMA RecoveryStepMoves ==
  ASSUME IInv, RecoveryStep
  PROVE  Moves
<1>1. RecoveryWorks
  BY DEF RecoveryStep, RecoveryWorks
<1> QED
  BY <1>1, RecoveryWorksMoves, StandingStill DEF RecoveryStep, Moves, pVars, nVars

\* The copy the recovery thread works on is of a row the log holds.
LEMMA RecoveryRow ==
  ASSUME IInv, rThread.pc \notin {"idle", "scanning"}
  PROVE  /\ Recorded \in Row
         /\ \E i \in DOMAIN bLog : bLog[i].sid = Recorded.sid /\ bLog[i].job = Recorded.job
<1>1. BP!IsQueue(rThread.queue) /\ DOMAIN rThread.queue # {}
  BY DEF IInv, BP!IInv, BP!PassIsSound, BP!IsRecovery
<1>2. BP!First(rThread.queue) = Recorded /\ BP!Row = Row
  BY DEF Recorded, BP!First, B!First, BP!Min, B!Min, BP!Row, Row, BP!Responses, Responses,
    BP!Kinds, Kinds, BP!Forwardings, Forwardings, BP!Deliveries, Deliveries
<1>3. BP!Min(DOMAIN rThread.queue) \in DOMAIN rThread.queue /\ Recorded \in Row
  BY <1>1, <1>2, BP!FirstIsInQueue, BackupParameters, RunsAssumption
<1>4. Recorded = rThread.queue[BP!Min(DOMAIN rThread.queue)]
  BY <1>2 DEF BP!First
<1>5. BP!QueueIsOfLog
  BY DEF IInv, BP!IInv, BP!PassIsSound
<1> QED
  BY <1>3, <1>4, <1>5 DEF BP!QueueIsOfLog

\* RecoveryCalls: a replay runs under the id of its row.
LEMMA RecoveryCallsMoves ==
  ASSUME IInv, RecoveryCalls
  PROVE  Moves
<1>1. CASE Connect(<<"recovery">>, rThread.target, Recorded.sid, Recorded.job)
  <2>1. /\ <<"recovery">> \in Callers
        /\ Recorded.sid \in Nat
        /\ Recorded.job \in Jobs
        /\ Calls(<<"recovery">>, Recorded.sid, Recorded.job)
    BY RecoveryRow DEF Callers, Calls, RecoveryCalls, Row
  <2> QED
    BY <1>1, <2>1, ConnectMoves
<1>2. ASSUME NEW r \in Runs, Answered(<<"recovery">>, r),
             B!ReplayReturns(N!ResponseOf(r)), UNCHANGED pVars
      PROVE  Moves
  <2>1. OwnOutput(N!ResponseOf(r), <<"recovery">>) /\ RunsMove
    BY <1>2, AnswerIsOwn
  <2>2. N!ResponseOf(r) \in Computed
    BY <2>1, OutputIsComputed DEF OwnOutput
  <2>3. RecoveryWorks
    BY <1>2, <2>2 DEF RecoveryWorks
  <2> QED
    BY <1>2, <2>1, <2>3, RecoveryWorksMoves, StandingStill DEF Moves, Answered, pVars
<1>3. CASE Failed(<<"recovery">>, rThread.target) /\ B!ReplayFails /\ UNCHANGED pVars
  <2>1. RecoveryWorks
    BY <1>3 DEF RecoveryWorks
  <2>2. RunsMove
    BY <1>3, FailedMoves
  <2> QED
    BY <1>3, <2>1, <2>2, RecoveryWorksMoves, StandingStill DEF Moves, Failed, pVars
<1> QED
  BY <1>1, <1>2, <1>3 DEF RecoveryCalls, Recorded

\* MonitorStep writes nothing the invariant speaks of.
LEMMA MonitorMoves ==
  ASSUME MonitorStep
  PROVE  Moves
BY StandingStill DEF MonitorStep, B!HealthCheck, B!idVars, Moves, pVars, nVars

\* ReplicaArrives: the primary's row, or the outcome of one of its runs.
LEMMA ReplicaMoves ==
  ASSUME IInv, NEW m \in replication, ReplicaArrives(m)
  PROVE  Moves
<1>1. m \in P!Replication /\ P!TypeOK
  BY Typed DEF TypeOK, P!TypeOK
<1>2. BackupLogMoves
  <2>1. CASE m.action = "insert"
    <3>1. bLog' = bLog \/ bLog' = Append(bLog, NewRow(m.row.sid, m.row.receipt, m.row.job))
      BY <2>1, Statements DEF ReplicaArrives, B!ReplicaArrives, B!ApplyInsert, B!Store
    <3>2. m.row = NewRow(m.row.sid, m.row.receipt, m.row.job)
      BY <2>1 DEF IInv, Joined, MessagesAreTrue
    <3> QED
      BY <2>1, <3>1, <3>2 DEF BackupLogMoves, ReplicaArrives, B!ReplicaArrives
  <2>2. CASE m.action # "insert"
    <3>1. m \in P!UpdateMessage /\ Outcome(m)
      BY <1>1, <2>2 DEF P!Replication, P!InsertMessage, IInv, Joined, MessagesAreTrue
    <3>2. bLog' = bLog \/ bLog' = UpdatedBy(bLog, m)
      BY <2>2, Statements DEF ReplicaArrives, B!ReplicaArrives, B!ApplyUpdate, B!Store, UpdatedBy
    <3> QED
      BY <3>1, <3>2 DEF BackupLogMoves, ReplicaArrives, B!ReplicaArrives
  <2> QED
    BY <2>1, <2>2
<1> QED
  BY <1>2, StandingStill DEF ReplicaArrives, B!ReplicaArrives, B!roleVars, B!idVars, Moves, nVars

\* TakeResult: either master stores the text of a finished run.
LEMMA TakeResultMoves ==
  ASSUME IInv, NEW n \in results, TakeResult(n)
  PROVE  Moves
<1> DEFINE m == P!UpdateOf(n.sid, "FORWARDED", n.response, "PENDING")
<1>1. /\ m \in P!UpdateMessage
      /\ Outcome(m)
      /\ m.sid = n.sid
      /\ m.forwarding = "FORWARDED"
      /\ m.response = n.response
      /\ m.delivery = "PENDING"
  BY ResultOutcome
<1>2. CASE n.to = "primary"
  <2>1. P!ResultArrives(n.sid, n.response) /\ UNCHANGED bVars
    BY <1>2 DEF TakeResult
  <2>2. \/ UNCHANGED <<pLog, pUdp>>
        \/ /\ pLog' = Updated(pLog, n.sid, "FORWARDED", n.response, "PENDING")
           /\ pUdp' = {m}
    BY <2>1, Statements DEF P!ResultArrives
  <2> HIDE DEF m
  <2>3. PrimaryLogMoves
    BY <1>1, <2>2 DEF PrimaryLogMoves, UpdatedBy
  <2>4. ReplicationMoves
    BY <1>1, <2>1, <2>2 DEF ReplicationMoves, P!ResultArrives
  <2> QED
    BY <2>1, <2>3, <2>4, StandingStill DEF TakeResult, P!ResultArrives, Moves, bVars
<1>3. CASE n.to # "primary"
  <2>1. B!ResultArrives(n.sid, n.response) /\ UNCHANGED pVars
    BY <1>3 DEF TakeResult
  <2>2. \/ bLog' = bLog
        \/ bLog' = Updated(bLog, n.sid, "FORWARDED", n.response, "PENDING")
    BY <2>1, Statements DEF B!ResultArrives, B!Store
  <2> HIDE DEF m
  <2>3. BackupLogMoves
    BY <1>1, <2>1, <2>2 DEF BackupLogMoves, UpdatedBy, B!ResultArrives
  <2> QED
    BY <2>1, <2>3, StandingStill DEF TakeResult, B!ResultArrives, B!roleVars, B!idVars, Moves, pVars
<1> QED
  BY <1>2, <1>3

\* ReplicateResult: a stored RESULT goes to the backup.
LEMMA ReplicateResultMoves ==
  ASSUME IInv, ReplicateResult
  PROVE  Moves
<1>1. pUdp \subseteq P!UpdateMessage
  BY Typed DEF TypeOK, P!TypeOK
<1>2. \A m \in pUdp : Outcome(m)
  BY <1>1 DEF IInv, Joined, MessagesAreTrue, P!UpdateMessage
<1>3. ReplicationMoves
  BY <1>1, <1>2 DEF ReplicateResult, P!ReplicateResult, P!Replicate, ReplicationMoves
<1> QED
  BY <1>3, StandingStill DEF ReplicateResult, P!ReplicateResult, Moves, bVars, nVars

\* Heartbeats and evictions write the pools only.
LEMMA PoolMoves ==
  ASSUME NEW n \in Nodes, Heartbeat(n) \/ Evict(n)
  PROVE  Moves
BY StandingStill DEF Heartbeat, P!Heartbeat, B!Heartbeat, Evict, P!Evict, B!Evict,
  B!roleVars, B!idVars, Moves, pVars, bVars, nVars

\* Crash: threads end, or runs are lost, or both.
LEMMA CrashMoves ==
  ASSUME IInv, Crash
  PROVE  Moves
<1>1. CASE PrimaryCrash
  <2>1. RunsMove /\ \A j \in Jobs : PrimaryThreadMoves(j)
    BY <1>1, HangupMoves, ThreadsDie DEF PrimaryCrash
  <2>2. RequestsMove
    BY <1>1, <2>1 DEF PrimaryCrash, P!Crash, RequestsMove, IdsStay, BackupThreadMoves, bVars
  <2> QED
    BY <1>1, <2>1, <2>2, StandingStill DEF PrimaryCrash, P!Crash, Moves, bVars
<1>2. CASE BackupCrash
  <2>1. RunsMove /\ \A j \in Jobs : BackupThreadMoves(j)
    BY <1>2, HangupMoves, ThreadsDie DEF BackupCrash
  <2>2. RequestsMove
    BY <1>2, <2>1 DEF BackupCrash, B!Crash, RequestsMove, IdsStay, PrimaryThreadMoves, B!idVars
  <2> QED
    BY <1>2, <2>1, <2>2, StandingStill DEF BackupCrash, B!Crash, Moves
<1>3. CASE (\E n \in Nodes : N!Crash(n)) /\ UNCHANGED <<pVars, bVars, faults>>
  <2>1. RunsMove /\ results' = results
    BY <1>3, NodeCrashMoves DEF N!Crash
  <2> QED
    BY <1>3, <2>1, StandingStill DEF Moves, pVars, bVars
<1> QED
  BY <1>1, <1>2, <1>3 DEF Crash

\* Restart: a counter is computed anew from the log, or a node comes back.
LEMMA RestartMoves ==
  ASSUME Restart
  PROVE  Moves
<1>1. CASE P!Restart /\ UNCHANGED <<bVars, nVars, faults>>
  <2>1. RequestsMove
    BY <1>1, Statements DEF P!Restart, RequestsMove, IdsStay, PrimaryThreadMoves,
      BackupThreadMoves, bVars
  <2> QED
    BY <1>1, <2>1, StandingStill DEF P!Restart, Moves, bVars, nVars
<1>2. CASE B!Restart /\ UNCHANGED <<pVars, nVars, faults>>
  <2>1. RequestsMove
    BY <1>2, Statements DEF B!Restart, RequestsMove, IdsStay, PrimaryThreadMoves,
      BackupThreadMoves, pVars
  <2> QED
    BY <1>2, <2>1, StandingStill DEF B!Restart, Moves, pVars, nVars
<1>3. CASE (\E n \in Nodes : N!Restart(n)) /\ UNCHANGED <<pVars, bVars, faults>>
  BY <1>3, StandingStill DEF N!Restart, Moves, pVars, bVars
<1> QED
  BY <1>1, <1>2, <1>3 DEF Restart

\* Every step of the cluster is one of the moves.
LEMMA StepMoves ==
  ASSUME IInv, [Next]_vars
  PROVE  Moves
<1>1. CASE UNCHANGED vars
  BY <1>1, StandingStill DEF Moves, vars, pVars, bVars, nVars
<1>2. CASE Next
  BY <1>2, SubmitMoves, FallBackMoves, PrimaryStepMoves, PrimaryCallsMoves, BackupStepMoves,
    BackupCallsMoves, RecoveryStepMoves, RecoveryCallsMoves, MonitorMoves, ReplicaMoves,
    TakeResultMoves, ReplicateResultMoves, PoolMoves, NodeStepMoves, CrashMoves, RestartMoves
    DEF Next
<1> QED
  BY <1>1, <1>2


-----------------------------------------------------------------------------
(***************************************************************************)
(* Every step of the cluster is one that each master's own specification   *)
(* allows, or leaves that master alone                                     *)
(***************************************************************************)

LEMMA SpentAreFinite ==
  /\ IsFiniteSet(Spent)
  /\ Cardinality(Spent) \in Nat
  /\ Cardinality(Spent) <= Cardinality(Jobs)
<1>1. Spent \subseteq Jobs /\ IsFiniteSet(Jobs)
  BY ClusterAssumption DEF Spent, Taken
<1> QED
  BY <1>1, FS_Subset, FS_CardinalityType

\* A job a master took has one of the ids.
LEMMA TakenIsNumbered ==
  ASSUME IInv, NEW j \in Taken
  PROVE  TakenAs(j) \in Sids
<1>1. TakenAs(j) \in 1001..(1000 + Cardinality(Spent))
  BY DEF IInv, Joined, NumbersAreCounted
<1> QED
  BY <1>1, SpentAreFinite, JobsAreCounted DEF Sids

\* So has the run a text comes from.
LEMMA OutputIsNumbered ==
  ASSUME IInv, NEW response, NEW sid, Output(response, sid)
  PROVE  response \in Computed /\ sid \in Sids
<1>1. PICK r \in Runs : /\ run[r].sid = sid
                        /\ run[r].kind \in RunKinds
                        /\ response = N!ResponseOf(r)
  BY DEF Output
<1>2. run[r].pc # "unused"
  BY <1>1, RunsAssumption DEF IInv, Joined, RunsAreTaken, N!Unused
<1>3. run[r].job \in Taken /\ run[r].sid = TakenAs(run[r].job)
  BY <1>2 DEF IInv, Joined, RunsAreTaken
<1> QED
  BY <1>1, <1>3, TakenIsNumbered, OutputIsComputed

\* What a thread is answered is a response the masters' modules know.
LEMMA AnswerIsComputed ==
  ASSUME IInv, NEW caller, NEW r \in Runs, Answered(caller, r)
  PROVE  N!ResponseOf(r) \in Computed
BY AnswerIsOwn, OutputIsComputed DEF OwnOutput

\* A step of the cluster is a step of the primary's own specification, or
\* none of it.
LEMMA PrimaryStepsAlone ==
  ASSUME IInv, [Next]_vars
  PROVE  [P!Next]_pVars
<1>1. CASE UNCHANGED vars
  BY <1>1 DEF vars
<1>2. ASSUME NEW j \in Jobs, Submit(j) \/ FallBack(j) \/ PrimaryStep(j)
                               \/ BackupStep(j) \/ BackupCalls(j)
      PROVE  P!Next \/ UNCHANGED pVars
  <2>1. BackupCalls(j) => UNCHANGED pVars
    BY DEF BackupCalls, Connect
  <2>2. Submit(j) \/ PrimaryStep(j) => P!ClientStep(j)
    BY DEF Submit, PrimaryStep, P!ClientStep
  <2> QED
    BY <1>2, <2>1, <2>2 DEF FallBack, BackupStep, P!Next
<1>3. ASSUME NEW j \in Jobs, PrimaryCalls(j)
      PROVE  P!Next \/ UNCHANGED pVars
  <2>1. ASSUME NEW r \in Runs, Answered(<<"primary", j>>, r), P!ForwardReturns(j, N!ResponseOf(r))
        PROVE  P!ClientStep(j)
    BY <2>1, AnswerIsComputed, Vocabulary DEF P!ClientStep
  <2>2. P!ForwardFails(j) => P!ClientStep(j)
    BY DEF P!ClientStep
  <2> QED
    BY <1>3, <2>1, <2>2 DEF PrimaryCalls, Connect, P!Next
<1>4. CASE RecoveryStep \/ RecoveryCalls \/ MonitorStep \/ NodeStep
  BY <1>4 DEF RecoveryStep, RecoveryCalls, Connect, MonitorStep, NodeStep
<1>5. ASSUME NEW m \in replication, ReplicaArrives(m)
      PROVE  P!Next
  BY <1>5 DEF ReplicaArrives, P!ReplicaTaken, P!Next
<1>6. ASSUME NEW m \in results, TakeResult(m)
      PROVE  P!Next \/ UNCHANGED pVars
  <2>1. m.response \in P!Computed /\ m.sid \in Sids
    BY OutputIsNumbered, Vocabulary DEF IInv, Joined, MessagesAreTrue
  <2> QED
    BY <1>6, <2>1 DEF TakeResult, P!UdpStep, P!Next
<1>7. CASE ReplicateResult
  BY <1>7 DEF ReplicateResult, P!UdpStep, P!Next
<1>8. ASSUME NEW n \in Nodes, Heartbeat(n) \/ Evict(n)
      PROVE  P!Next \/ UNCHANGED pVars
  BY <1>8 DEF Heartbeat, Evict, P!UdpStep, P!Next
<1>9. CASE Crash \/ Restart
  <2>1. BackupCrash => P!ReplicaTaken
    BY DEF BackupCrash, P!ReplicaTaken
  <2> QED
    BY <1>9, <2>1 DEF Crash, PrimaryCrash, Restart, P!Next
<1> QED
  BY <1>1, <1>2, <1>3, <1>4, <1>5, <1>6, <1>7, <1>8, <1>9 DEF Next

\* The backup knows a job only by its own request or a row of the primary.
LEMMA UnseenUntilTaken ==
  ASSUME IInv, NEW j \in Jobs, pThread[j].pc = "idle", bThread[j].pc \in {"idle", "probing"}
  PROVE  \A i \in DOMAIN bLog : bLog[i].job # j
BY DEF IInv, Joined, OneMaster, RowsAreTaken, Copied, Unserved

\* The receipts of a primary's rows, and their ids, are among those the
\* backup's own specification takes from a primary.
LEMMA CopiedIsNumbered ==
  ASSUME IInv, NEW row, row.job \in Jobs, Copied(row)
  PROVE  row.sid \in Sids /\ row.receipt \in Receipts /\ bThread[row.job].pc = "idle"
<1>1. /\ pThread[row.job].pc \notin Unserved
      /\ pThread[row.job].sid = row.sid
      /\ pThread[row.job].receipt = row.receipt
  BY DEF Copied
<1>2. pThread[row.job].sid # 0 /\ bThread[row.job].pc = "idle"
  BY <1>1 DEF IInv, Joined, OneMaster, Unserved
<1>3. row.job \in Taken /\ TakenAs(row.job) = row.sid
  BY <1>1, <1>2 DEF Taken, TakenAs
<1> QED
  BY <1>1, <1>2, <1>3, TakenIsNumbered DEF IInv, Joined, ReceiptsAreCounted

\* A row of the primary the backup has not got is new to it, id and all.
LEMMA InsertIsNew ==
  ASSUME IInv, NEW m \in replication, m.action = "insert"
  PROVE  /\ m.row.job \in Jobs
         /\ B!Unseen(m.row.job)
         /\ \A i \in DOMAIN bLog \ B!OwnRows : bLog[i].sid # m.row.sid
<1>1. m.row \in Row
  BY Typed, Vocabulary DEF TypeOK, P!TypeOK, P!Replication, P!InsertMessage, P!UpdateMessage
<1>2. /\ Copied(m.row)
      /\ \A i \in DOMAIN bLog : bLog[i].job # m.row.job
  BY DEF IInv, Joined, MessagesAreTrue
<1>3. m.row.job \in Jobs
  BY <1>1 DEF Row
<1>4. bThread[m.row.job].pc = "idle"
  BY <1>2, <1>3, CopiedIsNumbered
<1>5. ASSUME NEW i \in DOMAIN bLog \ B!OwnRows, bLog[i].sid = m.row.sid PROVE FALSE
  <2>1. Copied(bLog[i])
    BY <1>5 DEF B!OwnRows, IInv, Joined, RowsAreTaken
  <2>2. PICK k \in DOMAIN pLog : pLog[k].sid = bLog[i].sid /\ pLog[k].job = bLog[i].job
    BY <2>1 DEF Copied
  <2>3. PICK l \in DOMAIN pLog : pLog[l].sid = m.row.sid /\ pLog[l].job = m.row.job
    BY <1>2 DEF Copied
  <2>4. k = l
    BY <1>5, <2>2, <2>3 DEF IInv, PP!IInv, PP!SubmissionsUnique
  <2> QED
    BY <1>2, <2>2, <2>3, <2>4
<1> QED
  BY <1>2, <1>3, <1>4, <1>5 DEF B!Unseen

\* An UPDATE of an id the log has not got changes nothing.
LEMMA UpdateOfUnknown ==
  ASSUME IInv, NEW sid, sid \notin SidsOf(bLog)
  PROVE  \A f, r, d : B!Updated(bLog, sid, f, r, d) = bLog
<1>1. bLog \in Seq(B!Row)
  BY Typed DEF TypeOK, B!TypeOK
<1>2. \A i \in DOMAIN bLog : bLog[i].sid # sid
  BY DEF SidsOf
<1>3. bLog = [i \in DOMAIN bLog |-> bLog[i]]
  BY <1>1
<1>4. \A f, r, d : B!Updated(bLog, sid, f, r, d) = [i \in DOMAIN bLog |-> bLog[i]]
  BY <1>2 DEF B!Updated
<1> QED
  BY <1>3, <1>4

\* A replicate request is one the backup's own specification takes from a
\* primary.
LEMMA ReplicaStepsAlone ==
  ASSUME IInv, NEW m \in replication, ReplicaArrives(m)
  PROVE  B!Next \/ UNCHANGED bVars
<1>1. m \in P!Replication /\ bConfigured = TRUE
  BY Typed DEF TypeOK, P!TypeOK, IInv, Joined
<1>2. B!ReplicaArrives(m)
  BY DEF ReplicaArrives
<1>3. CASE m.action = "insert"
  <2>1. /\ m.row = NewRow(m.row.sid, m.row.receipt, m.row.job)
        /\ Copied(m.row)
    BY <1>3 DEF IInv, Joined, MessagesAreTrue
  <2>2. m.row.sid \in Sids /\ m.row.receipt \in Receipts /\ m.row.job \in Jobs
    BY <1>3, <2>1, InsertIsNew, CopiedIsNumbered
  <2>3. B!ReplicaArrives([action |-> "insert",
                          row |-> B!NewRow(m.row.sid, m.row.receipt, m.row.job)])
    BY <1>2, <1>3, <2>1, Statements DEF B!ReplicaArrives
  <2>4. B!InsertComes(m.row.job, m.row.sid, m.row.receipt)
    BY <1>3, <2>3, InsertIsNew DEF B!InsertComes
  <2> QED
    BY <1>1, <2>2, <2>4 DEF B!ReplicaStep, B!Next
<1>4. CASE m.action # "insert"
  <2>1. m \in P!UpdateMessage /\ Outcome(m)
    BY <1>1, <1>4 DEF P!Replication, P!InsertMessage, IInv, Joined, MessagesAreTrue
  <2>2. m.action = "update"
    BY <2>1 DEF P!UpdateMessage
  <2>3. CASE m.sid \notin SidsOf(bLog)
    <3>1. bLog' = bLog
      BY <1>2, <1>4, <2>3, UpdateOfUnknown DEF B!ReplicaArrives, B!ApplyUpdate, B!Store
    <3> QED
      BY <1>2, <3>1 DEF B!ReplicaArrives, B!roleVars, B!idVars, bVars
  <2>4. CASE m.sid \in SidsOf(bLog) /\ m.delivery = "DIRECT"
    <3>1. m.response \in Computed \cup {Fatal}
          /\ m.forwarding = IF m.response = Fatal THEN "FAILED" ELSE "FORWARDED"
      BY <2>1, <2>4, OutputIsComputed DEF Outcome, Output
    <3>2. B!UpdateComes(m.sid, m.response)
      BY <1>2, <2>2, <2>4, <3>1, Vocabulary DEF B!UpdateComes, B!ReplicaArrives, B!ApplyUpdate
    <3> QED
      BY <1>1, <2>4, <3>1, <3>2, Statements, Vocabulary DEF B!ReplicaStep, B!Next
  <2>5. CASE m.sid \in SidsOf(bLog) /\ m.delivery # "DIRECT"
    <3>1. m.forwarding = "FORWARDED" /\ m.delivery = "PENDING" /\ m.response \in Computed
      BY <2>1, <2>5, OutputIsComputed DEF Outcome, Output
    <3>2. B!ResultArrives(m.sid, m.response)
      BY <1>2, <1>4, <3>1 DEF B!ResultArrives, B!ReplicaArrives, B!ApplyUpdate
    <3> QED
      BY <2>5, <3>1, <3>2, Statements, Vocabulary DEF B!UdpStep, B!Next
  <2> QED
    BY <2>3, <2>4, <2>5
<1> QED
  BY <1>3, <1>4

\* A step of the cluster is a step of the backup's own specification, or
\* none of it.
LEMMA BackupStepsAlone ==
  ASSUME IInv, [Next]_vars
  PROVE  [B!Next]_bVars
<1>1. CASE UNCHANGED vars
  BY <1>1 DEF vars
<1>2. ASSUME NEW j \in Jobs, FallBack(j)
      PROVE  B!Next
  <2>1. bThread[j].pc = "idle"
    BY <1>2 DEF FallBack, B!Accept, B!Reject, B!StartProbe
  <2>2. B!Unseen(j)
    BY <1>2, <2>1, UnseenUntilTaken DEF FallBack, B!Unseen
  <2> QED
    BY <1>2, <2>2 DEF FallBack, B!RequestStep, B!Next
<1>3. ASSUME NEW j \in Jobs, Submit(j) \/ PrimaryStep(j) \/ PrimaryCalls(j)
      PROVE  UNCHANGED bVars
  BY <1>3 DEF Submit, PrimaryStep, PrimaryCalls, Connect
<1>4. ASSUME NEW j \in Jobs, BackupStep(j)
      PROVE  B!Next
  <2>1. bConfigured = TRUE
    BY DEF IInv, Joined
  <2>2. B!RequestStep(j)
    BY <1>4, <2>1 DEF BackupStep, B!RequestStep
  <2> QED
    BY <2>2 DEF B!Next
<1>5. ASSUME NEW j \in Jobs, BackupCalls(j)
      PROVE  B!Next \/ UNCHANGED bVars
  <2>1. ASSUME NEW r \in Runs, Answered(<<"backup", j>>, r), B!ForwardReturns(j, N!ResponseOf(r))
        PROVE  B!RequestStep(j)
    BY <2>1, AnswerIsComputed, Vocabulary DEF B!RequestStep
  <2>2. B!ForwardFails(j) => B!RequestStep(j)
    BY DEF B!RequestStep
  <2> QED
    BY <1>5, <2>1, <2>2 DEF BackupCalls, Connect, B!Next
<1>6. CASE RecoveryStep
  <2>1. ASSUME NEW ok \in BOOLEAN, B!Deliver(ok) PROVE B!RecoveryStep
    <3>1. callbacks \in [Jobs -> Seq(B!Responses)]
      BY Typed DEF TypeOK, B!TypeOK
    <3>2. rThread.pc \notin {"idle", "scanning"} /\ rThread.response \in B!Responses
      BY <2>1, Typed DEF TypeOK, B!TypeOK, B!Recovery, B!Deliver
    <3>3. callbacks' \in [Jobs -> Seq(B!Responses)]
      <4> DEFINE k == Recorded.job
      <4>1. k \in Jobs
        BY <3>2, RecoveryRow DEF Row
      <4> HIDE DEF k
      <4>2. Append(callbacks[k], rThread.response) \in Seq(B!Responses)
        BY <3>1, <3>2, <4>1
      <4>3. \/ callbacks' = callbacks
            \/ callbacks' = [callbacks EXCEPT ![k] = Append(callbacks[k], rThread.response)]
        BY <2>1 DEF B!Deliver, k, Recorded
      <4> QED
        BY <3>1, <4>1, <4>2, <4>3
    <3>4. \A j \in Jobs : Len(callbacks'[j]) \in Nat
      BY <3>3
    <3> QED
      BY <2>1, <3>4 DEF B!RecoveryStep
  <2> QED
    BY <1>6, <2>1 DEF RecoveryStep, B!RecoveryStep, B!Next
<1>7. CASE RecoveryCalls
  <2>1. ASSUME NEW r \in Runs, Answered(<<"recovery">>, r), B!ReplayReturns(N!ResponseOf(r))
        PROVE  B!RecoveryStep
    BY <2>1, AnswerIsComputed, Vocabulary DEF B!RecoveryStep
  <2>2. B!ReplayFails => B!RecoveryStep
    BY DEF B!RecoveryStep
  <2> QED
    BY <1>7, <2>1, <2>2 DEF RecoveryCalls, Connect, B!Next
<1>8. CASE MonitorStep
  BY <1>8 DEF MonitorStep, B!Next
<1>9. ASSUME NEW m \in replication, ReplicaArrives(m)
      PROVE  B!Next \/ UNCHANGED bVars
  BY <1>9, ReplicaStepsAlone
<1>10. ASSUME NEW m \in results, TakeResult(m)
      PROVE  B!Next \/ UNCHANGED bVars
  <2>1. m.response \in B!Computed /\ m.sid \in Sids
    BY OutputIsNumbered, Vocabulary DEF IInv, Joined, MessagesAreTrue
  <2>2. ASSUME B!ResultArrives(m.sid, m.response) PROVE B!Next \/ UNCHANGED bVars
    <3>1. CASE m.sid \in SidsOf(bLog)
      BY <2>1, <2>2, <3>1, Statements DEF B!UdpStep, B!Next
    <3>2. CASE m.sid \notin SidsOf(bLog)
      <4>1. bLog' = bLog
        BY <2>2, <3>2, UpdateOfUnknown DEF B!ResultArrives, B!Store
      <4> QED
        BY <2>2, <4>1 DEF B!ResultArrives, B!roleVars, B!idVars, bVars
    <3> QED
      BY <3>1, <3>2
  <2> QED
    BY <1>10, <2>2 DEF TakeResult
<1>11. CASE ReplicateResult \/ NodeStep
  BY <1>11 DEF ReplicateResult, NodeStep
<1>12. ASSUME NEW n \in Nodes, Heartbeat(n) \/ Evict(n)
      PROVE  B!Next \/ UNCHANGED bVars
  BY <1>12 DEF Heartbeat, Evict, B!UdpStep, B!Next
<1>13. CASE Crash \/ Restart
  BY <1>13 DEF Crash, PrimaryCrash, BackupCrash, Restart, B!Next
<1> QED
  BY <1>1, <1>2, <1>3, <1>4, <1>5, <1>6, <1>7, <1>8, <1>9, <1>10, <1>11, <1>12, <1>13 DEF Next


-----------------------------------------------------------------------------
(***************************************************************************)
(* The invariants of the masters                                           *)
(***************************************************************************)

LEMMA MastersKeep ==
  ASSUME IInv, [Next]_vars
  PROVE  PP!IInv' /\ BP!IInv'
<1>1. PP!IInv /\ BP!IInv
  BY DEF IInv
<1>2. [PP!Next]_pVars
  BY PrimaryStepsAlone, PrimaryNext
<1>3. [BP!Next]_bVars
  BY BackupStepsAlone, BackupNext
<1>4. PP!IInv'
  BY <1>1, <1>2, PP!StepInvariant, PrimaryParameters, RunsAssumption DEF PP!pVars, pVars
<1>5. BP!IInv'
  BY <1>1, <1>3, BP!NextKeeps, BackupParameters, RunsAssumption
    DEF BP!bVars, bVars, BP!roleVars, BP!idVars
<1> QED
  BY <1>4, <1>5

-----------------------------------------------------------------------------
(***************************************************************************)
(* What stays: the rows of a log, the ids of the taken, the text of a run  *)
(***************************************************************************)

\* The rows of log are where they were.
Grows(log, new) ==
  /\ DOMAIN log \subseteq DOMAIN new
  /\ \A i \in DOMAIN log : /\ new[i].sid = log[i].sid
                           /\ new[i].receipt = log[i].receipt
                           /\ new[i].job = log[i].job

Same(log, new) == DOMAIN new = DOMAIN log /\ Grows(log, new)

Inserts(log, row, new) ==
  /\ DOMAIN new = DOMAIN log \cup {Len(log) + 1}
  /\ Len(log) + 1 \notin DOMAIN log
  /\ new[Len(log) + 1] = row
  /\ Grows(log, new)

\* An UPDATE leaves every row its id, its receipt and its job.
LEMMA UpdatedBySame ==
  ASSUME NEW log \in Seq(Row), NEW m \in P!UpdateMessage
  PROVE  Same(log, UpdatedBy(log, m))
<1>1. /\ m.sid \in Nat
      /\ m.forwarding \in Forwardings
      /\ m.response \in Responses
      /\ m.delivery \in Deliveries
  BY Vocabulary DEF P!UpdateMessage
<1> QED
  BY <1>1, UpdatedKeepsRows DEF UpdatedBy, Same, Grows

\* Both logs are tables.
LEMMA LogsAreRows ==
  ASSUME IInv
  PROVE  /\ pLog \in Seq(Row) /\ bLog \in Seq(Row)
         /\ \A i \in DOMAIN pLog : pLog[i] \in Row
         /\ \A i \in DOMAIN bLog : bLog[i] \in Row
<1>1. pLog \in Seq(Row) /\ bLog \in Seq(Row)
  BY Typed, Vocabulary DEF TypeOK, P!TypeOK, B!TypeOK
<1> QED
  BY <1>1

\* The threads of both masters have their types, ids and receipts among
\* them.
LEMMA ThreadsAreTyped ==
  ASSUME IInv
  PROVE  /\ pThread \in [Jobs -> P!Thread]
         /\ bThread \in [Jobs -> B!Request]
         /\ \A j \in Jobs : /\ pThread[j].sid \in Nat
                            /\ pThread[j].receipt \in Nat
                            /\ bThread[j].sid \in Nat
                            /\ bThread[j].receipt \in Nat
BY Typed DEF TypeOK, P!TypeOK, B!TypeOK, P!Thread, B!Request

\* A new row is a row with the id, receipt and job it was given.
LEMMA NewRowIsRow ==
  ASSUME NEW sid \in Nat, NEW receipt \in Nat, NEW j \in Jobs
  PROVE  /\ NewRow(sid, receipt, j) \in Row
         /\ NewRow(sid, receipt, j).sid = sid
         /\ NewRow(sid, receipt, j).receipt = receipt
         /\ NewRow(sid, receipt, j).job = j
BY DEF NewRow, Row, Pending, Responses, Kinds, Forwardings, Deliveries

\* The primary's log: rows with other status columns, or one row more.
LEMMA PrimaryLogGrows ==
  ASSUME IInv, PrimaryLogMoves
  PROVE  /\ \/ Same(pLog, pLog')
            \/ \E j \in Jobs : /\ pThread[j].pc = "inserting"
                               /\ pThread'[j].pc = "replicatingInsert"
                               /\ Inserts(pLog, NewRow(pThread[j].sid, pThread[j].receipt, j), pLog')
         /\ Grows(pLog, pLog')
<1>1. CASE pLog' = pLog
  BY <1>1 DEF Same, Grows
<1>2. ASSUME NEW j \in Jobs, pThread[j].pc = "inserting", pThread'[j].pc = "replicatingInsert",
             pLog' = Append(pLog, NewRow(pThread[j].sid, pThread[j].receipt, j))
      PROVE  Inserts(pLog, NewRow(pThread[j].sid, pThread[j].receipt, j), pLog')
  <2>1. NewRow(pThread[j].sid, pThread[j].receipt, j) \in Row
    BY ThreadsAreTyped, NewRowIsRow
  <2> QED
    BY <1>2, <2>1, LogsAreRows, AppendKeepsRows DEF Inserts, Grows
<1>3. ASSUME NEW m \in P!UpdateMessage, pLog' = UpdatedBy(pLog, m)
      PROVE  Same(pLog, pLog')
  BY <1>3, LogsAreRows, UpdatedBySame
<1> QED
  BY <1>1, <1>2, <1>3 DEF PrimaryLogMoves, Same, Inserts

\* The backup's log: rows with other status columns, or one row more, its
\* own or the primary's.
LEMMA BackupLogGrows ==
  ASSUME IInv, BackupLogMoves
  PROVE  /\ \/ Same(bLog, bLog')
            \/ \E j \in Jobs : /\ bThread[j].pc = "inserting"
                               /\ bThread'[j].pc = "scheduling"
                               /\ Inserts(bLog, NewRow(bThread[j].sid, bThread[j].receipt, j), bLog')
            \/ \E m \in replication : /\ m.action = "insert"
                                      /\ Inserts(bLog, m.row, bLog')
                                      /\ replication' = replication \ {m}
         /\ Grows(bLog, bLog')
<1>1. CASE bLog' = bLog
  BY <1>1 DEF Same, Grows
<1>2. ASSUME NEW j \in Jobs, bThread[j].pc = "inserting",
             bLog' = Append(bLog, NewRow(bThread[j].sid, bThread[j].receipt, j))
      PROVE  Inserts(bLog, NewRow(bThread[j].sid, bThread[j].receipt, j), bLog')
  <2>1. NewRow(bThread[j].sid, bThread[j].receipt, j) \in Row
    BY ThreadsAreTyped, NewRowIsRow
  <2> QED
    BY <1>2, <2>1, LogsAreRows, AppendKeepsRows DEF Inserts, Grows
<1>3. ASSUME NEW m \in replication, m.action = "insert", bLog' = Append(bLog, m.row)
      PROVE  Inserts(bLog, m.row, bLog')
  <2>1. m.row \in Row
    BY <1>3, Typed, Vocabulary DEF TypeOK, P!TypeOK, P!Replication, P!InsertMessage, P!UpdateMessage
  <2> QED
    BY <1>3, <2>1, LogsAreRows, AppendKeepsRows DEF Inserts, Grows
<1>4. ASSUME NEW m \in P!UpdateMessage, bLog' = UpdatedBy(bLog, m)
      PROVE  Same(bLog, bLog')
  BY <1>4, LogsAreRows, UpdatedBySame
<1>5. CASE B!Record
  <2>1. rThread.pc \notin {"idle", "scanning"} /\ rThread.response \in Responses
    BY <1>5, Typed, Vocabulary DEF TypeOK, B!TypeOK, B!Recovery, B!Record
  <2>2. Recorded.sid \in Nat
    BY <2>1, RecoveryRow DEF Row
  <2>3. \E d \in Deliveries :
          bLog' = Updated(bLog, Recorded.sid, "RECOVERED", rThread.response, d)
    BY <1>5, Statements DEF B!Record, Recorded, Deliveries
  <2>4. "RECOVERED" \in Forwardings
    BY DEF Forwardings
  <2> QED
    BY <2>1, <2>2, <2>3, <2>4, LogsAreRows, UpdatedKeepsRows DEF Same, Grows
<1> QED
  BY <1>1, <1>2, <1>3, <1>4, <1>5 DEF BackupLogMoves, Same, Inserts

\* A text stays the text of its run.
LEMMA OutputStays ==
  ASSUME IInv, RunsMove
  PROVE  /\ \A response, sid : Output(response, sid) => Output(response, sid)'
         /\ \A response, caller : OwnOutput(response, caller) => OwnOutput(response, caller)'
<1>1. ASSUME NEW r \in Runs, run[r].kind \in RunKinds
      PROVE  /\ run'[r].kind = run[r].kind
             /\ run'[r].sid = run[r].sid
             /\ run'[r].caller = run[r].caller
  <2>1. run[r].kind # "PENDING"
    BY <1>1, RunsAssumption
  <2>2. run[r].pc \notin {"unused", "executing"}
    BY <2>1 DEF IInv, Joined, RunsAreTaken, N!Unused
  <2> QED
    BY <2>2 DEF RunsMove, RunMoves
<1>2. \A r \in Runs : run[r].kind \in RunKinds => N!ResponseOf(r)' = N!ResponseOf(r)
  BY <1>1 DEF N!ResponseOf
<1> QED
  BY <1>1, <1>2 DEF Output, OwnOutput

\* An outcome stays the outcome of its run.
LEMMA OutcomeStays ==
  ASSUME IInv, RunsMove, NEW m, Outcome(m)
  PROVE  Outcome(m)'
BY OutputStays DEF Outcome

\* A request that is taken keeps its id, and is the primary's or the backup's.
LEMMA TakenStays ==
  ASSUME IInv, RequestsMove
  PROVE  \A j \in Taken : j \in Taken' /\ TakenAs(j)' = TakenAs(j)
<1> SUFFICES ASSUME NEW j \in Taken PROVE TakenAs(j)' = TakenAs(j)
  BY DEF Taken
<1>1. j \in Jobs /\ (pThread[j].sid # 0 \/ bThread[j].sid # 0)
  BY DEF Taken, TakenAs
<1>2. pThread'[j].sid = pThread[j].sid /\ bThread'[j].sid = bThread[j].sid
  <2>1. ASSUME NEW k \in Jobs, PrimaryTakes(k) PROVE j # k /\ UNCHANGED bThread
    BY <1>1, <2>1 DEF PrimaryTakes, IInv, Joined, OneMaster, Unserved, bVars
  <2>2. ASSUME NEW k \in Jobs, BackupTakes(k) PROVE j # k /\ UNCHANGED pThread
    BY <1>1, <2>2 DEF BackupTakes, IInv, Joined, OneMaster, Unserved, pVars
  <2>3. ASSUME NEW k \in Jobs, PrimaryRefuses(k) \/ BackupRefuses(k)
        PROVE  pThread'[j].sid = pThread[j].sid /\ bThread'[j].sid = bThread[j].sid
    BY <1>1, <2>3 DEF PrimaryRefuses, BackupRefuses, pVars, bVars
  <2> QED
    BY <1>1, <2>1, <2>2, <2>3 DEF RequestsMove, IdsStay, PrimaryThreadMoves, BackupThreadMoves,
      PrimaryTakes, BackupTakes
<1> QED
  BY <1>2 DEF TakenAs

\* A row copied from the primary stays a copy of one.
LEMMA CopiedStays ==
  ASSUME IInv, RequestsMove, PrimaryLogMoves, NEW row, NEW new, row.job \in Jobs, Copied(row),
         new.sid = row.sid, new.receipt = row.receipt, new.job = row.job
  PROVE  Copied(new)'
<1>1. Grows(pLog, pLog')
  BY PrimaryLogGrows
<1>2. pThread[row.job].pc \notin Unserved \cup {"inserting", "replicatingInsert"}
  BY DEF Copied
<1>3. /\ pThread'[row.job].pc \notin Unserved \cup {"inserting", "replicatingInsert"}
      /\ pThread'[row.job].sid = pThread[row.job].sid
      /\ pThread'[row.job].receipt = pThread[row.job].receipt
  BY <1>2 DEF RequestsMove, PrimaryTakes, BackupTakes, PrimaryRefuses, BackupRefuses, IdsStay,
    PrimaryThreadMoves, Unserved, pVars
<1> QED
  BY <1>1, <1>3 DEF Copied, Grows

-----------------------------------------------------------------------------
(***************************************************************************)
(* Each part of the invariant is kept                                      *)
(***************************************************************************)

\* No step gives a job to both masters.
LEMMA OneMasterKept ==
  ASSUME IInv, Moves
  PROVE  OneMaster'
<1> USE DEF IInv, Joined, OneMaster
<1>1. ASSUME NEW j \in Jobs, PrimaryTakes(j) PROVE OneMaster'
  <2>1. pNextSid # 0
    BY DEF NumbersAreCounted
  <2> QED
    BY <1>1, <2>1 DEF PrimaryTakes, Unserved, bVars
<1>2. ASSUME NEW j \in Jobs, BackupTakes(j) PROVE OneMaster'
  <2>1. bNextSid # 0
    BY DEF NumbersAreCounted
  <2> QED
    BY <1>2, <2>1 DEF BackupTakes, Unserved, pVars
<1>3. CASE IdsStay
  BY <1>3 DEF IdsStay, PrimaryThreadMoves, BackupThreadMoves, Unserved
<1>4. ASSUME NEW j \in Jobs, PrimaryRefuses(j) PROVE OneMaster'
  BY <1>4 DEF PrimaryRefuses, Unserved, bVars
<1>5. ASSUME NEW j \in Jobs, BackupRefuses(j) PROVE OneMaster'
  BY <1>5 DEF BackupRefuses, Unserved, pVars
<1> QED
  BY <1>1, <1>2, <1>3, <1>4, <1>5 DEF Moves, RequestsMove

\* The rows of a log have ids that were given.
LEMMA RowsAreNumbered ==
  ASSUME IInv
  PROVE  /\ \A i \in DOMAIN pLog : pLog[i].job \in Taken /\ TakenAs(pLog[i].job) = pLog[i].sid
         /\ \A i \in DOMAIN bLog : bLog[i].job \in Taken /\ TakenAs(bLog[i].job) = bLog[i].sid
<1> USE DEF IInv, Joined, OneMaster, RowsAreTaken, Copied, Taken, TakenAs, Unserved
<1>1. \A i \in DOMAIN pLog : pLog[i].job \in Jobs
  BY LogsAreRows DEF Row
<1>2. \A i \in DOMAIN bLog : bLog[i].job \in Jobs
  BY LogsAreRows DEF Row
<1>3. ASSUME NEW i \in DOMAIN pLog
      PROVE  pLog[i].job \in Taken /\ TakenAs(pLog[i].job) = pLog[i].sid
  BY <1>1
<1>4. ASSUME NEW i \in DOMAIN bLog
      PROVE  bLog[i].job \in Taken /\ TakenAs(bLog[i].job) = bLog[i].sid
  BY <1>2
<1> QED
  BY <1>3, <1>4

\* What a master that starts computes from its log is not past the requests.
LEMMA NextIsCounted ==
  ASSUME IInv, NEW log \in Seq(Row),
         \A i \in DOMAIN log : log[i].job \in Taken /\ TakenAs(log[i].job) = log[i].sid
  PROVE  NextSubmission(log) \in 1001..(1001 + Cardinality(Spent))
<1> DEFINE top == 1000 + Cardinality(Spent)
<1>1. \A i \in DOMAIN log : log[i].sid \in 1001..top
  BY DEF IInv, Joined, NumbersAreCounted
<1>2. Cardinality(Spent) \in Nat
  BY SpentAreFinite
<1>3. CASE log = <<>>
  BY <1>2, <1>3 DEF NextSubmission
<1>4. CASE log # <<>>
  <2>1. 1 \in DOMAIN log
    BY <1>4
  <2>2. /\ SidsOf(log) \in SUBSET Nat /\ SidsOf(log) # {}
        /\ SidsOf(log) \subseteq 1001..top
        /\ \A s \in SidsOf(log) : s < top + 1
    BY <1>1, <1>2, <2>1 DEF SidsOf
  <2>3. Max(SidsOf(log)) \in SidsOf(log)
    <3> DEFINE ids == SidsOf(log)
               b == top + 1
    <3>1. ids \in SUBSET Nat /\ ids # {} /\ b \in Nat /\ \A s \in ids : s < b
      BY <1>2, <2>2
    <3> HIDE DEF ids, b
    <3>2. Max(ids) \in ids
      BY <3>1, MaxOfBounded
    <3> QED
      BY <3>2 DEF ids
  <2> QED
    BY <1>2, <1>4, <2>2, <2>3 DEF NextSubmission
<1> QED
  BY <1>3, <1>4

\* One request more is seen.
LEMMA OneMoreSpent ==
  ASSUME NEW j \in Jobs, j \notin Spent, Spent' = Spent \cup {j}
  PROVE  /\ Cardinality(Spent') = Cardinality(Spent) + 1
         /\ Cardinality(Spent') <= Cardinality(Jobs)
<1>1. Spent' \subseteq Jobs
  BY DEF Spent, Taken
<1>2. Cardinality(Spent') = Cardinality(Spent) + 1
  BY SpentAreFinite, FS_AddElement
<1>3. Cardinality(Spent') <= Cardinality(Jobs)
  BY <1>1, FS_Subset, ClusterAssumption
<1> QED
  BY <1>2, <1>3

\* A master that takes a job gives it the next id, and no other job has a
\* new one.
LEMMA TakesOne ==
  ASSUME IInv, NEW j \in Jobs, PrimaryTakes(j) \/ BackupTakes(j)
  PROVE  /\ TakenAs(j)' = IF PrimaryTakes(j) THEN pNextSid ELSE bNextSid
         /\ Taken' = Taken \cup {j}
         /\ Cardinality(Spent') = Cardinality(Spent) + 1
         /\ Cardinality(Spent') <= Cardinality(Jobs)
         /\ \A k \in Taken : TakenAs(k)' = TakenAs(k)
<1>1. TakenAs(j) = 0 /\ pThread[j].sid = 0
  BY DEF IInv, Joined, OneMaster, TakenAs, PrimaryTakes, BackupTakes, Unserved
<1>2. pNextSid # 0 /\ bNextSid # 0
  BY DEF IInv, Joined, NumbersAreCounted
<1>3. TakenAs(j)' = IF PrimaryTakes(j) THEN pNextSid ELSE bNextSid
  BY <1>1, <1>2 DEF TakenAs, PrimaryTakes, BackupTakes, pVars, bVars
<1>4. \A k \in Jobs \ {j} : TakenAs(k)' = TakenAs(k)
  BY DEF TakenAs, PrimaryTakes, BackupTakes, pVars, bVars
<1>5. Taken' = Taken \cup {j} /\ j \notin Taken
  BY <1>1, <1>2, <1>3, <1>4 DEF Taken
<1>6. ~Refused(j) /\ ~Refused(j)' /\ \A k \in Jobs \ {j} : Refused(k)' <=> Refused(k)
  BY DEF Refused, PrimaryTakes, BackupTakes, pVars, bVars
<1>7. j \notin Spent /\ Spent' = Spent \cup {j}
  BY <1>5, <1>6 DEF Spent
<1>8. \A k \in Taken : TakenAs(k)' = TakenAs(k)
  BY <1>4, <1>5 DEF Taken
<1> QED
  BY <1>3, <1>5, <1>7, <1>8, OneMoreSpent

\* One that refuses a job spends an id on it, and no job has a new one.
LEMMA RefusesOne ==
  ASSUME IInv, NEW j \in Jobs, PrimaryRefuses(j) \/ BackupRefuses(j)
  PROVE  /\ Taken' = Taken
         /\ Cardinality(Spent') = Cardinality(Spent) + 1
         /\ Cardinality(Spent') <= Cardinality(Jobs)
         /\ \A k \in Jobs : TakenAs(k)' = TakenAs(k)
<1>1. TakenAs(j) = 0
  BY DEF IInv, Joined, OneMaster, TakenAs, PrimaryRefuses, BackupRefuses, Unserved
<1>2. \A k \in Jobs : TakenAs(k)' = TakenAs(k)
  BY DEF TakenAs, PrimaryRefuses, BackupRefuses, pVars, bVars
<1>3. Taken' = Taken /\ j \notin Taken
  BY <1>1, <1>2 DEF Taken
<1>4. ~Refused(j) /\ Refused(j)' /\ \A k \in Jobs \ {j} : Refused(k)' <=> Refused(k)
  BY DEF Refused, PrimaryRefuses, BackupRefuses, pVars, bVars
<1>5. j \notin Spent /\ Spent' = Spent \cup {j}
  BY <1>3, <1>4 DEF Spent
<1> QED
  BY <1>2, <1>3, <1>5, OneMoreSpent

\* If no thread takes an id the jobs that have one, or cost one, are the same.
LEMMA NoneTaken ==
  ASSUME IInv, IdsStay
  PROVE  Taken' = Taken /\ Spent' = Spent /\ \A k \in Jobs : TakenAs(k)' = TakenAs(k)
<1>1. \A k \in Jobs : TakenAs(k)' = TakenAs(k)
  BY DEF IdsStay, PrimaryThreadMoves, BackupThreadMoves, TakenAs
<1>2. \A k \in Jobs : Refused(k)' <=> Refused(k)
  BY DEF IdsStay, PrimaryThreadMoves, BackupThreadMoves, Refused, Unserved
<1>3. Taken' = Taken
  BY <1>1 DEF Taken
<1> QED
  BY <1>1, <1>2, <1>3 DEF Spent

\* The ids given stay as many as the jobs seen.
LEMMA NumbersAreCountedKept ==
  ASSUME IInv, Moves
  PROVE  NumbersAreCounted'
<1>1. /\ {pNextSid, bNextSid} \subseteq 1001..(1001 + Cardinality(Spent))
      /\ \A j \in Taken : TakenAs(j) \in 1001..(1000 + Cardinality(Spent))
  BY SpentAreFinite DEF IInv, Joined, NumbersAreCounted
<1>2. ASSUME NEW j \in Jobs, PrimaryTakes(j) \/ BackupTakes(j) PROVE NumbersAreCounted'
  <2>1. /\ TakenAs(j)' = IF PrimaryTakes(j) THEN pNextSid ELSE bNextSid
        /\ Taken' = Taken \cup {j}
        /\ Cardinality(Spent') = Cardinality(Spent) + 1
        /\ \A k \in Taken : TakenAs(k)' = TakenAs(k)
    BY <1>2, TakesOne
  <2>2. /\ pNextSid' \in {pNextSid, pNextSid + 1}
        /\ bNextSid' \in {bNextSid, bNextSid + 1}
    BY <1>2 DEF PrimaryTakes, BackupTakes, pVars, bVars
  <2>3. {pNextSid', bNextSid'} \subseteq 1001..(1000 + Cardinality(Spent') + 1)
    BY <1>1, <2>1, <2>2, SpentAreFinite
  <2>4. \A k \in Taken' : TakenAs(k)' \in 1001..(1000 + Cardinality(Spent'))
    BY <1>1, <2>1, SpentAreFinite
  <2> QED
    BY <2>3, <2>4 DEF NumbersAreCounted
<1>3. ASSUME NEW j \in Jobs, PrimaryRefuses(j) \/ BackupRefuses(j) PROVE NumbersAreCounted'
  <2>1. /\ Taken' = Taken
        /\ Cardinality(Spent') = Cardinality(Spent) + 1
        /\ \A k \in Taken : TakenAs(k)' = TakenAs(k)
    BY <1>3, RefusesOne DEF Taken
  <2>2. /\ pNextSid' \in {pNextSid, pNextSid + 1}
        /\ bNextSid' \in {bNextSid, bNextSid + 1}
    BY <1>3 DEF PrimaryRefuses, BackupRefuses, pVars, bVars
  <2>3. {pNextSid', bNextSid'} \subseteq 1001..(1000 + Cardinality(Spent') + 1)
    BY <1>1, <2>1, <2>2, SpentAreFinite
  <2>4. \A k \in Taken' : TakenAs(k)' \in 1001..(1000 + Cardinality(Spent'))
    BY <1>1, <2>1, SpentAreFinite
  <2> QED
    BY <2>3, <2>4 DEF NumbersAreCounted
<1>4. CASE IdsStay
  <2>1. Taken' = Taken /\ Spent' = Spent /\ \A k \in Taken : TakenAs(k)' = TakenAs(k)
    BY <1>4, NoneTaken DEF Taken
  <2>2. {pNextSid', bNextSid'} \subseteq 1001..(1001 + Cardinality(Spent))
    BY <1>1, <1>4, NextIsCounted, RowsAreNumbered, LogsAreRows DEF IdsStay
  <2>3. {pNextSid', bNextSid'} \subseteq 1001..((1000 + Cardinality(Spent)) + 1)
    BY <2>2, SpentAreFinite
  <2>4. NumbersAreCounted' = (/\ {pNextSid', bNextSid'} \subseteq 1001..((1000 + Cardinality(Spent')) + 1)
                              /\ \A k \in Taken' : TakenAs(k)' \in 1001..(1000 + Cardinality(Spent')))
    BY DEF NumbersAreCounted
  <2> QED
    BY <1>1, <2>1, <2>3, <2>4
<1> QED
  BY <1>2, <1>3, <1>4 DEF Moves, RequestsMove

\* A job has at most one row in the primary's log.
LEMMA LogIsShort ==
  ASSUME IInv
  PROVE  Len(pLog) <= Cardinality(Jobs)
<1> DEFINE f == [i \in DOMAIN pLog |-> pLog[i].job]
<1>1. \A i \in DOMAIN pLog : pLog[i].job \in Jobs
  BY LogsAreRows DEF Row
<1>2. ASSUME NEW i \in DOMAIN pLog, NEW k \in DOMAIN pLog, pLog[i].job = pLog[k].job
      PROVE  i = k
  BY <1>2 DEF IInv, Joined, RowsAreTaken, PP!IInv, PP!SubmissionsUnique
<1>3. f \in Injection(DOMAIN pLog, Jobs)
  BY <1>1, <1>2 DEF Injection, IsInjective
<1>4. Cardinality(DOMAIN pLog) <= Cardinality(Jobs)
  BY <1>3, FS_Injection, ClusterAssumption
<1>5. DOMAIN pLog = 1..Len(pLog) /\ Len(pLog) \in Nat
  BY LogsAreRows
<1>6. \A n \in Nat : Cardinality(1..n) = n
  <2> SUFFICES ASSUME NEW n \in Nat PROVE Cardinality(1..n) = n
    OBVIOUS
  <2>1. Cardinality(1..n) = IF 1 > n THEN 0 ELSE n - 1 + 1
    BY FS_Interval
  <2> QED
    BY <2>1
<1> QED
  BY <1>4, <1>5, <1>6

\* The receipts stay in the range the jobs allow, restarts of the primary
\* included.
LEMMA ReceiptsAreCountedKept ==
  ASSUME IInv, Moves
  PROVE  ReceiptsAreCounted'
<1> DEFINE Counted(n) == (1..(Cardinality(Jobs) + 1 + n)) \cup (2001..(2001 + n))
<1>1. /\ pNextReceipt \in Counted(Cardinality(Spent))
      /\ \A j \in Jobs : pThread[j].sid # 0 => pThread[j].receipt \in Receipts
  BY DEF IInv, Joined, ReceiptsAreCounted
<1>2. ASSUME NEW j \in Jobs, PrimaryTakes(j) \/ BackupTakes(j)
      PROVE  /\ pNextReceipt' \in Counted(Cardinality(Spent'))
             /\ \A k \in Jobs : pThread'[k].sid # 0 => pThread'[k].receipt \in Receipts
  <2>1. /\ Cardinality(Spent') = Cardinality(Spent) + 1
        /\ Cardinality(Spent') <= Cardinality(Jobs)
    BY <1>2, TakesOne
  <2>2. pNextReceipt' \in {pNextReceipt, pNextReceipt + 1}
    BY <1>2 DEF PrimaryTakes, BackupTakes, pVars
  <2>3. pNextReceipt' \in Counted(Cardinality(Spent'))
    BY <1>1, <2>1, <2>2, SpentAreFinite, JobsAreCounted
  <2>4. pNextReceipt \in Receipts
    BY <1>1, <2>1, SpentAreFinite, JobsAreCounted DEF Receipts
  <2>5. \A k \in Jobs : pThread'[k].sid # 0 => pThread'[k].receipt \in Receipts
    BY <1>1, <1>2, <2>4 DEF PrimaryTakes, BackupTakes, pVars
  <2> QED
    BY <2>3, <2>5
<1>3. ASSUME NEW j \in Jobs, PrimaryRefuses(j) \/ BackupRefuses(j)
      PROVE  /\ pNextReceipt' \in Counted(Cardinality(Spent'))
             /\ \A k \in Jobs : pThread'[k].sid # 0 => pThread'[k].receipt \in Receipts
  <2>1. /\ Cardinality(Spent') = Cardinality(Spent) + 1
        /\ Cardinality(Spent') <= Cardinality(Jobs)
    BY <1>3, RefusesOne
  <2>2. pNextReceipt' \in {pNextReceipt, pNextReceipt + 1}
    BY <1>3 DEF PrimaryRefuses, BackupRefuses, pVars
  <2>3. pNextReceipt' \in Counted(Cardinality(Spent'))
    BY <1>1, <2>1, <2>2, SpentAreFinite, JobsAreCounted
  <2>4. \A k \in Jobs : pThread'[k].sid # 0 => pThread'[k].receipt \in Receipts
    BY <1>1, <1>3 DEF PrimaryRefuses, BackupRefuses, pVars
  <2> QED
    BY <2>3, <2>4
<1>4. CASE IdsStay
  <2>1. Spent' = Spent
    BY <1>4, NoneTaken
  <2>2. NextReceipt(pLog) \in Counted(Cardinality(Spent))
    BY LogIsShort, LogsAreRows, SpentAreFinite, JobsAreCounted DEF NextReceipt
  <2>3. \A k \in Jobs : pThread'[k].sid # 0 => pThread'[k].receipt \in Receipts
    <3>1. \A k \in Jobs : PrimaryThreadMoves(k)
      BY <1>4 DEF IdsStay
    <3>2. \A k \in Jobs : /\ pThread'[k].sid = pThread[k].sid
                         /\ pThread'[k].receipt = pThread[k].receipt
      BY <3>1 DEF PrimaryThreadMoves
    <3> QED
      BY <1>1, <3>2
  <2>4. pNextReceipt' \in Counted(Cardinality(Spent'))
    BY <1>1, <1>4, <2>1, <2>2 DEF IdsStay
  <2> QED
    BY <2>3, <2>4 DEF ReceiptsAreCounted
<1> QED
  BY <1>2, <1>3, <1>4 DEF Moves, RequestsMove, ReceiptsAreCounted


\* The row of a request behind its INSERT keeps to its thread.
LEMMA PrimaryIdsStay ==
  ASSUME IInv, RequestsMove, NEW j \in Jobs, pThread[j].pc \notin Unserved
  PROVE  /\ pThread'[j].sid = pThread[j].sid
         /\ pThread'[j].receipt = pThread[j].receipt
         /\ pThread'[j].pc \notin Unserved
         /\ pThread[j].pc # "inserting" => pThread'[j].pc # "inserting"
BY DEF RequestsMove, PrimaryTakes, BackupTakes, PrimaryRefuses, BackupRefuses, IdsStay,
  PrimaryThreadMoves, Unserved, pVars

\* The backup never renumbers a request.
LEMMA BackupIdsStay ==
  ASSUME IInv, RequestsMove, NEW j \in Jobs, bThread[j].sid # 0
  PROVE  bThread'[j].sid = bThread[j].sid
<1>1. bThread[j].pc \notin {"idle", "probing"}
  BY DEF IInv, Joined, OneMaster, Unserved
<1> QED
  BY <1>1 DEF RequestsMove, PrimaryTakes, BackupTakes, PrimaryRefuses, BackupRefuses, IdsStay,
    BackupThreadMoves, bVars

\* The rows that were there, in the terms of RowsAreTaken.
LEMMA OldRowsAreTaken ==
  ASSUME IInv, Moves
  PROVE  /\ \A i \in DOMAIN pLog :
              /\ pThread'[pLog'[i].job].pc \notin Unserved \cup {"inserting"}
              /\ pThread'[pLog'[i].job].sid = pLog'[i].sid
              /\ pThread'[pLog'[i].job].receipt = pLog'[i].receipt
         /\ \A i \in DOMAIN bLog :
              \/ bThread'[bLog'[i].job].sid # 0 /\ bThread'[bLog'[i].job].sid = bLog'[i].sid
              \/ Copied(bLog[i])'
<1>1. Grows(pLog, pLog') /\ Grows(bLog, bLog')
  BY PrimaryLogGrows, BackupLogGrows DEF Moves
<1>2. ASSUME NEW i \in DOMAIN pLog
      PROVE  /\ pThread'[pLog'[i].job].pc \notin Unserved \cup {"inserting"}
             /\ pThread'[pLog'[i].job].sid = pLog'[i].sid
             /\ pThread'[pLog'[i].job].receipt = pLog'[i].receipt
  <2>1. /\ pLog[i].job \in Jobs
        /\ pThread[pLog[i].job].pc \notin Unserved \cup {"inserting"}
        /\ pThread[pLog[i].job].sid = pLog[i].sid
        /\ pThread[pLog[i].job].receipt = pLog[i].receipt
    BY LogsAreRows DEF Row, IInv, Joined, RowsAreTaken
  <2>2. /\ pLog'[i].job = pLog[i].job
        /\ pLog'[i].sid = pLog[i].sid
        /\ pLog'[i].receipt = pLog[i].receipt
    BY <1>1 DEF Grows
  <2> QED
    BY <2>1, <2>2, PrimaryIdsStay DEF Moves
<1>3. ASSUME NEW i \in DOMAIN bLog
      PROVE  \/ bThread'[bLog'[i].job].sid # 0 /\ bThread'[bLog'[i].job].sid = bLog'[i].sid
             \/ Copied(bLog[i])'
  <2>1. bLog[i].job \in Jobs
    BY LogsAreRows DEF Row
  <2>2. /\ bLog'[i].job = bLog[i].job
        /\ bLog'[i].sid = bLog[i].sid
        /\ bLog'[i].receipt = bLog[i].receipt
    BY <1>1 DEF Grows
  <2>3. CASE bThread[bLog[i].job].sid # 0 /\ bThread[bLog[i].job].sid = bLog[i].sid
    BY <2>1, <2>2, <2>3, BackupIdsStay DEF Moves
  <2>4. CASE Copied(bLog[i])
    <3>1. PICK row, new : row = bLog[i] /\ new = bLog'[i]
      OBVIOUS
    <3>2. Copied(row)
      BY <2>4, <3>1 DEF Copied
    <3>3. Copied(new)'
      BY <2>1, <2>2, <3>1, <3>2, CopiedStays DEF Moves
    <3> QED
      BY <3>1, <3>3 DEF Copied
  <2> QED
    BY <2>3, <2>4 DEF IInv, Joined, RowsAreTaken
<1> QED
  BY <1>2, <1>3

\* Every row stays a row of a job its master took, or a copy of the
\* primary's.
LEMMA RowsAreTakenKept ==
  ASSUME IInv, Moves
  PROVE  RowsAreTaken'
<1>1. \A i \in DOMAIN pLog' :
        /\ pThread'[pLog'[i].job].pc \notin Unserved \cup {"inserting"}
        /\ pThread'[pLog'[i].job].sid = pLog'[i].sid
        /\ pThread'[pLog'[i].job].receipt = pLog'[i].receipt
  <2>1. CASE Same(pLog, pLog')
    BY <2>1, OldRowsAreTaken DEF Same
  <2>2. ASSUME NEW j \in Jobs, pThread[j].pc = "inserting", pThread'[j].pc = "replicatingInsert",
               Inserts(pLog, NewRow(pThread[j].sid, pThread[j].receipt, j), pLog')
        PROVE  LET i == Len(pLog) + 1
               IN  /\ pThread'[pLog'[i].job].pc \notin Unserved \cup {"inserting"}
                   /\ pThread'[pLog'[i].job].sid = pLog'[i].sid
                   /\ pThread'[pLog'[i].job].receipt = pLog'[i].receipt
                   /\ DOMAIN pLog' = DOMAIN pLog \cup {i}
    <3>1. pThread'[j].sid = pThread[j].sid /\ pThread'[j].receipt = pThread[j].receipt
      BY <2>2, PrimaryIdsStay DEF Moves, Unserved
    <3> QED
      BY <2>2, <3>1 DEF Inserts, NewRow, Unserved
  <2> QED
    BY <2>1, <2>2, OldRowsAreTaken, PrimaryLogGrows DEF Moves
<1>2. /\ \A i \in DOMAIN bLog' :
           \/ bThread'[bLog'[i].job].sid # 0 /\ bThread'[bLog'[i].job].sid = bLog'[i].sid
           \/ Copied(bLog[i])'
      /\ \A i, k \in DOMAIN bLog' : bLog'[i].job = bLog'[k].job => i = k
  <2>1. CASE Same(bLog, bLog')
    BY <2>1, OldRowsAreTaken DEF Same, Grows, IInv, Joined, RowsAreTaken
  <2>2. ASSUME NEW row, Inserts(bLog, row, bLog'),
               \A i \in DOMAIN bLog : bLog[i].job # row.job,
               \/ bThread'[row.job].sid # 0 /\ bThread'[row.job].sid = row.sid
               \/ Copied(row)'
        PROVE  /\ \A i \in DOMAIN bLog' :
                    \/ bThread'[bLog'[i].job].sid # 0 /\ bThread'[bLog'[i].job].sid = bLog'[i].sid
                    \/ Copied(bLog[i])'
               /\ \A i, k \in DOMAIN bLog' : bLog'[i].job = bLog'[k].job => i = k
    <3>1. DOMAIN bLog' = DOMAIN bLog \cup {Len(bLog) + 1} /\ bLog'[Len(bLog) + 1] = row
      BY <2>2 DEF Inserts
    <3>2. \/ bThread'[row.job].sid # 0 /\ bThread'[row.job].sid = row.sid
          \/ \A i : i = Len(bLog) + 1 => Copied(bLog[i])'
      BY <2>2, <3>1 DEF Copied
    <3>3. \A i, k \in DOMAIN bLog' : bLog'[i].job = bLog'[k].job => i = k
      BY <2>2, <3>1 DEF Inserts, Grows, IInv, Joined, RowsAreTaken
    <3> QED
      BY <3>1, <3>2, <3>3, OldRowsAreTaken
  <2>3. ASSUME NEW j \in Jobs, bThread[j].pc = "inserting",
               Inserts(bLog, NewRow(bThread[j].sid, bThread[j].receipt, j), bLog')
        PROVE  /\ \A i \in DOMAIN bLog' :
                    \/ bThread'[bLog'[i].job].sid # 0 /\ bThread'[bLog'[i].job].sid = bLog'[i].sid
                    \/ Copied(bLog[i])'
               /\ \A i, k \in DOMAIN bLog' : bLog'[i].job = bLog'[k].job => i = k
    <3>1. PICK row : row = NewRow(bThread[j].sid, bThread[j].receipt, j)
      OBVIOUS
    <3>2. row.job = j /\ row.sid = bThread[j].sid
      BY <3>1 DEF NewRow
    <3>3. bThread[j].sid # 0
      BY <2>3 DEF IInv, Joined, OneMaster, Unserved
    <3>4. bThread'[j].sid = bThread[j].sid
      BY <3>3, BackupIdsStay DEF Moves
    <3>5. \A i \in DOMAIN bLog : bLog[i].job # j
      BY <2>3 DEF IInv, BP!IInv, BP!IdsAreApart, BP!UnservedHasNoRow
    <3> QED
      BY <2>2, <2>3, <3>1, <3>2, <3>3, <3>4, <3>5
  <2>4. ASSUME NEW m \in replication, m.action = "insert", Inserts(bLog, m.row, bLog')
        PROVE  /\ \A i \in DOMAIN bLog' :
                    \/ bThread'[bLog'[i].job].sid # 0 /\ bThread'[bLog'[i].job].sid = bLog'[i].sid
                    \/ Copied(bLog[i])'
               /\ \A i, k \in DOMAIN bLog' : bLog'[i].job = bLog'[k].job => i = k
    <3>1. /\ Copied(m.row)
          /\ \A i \in DOMAIN bLog : bLog[i].job # m.row.job
      BY <2>4 DEF IInv, Joined, MessagesAreTrue
    <3>2. m.row.job \in Jobs
      BY <2>4, InsertIsNew
    <3>3. PICK row : row = m.row
      OBVIOUS
    <3>4. Copied(row)'
      BY <3>1, <3>2, <3>3, CopiedStays DEF Moves
    <3> QED
      BY <2>2, <2>4, <3>1, <3>3, <3>4
  <2> QED
    BY <2>1, <2>3, <2>4, BackupLogGrows DEF Moves
<1> QED
  BY <1>1, <1>2 DEF RowsAreTaken


\* An insert on its way is still news to the backup.
LEMMA InsertsStayNew ==
  ASSUME IInv, Moves, NEW m \in replication \cap replication', m.action = "insert"
  PROVE  /\ Copied(m.row)'
         /\ \A i \in DOMAIN bLog' : bLog'[i].job # m.row.job
<1>1. /\ m.row = NewRow(m.row.sid, m.row.receipt, m.row.job)
      /\ Copied(m.row)
      /\ m.row.job \in Jobs
      /\ \A i \in DOMAIN bLog : bLog[i].job # m.row.job
  BY InsertIsNew DEF IInv, Joined, MessagesAreTrue
<1>2. Copied(m.row)'
  <2>1. PICK row : row = m.row
    OBVIOUS
  <2> QED
    BY <1>1, <2>1, CopiedStays DEF Moves
<1>3. CASE Same(bLog, bLog')
  BY <1>1, <1>2, <1>3 DEF Same, Grows
<1>4. ASSUME NEW j \in Jobs, bThread[j].pc = "inserting",
             Inserts(bLog, NewRow(bThread[j].sid, bThread[j].receipt, j), bLog')
      PROVE  \A i \in DOMAIN bLog' : bLog'[i].job # m.row.job
  <2>1. bThread[m.row.job].pc = "idle"
    BY <1>1, CopiedIsNumbered
  <2> QED
    BY <1>1, <1>4, <2>1 DEF Inserts, Grows, NewRow
<1>5. ASSUME NEW n \in replication, n.action = "insert", Inserts(bLog, n.row, bLog'),
             replication' = replication \ {n}
      PROVE  \A i \in DOMAIN bLog' : bLog'[i].job # m.row.job
  <2>1. n.row = NewRow(n.row.sid, n.row.receipt, n.row.job) /\ Copied(n.row)
    BY <1>5 DEF IInv, Joined, MessagesAreTrue
  <2>2. n.row.job = m.row.job => n.row = m.row
    BY <1>1, <2>1 DEF Copied
  <2>3. m \in P!InsertMessage /\ n \in P!InsertMessage
    BY <1>5, Typed DEF TypeOK, P!TypeOK, P!Replication, P!UpdateMessage
  <2>4. n.row = m.row => n = m
    BY <2>3 DEF P!InsertMessage
  <2> QED
    BY <1>1, <1>5, <2>2, <2>4 DEF Inserts, Grows
<1> QED
  BY <1>2, <1>3, <1>4, <1>5, BackupLogGrows DEF Moves

\* What the primary sends of a row of its own is news to the backup.
LEMMA InsertsStartNew ==
  ASSUME IInv, Moves, NEW j \in Jobs, pThread[j].pc = "replicatingInsert",
         pThread'[j].pc = "scheduling", NEW m,
         m = P!InsertOf(NewRow(pThread[j].sid, pThread[j].receipt, j)), UNCHANGED bLog
  PROVE  /\ m.action = "insert"
         /\ m.row = NewRow(m.row.sid, m.row.receipt, m.row.job)
         /\ Copied(m.row)'
         /\ \A i \in DOMAIN bLog' : bLog'[i].job # m.row.job
<1>1. /\ m.action = "insert"
      /\ m.row = NewRow(pThread[j].sid, pThread[j].receipt, j)
      /\ m.row.sid = pThread[j].sid
      /\ m.row.receipt = pThread[j].receipt
      /\ m.row.job = j
  BY DEF P!InsertOf, NewRow
<1>2. pThread'[j].sid = pThread[j].sid /\ pThread'[j].receipt = pThread[j].receipt
  BY PrimaryIdsStay DEF Moves, Unserved
<1>3. PICK k \in DOMAIN pLog : /\ pLog[k].sid = pThread[j].sid
                               /\ pLog[k].receipt = pThread[j].receipt
                               /\ pLog[k].job = j
  <2>1. ~pThread[j].unwritten
    BY ThreadsAreTyped DEF IInv, PP!IInv, PP!UnwrittenHasCause
  <2> QED
    BY <2>1 DEF IInv, PP!IInv, PP!InsertedIsLogged, PP!Inserted
<1>4. Grows(pLog, pLog')
  BY PrimaryLogGrows DEF Moves
<1>5. Copied(m.row)'
  BY <1>1, <1>2, <1>3, <1>4 DEF Copied, Grows, Unserved
<1>6. \A i \in DOMAIN bLog : bLog[i].job # j
  BY DEF IInv, Joined, RowsAreTaken, OneMaster, Copied, Unserved
<1> QED
  BY <1>1, <1>5, <1>6

\* Every message on its way stays about a row or an outcome that is there.
LEMMA MessagesAreTrueKept ==
  ASSUME IInv, Moves
  PROVE  MessagesAreTrue'
<1>1. ASSUME NEW m \in replication' \cup pUdp'
      PROVE  IF m.action = "insert"
             THEN /\ m.row = NewRow(m.row.sid, m.row.receipt, m.row.job)
                  /\ Copied(m.row)'
                  /\ \A i \in DOMAIN bLog' : bLog'[i].job # m.row.job
             ELSE Outcome(m)'
  <2>1. ASSUME m \in P!UpdateMessage, Outcome(m) PROVE m.action # "insert" /\ Outcome(m)'
    BY <2>1, OutcomeStays DEF Moves, P!UpdateMessage
  <2>2. CASE m \in pUdp
    <3>1. m \in P!UpdateMessage
      BY <2>2, Typed DEF TypeOK, P!TypeOK
    <3>2. Outcome(m)
      BY <2>2, <3>1 DEF IInv, Joined, MessagesAreTrue, P!UpdateMessage
    <3> QED
      BY <2>1, <3>1, <3>2
  <2>3. CASE m \in pUdp' \ pUdp
    BY <2>1, <2>3 DEF Moves, ReplicationMoves
  <2>4. CASE m \in replication' \ replication
    <3>1. CASE m \in P!UpdateMessage /\ Outcome(m)
      BY <2>1, <3>1
    <3>2. ASSUME NEW j \in Jobs,
                 /\ pThread[j].pc = "replicatingInsert"
                 /\ pThread'[j].pc = "scheduling"
                 /\ m = P!InsertOf(NewRow(pThread[j].sid, pThread[j].receipt, j))
                 /\ UNCHANGED bLog
          PROVE  IF m.action = "insert"
                 THEN /\ m.row = NewRow(m.row.sid, m.row.receipt, m.row.job)
                      /\ Copied(m.row)'
                      /\ \A i \in DOMAIN bLog' : bLog'[i].job # m.row.job
                 ELSE Outcome(m)'
      BY <3>2, InsertsStartNew
    <3> QED
      BY <2>4, <3>1, <3>2 DEF Moves, ReplicationMoves
  <2>5. CASE m \in replication \cap replication' /\ m.action = "insert"
    BY <2>5, InsertsStayNew DEF IInv, Joined, MessagesAreTrue
  <2>6. CASE m \in replication \cap replication' /\ m.action # "insert"
    BY <2>6, OutcomeStays DEF Moves, IInv, Joined, MessagesAreTrue
  <2> QED
    BY <2>2, <2>3, <2>4, <2>5, <2>6
<1>2. ASSUME NEW m \in results' PROVE Output(m.response, m.sid)'
  <2>1. Output(m.response, m.sid)
    <3>1. CASE m \in results
      BY <3>1 DEF IInv, Joined, MessagesAreTrue
    <3>2. CASE m \in results' \ results
      <4>1. PICK r \in Runs : /\ run[r].pc = "publishing"
                              /\ m.sid = run[r].sid
                              /\ m.response = N!ResponseOf(r)
        BY <3>2 DEF Moves, ResultsMove
      <4>2. run[r].kind \in RunKinds
        BY <4>1 DEF IInv, Joined, RunsAreTaken
      <4> QED
        BY <4>1, <4>2 DEF Output
    <3> QED
      BY <3>1, <3>2
  <2> QED
    BY <2>1, OutputStays DEF Moves
<1> QED
  BY <1>1, <1>2 DEF MessagesAreTrue

\* A thread's text stays the text of a run of its own.
LEMMA ThreadsHoldOwnKept ==
  ASSUME IInv, Moves
  PROVE  ThreadsHoldOwn'
<1>1. ASSUME NEW t, NEW u, NEW caller,
             t.pc \in Settled => t.response # Pending,
             t.response \in {Pending, Fatal} \/ OwnOutput(t.response, caller),
             u = t \/ Learned(t, u, caller)
      PROVE  /\ u.pc \in Settled => u.response # Pending
             /\ u.response \in {Pending, Fatal} \/ OwnOutput(u.response, caller)
             /\ u.response \in {Pending, Fatal} \/ OwnOutput(u.response, caller)'
  <2>1. /\ u.pc \in Settled => u.response # Pending
        /\ u.response \in {Pending, Fatal} \/ OwnOutput(u.response, caller)
    BY <1>1, OutputIsComputed DEF Learned, OwnOutput, Pending, Fatal
  <2>2. OwnOutput(u.response, caller) => OwnOutput(u.response, caller)'
    BY OutputStays DEF Moves
  <2> QED
    BY <2>1, <2>2
<1>2. ASSUME NEW j \in Jobs
      PROVE  /\ pThread'[j].pc \in Settled => pThread'[j].response # Pending
             /\ pThread'[j].response \in {Pending, Fatal}
                  \/ OwnOutput(pThread[j].response, <<"primary", j>>)'
  <2>1. \/ pThread'[j] = pThread[j]
        \/ /\ pThread'[j].pc \in {"inserting", "rejected"}
           /\ pThread'[j].response = pThread[j].response
        \/ Learned(pThread[j], pThread'[j], <<"primary", j>>)
    BY DEF Moves, RequestsMove, PrimaryTakes, BackupTakes, PrimaryRefuses, BackupRefuses, IdsStay,
      PrimaryThreadMoves, pVars
  <2>2. pThread'[j] = pThread[j] \/ Learned(pThread[j], pThread'[j], <<"primary", j>>)
    BY <2>1 DEF Learned, Settled
  <2>3. PICK t, u : t = pThread[j] /\ u = pThread'[j]
    OBVIOUS
  <2>4. /\ t.pc \in Settled => t.response # Pending
        /\ t.response \in {Pending, Fatal} \/ OwnOutput(t.response, <<"primary", j>>)
        /\ u = t \/ Learned(t, u, <<"primary", j>>)
    BY <2>2, <2>3 DEF IInv, Joined, ThreadsHoldOwn
  <2>5. /\ u.pc \in Settled => u.response # Pending
        /\ u.response \in {Pending, Fatal} \/ OwnOutput(u.response, <<"primary", j>>)'
    BY <1>1, <2>4
  <2> QED
    BY <2>3, <2>5 DEF OwnOutput
<1>3. ASSUME NEW j \in Jobs
      PROVE  /\ bThread'[j].pc \in Settled => bThread'[j].response # Pending
             /\ bThread'[j].response \in {Pending, Fatal}
                  \/ OwnOutput(bThread[j].response, <<"backup", j>>)'
  <2>1. \/ bThread'[j] = bThread[j]
        \/ /\ bThread'[j].pc \in {"inserting", "rejected", "probing", "standby", "gone"}
           /\ bThread'[j].response = bThread[j].response
        \/ Learned(bThread[j], bThread'[j], <<"backup", j>>)
    BY DEF Moves, RequestsMove, PrimaryTakes, BackupTakes, PrimaryRefuses, BackupRefuses, IdsStay,
      BackupThreadMoves, bVars
  <2>2. bThread'[j] = bThread[j] \/ Learned(bThread[j], bThread'[j], <<"backup", j>>)
    BY <2>1 DEF Learned, Settled
  <2>3. PICK t, u : t = bThread[j] /\ u = bThread'[j]
    OBVIOUS
  <2>4. /\ t.pc \in Settled => t.response # Pending
        /\ t.response \in {Pending, Fatal} \/ OwnOutput(t.response, <<"backup", j>>)
        /\ u = t \/ Learned(t, u, <<"backup", j>>)
    BY <2>2, <2>3 DEF IInv, Joined, ThreadsHoldOwn
  <2>5. /\ u.pc \in Settled => u.response # Pending
        /\ u.response \in {Pending, Fatal} \/ OwnOutput(u.response, <<"backup", j>>)'
    BY <1>1, <2>4
  <2> QED
    BY <2>3, <2>5 DEF OwnOutput
<1> QED
  BY <1>2, <1>3 DEF ThreadsHoldOwn, OwnOutput

\* A call is made for a request that was taken.
LEMMA CallsAreOfTaken ==
  ASSUME IInv, NEW caller, NEW sid, NEW job, Calls(caller, sid, job)
  PROVE  /\ job \in Taken
         /\ sid = TakenAs(job)
         /\ caller # <<"recovery">> => caller[2] = job
<1>1. CASE caller = <<"recovery">>
  BY <1>1, RowsAreNumbered DEF Calls
<1>2. CASE caller # <<"recovery">>
  BY <1>2 DEF Calls, IInv, Joined, OneMaster, Taken, TakenAs, Unserved
<1> QED
  BY <1>1, <1>2

\* Every run stays one for a job that was taken, under its id.
LEMMA RunsAreTakenKept ==
  ASSUME IInv, Moves
  PROVE  RunsAreTaken'
<1>1. \A j \in Taken : j \in Taken' /\ TakenAs(j)' = TakenAs(j)
  BY TakenStays DEF Moves
<1> SUFFICES ASSUME NEW r \in Runs
             PROVE  IF run'[r].pc = "unused" THEN run'[r] = N!Unused
                    ELSE /\ run'[r].caller \in Callers
                         /\ run'[r].job \in Taken'
                         /\ run'[r].sid = TakenAs(run[r].job)'
                         /\ run'[r].caller # <<"recovery">> => run'[r].caller[2] = run'[r].job
                         /\ run'[r].connection = "answered"
                              \/ run'[r].pc \in {"answering", "publishing", "done"}
                              => run'[r].kind \in RunKinds
                         /\ run'[r].pc = "executing" => run'[r].kind = "PENDING"
  BY DEF RunsAreTaken
<1>2. RunMoves(r)
  BY DEF Moves, RunsMove
<1>3. ASSUME NEW j \in Taken, run'[r].job = j PROVE TakenAs(run[r].job)' = TakenAs(j)
  BY <1>1, <1>3 DEF TakenAs
<1>4. CASE run[r].pc = "unused" /\ run'[r] # run[r]
  <2>1. PICK caller \in Callers, n \in Nodes, sid \in Nat, job \in Jobs :
          /\ Calls(caller, sid, job)
          /\ run'[r] = [pc |-> "executing", node |-> n, sid |-> sid, job |-> job,
                        caller |-> caller, kind |-> "PENDING", connection |-> "open"]
    BY <1>2, <1>4 DEF RunMoves
  <2>2. /\ job \in Taken
        /\ sid = TakenAs(job)
        /\ caller # <<"recovery">> => caller[2] = job
    BY <2>1, CallsAreOfTaken
  <2> QED
    BY <1>1, <1>3, <2>1, <2>2
<1>5. CASE run'[r] = run[r]
  BY <1>1, <1>3, <1>5 DEF IInv, Joined, RunsAreTaken
<1>6. CASE run[r].pc # "unused" /\ run'[r] # run[r]
  BY <1>1, <1>2, <1>3, <1>6 DEF RunMoves, IInv, Joined, RunsAreTaken
<1> QED
  BY <1>4, <1>5, <1>6


\* The nodes' variables keep their types.
LEMMA NodeTypesKept ==
  ASSUME IInv, [Next]_vars
  PROVE  N!TypeOK'
<1>1. /\ nodeUp \subseteq Nodes
      /\ nodeRestarts \in Nat
      /\ run \in [Runs -> N!Run]
      /\ results \subseteq N!Result
  BY DEF IInv, Joined, N!TypeOK
<1>2. ASSUME NEW rs, N!Hangup(rs), UNCHANGED <<nodeUp, nodeRestarts, results>>
      PROVE  N!TypeOK'
  <2>1. \A r \in Runs : [run[r] EXCEPT !.connection = "closed"] \in N!Run
    BY <1>1 DEF N!Run
  <2> QED
    BY <1>1, <1>2, <2>1 DEF N!Hangup, N!TypeOK
<1>13. ASSUME NEW caller, NEW target, Failed(caller, target) PROVE N!TypeOK'
  <2>1. CASE UNCHANGED run
    BY <1>1, <1>13, <2>1 DEF Failed, N!TypeOK
  <2>2. ASSUME NEW r, N!Hangup({r}) PROVE N!TypeOK'
    BY <1>2, <1>13, <2>2 DEF Failed
  <2>3. ASSUME NEW r \in OpenRuns(caller), N!Break(r) PROVE N!TypeOK'
    <3>1. r \in Runs /\ [run[r] EXCEPT !.connection = "broken"] \in N!Run
      BY <1>1 DEF OpenRuns, N!Run
    <3>2. run' = [run EXCEPT ![r] = [run[r] EXCEPT !.connection = "broken"]]
      BY <2>3 DEF N!Break
    <3> QED
      BY <1>1, <1>13, <3>1, <3>2 DEF Failed, N!TypeOK
  <2> QED
    BY <1>13, <2>1, <2>2, <2>3 DEF Failed
<1>3. ASSUME NEW caller \in Callers, NEW target, NEW sid \in Nat, NEW job \in Jobs,
             Connect(caller, target, sid, job)
      PROVE  N!TypeOK'
  <2>1. PICK r \in Runs : N!Start(r, caller, target, sid, job)
    BY <1>3 DEF Connect
  <2>2. [pc |-> "executing", node |-> target, sid |-> sid, job |-> job, caller |-> caller,
         kind |-> "PENDING", connection |-> "open"] \in N!Run
    BY <1>1, <2>1 DEF N!Start, N!Run
  <2> QED
    BY <1>1, <2>1, <2>2 DEF N!Start, N!TypeOK
<1>4. ASSUME NEW j \in Jobs, PrimaryCalls(j) PROVE N!TypeOK'
  <2>1. <<"primary", j>> \in Callers /\ pThread[j].sid \in Nat
    BY ThreadsAreTyped DEF Callers
  <2> QED
    BY <1>2, <1>3, <1>4, <1>13, <2>1 DEF PrimaryCalls, Answered
<1>5. ASSUME NEW j \in Jobs, BackupCalls(j) PROVE N!TypeOK'
  <2>1. <<"backup", j>> \in Callers /\ bThread[j].sid \in Nat
    BY ThreadsAreTyped DEF Callers
  <2> QED
    BY <1>2, <1>3, <1>5, <1>13, <2>1 DEF BackupCalls, Answered
<1>6. CASE RecoveryCalls
  <2>1. <<"recovery">> \in Callers /\ Recorded.sid \in Nat /\ Recorded.job \in Jobs
    BY <1>6, RecoveryRow DEF RecoveryCalls, Callers, Row
  <2> QED
    BY <1>2, <1>3, <1>6, <1>13, <2>1 DEF RecoveryCalls, Answered, Recorded
<1>7. CASE NodeStep
  <2>1. PICK r \in Runs : \/ \E kind \in RunKinds : N!Finish(r, kind)
                          \/ N!Answer(r)
                          \/ N!Publish(r)
    BY <1>7 DEF NodeStep
  <2>2. CASE \E kind \in RunKinds : N!Finish(r, kind)
    <3>1. PICK kind \in RunKinds : N!Finish(r, kind)
      BY <2>2
    <3>2. [run[r] EXCEPT !.pc = "answering", !.kind = kind] \in N!Run
      BY <1>1, RunsAssumption DEF N!Run
    <3>3. run' = [run EXCEPT ![r] = [run[r] EXCEPT !.pc = "answering", !.kind = kind]]
      BY <3>1 DEF N!Finish
    <3> QED
      BY <1>1, <3>1, <3>2, <3>3 DEF N!Finish, N!TypeOK
  <2>3. CASE N!Answer(r)
    <3>1. PICK c \in {"closed", "open", "answered", "broken"} :
            run' = [run EXCEPT ![r] = [run[r] EXCEPT !.pc = "publishing", !.connection = c]]
      BY <1>1, <2>3 DEF N!Answer, N!Run
    <3>2. [run[r] EXCEPT !.pc = "publishing", !.connection = c] \in N!Run
      BY <1>1 DEF N!Run
    <3> QED
      BY <1>1, <2>3, <3>1, <3>2 DEF N!Answer, N!TypeOK
  <2>4. CASE N!Publish(r)
    <3>1. run[r].kind \in RunKinds
      BY <2>4 DEF N!Publish, IInv, Joined, RunsAreTaken
    <3>2. N!ResponseOf(r) \in N!Computed /\ run[r].sid \in Nat
      BY <1>1, <3>1, OutputIsComputed, Vocabulary DEF N!Run
    <3>3. results' \subseteq N!Result
      BY <1>1, <2>4, <3>2 DEF N!Publish, N!Result
    <3>4. run' \in [Runs -> N!Run]
      BY <1>1, <2>4 DEF N!Publish, N!Run
    <3> QED
      BY <1>1, <2>4, <3>3, <3>4 DEF N!Publish, N!TypeOK
  <2> QED
    BY <2>1, <2>2, <2>3, <2>4
<1>8. CASE Crash
  <2>1. ASSUME NEW n \in Nodes, N!Crash(n) PROVE N!TypeOK'
    <3>1. \A r \in Runs : [run[r] EXCEPT !.pc = "lost"] \in N!Run
      BY <1>1 DEF N!Run
    <3> QED
      BY <1>1, <2>1, <3>1 DEF N!Crash, N!TypeOK
  <2> QED
    BY <1>2, <1>8, <2>1 DEF Crash, PrimaryCrash, BackupCrash
<1>9. CASE UNCHANGED nVars
  BY <1>1, <1>9 DEF nVars, N!TypeOK
<1>10. ASSUME NEW m \in results, TakeResult(m) PROVE N!TypeOK'
  BY <1>1, <1>10 DEF TakeResult, N!TypeOK
<1>11. ASSUME NEW m \in replication, ReplicaArrives(m) PROVE UNCHANGED nVars
  BY <1>11 DEF ReplicaArrives
<1>12. CASE Restart
  BY <1>1, <1>9, <1>12 DEF Restart, N!Restart, N!TypeOK
<1> QED
  BY <1>4, <1>5, <1>6, <1>7, <1>8, <1>9, <1>10, <1>11, <1>12 DEF Next, Submit, FallBack, PrimaryStep,
    BackupStep, RecoveryStep, MonitorStep, ReplicateResult, Heartbeat, Evict, vars

\* The run's call neither ends nor comes back to life.
QuietRun(r) ==
  /\ IsOpen(r)' <=> IsOpen(r)
  /\ run'[r].connection = "closed" => run[r].connection = "closed"
  /\ run[r].connection = "broken" => run'[r].connection = "broken"
  /\ run[r].pc = "lost" => run'[r].pc = "lost"

\* The calls of a thread stay apart when none of them is opened or closed and
\* the thread does not leave a call, nor comes back to where it may call.
LEMMA QuietCalls ==
  ASSUME CallsAreApart, NEW caller \in RequestCallers,
         \A r \in Runs : /\ run'[r].caller = caller <=> run[r].caller = caller
                         /\ run[r].caller = caller => QuietRun(r),
         \/ PcOf(caller)' = PcOf(caller)
         \/ /\ PcOf(caller) # "calling"
            /\ PcOf(caller)' \in Early => PcOf(caller) \in Early
  PROVE  Apart(caller)'
<1>1. OpenRuns(caller)' = OpenRuns(caller)
  BY DEF OpenRuns, QuietRun
<1>2. Heard(caller)' \subseteq Heard(caller)
  BY DEF Heard, QuietRun
<1> QED
  BY <1>1, <1>2 DEF CallsAreApart, Apart, Early, QuietRun

\* A step that neither starts nor ends a call nor brings a lost run back
\* keeps the calls apart.
LEMMA CallsQuiet ==
  ASSUME CallsAreApart,
         \A caller \in RequestCallers :
           /\ \A r \in Runs : /\ run'[r].caller = caller <=> run[r].caller = caller
                              /\ run[r].caller = caller => QuietRun(r)
           /\ \/ PcOf(caller)' = PcOf(caller)
              \/ /\ PcOf(caller) # "calling"
                 /\ PcOf(caller)' \in Early => PcOf(caller) \in Early
  PROVE  CallsAreApart'
BY QuietCalls DEF CallsAreApart

\* A run that does not change is quiet.
LEMMA SameIsQuiet ==
  ASSUME NEW r, run'[r] = run[r]
  PROVE  QuietRun(r)
BY DEF QuietRun, IsOpen

\* A call is made, returns or fails.
LEMMA CallsMoveApart ==
  ASSUME IInv, NEW caller \in RequestCallers, PcOf(caller) = "calling",
         \A c \in RequestCallers \ {caller} : PcOf(c)' = PcOf(c),
         \/ /\ \E target, sid, job : Connect(caller, target, sid, job)
            /\ PcOf(caller)' = "calling"
         \/ /\ \E r \in Runs : Answered(caller, r)
            /\ PcOf(caller)' = "logging"
         \/ /\ \E target : Failed(caller, target)
            /\ PcOf(caller)' \in {"scheduling", "logging"}
  PROVE  CallsAreApart'
<1>1. /\ OpenRuns(caller) # {} => PcOf(caller) = "calling"
      /\ \A r, q \in OpenRuns(caller) : r = q
      /\ \A r \in Runs : run[r].caller = caller /\ run[r].connection = "closed" => run[r].pc = "lost"
      /\ \A r, q \in Heard(caller) : r = q
  BY DEF IInv, Joined, CallsAreApart, Apart, Early
<1>2. CallsAreApart
  BY DEF IInv, Joined
<1>3. \A c \in RequestCallers : c # NoNode
  BY ClusterAssumption DEF RequestCallers, Callers
<1>4. CASE /\ \E target, sid, job : Connect(caller, target, sid, job)
           /\ PcOf(caller)' = "calling"
  <2>1. PICK target, sid, job : Connect(caller, target, sid, job)
    BY <1>4
  <2>2. PICK r \in Runs : N!Start(r, caller, target, sid, job)
    BY <2>1 DEF Connect
  <2>3. /\ run[r] = N!Unused
        /\ \A q \in Runs \ {r} : run'[q] = run[q]
        /\ run'[r].caller = caller /\ run'[r].connection = "open" /\ run'[r].pc = "executing"
    BY <2>2 DEF N!Start, N!NextRun, IInv, Joined, RunsAreTaken, N!TypeOK
  <2>4. \A q \in Runs : run[q].caller = caller => run[q].connection \in {"closed", "broken"}
    BY <2>1 DEF Connect, OpenRuns, IsOpen, IInv, Joined, N!TypeOK, N!Run
  <2>5. ASSUME NEW c \in RequestCallers \ {caller}, NEW q \in Runs
        PROVE  /\ run'[q].caller = c <=> run[q].caller = c
               /\ run[q].caller = c => run'[q] = run[q]
    BY <1>3, <2>3 DEF N!Unused
  <2>6. ASSUME NEW c \in RequestCallers \ {caller} PROVE Apart(c)'
    BY <1>2, <2>5, QuietCalls, SameIsQuiet
  <2>7. OpenRuns(caller)' = {r}
    BY <2>3, <2>4 DEF OpenRuns, IsOpen
  <2>8. Heard(caller)' = {r}
    BY <1>1, <2>3, <2>4 DEF Heard
  <2>9. \A q \in Runs : run'[q].caller = caller /\ run'[q].connection = "closed" => run'[q].pc = "lost"
    BY <1>1, <2>3
  <2> QED
    BY <1>4, <2>6, <2>7, <2>8, <2>9 DEF CallsAreApart, Apart
<1>5. ASSUME NEW rs, OpenRuns(caller) = rs,
             \A q \in Runs \ rs : run'[q] = run[q],
             \A q \in rs : /\ run'[q].caller = run[q].caller
                           /\ run'[q].pc = run[q].pc
                           /\ \/ run'[q].connection = "broken"
                              \/ run'[q].connection = "closed" /\ run[q].pc = "lost"
                              \/ run'[q].connection = "closed" /\ PcOf(caller)' \notin Early,
             PcOf(caller)' # "calling"
      PROVE  CallsAreApart'
  <2>1. \A q \in rs : q \in Runs /\ run[q].caller = caller /\ IsOpen(q)
    BY <1>5 DEF OpenRuns
  <2>2. ASSUME NEW c \in RequestCallers \ {caller} PROVE Apart(c)'
    <3>1. \A q \in Runs : /\ run'[q].caller = c <=> run[q].caller = c
                          /\ run[q].caller = c => run'[q] = run[q]
      BY <1>5, <2>1
    <3> QED
      BY <1>2, <3>1, QuietCalls, SameIsQuiet
  <2>3. OpenRuns(caller)' = {}
    BY <1>5 DEF OpenRuns, IsOpen
  <2>4. Heard(caller)' \subseteq Heard(caller)
    BY <1>5, <2>1 DEF Heard, IsOpen
  <2>5. PcOf(caller)' \in Early =>
          \A q \in Runs : run'[q].caller = caller /\ run'[q].connection = "closed" => run'[q].pc = "lost"
    BY <1>1, <1>5
  <2> QED
    BY <1>1, <2>2, <2>3, <2>4, <2>5 DEF CallsAreApart, Apart
<1>6. run \in [Runs -> N!Run]
  BY DEF IInv, Joined, N!TypeOK
<1>7. ASSUME NEW r \in OpenRuns(caller), N!Hangup({r}) \/ N!Break(r)
      PROVE  /\ r \in Runs
             /\ OpenRuns(caller) = {r}
             /\ \A q \in Runs \ {r} : run'[q] = run[q]
             /\ run'[r].caller = run[r].caller
             /\ run'[r].pc = run[r].pc
             /\ run'[r].connection = IF N!Break(r) THEN "broken" ELSE "closed"
  BY <1>1, <1>6, <1>7 DEF OpenRuns, N!Hangup, N!Break, N!Run
<1>8. CASE /\ \E r \in Runs : Answered(caller, r)
           /\ PcOf(caller)' = "logging"
  BY <1>5, <1>7, <1>8 DEF Answered, Early
<1>9. CASE /\ \E target : Failed(caller, target)
           /\ PcOf(caller)' \in {"scheduling", "logging"}
  <2>1. PICK target : Failed(caller, target)
    BY <1>9
  <2>2. CASE OpenRuns(caller) = {} /\ UNCHANGED run
    BY <1>5, <1>9, <2>2
  <2>3. ASSUME NEW r \in OpenRuns(caller), run[r].pc = "lost", N!Hangup({r})
        PROVE  CallsAreApart'
    BY <1>5, <1>7, <1>9, <2>3
  <2>4. ASSUME NEW r \in OpenRuns(caller), N!Break(r)
        PROVE  CallsAreApart'
    BY <1>5, <1>7, <1>9, <2>4
  <2> QED
    BY <2>1, <2>2, <2>3, <2>4 DEF Failed
<1> QED
  BY <1>4, <1>8, <1>9

\* A step of one thread that neither is in a call nor comes back to where it
\* may call, or of none.
LEMMA ThreadsQuiet ==
  ASSUME IInv, UNCHANGED run,
         \A j \in Jobs :
           /\ \/ pThread'[j].pc = pThread[j].pc
              \/ pThread[j].pc # "calling" /\ (pThread'[j].pc \in Early => pThread[j].pc \in Early)
           /\ \/ bThread'[j].pc = bThread[j].pc
              \/ bThread[j].pc # "calling" /\ (bThread'[j].pc \in Early => bThread[j].pc \in Early)
  PROVE  CallsAreApart'
<1>1. \A caller \in RequestCallers :
        \/ PcOf(caller)' = PcOf(caller)
        \/ /\ PcOf(caller) # "calling"
           /\ PcOf(caller)' \in Early => PcOf(caller) \in Early
  BY DEF RequestCallers, PcOf
<1> QED
  BY <1>1, CallsQuiet, SameIsQuiet DEF IInv, Joined

\* The steps of the request threads that are no calls.
LEMMA RequestCallsApart ==
  ASSUME IInv, NEW j \in Jobs,
         Submit(j) \/ FallBack(j) \/ PrimaryStep(j) \/ BackupStep(j)
  PROVE  CallsAreApart'
<1>1. /\ \A k \in Jobs : pThread[k] \in P!Thread /\ bThread[k] \in B!Request
      /\ pThread \in [Jobs -> P!Thread]
      /\ bThread \in [Jobs -> B!Request]
  BY ThreadsAreTyped
<1>2. UNCHANGED run
  BY DEF Submit, FallBack, PrimaryStep, BackupStep, nVars
<1>3. CASE Submit(j) \/ PrimaryStep(j)
  <2>1. \A k \in Jobs \ {j} : pThread'[k] = pThread[k]
    BY <1>1, <1>3 DEF Submit, PrimaryStep, P!Accept, P!Reject, P!Insert, P!ReplicateInsert, P!Reserve,
      P!ReserveNone, P!LogOutcome, P!ReplicateOutcome, P!Reply, P!Goto, P!Retry
  <2>2. pThread[j].pc # "calling" /\ (pThread'[j].pc \in Early => pThread[j].pc \in Early)
    BY <1>1, <1>3 DEF Submit, PrimaryStep, P!Accept, P!Reject, P!Insert, P!ReplicateInsert, P!Reserve,
      P!ReserveNone, P!LogOutcome, P!ReplicateOutcome, P!Reply, P!Goto, P!Retry, Early, P!Thread
  <2>3. UNCHANGED bThread
    BY <1>3 DEF Submit, PrimaryStep, bVars
  <2> QED
    BY <1>2, <2>1, <2>2, <2>3, ThreadsQuiet
<1>4. CASE FallBack(j) \/ BackupStep(j)
  <2>1. \A k \in Jobs \ {j} : bThread'[k] = bThread[k]
    BY <1>1, <1>4 DEF FallBack, BackupStep, B!Accept, B!Reject, B!Admit, B!StartProbe,
      B!ProbeReturns, B!ProbeRejects, B!Insert, B!Reserve, B!ReserveNone, B!LogOutcome, B!Reply, B!Goto, B!Retry
  <2>2. bThread[j].pc # "calling" /\ (bThread'[j].pc \in Early => bThread[j].pc \in Early)
    <3>1. CASE FallBack(j)
      BY <1>1, <3>1 DEF FallBack, B!Accept, B!Reject, B!Admit, B!StartProbe, B!Goto, Early, B!Request
    <3>2. CASE (\E reachable \in BOOLEAN : B!ProbeReturns(j, reachable)) \/ B!ProbeRejects(j)
      BY <1>1, <3>2 DEF B!ProbeReturns, B!ProbeRejects, B!Admit, B!Goto, Early, B!Request
    <3>3. CASE B!Insert(j) \/ \E n \in Nodes : B!Reserve(j, n)
      BY <1>1, <3>3 DEF B!Insert, B!Reserve, B!Goto, Early, B!Request
    <3>4. CASE B!ReserveNone(j) \/ B!LogOutcome(j) \/ B!Reply(j)
      BY <1>1, <3>4 DEF B!ReserveNone, B!LogOutcome, B!Reply, B!Goto, B!Retry, Early, B!Request
    <3> QED
      BY <1>4, <3>1, <3>2, <3>3, <3>4 DEF BackupStep
  <2>3. UNCHANGED pThread
    BY <1>4 DEF FallBack, BackupStep, pVars
  <2> QED
    BY <1>2, <2>1, <2>2, <2>3, ThreadsQuiet
<1> QED
  BY <1>3, <1>4

\* The calls: a thread makes the next one only after it lost the run before.
LEMMA ForwardCallsApart ==
  ASSUME IInv, NEW j \in Jobs, PrimaryCalls(j) \/ BackupCalls(j)
  PROVE  CallsAreApart'
<1>1. /\ pThread \in [Jobs -> P!Thread]
      /\ bThread \in [Jobs -> B!Request]
  BY ThreadsAreTyped
<1>2. CASE PrimaryCalls(j)
  <2> DEFINE caller == <<"primary", j>>
  <2>1. caller \in RequestCallers /\ PcOf(caller) = "calling"
    BY <1>2 DEF RequestCallers, PcOf, PrimaryCalls
  <2>2. UNCHANGED bThread /\ \A k \in Jobs \ {j} : pThread'[k] = pThread[k]
    BY <1>1, <1>2 DEF PrimaryCalls, Connect, P!ForwardReturns, P!ForwardFails, P!Retry, pVars, bVars
  <2>3. \A c \in RequestCallers \ {caller} : PcOf(c)' = PcOf(c)
    BY <2>2 DEF RequestCallers, PcOf
  <2>4. \/ /\ Connect(caller, pThread[j].target, pThread[j].sid, j)
           /\ pThread'[j].pc = "calling"
        \/ /\ \E r \in Runs : Answered(caller, r)
           /\ pThread'[j].pc = "logging"
        \/ /\ Failed(caller, pThread[j].target)
           /\ pThread'[j].pc \in {"scheduling", "logging"}
    BY <1>1, <1>2 DEF PrimaryCalls, Connect, P!ForwardReturns, P!ForwardFails, P!Retry, pVars, P!Thread
  <2>5. PcOf(caller)' = pThread'[j].pc
    BY DEF PcOf
  <2> HIDE DEF caller
  <2> QED
    BY <2>1, <2>3, <2>4, <2>5, CallsMoveApart
<1>3. CASE BackupCalls(j)
  <2> DEFINE caller == <<"backup", j>>
  <2>1. caller \in RequestCallers /\ PcOf(caller) = "calling"
    BY <1>3 DEF RequestCallers, PcOf, BackupCalls
  <2>2. UNCHANGED pThread /\ \A k \in Jobs \ {j} : bThread'[k] = bThread[k]
    BY <1>1, <1>3 DEF BackupCalls, Connect, B!ForwardReturns, B!ForwardFails, B!Retry, pVars, bVars
  <2>3. \A c \in RequestCallers \ {caller} : PcOf(c)' = PcOf(c)
    BY <2>2 DEF RequestCallers, PcOf
  <2>4. \/ /\ Connect(caller, bThread[j].target, bThread[j].sid, j)
           /\ bThread'[j].pc = "calling"
        \/ /\ \E r \in Runs : Answered(caller, r)
           /\ bThread'[j].pc = "logging"
        \/ /\ Failed(caller, bThread[j].target)
           /\ bThread'[j].pc \in {"scheduling", "logging"}
    BY <1>1, <1>3 DEF BackupCalls, Connect, B!ForwardReturns, B!ForwardFails, B!Retry, bVars, B!Request
  <2>5. PcOf(caller)' = bThread'[j].pc
    BY DEF PcOf
  <2> HIDE DEF caller
  <2> QED
    BY <2>1, <2>3, <2>4, <2>5, CallsMoveApart
<1> QED
  BY <1>2, <1>3


\* The recovery thread's calls are not the requests'.
LEMMA RecoveryCallsApart ==
  ASSUME IInv, RecoveryCalls
  PROVE  CallsAreApart'
<1>1. \A c \in RequestCallers : c # NoNode /\ c # <<"recovery">>
  BY ClusterAssumption DEF RequestCallers, Callers
<1>2. UNCHANGED <<pThread, bThread>>
  BY DEF RecoveryCalls, Connect, B!ReplayReturns, B!ReplayFails, pVars, bVars
<1>3. \A c \in RequestCallers : PcOf(c)' = PcOf(c)
  BY <1>2 DEF PcOf
<1>4. \A r \in Runs : \/ run'[r] = run[r]
                      \/ /\ run[r].caller = <<"recovery">>
                         /\ run'[r].caller = <<"recovery">>
                      \/ /\ run[r].caller = NoNode
                         /\ run'[r].caller = <<"recovery">>
  <2>1. ASSUME NEW target, NEW sid, NEW job, NEW r \in Runs,
               N!Start(r, <<"recovery">>, target, sid, job)
        PROVE  /\ run[r].caller = NoNode
               /\ run'[r].caller = <<"recovery">>
               /\ \A q \in Runs \ {r} : run'[q] = run[q]
    BY <2>1 DEF N!Start, N!NextRun, N!Unused, IInv, Joined, RunsAreTaken, N!TypeOK
  <2>2. ASSUME NEW rs, rs \subseteq OpenRuns(<<"recovery">>), N!Hangup(rs)
        PROVE  \A r \in Runs : \/ run'[r] = run[r]
                               \/ /\ run[r].caller = <<"recovery">>
                                  /\ run'[r].caller = <<"recovery">>
    BY <2>2 DEF N!Hangup, OpenRuns, IInv, Joined, N!TypeOK, N!Run
  <2>3. ASSUME NEW r \in Runs, Answered(<<"recovery">>, r)
        PROVE  \E rs : rs \subseteq OpenRuns(<<"recovery">>) /\ N!Hangup(rs)
    BY <2>3 DEF Answered
  <2>4. ASSUME NEW target, Failed(<<"recovery">>, target)
        PROVE  \/ UNCHANGED run
               \/ \E rs : rs \subseteq OpenRuns(<<"recovery">>) /\ N!Hangup(rs)
               \/ \E r \in OpenRuns(<<"recovery">>) : N!Break(r)
    BY <2>4 DEF Failed
  <2>5. ASSUME NEW q \in OpenRuns(<<"recovery">>), N!Break(q)
        PROVE  \A r \in Runs : \/ run'[r] = run[r]
                               \/ /\ run[r].caller = <<"recovery">>
                                  /\ run'[r].caller = <<"recovery">>
    BY <2>5 DEF N!Break, OpenRuns, IInv, Joined, N!TypeOK, N!Run
  <2> QED
    BY <2>1, <2>2, <2>3, <2>4, <2>5 DEF RecoveryCalls, Connect
<1>5. \A c \in RequestCallers : \A r \in Runs :
        /\ run'[r].caller = c <=> run[r].caller = c
        /\ run[r].caller = c => run'[r] = run[r]
  BY <1>1, <1>4
<1> QED
  BY <1>3, <1>5, CallsQuiet, SameIsQuiet DEF IInv, Joined

\* What happens on the nodes.
LEMMA NodeCallsApart ==
  ASSUME IInv, NodeStep \/ (\E n \in Nodes : N!Crash(n)), UNCHANGED <<pThread, bThread>>
  PROVE  CallsAreApart'
<1>1. run \in [Runs -> N!Run]
  BY DEF IInv, Joined, N!TypeOK
<1>2. \A c \in RequestCallers : PcOf(c)' = PcOf(c)
  BY DEF PcOf
<1>3. \A r \in Runs : run'[r].caller = run[r].caller /\ QuietRun(r)
  <2>1. CASE NodeStep
    <3>1. PICK r \in Runs : \/ \E kind \in RunKinds : N!Finish(r, kind)
                            \/ N!Answer(r)
                            \/ N!Publish(r)
      BY <2>1 DEF NodeStep
    <3>2. \A q \in Runs \ {r} : run'[q] = run[q]
      BY <1>1, <3>1 DEF N!Finish, N!Answer, N!Publish
    <3>3. run'[r].caller = run[r].caller /\ QuietRun(r)
      BY <1>1, <3>1 DEF N!Finish, N!Answer, N!Publish, N!Run, QuietRun, IsOpen
    <3> QED
      BY <3>2, <3>3, SameIsQuiet
  <2>2. CASE \E n \in Nodes : N!Crash(n)
    BY <1>1, <2>2 DEF N!Crash, N!Run, QuietRun, IsOpen
  <2> QED
    BY <2>1, <2>2
<1> QED
  BY <1>2, <1>3, CallsQuiet DEF IInv, Joined

\* A master that dies leaves its requests' runs closed, and those threads gone
\* that had not ended.
LEMMA CrashCallsApart ==
  ASSUME IInv, PrimaryCrash \/ BackupCrash
  PROVE  CallsAreApart'
<1> DEFINE side == IF PrimaryCrash THEN "primary" ELSE "backup"
           dying == IF PrimaryCrash THEN {"primary"} ELSE {"backup", "recovery"}
<1>1. /\ side \in {"primary", "backup"}
      /\ \A c \in RequestCallers : c[1] \in dying <=> c[1] = side
      /\ \A c \in RequestCallers : c \in Callers
  BY DEF RequestCallers, Callers
<1>2. N!Hangup(RunsOfMaster(dying))
  BY DEF PrimaryCrash, BackupCrash
<1>3. \A c \in RequestCallers :
        IF c[1] = side
        THEN (PcOf(c)' = PcOf(c) /\ PcOf(c) # "calling") \/ PcOf(c)' = "gone"
        ELSE PcOf(c)' = PcOf(c)
  <2>1. PrimaryCrash => /\ UNCHANGED bThread
                        /\ \A j \in Jobs :
                             \/ pThread'[j].pc = "gone"
                             \/ pThread'[j].pc = pThread[j].pc /\ pThread[j].pc # "calling"
    BY ThreadsAreTyped DEF PrimaryCrash, P!Crash, P!Live, bVars, P!Thread
  <2>2. BackupCrash => /\ UNCHANGED pThread
                       /\ \A j \in Jobs :
                            \/ bThread'[j].pc = "gone"
                            \/ bThread'[j].pc = bThread[j].pc /\ bThread[j].pc # "calling"
    BY ThreadsAreTyped DEF BackupCrash, B!Crash, B!Live, B!Request
  <2> QED
    BY <2>1, <2>2 DEF RequestCallers, PcOf
<1> HIDE DEF side, dying
<1>4. \A r \in Runs : /\ run'[r].caller = run[r].caller
                      /\ run'[r].pc = run[r].pc
                      /\ run'[r].connection = IF r \in RunsOfMaster(dying) THEN "closed"
                                              ELSE run[r].connection
  BY <1>2 DEF N!Hangup, IInv, Joined, N!TypeOK, N!Run
<1>5. \A c \in RequestCallers : \A r \in Runs :
        run[r].caller = c => (r \in RunsOfMaster(dying) <=> c[1] = side /\ IsOpen(r))
  BY <1>1 DEF RunsOfMaster
<1> SUFFICES ASSUME NEW c \in RequestCallers PROVE Apart(c)'
  BY DEF CallsAreApart
<1>6. CASE c[1] # side
  <2>1. \A r \in Runs : run[r].caller = c => QuietRun(r)
    BY <1>4, <1>5, <1>6 DEF QuietRun, IsOpen
  <2> QED
    BY <1>3, <1>4, <1>6, <2>1, QuietCalls DEF IInv, Joined
<1>7. CASE c[1] = side
  <2>1. OpenRuns(c)' = {}
    BY <1>4, <1>5, <1>7 DEF OpenRuns, IsOpen
  <2>2. Heard(c)' \subseteq Heard(c)
    BY <1>4, <1>5, <1>7 DEF Heard, IsOpen
  <2>3. ASSUME PcOf(c)' \in Early, NEW r \in Runs, run'[r].caller = c, run'[r].connection = "closed"
        PROVE  run'[r].pc = "lost"
    <3>1. PcOf(c)' = PcOf(c) /\ PcOf(c) # "calling"
      BY <1>3, <1>7, <2>3 DEF Early
    <3>2. OpenRuns(c) = {}
      BY <3>1 DEF IInv, Joined, CallsAreApart, Apart
    <3>3. run[r].caller = c /\ run[r].connection = "closed"
      BY <1>4, <1>5, <2>3, <3>2 DEF OpenRuns
    <3> QED
      BY <1>4, <2>3, <3>1, <3>3 DEF IInv, Joined, CallsAreApart, Apart
  <2> QED
    BY <2>1, <2>2, <2>3 DEF Apart, IInv, Joined, CallsAreApart
<1> QED
  BY <1>6, <1>7

\* Every step keeps the runs of a request thread apart.
LEMMA CallsAreApartKept ==
  ASSUME IInv, [Next]_vars
  PROVE  CallsAreApart'
<1>1. ASSUME UNCHANGED <<run, pThread, bThread>> PROVE CallsAreApart'
  BY <1>1, ThreadsQuiet
<1>2. CASE UNCHANGED vars
  BY <1>1, <1>2 DEF vars, pVars, bVars, nVars
<1>3. ASSUME NEW j \in Jobs, Submit(j) \/ FallBack(j) \/ PrimaryStep(j) \/ BackupStep(j)
      PROVE  CallsAreApart'
  BY <1>3, RequestCallsApart
<1>4. ASSUME NEW j \in Jobs, PrimaryCalls(j) \/ BackupCalls(j)
      PROVE  CallsAreApart'
  BY <1>4, ForwardCallsApart
<1>5. CASE RecoveryStep
  <2>1. UNCHANGED bThread
    BY <1>5 DEF RecoveryStep, B!StartScan, B!EndScan, B!ReplayReserve, B!ReplayReserveNone,
      B!Deliver, B!Record
  <2> QED
    BY <1>1, <1>5, <2>1 DEF RecoveryStep, pVars, nVars
<1>6. CASE MonitorStep
  BY <1>1, <1>6 DEF MonitorStep, B!HealthCheck, pVars, nVars
<1>7. ASSUME NEW m \in replication, ReplicaArrives(m) PROVE CallsAreApart'
  BY <1>1, <1>7 DEF ReplicaArrives, B!ReplicaArrives, nVars
<1>8. ASSUME NEW m \in results, TakeResult(m) PROVE CallsAreApart'
  BY <1>1, <1>8 DEF TakeResult, P!ResultArrives, B!ResultArrives, pVars, bVars
<1>9. CASE ReplicateResult
  BY <1>1, <1>9 DEF ReplicateResult, P!ReplicateResult, bVars, nVars
<1>10. ASSUME NEW n \in Nodes, Heartbeat(n) \/ Evict(n) PROVE CallsAreApart'
  BY <1>1, <1>10 DEF Heartbeat, Evict, P!Heartbeat, B!Heartbeat, P!Evict, B!Evict, pVars, bVars, nVars
<1>11. CASE NodeStep
  BY <1>11, NodeCallsApart DEF NodeStep, pVars, bVars
<1>12. CASE Crash
  BY <1>12, NodeCallsApart, CrashCallsApart DEF Crash, pVars, bVars
<1>13. CASE Restart
  BY <1>1, <1>13 DEF Restart, P!Restart, B!Restart, N!Restart, pVars, bVars, nVars
<1> QED
  BY <1>2, <1>3, <1>4, <1>5, RecoveryCallsApart, <1>6, <1>7, <1>8, <1>9, <1>10, <1>11, <1>12, <1>13
    DEF Next

-----------------------------------------------------------------------------
(***************************************************************************)
(* The invariant of the cluster                                            *)
(***************************************************************************)

\* The cluster starts in the invariant.
LEMMA InitEstablishes == Init => IInv
<1> SUFFICES ASSUME Init PROVE IInv
  OBVIOUS
<1>1. \E pool \in SUBSET Nodes : P!InitWith(pool) /\ B!InitWith(pool)
  BY DEF Init
<1>2. PP!Init /\ BP!Init
  BY <1>1, PrimaryInit, BackupInit DEF P!Init, B!Init
<1>3. PP!IInv /\ BP!IInv
  BY <1>2, PP!InitInvariant, BP!InitEstablishes, PrimaryParameters, BackupParameters, RunsAssumption
<1>4. /\ pLog = <<>> /\ bLog = <<>>
      /\ pNextSid = 1001 /\ bNextSid = 1001 /\ pNextReceipt = 2001
      /\ pThread = [j \in Jobs |-> P!IdleThread]
      /\ bThread = [j \in Jobs |-> B!IdleRequest]
      /\ pUdp = {} /\ replication = {}
      /\ bConfigured = TRUE
  BY <1>1, Statements DEF P!InitWith, B!InitWith, P!NextSubmission, B!NextSubmission, NextSubmission,
    P!NextReceipt, NextReceipt
<1>5. /\ nodeUp = Nodes /\ nodeRestarts = 0 /\ results = {}
      /\ run = [r \in Runs |-> N!Unused]
  BY DEF Init, N!Init
<1>6. N!TypeOK
  BY <1>5 DEF N!TypeOK, N!Unused, N!Run
<1>7. OneMaster
  BY <1>4 DEF OneMaster, Unserved, P!IdleThread, B!IdleRequest
<1>8. Taken = {} /\ Spent = {}
  BY <1>4 DEF Spent, Refused, Taken, TakenAs, P!IdleThread, B!IdleRequest
<1>9. NumbersAreCounted /\ ReceiptsAreCounted
  BY <1>4, <1>8, FS_EmptySet, JobsAreCounted DEF NumbersAreCounted, ReceiptsAreCounted, P!IdleThread
<1>10. RowsAreTaken /\ MessagesAreTrue
  BY <1>4, <1>5 DEF RowsAreTaken, MessagesAreTrue
<1>11. ThreadsHoldOwn
  BY <1>4, Vocabulary DEF ThreadsHoldOwn, Settled, P!IdleThread, B!IdleRequest
<1>12. RunsAreTaken
  BY <1>5 DEF RunsAreTaken, N!Unused
<1>13. CallsAreApart
  <2>1. \A c \in RequestCallers : c # NoNode
    BY ClusterAssumption DEF RequestCallers, Callers
  <2>2. \A c \in RequestCallers, r \in Runs : run[r].caller # c
    BY <1>5, <2>1 DEF N!Unused
  <2> QED
    BY <2>2 DEF CallsAreApart, Apart, OpenRuns, Heard
<1> QED
  BY <1>3, <1>4, <1>6, <1>7, <1>9, <1>10, <1>11, <1>12, <1>13 DEF IInv, Joined

\* Every step of the cluster keeps the invariant.
LEMMA NextKeeps == IInv /\ [Next]_vars => IInv'
<1> SUFFICES ASSUME IInv, [Next]_vars PROVE IInv'
  OBVIOUS
<1>1. Moves
  BY StepMoves
<1>2. bConfigured' = TRUE
  BY <1>1 DEF Moves, IInv, Joined
<1> QED
  BY <1>1, <1>2, MastersKeep, NodeTypesKept, OneMasterKept, NumbersAreCountedKept,
    ReceiptsAreCountedKept, RowsAreTakenKept, MessagesAreTrueKept, ThreadsHoldOwnKept,
    RunsAreTakenKept, CallsAreApartKept
    DEF IInv, Joined

\* The inductive invariant holds of the cluster.
THEOREM Invariance == Spec => []IInv
BY InitEstablishes, NextKeeps, PTL DEF Spec

-----------------------------------------------------------------------------
(***************************************************************************)
(* What follows                                                            *)
(***************************************************************************)

\* Every variable of the cluster has its type.
THEOREM TypeCorrect == Spec => []TypeOK
BY Invariance, Typed, PTL

\* The primary does in the cluster only what its own specification allows:
\* all that is shown of the open primary holds here (master.cpp:463-556).
THEOREM PrimaryRefinement == Spec => PrimaryRefined
<1>1. Init => P!Init
  BY DEF Init, P!Init
<1>2. IInv /\ [Next]_vars => [P!Next]_(P!pVars)
  BY PrimaryStepsAlone DEF P!pVars, pVars
<1> QED
  BY <1>1, <1>2, Invariance, PTL DEF Spec, PrimaryRefined, P!Spec

\* So does the backup: it never gets a replicate request its specification
\* did not foresee (backup.cpp:655-757).
THEOREM BackupRefinement == Spec => BackupRefined
<1>1. Init => B!Init
  BY DEF Init, B!Init
<1>2. IInv /\ [Next]_vars => [B!Next]_(B!bVars)
  BY BackupStepsAlone DEF B!bVars, bVars, B!roleVars, B!idVars
<1> QED
  BY <1>1, <1>2, Invariance, PTL DEF Spec, BackupRefined, B!Spec

\* Every row of the backup that is not of a request of its own is a row of the
\* primary, and there once (master.cpp:277-287, backup.cpp:676-706).
THEOREM BackupFollows == Spec => []BackupFollowsPrimary
<1>1. IInv => BackupFollowsPrimary
  <2> SUFFICES ASSUME IInv, NEW i \in DOMAIN bLog, ~OwnRow(i)
               PROVE  /\ \E k \in DOMAIN pLog :
                           /\ bLog[i].sid = pLog[k].sid
                           /\ bLog[i].job = pLog[k].job
                           /\ bLog[i].receipt = pLog[k].receipt
                      /\ \A l \in DOMAIN bLog :
                           ~OwnRow(l) /\ bLog[i].sid = bLog[l].sid => i = l
    BY DEF BackupFollowsPrimary
  <2>1. \A l \in DOMAIN bLog : ~OwnRow(l) => Copied(bLog[l])
    BY DEF OwnRow, IInv, Joined, RowsAreTaken
  <2>2. ASSUME NEW l \in DOMAIN bLog, ~OwnRow(l), bLog[i].sid = bLog[l].sid PROVE i = l
    <3>1. PICK k \in DOMAIN pLog : pLog[k].sid = bLog[i].sid /\ pLog[k].job = bLog[i].job
      BY <2>1 DEF Copied
    <3>2. PICK q \in DOMAIN pLog : pLog[q].sid = bLog[l].sid /\ pLog[q].job = bLog[l].job
      BY <2>1, <2>2 DEF Copied
    <3>3. bLog[i].job = bLog[l].job
      BY <2>2, <3>1, <3>2 DEF IInv, PP!IInv, PP!SubmissionsUnique
    <3> QED
      BY <3>3 DEF IInv, Joined, RowsAreTaken
  <2> QED
    BY <2>1, <2>2 DEF Copied
<1> QED
  BY <1>1, Invariance, PTL

\* A master's request thread goes to a second node only when the first died
\* before it answered, or the connection to it broke (master.cpp:491-515,
\* backup.cpp:727-749, is_transport_failure).
THEOREM OneAnswer == Spec => []OneAnswerPerRequest
<1>1. IInv => OneAnswerPerRequest
  <2> SUFFICES ASSUME IInv, NEW j \in Jobs, NEW m \in {"primary", "backup"}
               PROVE  Cardinality(Heard(<<m, j>>)) <= 1
    BY DEF OneAnswerPerRequest, Heard
  <2> DEFINE answering == Heard(<<m, j>>)
  <2>1. \A r, q \in answering : r = q
    BY DEF IInv, Joined, CallsAreApart, Apart, RequestCallers
  <2>2. answering = {} \/ \E r : answering = {r}
    BY <2>1
  <2> HIDE DEF answering
  <2>3. Cardinality(answering) <= 1
    <3>1. CASE answering = {}
      <4>1. Cardinality(answering) = 0
        BY <3>1, FS_EmptySet
      <4> QED
        BY <4>1
    <3>2. CASE \E r : answering = {r}
      <4>1. PICK r : answering = {r}
        BY <3>2
      <4>2. Cardinality({r}) = 1
        BY FS_Singleton
      <4> QED
        BY <4>1, <4>2
    <3> QED
      BY <2>2, <3>1, <3>2
  <2> QED
    BY <2>3 DEF answering
<1> QED
  BY <1>1, Invariance, PTL


-----------------------------------------------------------------------------
(***************************************************************************)
(* Promotion                                                               *)
(***************************************************************************)

\* A client has turned to the backup.
Asked == \E j \in Jobs : bThread[j].pc # "idle"

\* As long as the primary has not died, a client that turns to the backup does
\* so for a fault, and what the monitor counts against the primary are false
\* alarms.
Undisturbed ==
  /\ faults \in Nat
  /\ pUp /\ pRestarts = 0 =>
       /\ Asked => faults >= 1
       /\ bFailures <= faults
       /\ promoted => faults >= FailureThreshold \/ (Asked /\ faults >= 2)

\* At the start the backup has no failed check to count.
LEMMA StartUndisturbed == Init => Undisturbed
BY ClusterAssumption DEF Init, B!InitWith, B!IdleRequest, Undisturbed, Asked

\* A caller who finds out about a peer can only add a fault.
LEMMA LearnsCounts ==
  ASSUME faults \in Nat, NEW peerUp, NEW reachable, Learns(peerUp, reachable)
  PROVE  /\ faults' \in Nat
         /\ faults' >= faults
         /\ peerUp /\ ~reachable => faults' = faults + 1
BY DEF Learns

\* Steps that leave the backup's role, its threads and the primary's life as
\* they are cannot disturb it.
LEMMA RolesStay ==
  ASSUME Undisturbed, faults' \in Nat, faults' >= faults,
         bFailures \in Nat, FailureThreshold \in Nat,
         UNCHANGED <<pUp, pRestarts, promoted, bFailures, bThread>>
  PROVE  Undisturbed'
<1>1. Asked' <=> Asked
  BY DEF Asked
<1> QED
  BY <1>1 DEF Undisturbed

\* A client that has asked the backup has asked it for good.
LEMMA AskedStays ==
  ASSUME IInv, [Next]_vars
  PROVE  Asked => Asked'
<1>1. RequestsMove
  BY StepMoves DEF Moves
<1> SUFFICES ASSUME NEW j \in Jobs, bThread[j].pc # "idle"
             PROVE  bThread'[j].pc # "idle"
  BY DEF Asked
<1>2. CASE \E k \in Jobs : PrimaryTakes(k)
  BY <1>2 DEF PrimaryTakes, bVars
<1>3. ASSUME NEW k \in Jobs, BackupTakes(k)
      PROVE  bThread'[j].pc # "idle"
  BY <1>3 DEF BackupTakes
<1>4. CASE IdsStay
  BY <1>4 DEF IdsStay, BackupThreadMoves, Unserved
<1>5. ASSUME NEW k \in Jobs, PrimaryRefuses(k) \/ BackupRefuses(k)
      PROVE  bThread'[j].pc # "idle"
  BY <1>5 DEF PrimaryRefuses, BackupRefuses, bVars
<1> QED
  BY <1>1, <1>2, <1>3, <1>4, <1>5 DEF RequestsMove

\* While the primary lives its first life, every failed check is a fault.
LEMMA UndisturbedKept ==
  ASSUME Undisturbed, IInv, [Next]_vars
  PROVE  Undisturbed'
<1>1. /\ bFailures \in Nat
      /\ pRestarts \in Nat
      /\ FailureThreshold \in Nat \ {0}
      /\ bThread \in [Jobs -> B!Request]
      /\ faults \in Nat
  BY Typed, ClusterAssumption DEF TypeOK, B!TypeOK, P!TypeOK, Undisturbed
<1>2. ASSUME NEW j \in Jobs, Submit(j) PROVE Undisturbed'
  BY <1>1, <1>2, RolesStay DEF Submit, P!Accept, P!Reject, bVars
<1>3. ASSUME NEW j \in Jobs, FallBack(j) PROVE Undisturbed'
  <2>1. /\ faults' \in Nat
        /\ faults' >= faults
        /\ pUp => faults' = faults + 1
    BY <1>1, <1>3, LearnsCounts DEF FallBack
  <2>2. UNCHANGED <<pUp, pRestarts, promoted, bFailures>>
    BY <1>3 DEF FallBack, B!Accept, B!Reject, B!StartProbe, B!roleVars, pVars
  <2>3. Asked => Asked'
    BY <1>3, AskedStays DEF Next
  <2>4. pUp => faults' >= 1
    BY <1>1, <2>1
  <2> QED
    BY <1>1, <2>1, <2>2, <2>3, <2>4 DEF Undisturbed
<1>4. ASSUME NEW j \in Jobs, PrimaryStep(j) PROVE Undisturbed'
  <2>1. UNCHANGED <<pUp, pRestarts>>
    BY <1>4 DEF PrimaryStep, P!Insert, P!Reserve, P!ReserveNone, P!LogOutcome, P!Reply,
                P!ReplicateInsert, P!ReplicateOutcome
  <2>2. faults' \in Nat /\ faults' >= faults
    BY <1>1, <1>4, LearnsCounts DEF PrimaryStep, Replicates
  <2> QED
    BY <1>1, <1>4, <2>1, <2>2, RolesStay DEF PrimaryStep, bVars
<1>5. ASSUME NEW j \in Jobs, PrimaryCalls(j) PROVE Undisturbed'
  <2>1. UNCHANGED <<pUp, pRestarts, promoted, bFailures, bThread, faults>>
    BY <1>5 DEF PrimaryCalls, Connect, Answered, Failed, P!ForwardReturns, P!ForwardFails,
                pVars, bVars
  <2> QED
    BY <1>1, <2>1, RolesStay
<1>6. ASSUME NEW j \in Jobs, BackupStep(j) PROVE Undisturbed'
  <2>1. UNCHANGED <<pUp, pRestarts>> /\ faults' \in Nat /\ faults' >= faults
    <3>1. UNCHANGED <<pUp, pRestarts>>
      BY <1>6 DEF BackupStep, pVars
    <3>2. UNCHANGED faults \/ \E reachable \in BOOLEAN : Learns(pUp, reachable)
      BY <1>6 DEF BackupStep
    <3> QED
      BY <1>1, <3>1, <3>2, LearnsCounts
  <2>2. bThread[j].pc # "idle"
    BY <1>6 DEF BackupStep, B!Insert, B!Reserve, B!ReserveNone, B!LogOutcome, B!Reply,
                B!ProbeReturns, B!ProbeRejects
  <2>3. Asked /\ Asked'
    BY <1>6, <2>2, AskedStays DEF Next, Asked
  <2>4. CASE UNCHANGED <<promoted, bFailures>>
    BY <1>1, <2>1, <2>3, <2>4 DEF Undisturbed
  <2>5. ASSUME B!ProbeReturns(j, FALSE) \/ B!ProbeRejects(j), Learns(pUp, FALSE)
        PROVE  Undisturbed'
    <3>1. pUp => faults' = faults + 1
      BY <1>1, <2>5, LearnsCounts
    <3>2. bFailures' = bFailures
      BY <2>5 DEF B!ProbeReturns, B!ProbeRejects
    <3>3. pUp /\ pRestarts = 0 => faults' >= 2
      BY <1>1, <2>3, <3>1 DEF Undisturbed
    <3> QED
      BY <1>1, <2>1, <2>3, <3>2, <3>3 DEF Undisturbed
  <2>6. \/ UNCHANGED <<promoted, bFailures>>
        \/ (B!ProbeReturns(j, FALSE) \/ B!ProbeRejects(j)) /\ Learns(pUp, FALSE)
    BY <1>6 DEF BackupStep, B!Insert, B!Reserve, B!ReserveNone, B!LogOutcome, B!Reply,
                B!ProbeReturns, B!roleVars
  <2> QED
    BY <2>4, <2>5, <2>6
<1>7. ASSUME NEW j \in Jobs, BackupCalls(j) PROVE Undisturbed'
  <2>1. UNCHANGED <<pUp, pRestarts, promoted, bFailures, faults>>
    BY <1>7 DEF BackupCalls, Connect, Answered, Failed, B!ForwardReturns, B!ForwardFails,
                B!roleVars, pVars, bVars
  <2>2. bThread[j].pc # "idle"
    BY <1>7 DEF BackupCalls
  <2>3. Asked /\ Asked'
    BY <1>7, <2>2, AskedStays DEF Next, Asked
  <2> QED
    BY <1>1, <2>1, <2>3 DEF Undisturbed
<1>8. ASSUME RecoveryStep PROVE Undisturbed'
  <2>1. UNCHANGED <<pUp, pRestarts, promoted, bFailures, bThread, faults>>
    BY <1>8 DEF RecoveryStep, B!StartScan, B!EndScan, B!ReplayReserve, B!ReplayReserveNone,
                B!Deliver, B!Record, B!roleVars, pVars
  <2> QED
    BY <1>1, <2>1, RolesStay
<1>9. ASSUME RecoveryCalls PROVE Undisturbed'
  <2>1. UNCHANGED <<pUp, pRestarts, promoted, bFailures, bThread, faults>>
    BY <1>9 DEF RecoveryCalls, Connect, Answered, Failed, B!ReplayReturns, B!ReplayFails,
                B!roleVars, pVars, bVars
  <2> QED
    BY <1>1, <2>1, RolesStay
<1>10. ASSUME MonitorStep PROVE Undisturbed'
  <2>1. PICK reachable \in BOOLEAN : B!HealthCheck(reachable) /\ Learns(pUp, reachable)
    BY <1>10 DEF MonitorStep
  <2>2. /\ faults' \in Nat
        /\ faults' >= faults
        /\ pUp /\ ~reachable => faults' = faults + 1
    BY <1>1, <2>1, LearnsCounts
  <2>3. UNCHANGED <<pUp, pRestarts, bThread>>
    BY <1>10, <2>1 DEF MonitorStep, B!HealthCheck, pVars
  <2>4. /\ bFailures' = IF reachable THEN 0 ELSE bFailures + 1
        /\ promoted' = (~reachable /\ bFailures + 1 >= FailureThreshold)
        /\ Asked' <=> Asked
    BY <2>1, <2>3 DEF B!HealthCheck, Asked
  <2>5. CASE reachable
    <3>1. bFailures' = 0 /\ ~promoted'
      BY <2>4, <2>5
    <3> QED
      BY <1>1, <2>2, <2>3, <2>4, <3>1 DEF Undisturbed
  <2>6. CASE ~reachable
    <3>1. bFailures' = bFailures + 1 /\ (promoted' => bFailures' >= FailureThreshold)
      BY <2>4, <2>6
    <3>2. pUp => faults' = faults + 1
      BY <2>2, <2>6
    <3>3. pUp /\ pRestarts = 0 /\ promoted' => faults' >= FailureThreshold
      BY <1>1, <3>1, <3>2 DEF Undisturbed
    <3>4. pUp /\ pRestarts = 0 => bFailures' <= faults'
      BY <1>1, <3>1, <3>2 DEF Undisturbed
    <3> QED
      BY <1>1, <2>2, <2>3, <2>4, <3>3, <3>4 DEF Undisturbed
  <2> QED
    BY <2>5, <2>6
<1>11. ASSUME NEW m \in replication, ReplicaArrives(m) PROVE Undisturbed'
  <2>1. UNCHANGED <<pUp, pRestarts, promoted, bFailures, bThread, faults>>
    BY <1>11 DEF ReplicaArrives, B!ReplicaArrives, B!roleVars
  <2> QED
    BY <1>1, <2>1, RolesStay
<1>12. ASSUME NEW m \in results, TakeResult(m) PROVE Undisturbed'
  <2>1. UNCHANGED <<pUp, pRestarts, promoted, bFailures, bThread, faults>>
    BY <1>12 DEF TakeResult, P!ResultArrives, B!ResultArrives, B!roleVars, pVars, bVars
  <2> QED
    BY <1>1, <2>1, RolesStay
<1>13. ASSUME ReplicateResult PROVE Undisturbed'
  <2>1. UNCHANGED <<pUp, pRestarts, promoted, bFailures, bThread>>
    BY <1>13 DEF ReplicateResult, P!ReplicateResult, bVars
  <2>2. faults' \in Nat /\ faults' >= faults
    BY <1>1, <1>13, LearnsCounts DEF ReplicateResult, Replicates
  <2> QED
    BY <1>1, <2>1, <2>2, RolesStay
<1>14. ASSUME NEW n \in Nodes, Heartbeat(n) \/ Evict(n) PROVE Undisturbed'
  <2>1. UNCHANGED <<pUp, pRestarts, promoted, bFailures, bThread, faults>>
    BY <1>14 DEF Heartbeat, Evict, P!Heartbeat, P!Evict, B!Heartbeat, B!Evict, B!roleVars,
                 pVars, bVars
  <2> QED
    BY <1>1, <2>1, RolesStay
<1>15. ASSUME NodeStep PROVE Undisturbed'
  <2>1. UNCHANGED <<pUp, pRestarts, promoted, bFailures, bThread, faults>>
    BY <1>15 DEF NodeStep, pVars, bVars
  <2> QED
    BY <1>1, <2>1, RolesStay
<1>16. ASSUME Crash PROVE Undisturbed'
  <2>1. CASE PrimaryCrash
    BY <1>1, <2>1 DEF PrimaryCrash, P!Crash, Undisturbed
  <2>2. CASE BackupCrash
    <3>1. /\ UNCHANGED <<pUp, pRestarts, faults>>
          /\ promoted' = FALSE
          /\ bFailures' = 0
          /\ bThread' = [j \in Jobs |-> IF B!Live(j) THEN [bThread[j] EXCEPT !.pc = "gone"]
                                                     ELSE bThread[j]]
      BY <2>2 DEF BackupCrash, B!Crash
    <3>2. \A j \in Jobs : bThread[j].pc = "idle" => bThread'[j] = bThread[j]
      BY <3>1 DEF B!Live
    <3>3. ~promoted' /\ bFailures' = 0
      BY <3>1
    <3>4. Asked' => Asked
      BY <3>2 DEF Asked
    <3>5. pUp' = pUp /\ pRestarts' = pRestarts /\ faults' = faults
      BY <3>1
    <3> QED
      BY <1>1, <3>3, <3>4, <3>5 DEF Undisturbed
  <2>3. CASE NodesMayCrash /\ (\E n \in Nodes : N!Crash(n)) /\ UNCHANGED <<pVars, bVars, faults>>
    <3>1. UNCHANGED <<pUp, pRestarts, promoted, bFailures, bThread, faults>>
      BY <2>3 DEF pVars, bVars
    <3> QED
      BY <1>1, <3>1, RolesStay
  <2> QED
    BY <1>16, <2>1, <2>2, <2>3 DEF Crash
<1>17. ASSUME Restart PROVE Undisturbed'
  <2>1. CASE P!Restart /\ UNCHANGED <<bVars, nVars, faults>>
    <3>1. pRestarts' = pRestarts + 1 /\ UNCHANGED faults
      BY <2>1 DEF P!Restart
    <3> QED
      BY <1>1, <3>1 DEF Undisturbed
  <2>2. CASE B!Restart /\ UNCHANGED <<pVars, nVars, faults>>
    <3>1. UNCHANGED <<pUp, pRestarts, promoted, bFailures, bThread, faults>>
      BY <2>2 DEF B!Restart, pVars
    <3> QED
      BY <1>1, <3>1, RolesStay
  <2>3. CASE (\E n \in Nodes : N!Restart(n)) /\ UNCHANGED <<pVars, bVars, faults>>
    <3>1. UNCHANGED <<pUp, pRestarts, promoted, bFailures, bThread, faults>>
      BY <2>3 DEF pVars, bVars
    <3> QED
      BY <1>1, <3>1, RolesStay
  <2> QED
    BY <1>17, <2>1, <2>2, <2>3 DEF Restart
<1>18. CASE UNCHANGED vars
  <2>1. UNCHANGED <<pUp, pRestarts, promoted, bFailures, bThread, faults>>
    BY <1>18 DEF vars, pVars, bVars
  <2> QED
    BY <1>1, <2>1, RolesStay
<1> QED
  BY <1>2, <1>3, <1>4, <1>5, <1>6, <1>7, <1>8, <1>9, <1>10, <1>11, <1>12, <1>13, <1>14,
     <1>15, <1>16, <1>17, <1>18 DEF Next

\* The backup takes over from a primary that never died only after as many
\* false alarms as the threshold asks for, or two that concern one client
\* (backup.cpp:479-514, 710-717, client.cpp:314-328).
THEOREM PromotionCause == Spec => []PromotionHasCause
<1>1. Undisturbed => PromotionHasCause
  BY DEF Undisturbed, PromotionHasCause, Asked
<1> QED
  BY <1>1, Invariance, StartUndisturbed, UndisturbedKept, PTL DEF Spec
=============================================================================
