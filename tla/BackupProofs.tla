---------------------------- MODULE BackupProofs ----------------------------
(***************************************************************************)
(* Theorems about the backup under an arbitrary primary, nodes and         *)
(* clients, for any set of jobs and nodes, any configuration, threshold    *)
(* and bound on retries, replicas and restarts.                            *)
(***************************************************************************)
EXTENDS Backup, JobsLogProofs

-----------------------------------------------------------------------------
(***************************************************************************)
(* The rows of a recovery pass                                             *)
(***************************************************************************)

\* What a pass works through: copies of rows, by position.
IsQueue(queue) ==
  /\ DOMAIN queue \subseteq Nat
  /\ queue \in [DOMAIN queue -> Row]

\* The first row of a queue that is not empty is a row of it.
LEMMA FirstIsInQueue ==
  ASSUME NEW queue, IsQueue(queue), DOMAIN queue # {}
  PROVE  /\ Min(DOMAIN queue) \in DOMAIN queue
         /\ First(queue) \in Row
<1>1. PICK t \in DOMAIN queue : \A u \in DOMAIN queue : t <= u
  BY MinOfNaturals DEF IsQueue
<1>2. Min(DOMAIN queue) \in DOMAIN queue
  BY <1>1 DEF Min
<1> QED
  BY <1>2 DEF First, IsQueue

\* Without its first row a queue is a queue, with the other copies as they
\* were.
LEMMA RestIsQueue ==
  ASSUME NEW queue, IsQueue(queue)
  PROVE  /\ IsQueue(Rest(queue))
         /\ DOMAIN Rest(queue) \subseteq DOMAIN queue
         /\ \A i \in DOMAIN Rest(queue) : Rest(queue)[i] = queue[i]
BY DEF Rest, Restrict, IsQueue

\* What load_pending_jobs reads are rows of the log, at their positions.
LEMMA PendingRowsAreRows ==
  ASSUME NEW log \in Seq(Row)
  PROVE  /\ IsQueue(PendingRows(log))
         /\ DOMAIN PendingRows(log) \subseteq DOMAIN log
         /\ \A i \in DOMAIN PendingRows(log) : PendingRows(log)[i] = log[i]
BY DEF PendingRows, Restrict, IsQueue

\* The thread's record, with a queue of its own type.
IsRecovery(r) == IsQueue(r.queue) /\ r \in Recovery([DOMAIN r.queue -> Row])

\* The idle recovery thread has the type of the recovery thread.
LEMMA IdleIsRecovery == IsRecovery(IdleRecovery)
<1>1. DOMAIN <<>> = {}
  OBVIOUS
<1>2. IsQueue(IdleRecovery.queue)
  BY <1>1 DEF IdleRecovery, IsQueue
<1>3. Pending \in Responses
  BY DEF Pending, Responses, Kinds
<1> QED
  BY <1>2, <1>3 DEF IsRecovery, IdleRecovery, Recovery, IsQueue

\* Where the loop turns next: a thread with work, or the idle one.
LEMMA TurnIsRecovery ==
  ASSUME NEW queue, IsQueue(queue)
  PROVE  /\ IsRecovery(Turn(queue))
         /\ DOMAIN queue # {} => Turn(queue).queue = queue
         /\ DOMAIN queue = {} => Turn(queue) = IdleRecovery
         /\ Turn(queue).pc # "scanning"
         /\ DOMAIN queue # {} => Turn(queue).pc \in {"scheduling", "delivering"}
<1>1. CASE DOMAIN queue = {}
  BY <1>1, IdleIsRecovery DEF Turn, IdleRecovery
<1>2. CASE DOMAIN queue # {}
  <2>1. First(queue) \in Row
    BY <1>2, FirstIsInQueue
  <2>2. First(queue).response \in Responses
    BY <2>1 DEF Row
  <2> DEFINE t == Turn(queue)
             pc == IF First(queue).response = Pending THEN "scheduling" ELSE "delivering"
  <2>3. t = [pc |-> pc, queue |-> queue, attempt |-> 0, target |-> NoNode,
             response |-> First(queue).response, delivered |-> FALSE]
    BY <1>2 DEF Turn, IdleRecovery
  <2>4. queue \in [DOMAIN queue -> Row]
    BY DEF IsQueue
  <2> QED
    BY <1>2, <2>2, <2>3, <2>4 DEF IsRecovery, Recovery
<1> QED
  BY <1>1, <1>2

-----------------------------------------------------------------------------
(***************************************************************************)
(* The inductive invariant.                                                *)
(*                                                                         *)
(* Ids.  Replicas with ids of the primary's numbering stand among the      *)
(* backup's own rows, so that nothing relates the log as a whole to the    *)
(* counter; what is kept is about the own rows and the threads still       *)
(* waiting to insert.  A row stays own, or a replica, because a job with a *)
(* row never gets another id: its thread was admitted before (it is past   *)
(* its INSERT) or never will be.                                           *)
(*                                                                         *)
(* The recovery pass.  Its copies are of rows that are still at their      *)
(* places, and a thread at work has a row to work on.                      *)
(***************************************************************************)

Waiting(j) == bThread[j].pc = "inserting"

\* A restart takes the maximum of the ids, so there has to be one.
IdsAreBounded ==
  /\ bNextSid > 0
  /\ \A i \in DOMAIN bLog : bLog[i].sid > 0
  /\ \E b \in Nat : \A i \in DOMAIN bLog : bLog[i].sid < b

UnservedHasNoId == \A j \in Jobs : bThread[j].pc \in {"idle", "probing"} => bThread[j].sid = 0

UnservedHasNoRow ==
  \A j \in Jobs : bThread[j].pc \in {"probing", "inserting"} =>
    \A i \in DOMAIN bLog : bLog[i].job # j

OwnBelowCounter == \A i \in OwnRows : bLog[i].sid < bNextSid

WaitingIsFresh ==
  \A j \in Jobs : Waiting(j) =>
    /\ bThread[j].sid > 0
    /\ bThread[j].sid < bNextSid
    /\ \A i \in OwnRows : bLog[i].sid # bThread[j].sid
    /\ \A k \in Jobs : Waiting(k) /\ bThread[k].sid = bThread[j].sid => k = j

IdsAreApart ==
  /\ IdsAreBounded
  /\ UnservedHasNoId
  /\ UnservedHasNoRow
  /\ OwnBelowCounter
  /\ WaitingIsFresh
  /\ SubmissionsUnique

\* A row of a pass is at its place in the log, whatever happened to its status
\* meanwhile.
QueueIsOfLog ==
  \A i \in DOMAIN rThread.queue :
    /\ i \in DOMAIN bLog
    /\ bLog[i].sid = rThread.queue[i].sid
    /\ bLog[i].job = rThread.queue[i].job

PassIsSound ==
  /\ IsRecovery(rThread)
  /\ QueueIsOfLog
  /\ rThread.pc \notin {"idle", "scanning"} => DOMAIN rThread.queue # {}

DeadIsQuiet == ~bUp => rThread = IdleRecovery /\ \A j \in Jobs : ~Live(j)

RoleIsKept == StandbyIsPassive /\ DeadIsQuiet

\* TypeOK but for the recovery thread.
Types ==
  /\ bConfigured \in BOOLEAN
  /\ bUp \in BOOLEAN
  /\ bRestarts \in Nat
  /\ promoted \in BOOLEAN
  /\ bFailures \in Nat
  /\ bLog \in Seq(Row)
  /\ bNextSid \in Nat
  /\ bNextReceipt \in Nat
  /\ bThread \in [Jobs -> Request]
  /\ bPool \subseteq Nodes
  /\ callbacks \in [Jobs -> Seq(Responses)]

IInv == Types /\ IdsAreApart /\ PassIsSound /\ RoleIsKept

\* The invariant has the types in it.
LEMMA TypesOfInvariant == IInv => TypeOK
BY DEF IInv, Types, PassIsSound, IsRecovery, TypeOK

-----------------------------------------------------------------------------
(***************************************************************************)
(* What steps keep                                                         *)
(***************************************************************************)

\* The rows are the same rows, though their status columns may differ.
SameRows ==
  /\ bLog' \in Seq(Row)
  /\ DOMAIN bLog' = DOMAIN bLog
  /\ \A i \in DOMAIN bLog : bLog'[i].sid = bLog[i].sid /\ bLog'[i].job = bLog[i].job

\* The thread of k keeps its id, and does not come before its INSERT.
Settles(k) ==
  /\ bThread'[k].sid = bThread[k].sid
  /\ \/ bThread'[k].pc = bThread[k].pc
     \/ bThread'[k].pc \notin {"idle", "probing", "inserting"}

\* Every row of the log is a row.
LEMMA LogRows ==
  ASSUME IInv
  PROVE  \A i \in DOMAIN bLog : bLog[i] \in Row
<1>1. bLog \in Seq(Row)
  BY DEF IInv, Types
<1> QED
  BY <1>1

\* If no row is added and no thread takes an id or waits anew, the ids stay
\* apart.
LEMMA IdsKept ==
  ASSUME IInv, SameRows, bNextSid' \in Nat, bNextSid <= bNextSid',
         \A k \in Jobs : Settles(k)
  PROVE  IdsAreApart'
<1> USE DEF IInv, IdsAreApart
<1>1. /\ \A i \in DOMAIN bLog : bLog[i].job \in Jobs /\ bLog[i].sid \in Nat
      /\ \A k \in Jobs : bThread[k].sid \in Nat
      /\ bNextSid \in Nat
  BY LogRows DEF Row, Types, Request
<1>2. OwnRows' = OwnRows
  BY <1>1 DEF OwnRows, SameRows, Settles
<1>3. OwnRows \subseteq DOMAIN bLog
  BY DEF OwnRows
<1>4. \A k \in Jobs : Waiting(k)' => Waiting(k) /\ bThread'[k].sid = bThread[k].sid
  BY DEF Waiting, Settles
<1>5. IdsAreBounded'
  <2>1. PICK b \in Nat : \A i \in DOMAIN bLog : bLog[i].sid < b
    BY DEF IdsAreBounded
  <2>2. \A i \in DOMAIN bLog' : bLog'[i].sid < b /\ bLog'[i].sid > 0
    BY <2>1 DEF IdsAreBounded, SameRows
  <2> QED
    BY <1>1, <2>1, <2>2 DEF IdsAreBounded
<1>6. UnservedHasNoId'
  BY DEF UnservedHasNoId, Settles
<1>7. UnservedHasNoRow'
  BY DEF UnservedHasNoRow, Settles, SameRows
<1>8. OwnBelowCounter'
  BY <1>1, <1>2, <1>3 DEF OwnBelowCounter, SameRows
<1>9. WaitingIsFresh'
  BY <1>1, <1>2, <1>3, <1>4 DEF WaitingIsFresh, SameRows
<1>10. SubmissionsUnique'
  <2>1. \A i, k \in DOMAIN bLog :
          bLog'[i].sid = bLog'[k].sid => i = k \/ (i \in OwnRows <=> k \notin OwnRows)
    BY DEF SubmissionsUnique, SameRows
  <2> QED
    BY <1>2, <2>1 DEF SubmissionsUnique, SameRows
<1> QED
  BY <1>5, <1>6, <1>7, <1>8, <1>9, <1>10

\* The log keeps its rows, and the recovery thread stands still.
LEMMA PassKept ==
  ASSUME IInv, rThread' = rThread,
         DOMAIN bLog \subseteq DOMAIN bLog',
         \A i \in DOMAIN bLog : bLog'[i].sid = bLog[i].sid /\ bLog'[i].job = bLog[i].job
  PROVE  PassIsSound'
BY DEF IInv, PassIsSound, QueueIsOfLog

\* A backup that serves is past everything RoleIsKept speaks of.
LEMMA RoleOfServing ==
  ASSUME bUp', promoted'
  PROVE  RoleIsKept'
BY DEF RoleIsKept, StandbyIsPassive, DeadIsQuiet

\* Only a promoted backup has a thread behind the health check, or one that
\* recovers.
LEMMA WorkIsPromoted ==
  ASSUME IInv
  PROVE  /\ \A j \in Jobs : bThread[j].pc \in {"inserting", "scheduling", "calling",
                                               "logging", "replying"} => promoted
         /\ rThread.pc # "idle" => promoted
BY DEF IInv, RoleIsKept, StandbyIsPassive, Live, IdleRecovery

\* A write that is an UPDATE, stored or dropped.
LEMMA StoreUpdated ==
  ASSUME IInv, NEW sid \in Nat, NEW forwarding \in Forwardings,
         NEW response \in Responses, NEW delivery \in Deliveries,
         Store(Updated(bLog, sid, forwarding, response, delivery))
  PROVE  SameRows
<1>1. bLog \in Seq(Row)
  BY DEF IInv, Types
<1> QED
  BY <1>1, UpdatedKeepsRows DEF Store, SameRows

-----------------------------------------------------------------------------
(***************************************************************************)
(* The thread of a request, from its INSERT on                             *)
(***************************************************************************)

Serving == {"inserting", "scheduling", "calling", "logging", "replying"}

\* One thread moves on; t is what becomes of it.
LEMMA ServedStep ==
  ASSUME IInv, NEW j \in Jobs, NEW t \in Request,
         bUp, bThread[j].pc \in Serving,
         bThread' = [bThread EXCEPT ![j] = t],
         t.sid = bThread[j].sid,
         t.pc \notin {"idle", "probing", "inserting"},
         SameRows, bPool' \subseteq Nodes,
         UNCHANGED <<roleVars, idVars, rThread, callbacks>>
  PROVE  IInv'
<1>1. bThread \in [Jobs -> Request]
  BY DEF IInv, Types
<1>2. bThread' \in [Jobs -> Request] /\ \A k \in Jobs : Settles(k)
  BY <1>1 DEF Settles
<1>3. Types'
  BY <1>2 DEF IInv, Types, SameRows, roleVars, idVars
<1>4. IdsAreApart'
  BY <1>2, IdsKept DEF idVars, IInv, Types
<1>5. PassIsSound'
  BY PassKept DEF SameRows
<1>6. promoted
  BY WorkIsPromoted DEF Serving
<1>7. RoleIsKept'
  BY <1>6, RoleOfServing DEF roleVars
<1> QED
  BY <1>3, <1>4, <1>5, <1>7 DEF IInv

\* A thread that only goes on keeps its id and receipt.
LEMMA GotoRequest ==
  ASSUME IInv, NEW j \in Jobs, NEW pc \in RequestPcs, Goto(j, pc)
  PROVE  \E t \in Request : /\ bThread' = [bThread EXCEPT ![j] = t]
                            /\ t.pc = pc
                            /\ t.sid = bThread[j].sid
                            /\ t.receipt = bThread[j].receipt
<1> DEFINE t == [bThread[j] EXCEPT !.pc = pc]
<1>1. bThread \in [Jobs -> Request] /\ bThread[j] \in Request
  BY DEF IInv, Types
<1>2. /\ t \in Request
      /\ t.pc = pc /\ t.sid = bThread[j].sid /\ t.receipt = bThread[j].receipt
  BY <1>1 DEF Request
<1>3. bThread' = [bThread EXCEPT ![j] = t]
  BY <1>1 DEF Goto
<1> QED
  BY <1>2, <1>3

\* Trying again, or the failure as the outcome.
LEMMA RetryStep ==
  ASSUME IInv, NEW j \in Jobs, bUp, Retry(j),
         bThread[j].pc \in {"scheduling", "calling"},
         bPool' \subseteq Nodes,
         UNCHANGED <<roleVars, bLog, idVars, rThread, callbacks>>
  PROVE  IInv'
<1> DEFINE again == bThread[j].attempt + 1 < MaxRetries
           t == [pc |-> IF again THEN "scheduling" ELSE "logging",
                 sid |-> bThread[j].sid,
                 receipt |-> bThread[j].receipt,
                 attempt |-> bThread[j].attempt + 1,
                 target |-> NoNode,
                 response |-> IF again THEN bThread[j].response ELSE Fatal]
<1>1. bThread \in [Jobs -> Request] /\ bThread[j] \in Request
  BY DEF IInv, Types
<1>2. Fatal \in Responses
  BY DEF Fatal, Responses, Kinds
<1>3. t \in Request
  <2>1. /\ bThread[j].attempt + 1 \in Nat
        /\ bThread[j].sid \in Nat
        /\ bThread[j].receipt \in Nat
        /\ bThread[j].response \in Responses
    BY <1>1 DEF Request
  <2> QED
    BY <1>2, <2>1 DEF Request, RequestPcs
<1>4. bThread' = [bThread EXCEPT ![j] = t]
  <2>1. bThread'[j] = t
    BY <1>1 DEF Retry, Request
  <2>2. \A k \in Jobs : k # j => bThread'[k] = bThread[k]
    BY <1>1 DEF Retry
  <2>3. bThread' = [k \in Jobs |-> bThread'[k]]
    BY <1>1 DEF Retry
  <2> QED
    BY <1>1, <2>1, <2>2, <2>3
<1>5. t.sid = bThread[j].sid /\ t.pc \notin {"idle", "probing", "inserting"}
  OBVIOUS
<1>6. SameRows
  BY DEF IInv, Types, SameRows
<1> HIDE DEF t
<1> QED
  BY <1>3, <1>4, <1>5, <1>6, ServedStep DEF Serving

\* The steps of Next one by one: a request that found no node, or lost its
\* node.
LEMMA ReserveNoneStep ==
  ASSUME IInv, NEW j \in Jobs, ReserveNone(j) \/ ForwardFails(j)
  PROVE  IInv'
BY RetryStep DEF ReserveNone, ForwardFails, IInv, Types

\* A node is chosen, or it answers.
LEMMA CallStep ==
  ASSUME IInv, NEW j \in Jobs,
         \/ \E n \in Nodes : Reserve(j, n)
         \/ \E response \in Computed : ForwardReturns(j, response)
  PROVE  IInv'
<1>1. bThread \in [Jobs -> Request] /\ bThread[j] \in Request /\ bPool \subseteq Nodes
  BY DEF IInv, Types
<1>2. PICK t \in Request : /\ bThread' = [bThread EXCEPT ![j] = t]
                           /\ t.sid = bThread[j].sid
                           /\ t.pc \in {"calling", "logging"}
  <2>1. CASE \E n \in Nodes : Reserve(j, n)
    <3>1. PICK n \in Nodes : Reserve(j, n)
      BY <2>1
    <3> DEFINE t == [bThread[j] EXCEPT !.pc = "calling", !.target = n]
    <3>2. t \in Request /\ t.sid = bThread[j].sid /\ t.pc = "calling"
      BY <1>1 DEF Request, RequestPcs
    <3>3. bThread' = [bThread EXCEPT ![j] = t]
      BY <1>1, <3>1 DEF Reserve
    <3> QED
      BY <3>2, <3>3
  <2>2. CASE \E response \in Computed : ForwardReturns(j, response)
    <3>1. PICK response \in Computed : ForwardReturns(j, response)
      BY <2>2
    <3> DEFINE t == [bThread[j] EXCEPT !.pc = "logging", !.target = NoNode,
                                       !.response = response]
    <3>2. response \in Responses
      BY ComputedIsOutcome
    <3>3. t \in Request /\ t.sid = bThread[j].sid /\ t.pc = "logging"
      BY <1>1, <3>2 DEF Request, RequestPcs
    <3>4. bThread' = [bThread EXCEPT ![j] = t]
      BY <1>1, <3>1 DEF ForwardReturns
    <3> QED
      BY <3>3, <3>4
  <2> QED
    BY <2>1, <2>2
<1>3. /\ bUp
      /\ bThread[j].pc \in Serving
      /\ UNCHANGED <<roleVars, bLog, idVars, bPool, rThread, callbacks>>
  BY DEF Reserve, ForwardReturns, Serving
<1>4. SameRows
  BY <1>3 DEF IInv, Types, SameRows
<1> QED
  BY <1>1, <1>2, <1>3, <1>4, ServedStep

\* The outcome is written to the row, or to all rows with its id.
LEMMA LogOutcomeStep ==
  ASSUME IInv, NEW j \in Jobs, LogOutcome(j)
  PROVE  IInv'
<1>1. bThread[j] \in Request /\ bPool \subseteq Nodes
  BY DEF IInv, Types
<1>2. PICK t \in Request : /\ bThread' = [bThread EXCEPT ![j] = t]
                           /\ t.pc = "replying"
                           /\ t.sid = bThread[j].sid
  BY GotoRequest DEF LogOutcome, RequestPcs
<1>3. SameRows
  <2> DEFINE forwarding == IF bThread[j].response = Fatal THEN "FAILED" ELSE "FORWARDED"
  <2>1. /\ bThread[j].sid \in Nat
        /\ bThread[j].response \in Responses
        /\ forwarding \in Forwardings
        /\ "DIRECT" \in Deliveries
    BY <1>1 DEF Request, Forwardings, Deliveries
  <2>2. Store(Updated(bLog, bThread[j].sid, forwarding, bThread[j].response, "DIRECT"))
    BY DEF LogOutcome
  <2> HIDE DEF forwarding
  <2> QED
    BY <2>1, <2>2, StoreUpdated
<1>4. /\ bUp
      /\ bThread[j].pc \in Serving
      /\ UNCHANGED <<roleVars, idVars, bPool, rThread, callbacks>>
  BY DEF LogOutcome, Serving
<1> QED
  BY <1>1, <1>2, <1>3, <1>4, ServedStep

\* The answer to a client.
LEMMA ReplyStep ==
  ASSUME IInv, NEW j \in Jobs, Reply(j)
  PROVE  IInv'
<1>1. PICK t \in Request : /\ bThread' = [bThread EXCEPT ![j] = t]
                           /\ t.pc = "done"
                           /\ t.sid = bThread[j].sid
  BY GotoRequest DEF Reply, RequestPcs
<1>2. /\ bUp
      /\ bThread[j].pc \in Serving
      /\ UNCHANGED <<roleVars, bLog, idVars, bPool, rThread, callbacks>>
  BY DEF Reply, Serving
<1>3. SameRows /\ bPool' \subseteq Nodes
  BY <1>2 DEF IInv, Types, SameRows
<1> QED
  BY <1>1, <1>2, <1>3, ServedStep

-----------------------------------------------------------------------------
(***************************************************************************)
(* The thread of a request, up to its INSERT                               *)
(***************************************************************************)

\* A request is admitted: the ids it takes are above all own ids, and its job
\* has no row yet, so no row changes hands.
LEMMA AdmitStep ==
  ASSUME IInv, NEW j \in Jobs, bUp, promoted', Admit(j),
         \A i \in DOMAIN bLog : bLog[i].job # j,
         promoted' \in BOOLEAN,
         UNCHANGED <<bConfigured, bUp, bRestarts, bFailures, bLog, bPool, rThread, callbacks>>
  PROVE  IInv'
<1> DEFINE t == [bThread[j] EXCEPT !.pc = "inserting",
                                   !.sid = bNextSid,
                                   !.receipt = bNextReceipt]
<1>1. /\ bThread \in [Jobs -> Request] /\ bThread[j] \in Request
      /\ bNextSid \in Nat /\ bNextReceipt \in Nat
  BY DEF IInv, Types
<1>2. t \in Request /\ t.pc = "inserting" /\ t.sid = bNextSid
  BY <1>1 DEF Request, RequestPcs
<1>3. bThread' = [bThread EXCEPT ![j] = t]
  BY <1>1 DEF Admit
<1>4. bNextSid' = bNextSid + 1 /\ bNextReceipt' = bNextReceipt + 1
  BY DEF Admit, TakeIds
<1> HIDE DEF t
<1>5. bThread'[j] = t /\ \A k \in Jobs : k # j => bThread'[k] = bThread[k]
  BY <1>1, <1>3
<1>6. Types'
  BY <1>1, <1>2, <1>3, <1>4 DEF IInv, Types
<1>7. /\ \A i \in DOMAIN bLog : bLog[i].job \in Jobs /\ bLog[i].sid \in Nat
      /\ \A k \in Jobs : bThread[k].sid \in Nat
  BY <1>1, LogRows DEF Row, Request
<1>8. OwnRows' = OwnRows /\ OwnRows \subseteq DOMAIN bLog
  BY <1>5, <1>7 DEF OwnRows
<1>9. IdsAreApart'
  <2> USE DEF IInv, IdsAreApart
  <2>1. IdsAreBounded'
    BY <1>1, <1>4 DEF IdsAreBounded
  <2>2. UnservedHasNoId'
    BY <1>2, <1>5 DEF UnservedHasNoId
  <2>3. UnservedHasNoRow'
    BY <1>5 DEF UnservedHasNoRow
  <2>4. OwnBelowCounter'
    BY <1>1, <1>4, <1>7, <1>8 DEF OwnBelowCounter
  <2>5. WaitingIsFresh'
    <3>1. \A k \in Jobs : k # j /\ Waiting(k)' =>
            Waiting(k) /\ bThread'[k].sid = bThread[k].sid /\ bThread[k].sid < bNextSid
      BY <1>5 DEF Waiting, WaitingIsFresh
    <3>2. \A k \in Jobs : Waiting(k)' => bThread'[k].sid > 0 /\ bThread'[k].sid < bNextSid'
      BY <1>1, <1>2, <1>4, <1>5, <1>7, <3>1 DEF WaitingIsFresh, IdsAreBounded
    <3>3. \A k \in Jobs : Waiting(k)' => \A i \in OwnRows' : bLog'[i].sid # bThread'[k].sid
      BY <1>1, <1>2, <1>5, <1>7, <1>8, <3>1 DEF WaitingIsFresh, OwnBelowCounter
    <3>4. \A k, l \in Jobs :
            Waiting(k)' /\ Waiting(l)' /\ bThread'[l].sid = bThread'[k].sid => l = k
      BY <1>1, <1>2, <1>5, <1>7, <3>1 DEF WaitingIsFresh
    <3> QED
      BY <3>2, <3>3, <3>4 DEF WaitingIsFresh
  <2>6. SubmissionsUnique'
    BY <1>8 DEF SubmissionsUnique
  <2> QED
    BY <2>1, <2>2, <2>3, <2>4, <2>5, <2>6
<1>10. PassIsSound'
  BY PassKept
<1>11. RoleIsKept'
  BY RoleOfServing
<1> QED
  BY <1>6, <1>9, <1>10, <1>11 DEF IInv

\* A client is taken by a promoted backup, and gets an id.
LEMMA AcceptStep ==
  ASSUME IInv, NEW j \in Jobs, Unseen(j), Accept(j)
  PROVE  IInv'
<1>1. \A i \in DOMAIN bLog : bLog[i].job # j
  BY DEF Unseen
<1> QED
  BY <1>1, AdmitStep DEF Accept, roleVars, IInv, Types

\* A request that does not parse burns the ids it took.
LEMMA BurnStep ==
  ASSUME IInv, NEW j \in Jobs, bUp, promoted', promoted' \in BOOLEAN,
         TakeIds, Goto(j, "rejected"),
         UNCHANGED <<bConfigured, bUp, bRestarts, bFailures, bLog, bPool, rThread, callbacks>>
  PROVE  IInv'
<1>1. bThread \in [Jobs -> Request] /\ bNextSid \in Nat /\ bNextReceipt \in Nat
  BY DEF IInv, Types
<1>2. PICK t \in Request : /\ bThread' = [bThread EXCEPT ![j] = t]
                           /\ t.pc = "rejected"
                           /\ t.sid = bThread[j].sid
  BY GotoRequest DEF RequestPcs
<1>3. bNextSid' = bNextSid + 1 /\ bNextReceipt' = bNextReceipt + 1
  BY DEF TakeIds
<1>4. SameRows
  BY DEF IInv, Types, SameRows
<1>5. Types'
  BY <1>1, <1>2, <1>3 DEF IInv, Types
<1>6. \A k \in Jobs : Settles(k)
  BY <1>1, <1>2 DEF Settles
<1>7. IdsAreApart'
  BY <1>1, <1>3, <1>4, <1>6, IdsKept
<1>8. PassIsSound' /\ RoleIsKept'
  BY PassKept, RoleOfServing
<1> QED
  BY <1>5, <1>7, <1>8 DEF IInv

\* A client is turned away.
LEMMA RejectStep ==
  ASSUME IInv, NEW j \in Jobs, Reject(j) \/ ProbeRejects(j)
  PROVE  IInv'
BY BurnStep DEF Reject, ProbeRejects, roleVars, IInv, Types

\* Before it is promoted the backup only probes, or answers that it stands by.
LEMMA StandbyStep ==
  ASSUME IInv, NEW j \in Jobs, NEW t \in Request, bUp,
         bThread' = [bThread EXCEPT ![j] = t],
         t.sid = bThread[j].sid,
         \/ t.pc = "probing" /\ bThread[j].pc = "idle" /\ Unseen(j)
         \/ t.pc = "standby",
         UNCHANGED <<roleVars, bLog, idVars, bPool, rThread, callbacks>>
  PROVE  IInv'
<1>1. bThread \in [Jobs -> Request]
  BY DEF IInv, Types
<1>2. bThread'[j] = t /\ \A k \in Jobs : k # j => bThread'[k] = bThread[k]
  BY <1>1
<1>3. Types'
  BY <1>1 DEF IInv, Types, roleVars, idVars
<1>4. SameRows
  BY DEF IInv, Types, SameRows
<1>5. IdsAreApart'
  <2>1. CASE t.pc = "standby"
    <3>1. \A k \in Jobs : Settles(k)
      BY <1>2, <2>1 DEF Settles
    <3> QED
      BY <1>4, <3>1, IdsKept DEF idVars, IInv, Types
  <2>2. CASE t.pc = "probing" /\ bThread[j].pc = "idle" /\ Unseen(j)
    <3> USE DEF IInv, IdsAreApart
    <3>1. OwnRows' = OwnRows
      <4>1. \A k \in Jobs : bThread'[k].sid = bThread[k].sid
        BY <1>2
      <4>2. \A i \in DOMAIN bLog : bLog[i].job \in Jobs
        BY LogRows DEF Row
      <4> QED
        BY <4>1, <4>2 DEF OwnRows
    <3>2. \A k \in Jobs : Waiting(k)' => Waiting(k) /\ bThread'[k].sid = bThread[k].sid
      BY <1>2, <2>2 DEF Waiting
    <3>3. IdsAreBounded' /\ OwnBelowCounter' /\ SubmissionsUnique'
      BY <3>1 DEF IdsAreBounded, OwnBelowCounter, SubmissionsUnique, idVars
    <3>4. UnservedHasNoId'
      BY <1>2, <2>2 DEF UnservedHasNoId
    <3>5. UnservedHasNoRow'
      BY <1>2, <2>2 DEF UnservedHasNoRow, Unseen
    <3>6. WaitingIsFresh'
      BY <3>1, <3>2 DEF WaitingIsFresh, idVars
    <3> QED
      BY <3>3, <3>4, <3>5, <3>6
  <2> QED
    BY <2>1, <2>2
<1>6. PassIsSound'
  BY PassKept
<1>7. RoleIsKept'
  BY <1>2 DEF IInv, RoleIsKept, StandbyIsPassive, DeadIsQuiet, Live, roleVars
<1> QED
  BY <1>3, <1>5, <1>6, <1>7 DEF IInv

\* A standby looks for the primary before it takes a client.
LEMMA StartProbeStep ==
  ASSUME IInv, NEW j \in Jobs, Unseen(j), StartProbe(j)
  PROVE  IInv'
<1>1. PICK t \in Request : /\ bThread' = [bThread EXCEPT ![j] = t]
                           /\ t.pc = "probing"
                           /\ t.sid = bThread[j].sid
  BY GotoRequest DEF StartProbe, RequestPcs
<1> QED
  BY <1>1, StandbyStep DEF StartProbe

\* The primary answers the probe, or does not and the backup promotes.
LEMMA ProbeReturnsStep ==
  ASSUME IInv, NEW j \in Jobs, NEW reachable \in BOOLEAN, ProbeReturns(j, reachable)
  PROVE  IInv'
<1>1. CASE reachable
  <2>1. PICK t \in Request : /\ bThread' = [bThread EXCEPT ![j] = t]
                             /\ t.pc = "standby"
                             /\ t.sid = bThread[j].sid
    BY <1>1, GotoRequest DEF ProbeReturns, RequestPcs
  <2> QED
    BY <1>1, <2>1, StandbyStep DEF ProbeReturns, roleVars
<1>2. CASE ~reachable
  <2>1. \A i \in DOMAIN bLog : bLog[i].job # j
    BY DEF ProbeReturns, IInv, IdsAreApart, UnservedHasNoRow
  <2> QED
    BY <1>2, <2>1, AdmitStep DEF ProbeReturns
<1> QED
  BY <1>1, <1>2

\* A request's row is its own, with an id that no own row has; or the INSERT
\* finds the database busy and is lost.
LEMMA InsertStep ==
  ASSUME IInv, NEW j \in Jobs, Insert(j)
  PROVE  IInv'
<1> DEFINE row == NewRow(bThread[j].sid, bThread[j].receipt, j)
           n == Len(bLog) + 1
<1>1. /\ bThread \in [Jobs -> Request] /\ bThread[j] \in Request
      /\ bLog \in Seq(Row) /\ bPool \subseteq Nodes
  BY DEF IInv, Types
<1>2. PICK t \in Request : /\ bThread' = [bThread EXCEPT ![j] = t]
                           /\ t.pc = "scheduling"
                           /\ t.sid = bThread[j].sid
  BY GotoRequest DEF Insert, RequestPcs
<1>3. /\ bUp
      /\ Waiting(j)
      /\ bThread[j].pc \in Serving
      /\ UNCHANGED <<roleVars, idVars, bPool, rThread, callbacks>>
  BY DEF Insert, Waiting, Serving
<1>4. CASE bLog' = bLog
  <2>1. SameRows
    BY <1>1, <1>4 DEF SameRows
  <2> QED
    BY <1>1, <1>2, <1>3, <2>1, ServedStep
<1>5. CASE bLog' = Append(bLog, row)
  <2>1. row \in Row /\ row.sid = bThread[j].sid /\ row.job = j
    BY <1>1 DEF Request, NewRow, Row, Pending, Responses, Kinds, Forwardings, Deliveries
  <2> HIDE DEF row
  <2>2. /\ bLog' \in Seq(Row)
        /\ DOMAIN bLog' = DOMAIN bLog \cup {n}
        /\ n \notin DOMAIN bLog
        /\ \A i \in DOMAIN bLog : bLog'[i] = bLog[i]
        /\ bLog'[n] = row
    BY <1>1, <1>5, <2>1, AppendKeepsRows
  <2> HIDE DEF n
  <2>3. bThread'[j] = t /\ \A k \in Jobs : k # j => bThread'[k] = bThread[k]
    BY <1>1, <1>2
  <2>4. /\ \A i \in DOMAIN bLog : bLog[i].job \in Jobs /\ bLog[i].sid \in Nat
        /\ bThread[j].sid \in Nat /\ bNextSid \in Nat
    BY <1>1, LogRows DEF Row, Request, IInv, Types
  <2>5. OwnRows' = OwnRows \cup {n} /\ OwnRows \subseteq DOMAIN bLog
    BY <1>2, <2>1, <2>2, <2>3, <2>4 DEF OwnRows
  <2>6. Types'
    BY <1>1, <1>2, <1>3, <2>2 DEF IInv, Types, roleVars, idVars
  <2>7. IdsAreApart'
    <3> USE DEF IInv, IdsAreApart
    <3>1. IdsAreBounded'
      <4>1. PICK b \in Nat : \A i \in DOMAIN bLog : bLog[i].sid < b
        BY DEF IdsAreBounded
      <4> DEFINE c == IF b > bNextSid THEN b ELSE bNextSid
      <4>2. c \in Nat /\ \A i \in DOMAIN bLog' : bLog'[i].sid < c
        BY <1>3, <2>1, <2>2, <2>4, <4>1 DEF WaitingIsFresh
      <4>3. bNextSid' > 0 /\ \A i \in DOMAIN bLog' : bLog'[i].sid > 0
        BY <1>3, <2>1, <2>2 DEF WaitingIsFresh, IdsAreBounded, idVars
      <4> HIDE DEF c
      <4> QED
        BY <4>2, <4>3 DEF IdsAreBounded
    <3>2. UnservedHasNoId'
      BY <1>2, <2>3 DEF UnservedHasNoId
    <3>3. UnservedHasNoRow'
      BY <1>2, <2>1, <2>2, <2>3 DEF UnservedHasNoRow
    <3>4. OwnBelowCounter'
      BY <1>3, <2>1, <2>2, <2>5 DEF OwnBelowCounter, WaitingIsFresh, idVars
    <3>5. WaitingIsFresh'
      <4>1. \A k \in Jobs : Waiting(k)' => /\ k # j
                                           /\ Waiting(k)
                                           /\ bThread'[k] = bThread[k]
                                           /\ bThread[k].sid # bThread[j].sid
        BY <1>2, <1>3, <2>3 DEF Waiting, WaitingIsFresh
      <4>2. \A k \in Jobs : Waiting(k)' => \A i \in OwnRows' : bLog'[i].sid # bThread'[k].sid
        BY <2>1, <2>2, <2>5, <4>1 DEF WaitingIsFresh
      <4>3. \A k \in Jobs : Waiting(k)' => bThread'[k].sid > 0 /\ bThread'[k].sid < bNextSid'
        BY <1>3, <4>1 DEF WaitingIsFresh, idVars
      <4>4. \A k, l \in Jobs :
              Waiting(k)' /\ Waiting(l)' /\ bThread'[l].sid = bThread'[k].sid => l = k
        BY <4>1 DEF WaitingIsFresh
      <4> QED
        BY <4>2, <4>3, <4>4 DEF WaitingIsFresh
    <3>6. SubmissionsUnique'
      <4>1. \A i \in OwnRows : bLog[i].sid # bThread[j].sid
        BY <1>3 DEF WaitingIsFresh
      <4>2. \A i, k \in DOMAIN bLog :
              bLog'[i].sid = bLog'[k].sid => i = k \/ (i \in OwnRows <=> k \notin OwnRows)
        BY <2>2 DEF SubmissionsUnique
      <4>3. \A i \in DOMAIN bLog : bLog'[i].sid = bLog'[n].sid => i \notin OwnRows
        BY <2>1, <2>2, <4>1
      <4> QED
        BY <2>2, <2>5, <4>2, <4>3 DEF SubmissionsUnique
    <3> QED
      BY <3>1, <3>2, <3>3, <3>4, <3>5, <3>6
  <2>8. PassIsSound'
    BY <1>3, <2>2, PassKept
  <2>9. RoleIsKept'
    BY <1>3, WorkIsPromoted, RoleOfServing DEF Serving, roleVars
  <2> QED
    BY <2>6, <2>7, <2>8, <2>9 DEF IInv
<1> QED
  BY <1>4, <1>5 DEF Insert, Store

-----------------------------------------------------------------------------
(***************************************************************************)
(* Replication and the UDP thread                                          *)
(***************************************************************************)

\* These leave a backup that stands by passive: no row becomes RECOVERED.
LEMMA RoleOfWrites ==
  ASSUME IInv, UNCHANGED <<roleVars, bThread, rThread, callbacks>>,
         \A i \in DOMAIN bLog' :
           \/ bLog'[i].forwarding # "RECOVERED"
           \/ i \in DOMAIN bLog /\ bLog'[i].forwarding = bLog[i].forwarding
  PROVE  RoleIsKept'
BY DEF IInv, RoleIsKept, StandbyIsPassive, DeadIsQuiet, Live, roleVars

\* An UPDATE from elsewhere.
LEMMA ForeignUpdateStep ==
  ASSUME IInv, NEW sid \in Nat, NEW forwarding \in {"FORWARDED", "FAILED"},
         NEW response \in Responses, NEW delivery \in Deliveries,
         Store(Updated(bLog, sid, forwarding, response, delivery)),
         UNCHANGED <<roleVars, idVars, bThread, bPool, rThread, callbacks>>
  PROVE  IInv'
<1>1. forwarding \in Forwardings /\ bLog \in Seq(Row)
  BY DEF Forwardings, IInv, Types
<1>2. SameRows
  BY <1>1, StoreUpdated
<1>3. Types'
  BY <1>2 DEF IInv, Types, SameRows, roleVars, idVars
<1>4. IdsAreApart'
  BY <1>2, IdsKept DEF Settles, idVars, IInv, Types
<1>5. PassIsSound'
  BY <1>2, PassKept DEF SameRows
<1>6. \A i \in DOMAIN bLog' : \/ bLog'[i].forwarding # "RECOVERED"
                              \/ i \in DOMAIN bLog /\ bLog'[i].forwarding = bLog[i].forwarding
  <2>1. CASE bLog' = bLog
    BY <2>1
  <2>2. CASE bLog' = Updated(bLog, sid, forwarding, response, delivery)
    BY <1>1, <2>2, UpdatedKeepsRows
  <2> QED
    BY <2>1, <2>2 DEF Store
<1>7. RoleIsKept'
  BY <1>6, RoleOfWrites
<1> QED
  BY <1>3, <1>4, <1>5, <1>7 DEF IInv

\* The log's ids are numbers.
LEMMA IdsOfLogAreNaturals ==
  ASSUME IInv
  PROVE  SidsOf(bLog) \subseteq Nat
BY SidsAreNaturals DEF IInv, Types

\* A RESULT datagram is stored.
LEMMA ResultArrivesStep ==
  ASSUME IInv, NEW sid \in SidsOf(bLog), NEW response \in Computed,
         ResultArrives(sid, response)
  PROVE  IInv'
<1>1. sid \in Nat /\ response \in Responses /\ "PENDING" \in Deliveries
  BY IdsOfLogAreNaturals, ComputedIsOutcome DEF Deliveries
<1> QED
  BY <1>1, ForeignUpdateStep DEF ResultArrives

\* A replicated UPDATE is stored.
LEMMA ReplicaUpdateStep ==
  ASSUME IInv, NEW sid \in SidsOf(bLog), NEW response \in Computed \cup {Fatal},
         UpdateComes(sid, response)
  PROVE  IInv'
<1> DEFINE forwarding == IF response = Fatal THEN "FAILED" ELSE "FORWARDED"
<1>1. /\ sid \in Nat
      /\ response \in Responses
      /\ forwarding \in {"FORWARDED", "FAILED"}
      /\ "DIRECT" \in Deliveries
  BY IdsOfLogAreNaturals, ComputedIsOutcome DEF Deliveries, Fatal, Responses, Kinds
<1>2. /\ Store(Updated(bLog, sid, forwarding, response, "DIRECT"))
      /\ UNCHANGED <<roleVars, idVars, bThread, bPool, rThread, callbacks>>
  BY DEF UpdateComes, ReplicaArrives, ApplyUpdate
<1> HIDE DEF forwarding
<1> QED
  BY <1>1, <1>2, ForeignUpdateStep

\* A replica of a job whose client did not turn to the backup: its row is none
\* of the backup's own, whatever id it has.
LEMMA ReplicaInsertStep ==
  ASSUME IInv, NEW j \in Jobs, NEW sid \in ReplicaSids, NEW receipt \in ReplicaReceipts,
         InsertComes(j, sid, receipt)
  PROVE  IInv'
<1> DEFINE row == NewRow(sid, receipt, j)
           n == Len(bLog) + 1
<1>1. /\ bThread \in [Jobs -> Request] /\ bLog \in Seq(Row)
      /\ sid \in Nat /\ sid > 0 /\ receipt \in Nat
  BY BackupAssumption DEF IInv, Types
<1>2. UNCHANGED <<roleVars, idVars, bThread, bPool, rThread, callbacks>>
  BY DEF InsertComes, ReplicaArrives
<1>3. bLog' = bLog \/ bLog' = Append(bLog, row)
  BY DEF InsertComes, ReplicaArrives, ApplyInsert, Store, NewRow
<1>4. row \in Row /\ row.sid = sid /\ row.job = j /\ row.forwarding = "PENDING"
  BY <1>1 DEF NewRow, Row, Pending, Responses, Kinds, Forwardings, Deliveries
<1> HIDE DEF row
<1>5. CASE bLog' = bLog
  <2>1. SameRows
    BY <1>1, <1>5 DEF SameRows
  <2>2. Types' /\ PassIsSound' /\ RoleIsKept'
    BY <1>2, <1>5, PassKept, RoleOfWrites DEF IInv, Types, roleVars, idVars
  <2>3. IdsAreApart'
    BY <1>2, <2>1, IdsKept DEF Settles, idVars, IInv, Types
  <2> QED
    BY <2>2, <2>3 DEF IInv
<1>6. CASE bLog' = Append(bLog, row)
  <2>1. /\ bLog' \in Seq(Row)
        /\ DOMAIN bLog' = DOMAIN bLog \cup {n}
        /\ n \notin DOMAIN bLog
        /\ \A i \in DOMAIN bLog : bLog'[i] = bLog[i]
        /\ bLog'[n] = row
    BY <1>1, <1>4, <1>6, AppendKeepsRows
  <2> HIDE DEF n
  <2>2. Types'
    BY <1>2, <2>1 DEF IInv, Types, roleVars, idVars
  <2>3. bThread[j].pc = "idle" /\ bThread[j].sid # sid
    BY <1>1 DEF InsertComes, Unseen, IInv, IdsAreApart, UnservedHasNoId
  <2>4. OwnRows' = OwnRows /\ OwnRows \subseteq DOMAIN bLog
    BY <1>2, <1>4, <2>1, <2>3 DEF OwnRows
  <2>5. IdsAreApart'
    <3> USE DEF IInv, IdsAreApart
    <3>1. IdsAreBounded'
      <4>1. PICK b \in Nat : \A i \in DOMAIN bLog : bLog[i].sid < b
        BY DEF IdsAreBounded
      <4> DEFINE c == IF b > sid THEN b ELSE sid + 1
      <4>2. \A i \in DOMAIN bLog : bLog[i].sid \in Nat
        BY LogRows DEF Row
      <4>3. c \in Nat /\ \A i \in DOMAIN bLog' : bLog'[i].sid < c
        BY <1>1, <1>4, <2>1, <4>1, <4>2
      <4>4. bNextSid' > 0 /\ \A i \in DOMAIN bLog' : bLog'[i].sid > 0
        BY <1>1, <1>2, <1>4, <2>1 DEF IdsAreBounded, idVars
      <4> HIDE DEF c
      <4> QED
        BY <4>3, <4>4 DEF IdsAreBounded
    <3>2. UnservedHasNoId' /\ UnservedHasNoRow'
      BY <1>2, <1>4, <2>1, <2>3 DEF UnservedHasNoId, UnservedHasNoRow
    <3>3. OwnBelowCounter' /\ WaitingIsFresh'
      BY <1>2, <2>1, <2>4 DEF OwnBelowCounter, WaitingIsFresh, Waiting, idVars
    <3>4. SubmissionsUnique'
      <4>1. \A i, k \in DOMAIN bLog :
              bLog'[i].sid = bLog'[k].sid => i = k \/ (i \in OwnRows <=> k \notin OwnRows)
        BY <2>1 DEF SubmissionsUnique
      <4>2. \A i \in DOMAIN bLog : bLog'[i].sid = bLog'[n].sid => i \in OwnRows
        BY <1>4, <2>1 DEF InsertComes
      <4> QED
        BY <2>1, <2>4, <4>1, <4>2 DEF SubmissionsUnique
    <3> QED
      BY <3>1, <3>2, <3>3, <3>4
  <2>6. PassIsSound'
    BY <1>2, <2>1, PassKept
  <2>7. RoleIsKept'
    BY <1>2, <1>4, <2>1, RoleOfWrites
  <2> QED
    BY <2>2, <2>5, <2>6, <2>7 DEF IInv
<1> QED
  BY <1>3, <1>5, <1>6

\* The pool is apart from everything the invariant relates.
LEMMA PoolStep ==
  ASSUME IInv, NEW n \in Nodes, Heartbeat(n) \/ Evict(n)
  PROVE  IInv'
<1>1. bPool' \subseteq Nodes
      /\ UNCHANGED <<roleVars, bLog, idVars, bThread, rThread, callbacks>>
  BY DEF Heartbeat, Evict, IInv, Types
<1>2. Types' /\ SameRows
  BY <1>1 DEF IInv, Types, SameRows, roleVars, idVars
<1>3. IdsAreApart'
  BY <1>1, <1>2, IdsKept DEF Settles, idVars, IInv, Types
<1>4. PassIsSound' /\ RoleIsKept'
  BY <1>1, PassKept, RoleOfWrites
<1> QED
  BY <1>2, <1>3, <1>4 DEF IInv

-----------------------------------------------------------------------------
(***************************************************************************)
(* The recovery thread                                                     *)
(***************************************************************************)

\* A copy a pass holds is one it held before, or of the log as it is.
LEMMA PassStep ==
  ASSUME IInv, bUp, promoted,
         SameRows, bPool' \subseteq Nodes, callbacks' \in [Jobs -> Seq(Responses)],
         UNCHANGED <<roleVars, idVars, bThread>>,
         IsRecovery(rThread'),
         rThread'.pc \notin {"idle", "scanning"} => DOMAIN rThread'.queue # {},
         \A i \in DOMAIN rThread'.queue :
           \/ i \in DOMAIN rThread.queue /\ rThread'.queue[i] = rThread.queue[i]
           \/ i \in DOMAIN bLog /\ rThread'.queue[i] = bLog[i]
  PROVE  IInv'
<1>1. Types'
  BY DEF IInv, Types, SameRows, roleVars, idVars
<1>2. IdsAreApart'
  BY IdsKept DEF Settles, idVars, IInv, Types
<1>3. QueueIsOfLog'
  BY DEF IInv, PassIsSound, QueueIsOfLog, SameRows
<1>4. PassIsSound'
  BY <1>3 DEF PassIsSound
<1>5. RoleIsKept'
  BY RoleOfServing DEF roleVars
<1> QED
  BY <1>1, <1>2, <1>4, <1>5 DEF IInv

\* The loop turns to a row behind: the case of most steps.
LEMMA TurnStep ==
  ASSUME IInv, bUp, rThread.pc # "idle", NEW queue, IsQueue(queue),
         \A i \in DOMAIN queue : i \in DOMAIN rThread.queue /\ queue[i] = rThread.queue[i],
         rThread' = Turn(queue),
         SameRows, bPool' \subseteq Nodes,
         UNCHANGED <<roleVars, idVars, bThread, callbacks>>
  PROVE  IInv'
<1>1. promoted /\ callbacks' \in [Jobs -> Seq(Responses)]
  BY WorkIsPromoted DEF IInv, Types
<1>2. /\ IsRecovery(rThread')
      /\ DOMAIN queue # {} => rThread'.queue = queue
      /\ DOMAIN queue = {} => rThread' = IdleRecovery
  BY TurnIsRecovery
<1>3. CASE DOMAIN queue # {}
  <2>1. \A i \in DOMAIN rThread'.queue :
          i \in DOMAIN rThread.queue /\ rThread'.queue[i] = rThread.queue[i]
    BY <1>2, <1>3
  <2>2. DOMAIN rThread'.queue # {}
    BY <1>2, <1>3
  <2> QED
    BY <1>1, <1>2, <2>1, <2>2, PassStep
<1>4. CASE DOMAIN queue = {}
  <2>1. rThread'.pc = "idle" /\ DOMAIN rThread'.queue = {}
    BY <1>2, <1>4 DEF IdleRecovery
  <2> QED
    BY <1>1, <1>2, <2>1, PassStep
<1> QED
  BY <1>3, <1>4

\* The fields of the thread.
LEMMA RecoveryFields ==
  ASSUME IInv
  PROVE  /\ rThread = [pc |-> rThread.pc, queue |-> rThread.queue,
                       attempt |-> rThread.attempt, target |-> rThread.target,
                       response |-> rThread.response, delivered |-> rThread.delivered]
         /\ rThread.attempt \in Nat
         /\ rThread.target \in Nodes \cup {NoNode}
         /\ rThread.response \in Responses
         /\ rThread.delivered \in BOOLEAN
         /\ bPool \subseteq Nodes
         /\ callbacks \in [Jobs -> Seq(Responses)]
BY DEF IInv, Types, PassIsSound, IsRecovery, Recovery

\* The recovery thread opens its SELECT.
LEMMA StartScanStep ==
  ASSUME IInv, StartScan
  PROVE  IInv'
<1> DEFINE queue == PendingRows(bLog)
           r == [pc |-> "scanning", queue |-> queue, attempt |-> rThread.attempt,
                 target |-> rThread.target, response |-> rThread.response,
                 delivered |-> rThread.delivered]
<1>1. /\ IsRecovery(rThread) /\ bLog \in Seq(Row)
      /\ bPool \subseteq Nodes /\ callbacks \in [Jobs -> Seq(Responses)]
  BY DEF IInv, Types, PassIsSound
<1>2. /\ IsQueue(queue) /\ DOMAIN queue \subseteq DOMAIN bLog
      /\ \A i \in DOMAIN queue : queue[i] = bLog[i]
  BY <1>1, PendingRowsAreRows
<1>3. queue \in [DOMAIN queue -> Row]
  BY <1>2 DEF IsQueue
<1>4. rThread' = r
  BY RecoveryFields DEF StartScan
<1> HIDE DEF queue
<1>5. IsRecovery(r) /\ r.queue = queue /\ r.pc = "scanning"
  BY <1>2, <1>3, RecoveryFields DEF IsRecovery, Recovery
<1>6. /\ bUp /\ promoted
      /\ UNCHANGED <<roleVars, bLog, idVars, bThread, bPool, callbacks>>
  BY DEF StartScan
<1> HIDE DEF r
<1>7. SameRows
  BY <1>1, <1>6 DEF SameRows
<1>8. \A i \in DOMAIN rThread'.queue : i \in DOMAIN bLog /\ rThread'.queue[i] = bLog[i]
  BY <1>2, <1>4, <1>5
<1> QED
  BY <1>1, <1>4, <1>5, <1>6, <1>7, <1>8, PassStep

\* The recovery thread has read the pending rows.
LEMMA EndScanStep ==
  ASSUME IInv, EndScan
  PROVE  IInv'
<1>1. IsQueue(rThread.queue)
  BY DEF IInv, PassIsSound, IsRecovery
<1>2. SameRows /\ bPool' \subseteq Nodes
  BY DEF EndScan, IInv, Types, SameRows
<1> QED
  BY <1>1, <1>2, TurnStep DEF EndScan

\* The row at the head of a pass that is under way.
LEMMA HeadOfPass ==
  ASSUME IInv, rThread.pc \notin {"idle", "scanning"}
  PROVE  /\ First(rThread.queue) \in Row
         /\ IsQueue(Rest(rThread.queue))
         /\ \A i \in DOMAIN Rest(rThread.queue) :
              /\ i \in DOMAIN rThread.queue
              /\ Rest(rThread.queue)[i] = rThread.queue[i]
<1>1. IsQueue(rThread.queue) /\ DOMAIN rThread.queue # {}
  BY DEF IInv, PassIsSound, IsRecovery
<1> QED
  BY <1>1, FirstIsInQueue, RestIsQueue

\* The thread goes on with the row it is on.
LEMMA SameRowStep ==
  ASSUME IInv, bUp, rThread.pc \notin {"idle", "scanning"},
         rThread' \in [pc : {"scheduling", "calling", "delivering", "recording"},
                       queue : {rThread.queue}, attempt : Nat,
                       target : Nodes \cup {NoNode}, response : Responses,
                       delivered : BOOLEAN],
         bPool' \subseteq Nodes, callbacks' \in [Jobs -> Seq(Responses)],
         UNCHANGED <<roleVars, bLog, idVars, bThread>>
  PROVE  IInv'
<1>1. /\ IsQueue(rThread.queue) /\ DOMAIN rThread.queue # {}
      /\ rThread.queue \in [DOMAIN rThread.queue -> Row]
  BY DEF IInv, PassIsSound, IsRecovery, IsQueue
<1>2. rThread'.queue = rThread.queue
  OBVIOUS
<1>3. IsRecovery(rThread')
  BY <1>1, <1>2 DEF IsRecovery, Recovery
<1>4. SameRows /\ promoted
  BY WorkIsPromoted DEF IInv, Types, SameRows
<1> QED
  BY <1>1, <1>2, <1>3, <1>4, PassStep

\* A node is chosen for a replay.
LEMMA ReplayReserveStep ==
  ASSUME IInv, NEW n \in Nodes, ReplayReserve(n)
  PROVE  IInv'
<1>1. rThread' = [pc |-> "calling", queue |-> rThread.queue, attempt |-> rThread.attempt,
                  target |-> n, response |-> rThread.response,
                  delivered |-> rThread.delivered]
  BY RecoveryFields DEF ReplayReserve
<1> QED
  BY <1>1, RecoveryFields, SameRowStep DEF ReplayReserve

\* A replay is answered.
LEMMA ReplayReturnsStep ==
  ASSUME IInv, NEW response \in Computed, ReplayReturns(response)
  PROVE  IInv'
<1>1. rThread' = [pc |-> "delivering", queue |-> rThread.queue,
                  attempt |-> rThread.attempt, target |-> NoNode,
                  response |-> response, delivered |-> rThread.delivered]
  BY RecoveryFields DEF ReplayReturns
<1>2. response \in Responses
  BY ComputedIsOutcome
<1> QED
  BY <1>1, <1>2, RecoveryFields, SameRowStep DEF ReplayReturns

\* Another attempt for the row, or the next row.
LEMMA ReplayRetryStep ==
  ASSUME IInv, bUp, rThread.pc \in {"scheduling", "calling"}, ReplayRetry,
         bPool' \subseteq Nodes,
         UNCHANGED <<roleVars, bLog, idVars, bThread, callbacks>>
  PROVE  IInv'
<1>1. CASE rThread.attempt + 1 < MaxRetries
  <2>1. rThread' = [pc |-> "scheduling", queue |-> rThread.queue,
                    attempt |-> rThread.attempt + 1, target |-> NoNode,
                    response |-> rThread.response, delivered |-> rThread.delivered]
    BY <1>1, RecoveryFields DEF ReplayRetry
  <2> QED
    BY <2>1, RecoveryFields, SameRowStep
<1>2. CASE ~(rThread.attempt + 1 < MaxRetries)
  <2>1. rThread' = Turn(Rest(rThread.queue))
    BY <1>2 DEF ReplayRetry
  <2>2. SameRows
    BY DEF IInv, Types, SameRows
  <2> QED
    BY <2>1, <2>2, HeadOfPass, TurnStep
<1> QED
  BY <1>1, <1>2

\* A replay found no node, or lost it.
LEMMA ReplayFailsStep ==
  ASSUME IInv, ReplayReserveNone \/ ReplayFails
  PROVE  IInv'
BY ReplayRetryStep, RecoveryFields DEF ReplayReserveNone, ReplayFails

\* A callback is tried.
LEMMA DeliverStep ==
  ASSUME IInv, NEW ok \in BOOLEAN, Deliver(ok)
  PROVE  IInv'
<1>1. rThread' = [pc |-> "recording", queue |-> rThread.queue,
                  attempt |-> rThread.attempt, target |-> rThread.target,
                  response |-> rThread.response, delivered |-> ok]
  BY RecoveryFields DEF Deliver
<1>2. First(rThread.queue).job \in Jobs
  BY HeadOfPass DEF Deliver, Row
<1>3. callbacks' \in [Jobs -> Seq(Responses)]
  <2> DEFINE j == First(rThread.queue).job
  <2>1. Append(callbacks[j], rThread.response) \in Seq(Responses)
    BY <1>2, RecoveryFields
  <2> QED
    BY <1>2, <2>1, RecoveryFields DEF Deliver
<1> QED
  BY <1>1, <1>3, RecoveryFields, SameRowStep DEF Deliver

\* The outcome of a callback is recorded.
LEMMA RecordStep ==
  ASSUME IInv, Record
  PROVE  IInv'
<1> DEFINE row == First(rThread.queue)
           delivery == IF rThread.delivered THEN "DELIVERED" ELSE "UNDELIVERED"
<1>1. rThread.pc = "recording" /\ bUp
  BY DEF Record
<1>2. row.sid \in Nat
  BY <1>1, HeadOfPass DEF Row
<1>3. /\ rThread.response \in Responses
      /\ "RECOVERED" \in Forwardings
      /\ delivery \in Deliveries
      /\ bLog \in Seq(Row)
  BY RecoveryFields DEF IInv, Types, Forwardings, Deliveries
<1>4. bLog' = Updated(bLog, row.sid, "RECOVERED", rThread.response, delivery)
  BY DEF Record
<1> HIDE DEF row, delivery
<1>5. SameRows
  BY <1>2, <1>3, <1>4, UpdatedKeepsRows DEF SameRows
<1> QED
  BY <1>1, <1>5, HeadOfPass, RecoveryFields, TurnStep DEF Record

-----------------------------------------------------------------------------
(***************************************************************************)
(* The role, and process failure                                           *)
(***************************************************************************)

\* The monitor checks the primary, or there is none to check.
LEMMA HealthStep ==
  ASSUME IInv, (\E reachable \in BOOLEAN : HealthCheck(reachable)) \/ NoPrimary
  PROVE  IInv'
<1>1. /\ bUp' = bUp /\ bUp /\ ~promoted /\ bRestarts' = bRestarts
      /\ UNCHANGED <<bLog, idVars, bThread, bPool, rThread, callbacks>>
  BY DEF HealthCheck, NoPrimary
<1>2. promoted' \in BOOLEAN /\ bFailures' \in Nat /\ bConfigured' = bConfigured
  <2>1. bFailures \in Nat /\ bFailures + 1 \in Nat
    BY DEF IInv, Types
  <2>2. CASE NoPrimary
    BY <2>1, <2>2 DEF NoPrimary
  <2>3. CASE \E reachable \in BOOLEAN : HealthCheck(reachable)
    <3>1. PICK reachable \in BOOLEAN : HealthCheck(reachable)
      BY <2>3
    <3>2. promoted' = (~reachable /\ bFailures + 1 >= FailureThreshold)
      BY <3>1 DEF HealthCheck
    <3>3. promoted' \in BOOLEAN
      BY <3>2
    <3>4. bFailures' \in Nat /\ bConfigured' = bConfigured
      BY <2>1, <3>1 DEF HealthCheck
    <3> QED
      BY <3>3, <3>4
  <2> QED
    BY <2>2, <2>3
<1>3. Types' /\ SameRows
  BY <1>1, <1>2 DEF IInv, Types, SameRows, idVars
<1>4. IdsAreApart'
  BY <1>1, <1>3, IdsKept DEF Settles, idVars, IInv, Types
<1>5. PassIsSound'
  BY <1>1, PassKept
<1>6. RoleIsKept'
  <2>1. CASE promoted'
    BY <1>1, <2>1, RoleOfServing
  <2>2. CASE ~promoted'
    BY <1>1, <2>2 DEF IInv, RoleIsKept, StandbyIsPassive, DeadIsQuiet, Live
  <2> QED
    BY <2>1, <2>2
<1> QED
  BY <1>3, <1>4, <1>5, <1>6 DEF IInv

\* The backup dies.
LEMMA CrashStep ==
  ASSUME IInv, Crash
  PROVE  IInv'
<1>1. bThread \in [Jobs -> Request] /\ bLog \in Seq(Row)
  BY DEF IInv, Types
<1>2. \A k \in Jobs : /\ bThread'[k] \in Request
                      /\ Settles(k)
                      /\ ~Live(k)'
  <2> TAKE k \in Jobs
  <2>1. bThread[k] \in Request
    BY <1>1
  <2>2. bThread'[k] = IF Live(k) THEN [bThread[k] EXCEPT !.pc = "gone"] ELSE bThread[k]
    BY DEF Crash
  <2>3. CASE Live(k)
    <3>1. /\ bThread'[k] \in Request
          /\ bThread'[k].pc = "gone"
          /\ bThread'[k].sid = bThread[k].sid
      BY <2>1, <2>2, <2>3 DEF Request, RequestPcs
    <3> QED
      BY <3>1 DEF Settles, Live
  <2>4. CASE ~Live(k)
    BY <2>1, <2>2, <2>4 DEF Settles, Live
  <2> QED
    BY <2>3, <2>4
<1>3. bThread' \in [Jobs -> Request]
  BY <1>2 DEF Crash
<1>4. Types' /\ SameRows
  BY <1>1, <1>3 DEF IInv, Types, Crash, SameRows, idVars
<1>5. IdsAreApart'
  <2>1. bNextSid' = bNextSid /\ bNextSid \in Nat
    BY DEF Crash, idVars, IInv, Types
  <2> QED
    BY <1>2, <1>4, <2>1, IdsKept
<1>6. PassIsSound'
  <2>1. rThread' = IdleRecovery /\ DOMAIN rThread'.queue = {} /\ rThread'.pc = "idle"
    BY DEF Crash, IdleRecovery
  <2> QED
    BY <2>1, IdleIsRecovery DEF PassIsSound, QueueIsOfLog
<1>7. RoleIsKept'
  BY <1>2 DEF Crash, RoleIsKept, StandbyIsPassive, DeadIsQuiet
<1> QED
  BY <1>4, <1>5, <1>6, <1>7 DEF IInv

\* The counter is taken from the log.  Ids of requests whose INSERT was lost
\* may be given again; no thread waits that has one of them.
LEMMA RestartStep ==
  ASSUME IInv, Restart
  PROVE  IInv'
<1>1. /\ ~bUp /\ bUp' = TRUE /\ bRestarts' = bRestarts + 1 /\ bRestarts \in Nat
      /\ bLog \in Seq(Row)
      /\ rThread = IdleRecovery
      /\ \A j \in Jobs : ~Live(j)
      /\ bNextSid' = NextSubmission(bLog)
      /\ bNextReceipt' = NextReceipt(bLog)
      /\ UNCHANGED <<bConfigured, promoted, bFailures, bLog, bThread, bPool, rThread, callbacks>>
  BY DEF Restart, IInv, Types, RoleIsKept, DeadIsQuiet
<1>2. /\ bNextSid' \in Nat
      /\ \A i \in DOMAIN bLog : bLog[i].sid < bNextSid'
  <2>1. PICK b \in Nat : \A i \in DOMAIN bLog : bLog[i].sid < b
    BY DEF IInv, IdsAreApart, IdsAreBounded
  <2> QED
    BY <1>1, <2>1, NextSubmissionIsFresh
<1>3. bNextSid' > 0
  <2>1. CASE bLog = <<>>
    BY <1>1, <2>1 DEF NextSubmission
  <2>2. CASE bLog # <<>>
    <3>1. 1 \in DOMAIN bLog
      BY <1>1, <2>2
    <3>2. bLog[1].sid \in Nat
      BY <3>1, LogRows DEF Row
    <3> QED
      BY <1>2, <3>1, <3>2
  <2> QED
    BY <2>1, <2>2
<1>4. Types'
  BY <1>1, <1>2, NextReceiptType DEF IInv, Types
<1>5. IdsAreApart'
  <2> USE DEF IInv, IdsAreApart
  <2>1. IdsAreBounded'
    BY <1>1, <1>3 DEF IdsAreBounded
  <2>2. UnservedHasNoId' /\ UnservedHasNoRow' /\ SubmissionsUnique'
    BY <1>1 DEF UnservedHasNoId, UnservedHasNoRow, SubmissionsUnique, OwnRows
  <2>3. OwnBelowCounter'
    BY <1>1, <1>2 DEF OwnBelowCounter, OwnRows
  <2>4. WaitingIsFresh'
    BY <1>1 DEF WaitingIsFresh, Waiting, Live
  <2> QED
    BY <2>1, <2>2, <2>3, <2>4
<1>6. PassIsSound'
  BY <1>1, PassKept
<1>7. RoleIsKept'
  BY <1>1 DEF RoleIsKept, StandbyIsPassive, DeadIsQuiet, Live
<1> QED
  BY <1>4, <1>5, <1>6, <1>7 DEF IInv

-----------------------------------------------------------------------------
(***************************************************************************)
(* The theorems                                                            *)
(***************************************************************************)

\* The backup starts in the invariant.
LEMMA InitEstablishes == Init => IInv
<1> SUFFICES ASSUME Init PROVE IInv
  OBVIOUS
<1>1. PICK pool \in SUBSET Nodes : InitWith(pool)
  BY DEF Init
<1>2. /\ bLog = <<>> /\ bNextSid = 1001 /\ bNextReceipt = 2001
      /\ bConfigured \in BOOLEAN
      /\ bUp = TRUE /\ bRestarts = 0 /\ promoted = FALSE /\ bFailures = 0
      /\ bThread = [j \in Jobs |-> IdleRequest]
      /\ bPool \subseteq Nodes
      /\ rThread = IdleRecovery
      /\ callbacks = [j \in Jobs |-> <<>>]
  BY <1>1, BackupAssumption DEF InitWith, NextSubmission, NextReceipt
<1>3. IdleRequest \in Request /\ IdleRequest.pc = "idle" /\ IdleRequest.sid = 0
  BY DEF IdleRequest, Request, RequestPcs, Pending, Responses, Kinds
<1>4. DOMAIN bLog = {}
  BY <1>2
<1>5. Types
  <2>1. callbacks \in [Jobs -> Seq(Responses)] /\ bThread \in [Jobs -> Request]
    BY <1>2, <1>3
  <2>2. bLog \in Seq(Row)
    BY <1>2
  <2>3. bUp \in BOOLEAN /\ promoted \in BOOLEAN /\ bConfigured \in BOOLEAN
    BY <1>2
  <2>4. bRestarts \in Nat /\ bFailures \in Nat /\ bNextSid \in Nat /\ bNextReceipt \in Nat
    BY <1>2
  <2> QED
    BY <1>2, <2>1, <2>2, <2>3, <2>4 DEF Types
<1>6. IdsAreApart
  BY <1>2, <1>3, <1>4 DEF IdsAreApart, IdsAreBounded, UnservedHasNoId, UnservedHasNoRow,
     OwnBelowCounter, OwnRows, WaitingIsFresh, Waiting, SubmissionsUnique
<1>7. PassIsSound
  <2>1. DOMAIN rThread.queue = {} /\ rThread.pc = "idle"
    BY <1>2 DEF IdleRecovery
  <2> QED
    BY <1>2, <2>1, IdleIsRecovery DEF PassIsSound, QueueIsOfLog
<1>8. RoleIsKept
  BY <1>2, <1>3, <1>4 DEF RoleIsKept, StandbyIsPassive, DeadIsQuiet, Live
<1> QED
  BY <1>5, <1>6, <1>7, <1>8 DEF IInv

\* A step that leaves the backup alone keeps its invariant.
LEMMA StutterKeeps ==
  ASSUME IInv, UNCHANGED bVars
  PROVE  IInv'
<1>1. UNCHANGED <<roleVars, bLog, idVars, bThread, bPool, rThread, callbacks>>
  BY DEF bVars
<1>2. Types' /\ SameRows
  BY <1>1 DEF IInv, Types, SameRows, roleVars, idVars
<1>3. IdsAreApart'
  BY <1>1, <1>2, IdsKept DEF Settles, idVars, IInv, Types
<1>4. PassIsSound' /\ RoleIsKept'
  BY <1>1, PassKept, RoleOfWrites
<1> QED
  BY <1>2, <1>3, <1>4 DEF IInv

\* Every step keeps the invariant.
LEMMA NextKeeps == IInv /\ [Next]_bVars => IInv'
<1> SUFFICES ASSUME IInv, [Next]_bVars PROVE IInv'
  OBVIOUS
<1>1. CASE \E j \in Jobs : RequestStep(j)
  <2>1. PICK j \in Jobs : RequestStep(j)
    BY <1>1
  <2>2. CASE Unseen(j) /\ (Accept(j) \/ Reject(j) \/ StartProbe(j))
    BY <2>2, AcceptStep, RejectStep, StartProbeStep
  <2>3. CASE \E reachable \in {FALSE, bConfigured} : ProbeReturns(j, reachable)
    <3>1. bConfigured \in BOOLEAN
      BY DEF IInv, Types
    <3> QED
      BY <2>3, <3>1, ProbeReturnsStep
  <2>4. CASE ProbeRejects(j)
    BY <2>4, RejectStep
  <2>5. CASE Insert(j)
    BY <2>5, InsertStep
  <2>6. CASE \/ \E n \in Nodes : Reserve(j, n)
             \/ \E response \in Computed : ForwardReturns(j, response)
    BY <2>6, CallStep
  <2>7. CASE ReserveNone(j) \/ ForwardFails(j)
    BY <2>7, ReserveNoneStep
  <2>8. CASE LogOutcome(j)
    BY <2>8, LogOutcomeStep
  <2>9. CASE Reply(j)
    BY <2>9, ReplyStep
  <2> QED
    BY <2>1, <2>2, <2>3, <2>4, <2>5, <2>6, <2>7, <2>8, <2>9 DEF RequestStep
<1>2. CASE RecoveryStep
  BY <1>2, StartScanStep, EndScanStep, ReplayReserveStep, ReplayFailsStep,
     ReplayReturnsStep, DeliverStep, RecordStep DEF RecoveryStep
<1>3. CASE ReplicaStep
  BY <1>3, ReplicaInsertStep, ReplicaUpdateStep DEF ReplicaStep
<1>4. CASE UdpStep \/ \E n \in Nodes : Evict(n)
  BY <1>4, ResultArrivesStep, PoolStep DEF UdpStep
<1>5. CASE (\E reachable \in BOOLEAN : HealthCheck(reachable)) \/ NoPrimary
  BY <1>5, HealthStep
<1>6. CASE Crash
  BY <1>6, CrashStep
<1>7. CASE Restart
  BY <1>7, RestartStep
<1>8. CASE UNCHANGED bVars
  BY <1>8, StutterKeeps
<1> QED
  BY <1>1, <1>2, <1>3, <1>4, <1>5, <1>6, <1>7, <1>8 DEF Next

\* The invariant holds of every behaviour.
LEMMA Invariance == Spec => []IInv
BY InitEstablishes, NextKeeps, PTL DEF Spec

\* Every variable of the backup keeps its type, the rows of a recovery pass
\* included.
THEOREM TypeCorrect == Spec => []TypeOK
BY Invariance, TypesOfInvariant, PTL

\* A backup that has not promoted leaves the cluster alone, whatever its
\* primary, its nodes and its clients do (backup.cpp:434, 710-717).
THEOREM StandbyPassive == Spec => []StandbyIsPassive
<1>1. IInv => StandbyIsPassive
  BY DEF IInv, RoleIsKept
<1> QED
  BY <1>1, Invariance, PTL

\* No two requests the backup numbered itself have one id in its log, though
\* INSERTs are lost during scans, replicas carry any ids, and restarts count
\* from the log (backup.cpp:295-314, 719).
THEOREM UniqueOwnSubmissions == Spec => []SubmissionsUnique
<1>1. IInv => SubmissionsUnique
  BY DEF IInv, IdsAreApart
<1> QED
  BY <1>1, Invariance, PTL

-----------------------------------------------------------------------------
(***************************************************************************)
(* Outcomes.  A thread that is about to write a response has one that is   *)
(* not PENDING: a computed text, FATAL, or the text of a row that had one  *)
(* when the pass began.  This is kept apart from IInv, which it needs.     *)
(***************************************************************************)

OutcomesAreKnown ==
  /\ \A j \in Jobs : bThread[j].pc = "logging" => bThread[j].response # Pending
  /\ rThread.pc \in {"delivering", "recording"} => rThread.response # Pending

\* A log that got longer, or some of whose texts were replaced by others.
LogGoesOn ==
  /\ Len(bLog) <= Len(bLog')
  /\ \A i \in DOMAIN bLog :
       /\ bLog'[i].sid = bLog[i].sid
       /\ bLog'[i].job = bLog[i].job
       /\ bLog'[i].response = bLog[i].response \/ bLog'[i].response # Pending

LEMMA LogGoesOnStays == LogGoesOn => OutcomesStay
BY DEF LogGoesOn, OutcomesStay

\* A log that is left alone goes on.
LEMMA SameLogGoesOn ==
  ASSUME IInv, UNCHANGED bLog
  PROVE  LogGoesOn
<1>1. Len(bLog) \in Nat
  BY DEF IInv, Types
<1> QED
  BY <1>1 DEF LogGoesOn

\* An UPDATE with a text, stored or dropped.
LEMMA UpdateGoesOn ==
  ASSUME IInv, NEW sid \in Nat, NEW forwarding \in Forwardings,
         NEW response \in Responses, NEW delivery \in Deliveries,
         response # Pending,
         bLog' \in {bLog, Updated(bLog, sid, forwarding, response, delivery)}
  PROVE  LogGoesOn
<1>1. bLog \in Seq(Row) /\ Len(bLog) \in Nat
  BY DEF IInv, Types
<1>2. CASE bLog' = bLog
  BY <1>2, SameLogGoesOn
<1>3. CASE bLog' = Updated(bLog, sid, forwarding, response, delivery)
  <2>1. /\ Len(bLog') = Len(bLog)
        /\ \A i \in DOMAIN bLog : /\ bLog'[i].sid = bLog[i].sid
                                  /\ bLog'[i].job = bLog[i].job
                                  /\ bLog'[i].response \in {bLog[i].response, response}
    BY <1>1, <1>3, UpdatedKeepsRows
  <2> QED
    BY <1>1, <2>1 DEF LogGoesOn
<1> QED
  BY <1>2, <1>3

\* An INSERT, stored or dropped.
LEMMA InsertGoesOn ==
  ASSUME IInv, NEW row \in Row, Store(Append(bLog, row))
  PROVE  LogGoesOn
<1>1. bLog \in Seq(Row) /\ Len(bLog) \in Nat
  BY DEF IInv, Types
<1>2. CASE bLog' = bLog
  BY <1>2, SameLogGoesOn
<1>3. CASE bLog' = Append(bLog, row)
  <2>1. Len(bLog') = Len(bLog) + 1 /\ \A i \in DOMAIN bLog : bLog'[i] = bLog[i]
    BY <1>1, <1>3, AppendKeepsRows
  <2> QED
    BY <1>1, <2>1 DEF LogGoesOn
<1> QED
  BY <1>2, <1>3 DEF Store

\* The thread of k is where it was, or does not come to write an outcome it
\* does not have.
Knows(k) ==
  \/ bThread'[k] = bThread[k]
  \/ bThread'[k].pc # "logging"
  \/ bThread'[k].response # Pending

LEMMA RequestsKnow ==
  ASSUME OutcomesAreKnown, UNCHANGED rThread, \A k \in Jobs : Knows(k)
  PROVE  OutcomesAreKnown'
BY DEF OutcomesAreKnown, Knows

\* Going anywhere but to log_master, and being admitted.
LEMMA GotoKnows ==
  ASSUME IInv, NEW j \in Jobs, NEW pc \in RequestPcs \ {"logging"}, Goto(j, pc)
  PROVE  \A k \in Jobs : Knows(k)
<1>1. PICK t \in Request : bThread' = [bThread EXCEPT ![j] = t] /\ t.pc = pc
  BY GotoRequest
<1>2. bThread \in [Jobs -> Request]
  BY DEF IInv, Types
<1> QED
  BY <1>1, <1>2 DEF Knows

LEMMA AdmitKnows ==
  ASSUME IInv, NEW j \in Jobs, Admit(j)
  PROVE  \A k \in Jobs : Knows(k)
<1>1. bThread \in [Jobs -> Request]
  BY DEF IInv, Types
<1>2. bThread' = [bThread EXCEPT ![j] = [bThread[j] EXCEPT !.pc = "inserting",
                                                            !.sid = bNextSid,
                                                            !.receipt = bNextReceipt]]
  BY <1>1 DEF Admit
<1>3. bThread'[j].pc = "inserting" /\ \A k \in Jobs \ {j} : bThread'[k] = bThread[k]
  BY <1>1, <1>2 DEF Request
<1> QED
  BY <1>3 DEF Knows

\* The loop delivers only what it has.
LEMMA TurnKnows ==
  ASSUME NEW queue, Turn(queue).pc \in {"delivering", "recording"}
  PROVE  Turn(queue).response # Pending
<1>1. CASE DOMAIN queue = {}
  BY <1>1 DEF Turn, IdleRecovery
<1>2. CASE DOMAIN queue # {}
  <2>1. /\ Turn(queue).response = First(queue).response
        /\ Turn(queue).pc = IF First(queue).response = Pending THEN "scheduling"
                                                               ELSE "delivering"
    BY <1>2 DEF Turn, IdleRecovery
  <2> QED
    BY <2>1
<1> QED
  BY <1>1, <1>2

\* The text a master writes itself is an outcome.
LEMMA FatalIsOutcome == Fatal \in Responses /\ Fatal # Pending
BY DEF Fatal, Pending, Responses, Kinds

\* A request's thread keeps the outcomes.
LEMMA RequestKeepsOutcomes ==
  ASSUME IInv, OutcomesAreKnown, NEW j \in Jobs, RequestStep(j)
  PROVE  OutcomesAreKnown' /\ LogGoesOn
<1>1. /\ bThread \in [Jobs -> Request] /\ bThread[j] \in Request
      /\ bThread[j].sid \in Nat /\ bThread[j].receipt \in Nat
      /\ bThread[j].response \in Responses
  BY DEF IInv, Types, Request
<1>2. CASE Unseen(j) /\ (Accept(j) \/ Reject(j) \/ StartProbe(j))
  <2>1. /\ UNCHANGED <<bLog, rThread>>
        /\ Admit(j) \/ Goto(j, "rejected") \/ Goto(j, "probing")
    BY <1>2 DEF Accept, Reject, StartProbe
  <2>2. \A k \in Jobs : Knows(k)
    BY <2>1, AdmitKnows, GotoKnows DEF RequestPcs
  <2> QED
    BY <2>1, <2>2, SameLogGoesOn, RequestsKnow
<1>3. CASE (\E reachable \in {FALSE, bConfigured} : ProbeReturns(j, reachable)) \/ ProbeRejects(j)
  <2>1. /\ UNCHANGED <<bLog, rThread>>
        /\ Admit(j) \/ Goto(j, "standby") \/ Goto(j, "rejected")
    BY <1>3 DEF ProbeReturns, ProbeRejects
  <2>2. \A k \in Jobs : Knows(k)
    BY <2>1, AdmitKnows, GotoKnows DEF RequestPcs
  <2> QED
    BY <2>1, <2>2, SameLogGoesOn, RequestsKnow
<1>4. CASE Insert(j)
  <2>1. NewRow(bThread[j].sid, bThread[j].receipt, j) \in Row
    BY <1>1 DEF NewRow, Row, Forwardings, Deliveries, Pending, Responses, Kinds
  <2>2. LogGoesOn
    BY <1>4, <2>1, InsertGoesOn DEF Insert
  <2>3. UNCHANGED rThread /\ \A k \in Jobs : Knows(k)
    BY <1>1, <1>4 DEF Insert, Goto, Knows
  <2> QED
    BY <2>2, <2>3, RequestsKnow
<1>5. CASE (\E n \in Nodes : Reserve(j, n)) \/ Reply(j)
  <2>1. UNCHANGED <<bLog, rThread>> /\ \A k \in Jobs : Knows(k)
    <3>1. CASE Reply(j)
      BY <3>1, GotoKnows DEF Reply, RequestPcs
    <3>2. ASSUME NEW n \in Nodes, Reserve(j, n)
          PROVE  UNCHANGED <<bLog, rThread>> /\ \A k \in Jobs : Knows(k)
      <4>1. bThread' = [bThread EXCEPT ![j] = [bThread[j] EXCEPT !.pc = "calling", !.target = n]]
        BY <1>1, <3>2 DEF Reserve
      <4>2. bThread'[j].pc = "calling" /\ \A k \in Jobs \ {j} : bThread'[k] = bThread[k]
        BY <1>1, <4>1 DEF Request
      <4> QED
        BY <3>2, <4>2 DEF Reserve, Knows
    <3> QED
      BY <1>5, <3>1, <3>2
  <2> QED
    BY <2>1, SameLogGoesOn, RequestsKnow
<1>6. CASE \E response \in Computed : ForwardReturns(j, response)
  <2>1. PICK response \in Computed : ForwardReturns(j, response)
    BY <1>6
  <2>2. UNCHANGED <<bLog, rThread>> /\ \A k \in Jobs : Knows(k)
    BY <1>1, <2>1, ComputedIsOutcome DEF ForwardReturns, Knows
  <2> QED
    BY <2>2, SameLogGoesOn, RequestsKnow
<1>7. CASE ReserveNone(j) \/ ForwardFails(j)
  <2>1. UNCHANGED <<bLog, rThread>> /\ Retry(j)
    BY <1>7 DEF ReserveNone, ForwardFails
  <2>2. \A k \in Jobs : Knows(k)
    BY <1>1, <2>1, FatalIsOutcome DEF Retry, Knows
  <2> QED
    BY <2>1, <2>2, SameLogGoesOn, RequestsKnow
<1>8. CASE LogOutcome(j)
  <2>1. bThread[j].response # Pending
    BY <1>8 DEF LogOutcome, OutcomesAreKnown
  <2> DEFINE forwarding == IF bThread[j].response = Fatal THEN "FAILED" ELSE "FORWARDED"
  <2>2. forwarding \in Forwardings /\ "DIRECT" \in Deliveries
    BY DEF Forwardings, Deliveries
  <2>3. bLog' \in {bLog, Updated(bLog, bThread[j].sid, forwarding, bThread[j].response, "DIRECT")}
    BY <1>8 DEF LogOutcome, Store
  <2>4. LogGoesOn
    <3> HIDE DEF forwarding
    <3> QED
      BY <1>1, <2>1, <2>2, <2>3, UpdateGoesOn
  <2>5. UNCHANGED rThread /\ \A k \in Jobs : Knows(k)
    BY <1>1, <1>8 DEF LogOutcome, Goto, Knows
  <2> QED
    BY <2>4, <2>5, RequestsKnow
<1> QED
  BY <1>2, <1>3, <1>4, <1>5, <1>6, <1>7, <1>8 DEF RequestStep

\* The recovery thread keeps the outcomes.
LEMMA RecoveryKeepsOutcomes ==
  ASSUME IInv, OutcomesAreKnown, RecoveryStep
  PROVE  OutcomesAreKnown' /\ LogGoesOn
<1>1. /\ IsRecovery(rThread) /\ rThread.response \in Responses
      /\ rThread.queue \in [DOMAIN rThread.queue -> Row]
  BY DEF IInv, PassIsSound, IsRecovery, Recovery
<1>2. (rThread'.pc \in {"delivering", "recording"} => rThread'.response # Pending)
        /\ UNCHANGED bThread => OutcomesAreKnown'
  BY DEF OutcomesAreKnown
<1>3. CASE StartScan \/ EndScan \/ (\E n \in Nodes : ReplayReserve(n))
  <2>1. UNCHANGED <<bLog, bThread>>
    BY <1>3 DEF StartScan, EndScan, ReplayReserve
  <2>2. rThread'.pc \in {"delivering", "recording"} => rThread'.response # Pending
    <3>1. CASE StartScan
      BY <1>1, <3>1 DEF StartScan, IsRecovery, Recovery
    <3>2. CASE EndScan
      BY <3>2, TurnKnows DEF EndScan
    <3>3. CASE \E n \in Nodes : ReplayReserve(n)
      BY <1>1, <3>3 DEF ReplayReserve, IsRecovery, Recovery
    <3> QED
      BY <1>3, <3>1, <3>2, <3>3
  <2> QED
    BY <1>2, <2>1, <2>2, SameLogGoesOn
<1>4. CASE ReplayReserveNone \/ ReplayFails
  <2>1. UNCHANGED <<bLog, bThread>> /\ ReplayRetry
    BY <1>4 DEF ReplayReserveNone, ReplayFails
  <2>2. rThread'.pc \in {"delivering", "recording"} => rThread'.response # Pending
    <3>1. CASE rThread.attempt + 1 < MaxRetries
      BY <1>1, <2>1, <3>1 DEF ReplayRetry, IsRecovery, Recovery
    <3>2. CASE ~(rThread.attempt + 1 < MaxRetries)
      BY <2>1, <3>2, TurnKnows DEF ReplayRetry
    <3> QED
      BY <3>1, <3>2
  <2> QED
    BY <1>2, <2>1, <2>2, SameLogGoesOn
<1>5. CASE \E response \in Computed : ReplayReturns(response)
  <2>1. PICK response \in Computed : ReplayReturns(response)
    BY <1>5
  <2>2. UNCHANGED <<bLog, bThread>> /\ rThread'.response = response
    BY <1>1, <2>1 DEF ReplayReturns, IsRecovery, Recovery
  <2> QED
    BY <1>2, <2>2, ComputedIsOutcome, SameLogGoesOn
<1>6. CASE \E ok \in BOOLEAN : Deliver(ok)
  <2>1. /\ UNCHANGED <<bLog, bThread>>
        /\ rThread'.response = rThread.response
        /\ rThread.pc = "delivering"
    BY <1>1, <1>6 DEF Deliver, IsRecovery, Recovery
  <2> QED
    BY <1>2, <2>1, SameLogGoesOn DEF OutcomesAreKnown
<1>7. CASE Record
  <2>1. rThread.pc = "recording" /\ rThread.response # Pending
    BY <1>7 DEF Record, OutcomesAreKnown
  <2>2. First(rThread.queue) \in Row
    <3>1. DOMAIN rThread.queue # {}
      BY <2>1 DEF IInv, PassIsSound
    <3> QED
      BY <1>1, <3>1, FirstIsInQueue DEF IsRecovery
  <2>3. First(rThread.queue).sid \in Nat
    BY <2>2 DEF Row
  <2> DEFINE delivery == IF rThread.delivered THEN "DELIVERED" ELSE "UNDELIVERED"
  <2>4. "RECOVERED" \in Forwardings /\ delivery \in Deliveries
    BY DEF Forwardings, Deliveries
  <2>5. bLog' = Updated(bLog, First(rThread.queue).sid, "RECOVERED", rThread.response, delivery)
    BY <1>7 DEF Record
  <2>6. LogGoesOn
    <3> HIDE DEF delivery
    <3> QED
      BY <1>1, <2>1, <2>3, <2>4, <2>5, UpdateGoesOn
  <2>7. UNCHANGED bThread /\ rThread' = Turn(Rest(rThread.queue))
    BY <1>7 DEF Record
  <2> QED
    BY <1>2, <2>6, <2>7, TurnKnows
<1> QED
  BY <1>3, <1>4, <1>5, <1>6, <1>7 DEF RecoveryStep

\* So do the primary, the nodes and their datagrams.
LEMMA OthersKeepOutcomes ==
  ASSUME IInv, OutcomesAreKnown, ReplicaStep \/ UdpStep \/ \E n \in Nodes : Evict(n)
  PROVE  OutcomesAreKnown' /\ LogGoesOn
<1>1. bLog \in Seq(Row) /\ SidsOf(bLog) \subseteq Nat
  BY SidsAreNaturals DEF IInv, Types
<1>2. UNCHANGED <<bThread, rThread>>
  BY DEF ReplicaStep, InsertComes, UpdateComes, ReplicaArrives, UdpStep, ResultArrives,
     Heartbeat, Evict
<1>3. OutcomesAreKnown'
  BY <1>2 DEF OutcomesAreKnown
<1>4. ASSUME NEW j \in Jobs, NEW sid \in ReplicaSids, NEW receipt \in ReplicaReceipts,
             InsertComes(j, sid, receipt)
      PROVE  LogGoesOn
  <2>1. NewRow(sid, receipt, j) \in Row
    BY <1>4, BackupAssumption DEF NewRow, Row, Forwardings, Deliveries, Pending, Responses, Kinds
  <2>2. Store(Append(bLog, NewRow(sid, receipt, j)))
    BY <1>4 DEF InsertComes, ReplicaArrives, ApplyInsert, ApplyUpdate, NewRow
  <2> QED
    BY <2>1, <2>2, InsertGoesOn
<1>5. ASSUME NEW sid \in SidsOf(bLog), NEW response \in Computed \cup {Fatal},
             UpdateComes(sid, response)
      PROVE  LogGoesOn
  <2> DEFINE forwarding == IF response = Fatal THEN "FAILED" ELSE "FORWARDED"
  <2>1. /\ forwarding \in Forwardings /\ "DIRECT" \in Deliveries
        /\ response \in Responses /\ response # Pending /\ sid \in Nat
    BY <1>1, ComputedIsOutcome, FatalIsOutcome DEF Forwardings, Deliveries
  <2>2. bLog' \in {bLog, Updated(bLog, sid, forwarding, response, "DIRECT")}
    BY <1>5 DEF UpdateComes, ReplicaArrives, ApplyUpdate, ApplyInsert, Store
  <2> HIDE DEF forwarding
  <2> QED
    BY <2>1, <2>2, UpdateGoesOn
<1>6. ASSUME NEW sid \in SidsOf(bLog), NEW response \in Computed, ResultArrives(sid, response)
      PROVE  LogGoesOn
  <2>1. /\ "FORWARDED" \in Forwardings /\ "PENDING" \in Deliveries
        /\ response \in Responses /\ response # Pending /\ sid \in Nat
    BY <1>1, ComputedIsOutcome DEF Forwardings, Deliveries
  <2>2. bLog' \in {bLog, Updated(bLog, sid, "FORWARDED", response, "PENDING")}
    BY <1>6 DEF ResultArrives, Store
  <2> QED
    BY <2>1, <2>2, UpdateGoesOn
<1>7. ASSUME (\E n \in Nodes : Heartbeat(n)) \/ \E n \in Nodes : Evict(n)
      PROVE  LogGoesOn
  BY <1>7, SameLogGoesOn DEF Heartbeat, Evict
<1> QED
  BY <1>3, <1>4, <1>5, <1>6, <1>7 DEF ReplicaStep, UdpStep

\* Every step keeps what the threads know, and the outcomes.
LEMMA OutcomesKept ==
  IInv /\ OutcomesAreKnown /\ [Next]_bVars => OutcomesAreKnown' /\ OutcomesStay
<1> SUFFICES ASSUME IInv, OutcomesAreKnown, [Next]_bVars
             PROVE  OutcomesAreKnown' /\ LogGoesOn
  BY LogGoesOnStays
<1>1. CASE \E j \in Jobs : RequestStep(j)
  BY <1>1, RequestKeepsOutcomes
<1>2. CASE RecoveryStep
  BY <1>2, RecoveryKeepsOutcomes
<1>3. CASE ReplicaStep \/ UdpStep \/ \E n \in Nodes : Evict(n)
  BY <1>3, OthersKeepOutcomes
<1>4. CASE (\E reachable \in BOOLEAN : HealthCheck(reachable)) \/ NoPrimary \/ Restart
  <2>1. UNCHANGED <<bLog, bThread, rThread>>
    BY <1>4 DEF HealthCheck, NoPrimary, Restart
  <2> QED
    BY <2>1, SameLogGoesOn DEF OutcomesAreKnown
<1>5. CASE Crash
  <2>1. UNCHANGED bLog /\ rThread' = IdleRecovery
    BY <1>5 DEF Crash
  <2>2. \A j \in Jobs : bThread'[j].pc # "logging"
    <3>1. bThread \in [Jobs -> Request]
      BY DEF IInv, Types
    <3> QED
      BY <1>5, <3>1 DEF Crash, Live, Request
  <2> QED
    BY <2>1, <2>2, SameLogGoesOn DEF OutcomesAreKnown, IdleRecovery
<1>6. CASE UNCHANGED bVars
  BY <1>6, SameLogGoesOn DEF bVars, OutcomesAreKnown
<1> QED
  BY <1>1, <1>2, <1>3, <1>4, <1>5, <1>6 DEF Next

LEMMA InitKnowsOutcomes == Init => OutcomesAreKnown
BY DEF Init, InitWith, OutcomesAreKnown, IdleRequest, IdleRecovery

\* Whatever the order of scans, replays, RESULTs, replicas, crashes and
\* restarts, no row of the backup loses an outcome (backup.cpp:437-472,
\* 678-700, 789).
THEOREM OutcomesPermanent == Spec => OutcomesArePermanent
<1>1. Spec => []OutcomesAreKnown
  BY Invariance, InitKnowsOutcomes, OutcomesKept, PTL DEF Spec
<1>2. IInv /\ OutcomesAreKnown /\ [Next]_bVars => [OutcomesStay]_bVars
  BY OutcomesKept
<1> QED
  BY <1>1, <1>2, Invariance, PTL DEF Spec, OutcomesArePermanent
=============================================================================
