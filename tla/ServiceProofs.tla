--------------------------- MODULE ServiceProofs ---------------------------
(***************************************************************************)
(* What clients get out of the cluster: whose output is sent to them, how  *)
(* often a job is replayed, and that all of it is a job service.           *)
(*                                                                         *)
(* The texts a master stores, passes on or delivers are followed from the  *)
(* run they came out of, and the recovery thread from the scan that copies *)
(* a row to the record of what became of it.                               *)
(***************************************************************************)
EXTENDS ClusterProofs

-----------------------------------------------------------------------------
(***************************************************************************)
(* The inductive invariant                                                 *)
(***************************************************************************)

\* A row holds what a run under its id came to, if it came to anything; what
\* waits for recovery has not failed.
RowIsTrue(row) ==
  /\ row.response \in {Pending, Fatal} \/ Output(row.response, row.sid)
  /\ row.delivery = "PENDING" => row.response # Fatal

RowsAreTrue ==
  /\ \A i \in DOMAIN pLog : RowIsTrue(pLog[i])
  /\ \A i \in DOMAIN bLog : RowIsTrue(bLog[i])

\* So do the copies a pass works on, and what is about to be delivered.
QueueIsTrue(queue) ==
  \A i \in DOMAIN queue :
    queue[i].response = Pending \/ Output(queue[i].response, queue[i].sid)

PassIsTrue ==
  /\ QueueIsTrue(rThread.queue)
  /\ rThread.pc \in {"scheduling", "calling"} => Recorded.response = Pending
  /\ rThread.pc \in {"delivering", "recording"} => Output(rThread.response, Recorded.sid)

CallbacksAreTrue ==
  \A j \in Jobs : \A c \in DOMAIN callbacks[j] :
    TakenAs(j) # 0 /\ Output(callbacks[j][c], TakenAs(j))

\* The recovery thread has one connection at most, for the row it is at.
RecoveryCallsOne ==
  /\ \A r, q \in OpenRuns(<<"recovery">>) : r = q
  /\ \A r \in OpenRuns(<<"recovery">>) :
       rThread.pc = "calling" /\ run[r].sid = Recorded.sid /\ run[r].job = Recorded.job

IsSent(j, response) == \E c \in DOMAIN callbacks[j] : callbacks[j][c] = response

DeliveredIsKnown ==
  rThread.pc = "recording" /\ rThread.delivered => IsSent(Recorded.job, rThread.response)

Truth ==
  /\ RowsAreTrue
  /\ PassIsTrue
  /\ CallbacksAreTrue
  /\ RecoveryCallsOne
  /\ DeliveredIsKnown
  /\ DeliveredMeansSent

\* A job the primary took has its row before anybody runs it.
RunsAreLogged ==
  \A r \in Runs :
    run[r].pc # "unused" /\ pThread[run[r].job].sid # 0 =>
      \E i \in DOMAIN pLog : pLog[i].job = run[r].job

\* So has a job whose client was called back, in the backup's log.
CallbacksAreLogged ==
  \A j \in Jobs : DOMAIN callbacks[j] # {} => \E i \in DOMAIN bLog : bLog[i].job = j

\* Until it is restarted, the backup gives no id twice.
FirstLifeNumbers ==
  bRestarts = 0 =>
    \A j \in Jobs :
      /\ bThread[j].sid < bNextSid
      /\ \A k \in Jobs : bThread[k].sid = bThread[j].sid => bThread[j].sid = 0 \/ k = j

\* The replays of j that told the backup a text, or may yet.
Replays(j) == {r \in Heard(<<"recovery">>) : run[r].job = j}

\* The pass is at the row of j, and has a text for it or is about to.
InHand(j) ==
  /\ \/ rThread.pc \in {"delivering", "recording"}
     \/ \E r \in OpenRuns(<<"recovery">>) : run[r].pc # "lost"
  /\ Recorded.job = j

\* A text is stored for j: no pass will replay it.
HasText(j) ==
  /\ \E i \in DOMAIN bLog : bLog[i].job = j
  /\ \A i \in DOMAIN bLog : bLog[i].job = j => bLog[i].response # Pending
  /\ \A i \in DOMAIN rThread.queue :
       rThread.queue[i].job = j => rThread.queue[i].response # Pending

\* The job is not replayed in this life of the backup, or not again.
Replayed(j) == ~bUp \/ InHand(j) \/ HasText(j)

\* Each life of the backup is told a text of a job once.
ReplaysAreCounted ==
  \A j \in Jobs :
    /\ IsFiniteSet(Replays(j))
    /\ Cardinality(Replays(j)) <= bRestarts + (IF Replayed(j) THEN 1 ELSE 0)

Inv ==
  /\ IInv
  /\ Truth
  /\ RunsAreLogged
  /\ CallbacksAreLogged
  /\ FirstLifeNumbers
  /\ ReplaysAreCounted

-----------------------------------------------------------------------------
(***************************************************************************)
(* The recovery thread and the steps of others                             *)
(***************************************************************************)

\* The recovery thread stands still, and what it calls is not closed.
RecoveryStands ==
  /\ UNCHANGED <<rThread, callbacks, bUp, bRestarts>>
  /\ \A r \in Runs :
       /\ run'[r].caller = <<"recovery">> <=> run[r].caller = <<"recovery">>
       /\ run[r].caller = <<"recovery">> => QuietRun(r)

\* The runs have their type.
LEMMA RunsAreTyped ==
  ASSUME IInv
  PROVE  run \in [Runs -> N!Run]
BY DEF IInv, Joined, N!TypeOK

\* A call of somebody else's.
LEMMA OthersCall ==
  ASSUME IInv, NEW caller \in RequestCallers,
         \/ \E target, sid, job : Connect(caller, target, sid, job)
         \/ \E r \in Runs : Answered(caller, r)
         \/ \E target : Failed(caller, target),
         UNCHANGED <<rThread, callbacks, bUp, bRestarts>>
  PROVE  RecoveryStands
<1>1. caller # <<"recovery">> /\ NoNode # <<"recovery">>
  BY ClusterAssumption DEF RequestCallers, Callers
<1>2. run \in [Runs -> N!Run]
  BY RunsAreTyped
<1>3. CASE \E target, sid, job : Connect(caller, target, sid, job)
  <2> PICK target, sid, job : Connect(caller, target, sid, job)
    BY <1>3
  <2>1. PICK r \in Runs : N!Start(r, caller, target, sid, job)
    BY DEF Connect
  <2>2. /\ run[r].caller = NoNode
        /\ run'[r].caller = caller
        /\ \A q \in Runs \ {r} : run'[q] = run[q]
    BY <1>2, <2>1 DEF N!Start, N!NextRun, N!Unused, IInv, Joined, RunsAreTaken
  <2> QED
    BY <1>1, <2>2, SameIsQuiet DEF RecoveryStands
<1>4. ASSUME NEW q \in OpenRuns(caller), N!Hangup({q}) \/ N!Break(q)
      PROVE  RecoveryStands
  <2>1. \A r \in Runs : \/ run'[r] = run[r]
                        \/ run[r].caller = caller /\ run'[r].caller = caller
    BY <1>2, <1>4 DEF N!Hangup, N!Break, OpenRuns, N!Run
  <2> QED
    BY <1>1, <2>1, SameIsQuiet DEF RecoveryStands
<1>5. CASE UNCHANGED run
  BY <1>5, SameIsQuiet DEF RecoveryStands
<1> QED
  BY <1>3, <1>4, <1>5 DEF Answered, Failed

\* What happens on a node does not touch the recovery thread's calls.
LEMMA NodesRun ==
  ASSUME IInv, NodeStep \/ (\E n \in Nodes : N!Crash(n)),
         UNCHANGED <<rThread, callbacks, bUp, bRestarts>>
  PROVE  RecoveryStands
<1>1. run \in [Runs -> N!Run]
  BY RunsAreTyped
<1>2. CASE NodeStep
  <2>1. PICK r \in Runs : \/ \E kind \in RunKinds : N!Finish(r, kind)
                          \/ N!Answer(r)
                          \/ N!Publish(r)
    BY <1>2 DEF NodeStep
  <2>2. \A q \in Runs \ {r} : run'[q] = run[q]
    BY <1>1, <2>1 DEF N!Finish, N!Answer, N!Publish
  <2>3. run'[r].caller = run[r].caller /\ QuietRun(r)
    BY <1>1, <2>1 DEF N!Finish, N!Answer, N!Publish, N!Run, QuietRun, IsOpen
  <2> QED
    BY <2>2, <2>3, SameIsQuiet DEF RecoveryStands
<1>3. CASE \E n \in Nodes : N!Crash(n)
  <2>1. \A r \in Runs : /\ run'[r].caller = run[r].caller
                        /\ run'[r].connection = run[r].connection
                        /\ run[r].pc = "lost" => run'[r].pc = "lost"
    BY <1>1, <1>3 DEF N!Crash, N!Run
  <2> QED
    BY <2>1 DEF RecoveryStands, QuietRun, IsOpen
<1> QED
  BY <1>2, <1>3

\* Nor does the death of the primary.
LEMMA PrimaryDies ==
  ASSUME IInv, PrimaryCrash
  PROVE  RecoveryStands
<1>1. \A r \in Runs : /\ run'[r].caller = run[r].caller
                      /\ run'[r].pc = run[r].pc
                      /\ \/ run'[r] = run[r]
                         \/ run[r].caller[1] = "primary"
  BY RunsAreTyped DEF PrimaryCrash, N!Hangup, RunsOfMaster, N!Run
<1>2. <<"recovery">>[1] # "primary"
  OBVIOUS
<1> QED
  BY <1>1, <1>2, SameIsQuiet DEF RecoveryStands, PrimaryCrash, bVars

\* Who moves the recovery thread: itself, and the backup's death and start.
LEMMA WhoRecovers ==
  ASSUME IInv, [Next]_vars
  PROVE  \/ RecoveryStep
         \/ RecoveryCalls
         \/ BackupCrash
         \/ B!Restart /\ UNCHANGED <<pVars, nVars, faults>>
         \/ RecoveryStands
<1>1. ASSUME UNCHANGED <<run, rThread, callbacks, bUp, bRestarts>> PROVE RecoveryStands
  BY <1>1, SameIsQuiet DEF RecoveryStands
<1>2. CASE UNCHANGED vars
  BY <1>1, <1>2 DEF vars, bVars, nVars
<1>3. ASSUME NEW j \in Jobs, Submit(j) \/ FallBack(j) \/ PrimaryStep(j) \/ BackupStep(j)
      PROVE  RecoveryStands
  <2>1. UNCHANGED run
    BY <1>3 DEF Submit, FallBack, PrimaryStep, BackupStep, nVars
  <2>2. CASE Submit(j) \/ PrimaryStep(j)
    BY <1>1, <2>1, <2>2 DEF Submit, PrimaryStep, bVars
  <2>3. CASE FallBack(j)
    BY <1>1, <2>1, <2>3 DEF FallBack, B!Accept, B!Reject, B!StartProbe, B!roleVars
  <2>4. CASE BackupStep(j)
    BY <1>1, <2>1, <2>4 DEF BackupStep, B!Insert, B!Reserve, B!ReserveNone, B!LogOutcome,
      B!Reply, B!ProbeReturns, B!ProbeRejects, B!roleVars
  <2> QED
    BY <1>3, <2>2, <2>3, <2>4
<1>4. ASSUME NEW j \in Jobs, PrimaryCalls(j) PROVE RecoveryStands
  <2>1. <<"primary", j>> \in RequestCallers
    BY DEF RequestCallers
  <2>2. UNCHANGED <<rThread, callbacks, bUp, bRestarts>>
    BY <1>4 DEF PrimaryCalls, Connect, bVars
  <2> QED
    BY <1>4, <2>1, <2>2, OthersCall DEF PrimaryCalls
<1>5. ASSUME NEW j \in Jobs, BackupCalls(j) PROVE RecoveryStands
  <2>1. <<"backup", j>> \in RequestCallers
    BY DEF RequestCallers
  <2>2. UNCHANGED <<rThread, callbacks, bUp, bRestarts>>
    BY <1>5 DEF BackupCalls, Connect, B!ForwardReturns, B!ForwardFails, B!roleVars, bVars
  <2> QED
    BY <1>5, <2>1, <2>2, OthersCall DEF BackupCalls
<1>6. CASE MonitorStep
  BY <1>1, <1>6 DEF MonitorStep, B!HealthCheck, nVars
<1>7. ASSUME NEW m \in replication, ReplicaArrives(m) PROVE RecoveryStands
  BY <1>1, <1>7 DEF ReplicaArrives, B!ReplicaArrives, B!roleVars, nVars
<1>8. ASSUME NEW m \in results, TakeResult(m) PROVE RecoveryStands
  BY <1>1, <1>8 DEF TakeResult, B!ResultArrives, B!roleVars, bVars
<1>9. CASE ReplicateResult
  BY <1>1, <1>9 DEF ReplicateResult, bVars, nVars
<1>10. ASSUME NEW n \in Nodes, Heartbeat(n) \/ Evict(n) PROVE RecoveryStands
  BY <1>1, <1>10 DEF Heartbeat, Evict, B!Heartbeat, B!Evict, B!roleVars, bVars, nVars
<1>11. CASE NodeStep
  BY <1>11, NodesRun DEF NodeStep, bVars
<1>12. CASE Crash
  BY <1>12, NodesRun, PrimaryDies DEF Crash, bVars
<1>13. CASE Restart
  BY <1>1, <1>13 DEF Restart, N!Restart, bVars, nVars
<1> QED
  BY <1>2, <1>3, <1>4, <1>5, <1>6, <1>7, <1>8, <1>9, <1>10, <1>11, <1>12, <1>13 DEF Next


-----------------------------------------------------------------------------
(***************************************************************************)
(* The rows of a pass                                                      *)
(***************************************************************************)

\* A recovery pass has its type, and a row to work on while it works.
LEMMA PassIsTyped ==
  ASSUME IInv
  PROVE  /\ rThread \in B!Recovery([DOMAIN rThread.queue -> Row])
         /\ BP!IsQueue(rThread.queue)
         /\ rThread.response \in Responses
         /\ rThread.pc \notin {"idle", "scanning"} => DOMAIN rThread.queue # {}
<1>1. rThread \in B!Recovery([DOMAIN rThread.queue -> Row])
  BY Typed, Vocabulary DEF TypeOK, B!TypeOK
<1>2. rThread.response \in Responses
  BY <1>1, Vocabulary DEF B!Recovery
<1> QED
  BY <1>1, <1>2 DEF IInv, BP!IInv, BP!PassIsSound, BP!IsRecovery

\* One vocabulary for the queue.
LEMMA QueueTerms ==
  /\ B!IdleRecovery = BP!IdleRecovery
  /\ \A queue : /\ B!First(queue) = BP!First(queue)
                /\ B!Rest(queue) = BP!Rest(queue)
                /\ B!Turn(queue) = BP!Turn(queue)
                /\ B!Min(DOMAIN queue) = BP!Min(DOMAIN queue)
                /\ B!First(queue) = queue[BP!Min(DOMAIN queue)]
  /\ \A log : B!PendingRows(log) = BP!PendingRows(log)
BY DEF B!First, BP!First, B!Rest, BP!Rest, B!Turn, BP!Turn, B!Min, BP!Min, B!Restrict, BP!Restrict,
       B!IdleRecovery, BP!IdleRecovery, B!Pending, BP!Pending, B!PendingRows, BP!PendingRows

\* An idle recovery thread has no rows.
LEMMA IdleFields ==
  /\ B!IdleRecovery.pc = "idle"
  /\ DOMAIN B!IdleRecovery.queue = {}
BY DEF B!IdleRecovery

\* The row the pass is at is one of its copies, and the log has it still.
LEMMA HeadOfQueue ==
  ASSUME IInv, rThread.pc \notin {"idle", "scanning"}
  PROVE  \E h \in DOMAIN rThread.queue :
           /\ Recorded = rThread.queue[h]
           /\ Recorded \in Row
           /\ h \in DOMAIN bLog
           /\ bLog[h].sid = Recorded.sid
           /\ bLog[h].job = Recorded.job
           /\ DOMAIN B!Rest(rThread.queue) = DOMAIN rThread.queue \ {h}
           /\ \A i \in DOMAIN B!Rest(rThread.queue) : B!Rest(rThread.queue)[i] = rThread.queue[i]
           /\ BP!IsQueue(B!Rest(rThread.queue))
<1> DEFINE h == BP!Min(DOMAIN rThread.queue)
<1>1. BP!IsQueue(rThread.queue) /\ DOMAIN rThread.queue # {}
  BY PassIsTyped
<1>2. h \in DOMAIN rThread.queue /\ BP!IsQueue(BP!Rest(rThread.queue))
  BY <1>1, BP!FirstIsInQueue, BP!RestIsQueue, BackupParameters, RunsAssumption
<1>3. Recorded = rThread.queue[h]
  BY QueueTerms DEF Recorded
<1>4. Recorded \in Row
  BY RecoveryRow
<1>5. BP!QueueIsOfLog
  BY DEF IInv, BP!IInv, BP!PassIsSound
<1>6. /\ DOMAIN BP!Rest(rThread.queue) = DOMAIN rThread.queue \ {h}
      /\ \A i \in DOMAIN BP!Rest(rThread.queue) : BP!Rest(rThread.queue)[i] = rThread.queue[i]
  BY DEF BP!Rest, BP!Restrict
<1>7. BP!Rest(rThread.queue) = B!Rest(rThread.queue)
  BY QueueTerms
<1> HIDE DEF h
<1> QED
  BY <1>2, <1>3, <1>4, <1>5, <1>6, <1>7 DEF BP!QueueIsOfLog

\* Where the loop turns next.
LEMMA TurnTo ==
  ASSUME NEW queue, BP!IsQueue(queue)
  PROVE  LET t == B!Turn(queue)
         IN  \/ t = B!IdleRecovery
             \/ /\ DOMAIN queue # {}
                /\ t.queue = queue
                /\ t.pc = IF B!First(queue).response = Pending THEN "scheduling" ELSE "delivering"
                /\ t.response = B!First(queue).response
                /\ B!First(queue) \in {queue[i] : i \in DOMAIN queue}
<1>1. CASE DOMAIN queue = {}
  BY <1>1 DEF B!Turn
<1>2. CASE DOMAIN queue # {}
  <2>1. BP!Min(DOMAIN queue) \in DOMAIN queue
    BY <1>2, BP!FirstIsInQueue, BackupParameters, RunsAssumption
  <2>2. B!First(queue) = queue[BP!Min(DOMAIN queue)]
    BY QueueTerms
  <2>3. B!Turn(queue) = [B!IdleRecovery EXCEPT
          !.queue = queue,
          !.response = B!First(queue).response,
          !.pc = IF B!First(queue).response = Pending THEN "scheduling" ELSE "delivering"]
    BY <1>2, Vocabulary DEF B!Turn
  <2> QED
    BY <1>2, <2>1, <2>2, <2>3 DEF B!IdleRecovery
<1> QED
  BY <1>1, <1>2

\* A pass that turns to its next row.
LEMMA TurnIsTrue ==
  ASSUME IInv, RunsMove, NEW queue, BP!IsQueue(queue), QueueIsTrue(queue),
         rThread' = B!Turn(queue)
  PROVE  PassIsTrue' /\ rThread'.pc \in {"idle", "scheduling", "delivering"}
<1>1. QueueIsTrue(queue)'
  BY OutputStays DEF QueueIsTrue
<1>2. CASE rThread' = B!IdleRecovery
  BY <1>2, IdleFields DEF PassIsTrue, QueueIsTrue
<1>3. CASE rThread' # B!IdleRecovery
  <2>1. /\ rThread'.queue = queue
        /\ rThread'.pc = IF B!First(queue).response = Pending THEN "scheduling" ELSE "delivering"
        /\ rThread'.response = B!First(queue).response
        /\ B!First(queue) \in {queue[i] : i \in DOMAIN queue}
    BY <1>3, TurnTo
  <2>2. PICK row : row = B!First(queue)
    OBVIOUS
  <2>3. PICK i \in DOMAIN queue : row = queue[i]
    BY <2>1, <2>2
  <2>4. row.response = Pending \/ Output(row.response, row.sid)'
    BY <1>1, <2>3 DEF QueueIsTrue
  <2>5. Recorded' = row
    BY <2>1, <2>2 DEF Recorded
  <2>6. QueueIsTrue(rThread.queue)'
    BY <1>1, <2>1
  <2>7. rThread'.pc \in {"delivering", "recording"} => Output(rThread.response, Recorded.sid)'
    BY <2>1, <2>2, <2>4, <2>5
  <2>8. rThread'.pc \in {"scheduling", "calling"} => Recorded'.response = Pending
    BY <2>1, <2>2, <2>5
  <2> QED
    BY <2>1, <2>6, <2>7, <2>8 DEF PassIsTrue
<1> QED
  BY <1>2, <1>3


-----------------------------------------------------------------------------
(***************************************************************************)
(* The rows hold texts of their own ids                                    *)
(***************************************************************************)

\* A new row holds no text yet.
LEMMA PendingIsTrue ==
  ASSUME NEW sid, NEW receipt, NEW job
  PROVE  /\ RowIsTrue(NewRow(sid, receipt, job))
         /\ NewRow(sid, receipt, job).delivery = "PENDING"
BY DEF RowIsTrue, NewRow, Pending, Fatal

\* A row that holds a text of its id goes on to do so.
LEMMA RowStaysTrue ==
  ASSUME IInv, RunsMove, NEW row, RowIsTrue(row)
  PROVE  RowIsTrue(row)'
BY OutputStays DEF RowIsTrue

\* What an UPDATE does to the fields of rows.
LEMMA UpdatedFields ==
  ASSUME NEW log \in Seq(Row), NEW m,
         m.sid \in Nat, m.forwarding \in Forwardings,
         m.response \in Responses, m.delivery \in Deliveries
  PROVE  LET new == UpdatedBy(log, m)
         IN  /\ DOMAIN new = DOMAIN log
             /\ \A i \in DOMAIN log :
                  /\ new[i].sid = log[i].sid
                  /\ log[i].sid # m.sid => new[i] = log[i]
                  /\ log[i].sid = m.sid => /\ new[i].response = m.response
                                          /\ new[i].delivery = m.delivery
<1> PICK sid \in Nat : sid = m.sid
  OBVIOUS
<1> PICK f \in Forwardings : f = m.forwarding
  OBVIOUS
<1> PICK r \in Responses : r = m.response
  OBVIOUS
<1> PICK d \in Deliveries : d = m.delivery
  OBVIOUS
<1> DEFINE new == Updated(log, sid, f, r, d)
<1>1. UpdatedBy(log, m) = new
  BY DEF UpdatedBy
<1>2. /\ DOMAIN new = DOMAIN log
      /\ \A i \in DOMAIN log :
           /\ new[i].sid = log[i].sid
           /\ log[i].sid # sid => new[i] = log[i]
           /\ log[i].sid = sid => new[i].response = r /\ new[i].delivery = d
  BY UpdatedKeepsRows
<1> HIDE DEF new
<1> QED
  BY <1>1, <1>2

\* An UPDATE with an outcome leaves rows that hold texts of their ids.
LEMMA UpdatedIsTrue ==
  ASSUME IInv, NEW log \in Seq(Row), \A i \in DOMAIN log : RowIsTrue(log[i]),
         NEW m \in P!UpdateMessage, Outcome(m)
  PROVE  /\ DOMAIN UpdatedBy(log, m) = DOMAIN log
         /\ \A i \in DOMAIN log : RowIsTrue(UpdatedBy(log, m)[i])
         /\ \A i \in DOMAIN log :
              \/ UpdatedBy(log, m)[i] = log[i]
              \/ UpdatedBy(log, m)[i].delivery # "DELIVERED" /\ UpdatedBy(log, m)[i].response # Pending
<1>1. /\ m.sid \in Nat
      /\ m.forwarding \in Forwardings
      /\ m.response \in Responses
      /\ m.delivery \in Deliveries
  BY Vocabulary DEF P!UpdateMessage
<1>2. /\ m.response = Fatal \/ Output(m.response, m.sid)
      /\ m.delivery = "PENDING" => m.response # Fatal
      /\ m.response # Pending
      /\ m.delivery # "DELIVERED"
  <2>1. Output(m.response, m.sid) => m.response # Fatal /\ m.response # Pending
    BY OutputIsComputed DEF Output
  <2>2. Fatal # Pending
    BY DEF Fatal, Pending
  <2> QED
    BY <2>1, <2>2 DEF Outcome
<1> DEFINE new == UpdatedBy(log, m)
<1>3. /\ DOMAIN new = DOMAIN log
      /\ \A i \in DOMAIN log :
           /\ new[i].sid = log[i].sid
           /\ log[i].sid # m.sid => new[i] = log[i]
           /\ log[i].sid = m.sid => new[i].response = m.response /\ new[i].delivery = m.delivery
  BY <1>1, UpdatedFields
<1> HIDE DEF new
<1>4. ASSUME NEW i \in DOMAIN log PROVE RowIsTrue(new[i])
  <2>1. CASE log[i].sid # m.sid
    BY <1>3, <2>1
  <2>2. CASE log[i].sid = m.sid
    <3>1. /\ new[i].sid = m.sid
          /\ new[i].response = m.response
          /\ new[i].delivery = m.delivery
      BY <1>3, <2>2
    <3> QED
      BY <1>2, <3>1 DEF RowIsTrue
  <2> QED
    BY <2>1, <2>2
<1> QED
  BY <1>2, <1>3, <1>4 DEF new

\* What any step stores in the primary's log is a text of the row's id.
LEMMA PrimaryRowsAreTrue ==
  ASSUME IInv, Moves, RowsAreTrue
  PROVE  \A i \in DOMAIN pLog' : RowIsTrue(pLog[i])'
<1> PICK new : new = pLog'
  OBVIOUS
<1>1. pLog \in Seq(Row)
  BY LogsAreRows
<1>2. \A i \in DOMAIN new : RowIsTrue(new[i])
  <2>1. CASE pLog' = pLog
    BY <2>1 DEF RowsAreTrue
  <2>2. ASSUME NEW j \in Jobs, pLog' = Append(pLog, NewRow(pThread[j].sid, pThread[j].receipt, j))
        PROVE  \A i \in DOMAIN new : RowIsTrue(new[i])
    <3> DEFINE row == NewRow(pThread[j].sid, pThread[j].receipt, j)
    <3>1. row \in Row /\ RowIsTrue(row)
      BY ThreadsAreTyped, NewRowIsRow, PendingIsTrue
    <3> HIDE DEF row
    <3>2. new = Append(pLog, row)
      BY <2>2 DEF row
    <3> QED
      BY <1>1, <3>1, <3>2, AppendKeepsRows DEF RowsAreTrue
  <2>3. ASSUME NEW m \in P!UpdateMessage, Outcome(m), pLog' = UpdatedBy(pLog, m)
        PROVE  \A i \in DOMAIN new : RowIsTrue(new[i])
    BY <1>1, <2>3, UpdatedIsTrue DEF RowsAreTrue
  <2> QED
    BY <2>1, <2>2, <2>3 DEF Moves, PrimaryLogMoves
<1>3. \A i \in DOMAIN new : RowIsTrue(new[i])'
  BY <1>2, RowStaysTrue DEF Moves
<1> QED
  BY <1>3

\* What the record of an answer leaves of the log.
LEMMA RecordWrites ==
  ASSUME IInv, B!Record
  PROVE  /\ DOMAIN bLog' = DOMAIN bLog
         /\ \A i \in DOMAIN bLog :
              /\ bLog'[i].sid = bLog[i].sid
              /\ bLog'[i].job = bLog[i].job
              /\ bLog[i].sid # Recorded.sid => bLog'[i] = bLog[i]
              /\ bLog[i].sid = Recorded.sid =>
                   /\ bLog'[i].response = rThread.response
                   /\ bLog'[i].delivery = IF rThread.delivered THEN "DELIVERED" ELSE "UNDELIVERED"
<1>1. rThread.pc \notin {"idle", "scanning"}
  BY DEF B!Record
<1>2. rThread.response \in Responses /\ Recorded.sid \in Nat
  BY <1>1, PassIsTyped, RecoveryRow DEF Row
<1> DEFINE d == IF rThread.delivered THEN "DELIVERED" ELSE "UNDELIVERED"
<1>3. bLog' = Updated(bLog, Recorded.sid, "RECOVERED", rThread.response, d)
  BY Statements DEF B!Record, Recorded
<1>4. "RECOVERED" \in Forwardings /\ d \in Deliveries
  BY DEF Forwardings, Deliveries
<1> HIDE DEF d
<1>5. bLog \in Seq(Row)
  BY LogsAreRows
<1> QED
  BY <1>2, <1>3, <1>4, <1>5, UpdatedKeepsRows DEF d

\* The same for the backup, where the recovery thread writes too.
LEMMA BackupRowsAreTrue ==
  ASSUME IInv, Moves, RowsAreTrue, PassIsTrue
  PROVE  \A i \in DOMAIN bLog' : RowIsTrue(bLog[i])'
<1> PICK new : new = bLog'
  OBVIOUS
<1>1. bLog \in Seq(Row)
  BY LogsAreRows
<1>2. \A i \in DOMAIN new : RowIsTrue(new[i])
  <2>1. CASE bLog' = bLog
    BY <2>1 DEF RowsAreTrue
  <2>2. ASSUME NEW row \in Row, RowIsTrue(row), bLog' = Append(bLog, row)
        PROVE  \A i \in DOMAIN new : RowIsTrue(new[i])
    BY <1>1, <2>2, AppendKeepsRows DEF RowsAreTrue
  <2>3. ASSUME NEW j \in Jobs, bLog' = Append(bLog, NewRow(bThread[j].sid, bThread[j].receipt, j))
        PROVE  \A i \in DOMAIN new : RowIsTrue(new[i])
    BY <2>2, <2>3, ThreadsAreTyped, NewRowIsRow, PendingIsTrue
  <2>4. ASSUME NEW m \in replication, m.action = "insert", bLog' = Append(bLog, m.row)
        PROVE  \A i \in DOMAIN new : RowIsTrue(new[i])
    <3>1. m.row = NewRow(m.row.sid, m.row.receipt, m.row.job)
      BY <2>4 DEF IInv, Joined, MessagesAreTrue
    <3>2. m.row \in Row
      BY <2>4, Typed, Vocabulary DEF TypeOK, P!TypeOK, P!Replication, P!InsertMessage, P!UpdateMessage
    <3>3. RowIsTrue(m.row)
      BY <3>1, PendingIsTrue
    <3> QED
      BY <2>2, <2>4, <3>2, <3>3
  <2>5. ASSUME NEW m \in P!UpdateMessage, Outcome(m), bLog' = UpdatedBy(bLog, m)
        PROVE  \A i \in DOMAIN new : RowIsTrue(new[i])
    BY <1>1, <2>5, UpdatedIsTrue DEF RowsAreTrue
  <2>6. CASE B!Record
    <3>1. Output(rThread.response, Recorded.sid)
      BY <2>6 DEF PassIsTrue, B!Record
    <3>2. \A i \in DOMAIN bLog :
            /\ bLog'[i].sid = bLog[i].sid
            /\ bLog[i].sid # Recorded.sid => bLog'[i] = bLog[i]
            /\ bLog[i].sid = Recorded.sid => /\ bLog'[i].response = rThread.response
                                             /\ bLog'[i].delivery # "PENDING"
      BY <2>6, RecordWrites
    <3>3. DOMAIN new = DOMAIN bLog
      BY <2>6, RecordWrites
    <3>4. ASSUME NEW i \in DOMAIN bLog PROVE RowIsTrue(new[i])
      <4>1. CASE bLog[i].sid = Recorded.sid
        <5>1. /\ new[i].sid = Recorded.sid
              /\ new[i].response = rThread.response
              /\ new[i].delivery # "PENDING"
          BY <3>2, <4>1
        <5> QED
          BY <3>1, <5>1 DEF RowIsTrue
      <4>2. CASE bLog[i].sid # Recorded.sid
        BY <3>2, <4>2 DEF RowsAreTrue
      <4> QED
        BY <4>1, <4>2
    <3> QED
      BY <3>3, <3>4
  <2> QED
    BY <2>1, <2>3, <2>4, <2>5, <2>6 DEF Moves, BackupLogMoves
<1>3. \A i \in DOMAIN new : RowIsTrue(new[i])'
  BY <1>2, RowStaysTrue DEF Moves
<1> QED
  BY <1>3

\* The two together.
LEMMA RowsAreTrueKept ==
  ASSUME IInv, Moves, RowsAreTrue, PassIsTrue
  PROVE  RowsAreTrue'
BY PrimaryRowsAreTrue, BackupRowsAreTrue DEF RowsAreTrue

-----------------------------------------------------------------------------
(***************************************************************************)
(* The pass works on such texts, and delivers them                         *)
(***************************************************************************)

\* The recovery thread stays where it is in the pass.
LEMMA SamePassIsTrue ==
  ASSUME IInv, RunsMove, PassIsTrue, rThread'.queue = rThread.queue,
         \/ rThread'.pc = "scanning"
         \/ /\ rThread'.pc \in {"scheduling", "calling"}
            /\ rThread.pc \in {"scheduling", "calling"}
         \/ /\ rThread'.pc \in {"delivering", "recording"}
            /\ Output(rThread'.response, Recorded.sid)
         \/ rThread' = rThread
  PROVE  PassIsTrue'
<1>1. Recorded' = Recorded
  BY DEF Recorded
<1> PICK queue : queue = rThread.queue
  OBVIOUS
<1>2. QueueIsTrue(queue)'
  BY OutputStays DEF PassIsTrue, QueueIsTrue
<1>3. QueueIsTrue(rThread.queue)'
  BY <1>2
<1> PICK response, sid : response = rThread'.response /\ sid = Recorded.sid
  OBVIOUS
<1>4. Output(response, sid) => Output(response, sid)'
  BY OutputStays DEF RunsMove
<1>5. rThread'.pc \in {"delivering", "recording"} => Output(rThread.response, Recorded.sid)'
  BY <1>1, <1>4 DEF PassIsTrue
<1>6. rThread'.pc \in {"scheduling", "calling"} => Recorded'.response = Pending
  BY <1>1 DEF PassIsTrue
<1> QED
  BY <1>3, <1>5, <1>6 DEF PassIsTrue

\* An attempt of a replay that failed.
LEMMA RetryIsTrue ==
  ASSUME IInv, RunsMove, PassIsTrue, rThread.pc \in {"scheduling", "calling"}, B!ReplayRetry
  PROVE  PassIsTrue' /\ rThread'.pc \in {"idle", "scheduling", "delivering"}
<1>1. CASE rThread' = [rThread EXCEPT !.attempt = @ + 1, !.target = NoNode, !.pc = "scheduling"]
  <2>1. rThread'.queue = rThread.queue /\ rThread'.pc = "scheduling"
    BY <1>1, PassIsTyped DEF B!Recovery
  <2> QED
    BY <2>1, SamePassIsTrue
<1>2. CASE rThread' = B!Turn(B!Rest(rThread.queue))
  <2>1. /\ BP!IsQueue(B!Rest(rThread.queue))
        /\ QueueIsTrue(B!Rest(rThread.queue))
    BY HeadOfQueue DEF PassIsTrue, QueueIsTrue
  <2> QED
    BY <1>2, <2>1, TurnIsTrue
<1> QED
  BY <1>1, <1>2 DEF B!ReplayRetry

\* The copies of a recovery pass, and the text it is about to deliver, stay
\* texts of their ids.
LEMMA PassIsTrueKept ==
  ASSUME IInv, [Next]_vars, Moves, RowsAreTrue, PassIsTrue, RecoveryCallsOne
  PROVE  PassIsTrue'
<1>1. RunsMove
  BY DEF Moves
<1>2. CASE RecoveryStands \/ B!Restart
  BY <1>1, <1>2, SamePassIsTrue DEF RecoveryStands, B!Restart
<1>3. CASE BackupCrash
  BY <1>3, IdleFields DEF BackupCrash, B!Crash, PassIsTrue, QueueIsTrue
<1>4. CASE RecoveryStep
  <2>1. CASE B!StartScan
    <3> PICK queue : queue = BP!PendingRows(bLog)
      OBVIOUS
    <3>1. rThread'.queue = queue /\ rThread'.pc = "scanning"
      BY <2>1, PassIsTyped, QueueTerms DEF B!StartScan, B!Recovery
    <3>2. DOMAIN queue \subseteq DOMAIN bLog /\ \A i \in DOMAIN queue : queue[i] = bLog[i]
      BY DEF BP!PendingRows, BP!Restrict
    <3>3. \A i \in DOMAIN queue : bLog[i].delivery = "PENDING"
      BY DEF BP!PendingRows, BP!Restrict
    <3>4. QueueIsTrue(queue)
      BY <3>2, <3>3 DEF QueueIsTrue, RowsAreTrue, RowIsTrue
    <3>5. QueueIsTrue(queue)'
      BY <1>1, <3>4, OutputStays DEF QueueIsTrue
    <3>6. QueueIsTrue(rThread.queue)'
      BY <3>1, <3>5
    <3> QED
      BY <3>1, <3>6 DEF PassIsTrue
  <2>2. CASE B!EndScan
    <3>1. BP!IsQueue(rThread.queue) /\ QueueIsTrue(rThread.queue)
      BY PassIsTyped DEF PassIsTrue
    <3> QED
      BY <1>1, <2>2, <3>1, TurnIsTrue DEF B!EndScan
  <2>3. ASSUME NEW n \in Nodes, B!ReplayReserve(n) PROVE PassIsTrue'
    <3>1. /\ rThread'.queue = rThread.queue
          /\ rThread'.pc = "calling"
          /\ rThread.pc = "scheduling"
      BY <2>3, PassIsTyped DEF B!ReplayReserve, B!Recovery
    <3> QED
      BY <1>1, <3>1, SamePassIsTrue
  <2>4. CASE B!ReplayReserveNone
    BY <1>1, <2>4, RetryIsTrue DEF B!ReplayReserveNone
  <2>5. ASSUME NEW ok \in BOOLEAN, B!Deliver(ok) PROVE PassIsTrue'
    <3>1. /\ rThread'.queue = rThread.queue
          /\ rThread'.response = rThread.response
          /\ rThread'.pc = "recording"
          /\ rThread.pc = "delivering"
      BY <2>5, PassIsTyped DEF B!Deliver, B!Recovery
    <3>2. Output(rThread'.response, Recorded.sid)
      BY <3>1 DEF PassIsTrue
    <3> QED
      BY <1>1, <3>1, <3>2, SamePassIsTrue
  <2>6. CASE B!Record
    <3>1. /\ BP!IsQueue(B!Rest(rThread.queue))
          /\ QueueIsTrue(B!Rest(rThread.queue))
      BY <2>6, HeadOfQueue DEF PassIsTrue, QueueIsTrue, B!Record
    <3> QED
      BY <1>1, <2>6, <3>1, TurnIsTrue DEF B!Record
  <2> QED
    BY <1>4, <2>1, <2>2, <2>3, <2>4, <2>5, <2>6 DEF RecoveryStep
<1>5. CASE RecoveryCalls
  <2>1. CASE UNCHANGED rThread
    BY <1>1, <2>1, SamePassIsTrue
  <2>2. ASSUME NEW r \in Runs, Answered(<<"recovery">>, r), B!ReplayReturns(N!ResponseOf(r))
        PROVE  PassIsTrue'
    <3>1. run[r].sid = Recorded.sid
      BY <2>2 DEF Answered, RecoveryCallsOne
    <3>2. run[r].kind \in RunKinds
      <4>1. run[r].connection = "answered" /\ run[r].pc # "unused"
        BY <2>2, ClusterAssumption DEF Answered, IInv, Joined, RunsAreTaken, N!Unused
      <4> QED
        BY <4>1 DEF IInv, Joined, RunsAreTaken
    <3>3. /\ rThread'.queue = rThread.queue
          /\ rThread'.response = N!ResponseOf(r)
          /\ rThread'.pc = "delivering"
      BY <2>2, PassIsTyped DEF B!ReplayReturns, B!Recovery
    <3>4. Output(rThread'.response, Recorded.sid)
      BY <3>1, <3>2, <3>3 DEF Output
    <3> QED
      BY <1>1, <3>3, <3>4, SamePassIsTrue
  <2>3. CASE B!ReplayFails
    BY <1>1, <2>3, RetryIsTrue DEF B!ReplayFails
  <2> QED
    BY <1>5, <2>1, <2>2, <2>3 DEF RecoveryCalls, Connect, bVars
<1> QED
  BY <1>2, <1>3, <1>4, <1>5, WhoRecovers


\* A row of the backup's log is of the request that was given its id.
LEMMA RowIsOfTaken ==
  ASSUME IInv, NEW i \in DOMAIN bLog
  PROVE  /\ bLog[i].job \in Taken
         /\ TakenAs(bLog[i].job) = bLog[i].sid
<1> PICK j : j = bLog[i].job
  OBVIOUS
<1>1. j \in Jobs
  BY LogsAreRows DEF Row
<1>2. \/ bThread[j].sid # 0 /\ bThread[j].sid = bLog[i].sid
      \/ pThread[j].pc \notin Unserved /\ pThread[j].sid = bLog[i].sid
  BY DEF IInv, Joined, RowsAreTaken, Copied
<1>3. /\ pThread[j].pc \in Unserved \/ bThread[j].pc \in Unserved
      /\ pThread[j].pc \in Unserved <=> pThread[j].sid = 0
      /\ bThread[j].pc \in Unserved => bThread[j].sid = 0
  BY <1>1 DEF IInv, Joined, OneMaster, Unserved
<1> QED
  BY <1>1, <1>2, <1>3 DEF Taken, TakenAs

\* The recovery thread calls for the row it is at, once at a time.
LEMMA RecoveryCallsOneKept ==
  ASSUME IInv, [Next]_vars, Moves, RecoveryCallsOne
  PROVE  RecoveryCallsOne'
<1> DEFINE caller == <<"recovery">>
<1>1. run \in [Runs -> N!Run]
  BY RunsAreTyped
<1>2. CASE RecoveryStands
  <2>1. OpenRuns(caller)' = OpenRuns(caller)
    BY <1>2 DEF RecoveryStands, OpenRuns, QuietRun
  <2>2. \A r \in OpenRuns(caller) : run'[r].sid = run[r].sid /\ run'[r].job = run[r].job
    BY DEF OpenRuns, IsOpen, Moves, RunsMove, RunMoves, IInv, Joined, RunsAreTaken, N!Unused
  <2>3. rThread' = rThread /\ Recorded' = Recorded
    BY <1>2 DEF RecoveryStands, Recorded
  <2> QED
    BY <2>1, <2>2, <2>3 DEF RecoveryCallsOne
<1>3. CASE B!Restart /\ UNCHANGED <<pVars, nVars, faults>>
  <2>1. OpenRuns(caller)' = OpenRuns(caller) /\ run' = run
    BY <1>3 DEF OpenRuns, IsOpen, nVars
  <2>2. rThread' = rThread /\ Recorded' = Recorded
    BY <1>3 DEF B!Restart, Recorded
  <2> QED
    BY <2>1, <2>2 DEF RecoveryCallsOne
<1>4. ASSUME OpenRuns(caller)' = {} PROVE RecoveryCallsOne'
  BY <1>4 DEF RecoveryCallsOne
<1>5. CASE BackupCrash
  <2>1. \A r \in Runs : run'[r].caller = run[r].caller
    BY <1>1, <1>5 DEF BackupCrash, N!Hangup, N!Run
  <2>2. caller \in Callers /\ caller[1] \in {"backup", "recovery"}
    BY DEF Callers
  <2>3. \A r \in Runs : run[r].caller = caller => ~IsOpen(r)'
    BY <1>1, <1>5, <2>2 DEF BackupCrash, N!Hangup, RunsOfMaster, N!Run, IsOpen
  <2> QED
    BY <1>4, <2>1, <2>3 DEF OpenRuns
<1>6. CASE RecoveryStep
  <2>1. OpenRuns(caller)' = OpenRuns(caller) /\ rThread.pc # "calling"
    BY <1>6 DEF RecoveryStep, OpenRuns, IsOpen, nVars, B!StartScan, B!EndScan, B!ReplayReserve,
      B!ReplayReserveNone, B!Deliver, B!Record
  <2>2. OpenRuns(caller) = {}
    BY <2>1 DEF RecoveryCallsOne
  <2> QED
    BY <1>4, <2>1, <2>2
<1>7. CASE RecoveryCalls
  <2>1. ASSUME NEW q \in OpenRuns(caller), N!Hangup({q}) \/ N!Break(q)
        PROVE  OpenRuns(caller)' = {}
    <3>1. \A r \in Runs : r # q => run'[r] = run[r]
      BY <1>1, <2>1 DEF N!Hangup, N!Break
    <3>2. ~IsOpen(q)'
      BY <1>1, <2>1 DEF N!Hangup, N!Break, N!Run, IsOpen, OpenRuns
    <3>3. \A r \in OpenRuns(caller) : r = q
      BY DEF RecoveryCallsOne
    <3> QED
      BY <3>1, <3>2, <3>3 DEF OpenRuns, IsOpen
  <2>2. CASE Connect(caller, rThread.target, Recorded.sid, Recorded.job)
    <3>1. PICK r \in Runs : N!Start(r, caller, rThread.target, Recorded.sid, Recorded.job)
      BY <2>2 DEF Connect
    <3>2. /\ OpenRuns(caller) = {}
          /\ rThread.pc = "calling"
          /\ rThread' = rThread
          /\ Recorded' = Recorded
      BY <1>7, <2>2 DEF Connect, RecoveryCalls, bVars, Recorded
    <3>3. /\ \A q \in Runs \ {r} : run'[q] = run[q]
          /\ run'[r].sid = Recorded.sid
          /\ run'[r].job = Recorded.job
      BY <1>1, <3>1 DEF N!Start
    <3>4. OpenRuns(caller)' \subseteq {r}
      BY <3>2, <3>3 DEF OpenRuns, IsOpen
    <3> QED
      BY <3>2, <3>3, <3>4 DEF RecoveryCallsOne
  <2>3. ASSUME NEW r \in Runs, Answered(caller, r) PROVE OpenRuns(caller)' = {}
    BY <2>1, <2>3 DEF Answered
  <2>4. ASSUME Failed(caller, rThread.target) PROVE OpenRuns(caller)' = {}
    <3>1. OpenRuns(caller) = {} /\ UNCHANGED run => OpenRuns(caller)' = {}
      BY DEF OpenRuns, IsOpen
    <3> QED
      BY <2>1, <2>4, <3>1 DEF Failed
  <2> QED
    BY <1>4, <1>7, <2>2, <2>3, <2>4 DEF RecoveryCalls, Recorded
<1> QED
  BY <1>2, <1>3, <1>5, <1>6, <1>7, WhoRecovers

\* Only a delivery adds to what a client's listener was sent.
LEMMA WhoDelivers ==
  ASSUME IInv, [Next]_vars
  PROVE  \/ UNCHANGED callbacks
         \/ B!Deliver(TRUE) /\ UNCHANGED <<pVars, nVars, faults>>
<1>1. CASE RecoveryStep
  BY <1>1 DEF RecoveryStep, B!StartScan, B!EndScan, B!ReplayReserve, B!ReplayReserveNone,
    B!Deliver, B!Record
<1>2. CASE RecoveryCalls
  BY <1>2 DEF RecoveryCalls, Connect, B!ReplayReturns, B!ReplayFails, bVars
<1>3. CASE BackupCrash \/ B!Restart
  BY <1>3 DEF BackupCrash, B!Crash, B!Restart
<1>4. CASE RecoveryStands
  BY <1>4 DEF RecoveryStands
<1> QED
  BY <1>1, <1>2, <1>3, <1>4, WhoRecovers

\* What a delivery does: the text of the row goes to the client of its job.
LEMMA DeliverySends ==
  ASSUME IInv, B!Deliver(TRUE)
  PROVE  LET job == Recorded.job
         IN  /\ job \in Jobs
             /\ callbacks[job] \in Seq(Responses)
             /\ \A j \in Jobs \ {job} : callbacks'[j] = callbacks[j]
             /\ callbacks'[job] = Append(callbacks[job], rThread.response)
             /\ DOMAIN callbacks'[job] = DOMAIN callbacks[job] \cup {Len(callbacks[job]) + 1}
             /\ \A c \in DOMAIN callbacks[job] : callbacks'[job][c] = callbacks[job][c]
             /\ callbacks'[job][Len(callbacks[job]) + 1] = rThread.response
<1>1. Recorded.job \in Jobs /\ rThread.response \in Responses
  BY RecoveryRow, PassIsTyped DEF B!Deliver, Row
<1>2. callbacks \in [Jobs -> Seq(Responses)]
  BY Typed, Vocabulary DEF TypeOK, B!TypeOK
<1>3. callbacks' = [callbacks EXCEPT ![Recorded.job] = Append(@, rThread.response)]
  BY DEF B!Deliver, Recorded
<1> PICK job, response : job = Recorded.job /\ response = rThread.response
  OBVIOUS
<1>4. /\ callbacks'[job] = Append(callbacks[job], response)
      /\ \A j \in Jobs \ {job} : callbacks'[j] = callbacks[j]
      /\ callbacks[job] \in Seq(Responses)
  BY <1>1, <1>2, <1>3
<1> PICK old : old = callbacks[job]
  OBVIOUS
<1>5. /\ DOMAIN Append(old, response) = DOMAIN old \cup {Len(old) + 1}
      /\ \A c \in DOMAIN old : Append(old, response)[c] = old[c]
      /\ Append(old, response)[Len(old) + 1] = response
  BY <1>1, <1>4
<1> QED
  BY <1>1, <1>4, <1>5

\* What a client was sent stays sent.
LEMMA SentStays ==
  ASSUME IInv, [Next]_vars, NEW j \in Jobs, NEW response, IsSent(j, response)
  PROVE  IsSent(j, response)'
<1>1. CASE UNCHANGED callbacks
  BY <1>1 DEF IsSent
<1>2. CASE B!Deliver(TRUE)
  BY <1>2, DeliverySends DEF IsSent
<1> QED
  BY <1>1, <1>2, WhoDelivers

\* A callback carries a text of the id of the client's job.
LEMMA CallbacksAreTrueKept ==
  ASSUME IInv, [Next]_vars, Moves, PassIsTrue, CallbacksAreTrue
  PROVE  CallbacksAreTrue'
<1> SUFFICES ASSUME NEW j \in Jobs, NEW c \in DOMAIN callbacks'[j]
             PROVE  (TakenAs(j) # 0 /\ Output(callbacks[j][c], TakenAs(j)))'
  BY DEF CallbacksAreTrue
<1> PICK text, sid : text = callbacks'[j][c] /\ sid = TakenAs(j)
  OBVIOUS
<1>1. sid # 0 /\ Output(text, sid)
  <2>1. CASE c \in DOMAIN callbacks[j] /\ callbacks'[j][c] = callbacks[j][c]
    BY <2>1 DEF CallbacksAreTrue
  <2>2. CASE B!Deliver(TRUE) /\ j = Recorded.job /\ callbacks'[j][c] = rThread.response
    <3>1. Output(text, Recorded.sid)
      BY <2>2 DEF B!Deliver, PassIsTrue
    <3>2. PICK h \in DOMAIN bLog : bLog[h].sid = Recorded.sid /\ bLog[h].job = Recorded.job
      BY <2>2, RecoveryRow DEF B!Deliver
    <3>3. j \in Taken /\ sid = Recorded.sid
      BY <2>2, <3>2, RowIsOfTaken
    <3> QED
      BY <3>1, <3>3 DEF Taken
  <2>3. CASE B!Deliver(TRUE)
    BY <2>1, <2>2, <2>3, DeliverySends
  <2> QED
    BY <2>1, <2>3, WhoDelivers
<1>2. TakenAs(j)' = sid
  BY <1>1, TakenStays DEF Moves, Taken
<1>3. Output(text, sid)'
  BY <1>1, OutputStays DEF Moves
<1> QED
  BY <1>1, <1>2, <1>3

\* A row is marked DELIVERED only with a text a client of its id was sent.
LEMMA DeliveredIsKnownKept ==
  ASSUME IInv, [Next]_vars, Moves, PassIsTrue, RowsAreTrue, RecoveryCallsOne, DeliveredIsKnown
  PROVE  DeliveredIsKnown'
<1>1. ASSUME rThread'.pc # "recording" PROVE DeliveredIsKnown'
  BY <1>1 DEF DeliveredIsKnown
<1>2. CASE RecoveryStands \/ B!Restart
  <2>1. UNCHANGED <<rThread, callbacks>> /\ Recorded' = Recorded
    BY <1>2 DEF RecoveryStands, B!Restart, Recorded
  <2> QED
    BY <2>1 DEF DeliveredIsKnown, IsSent
<1>3. CASE BackupCrash
  BY <1>1, <1>3, IdleFields DEF BackupCrash, B!Crash
<1>4. ASSUME NEW queue, BP!IsQueue(queue), rThread' = B!Turn(queue) PROVE rThread'.pc # "recording"
  BY <1>4, TurnTo, IdleFields
<1>5. ASSUME rThread.pc \notin {"idle", "scanning"}, B!ReplayRetry PROVE rThread'.pc # "recording"
  <2>1. BP!IsQueue(B!Rest(rThread.queue))
    BY <1>5, HeadOfQueue
  <2> QED
    BY <1>4, <1>5, <2>1, PassIsTyped DEF B!ReplayRetry, B!Recovery
<1>6. CASE RecoveryStep
  <2>1. CASE B!StartScan \/ (\E n \in Nodes : B!ReplayReserve(n))
    BY <1>1, <2>1, PassIsTyped DEF B!StartScan, B!ReplayReserve, B!Recovery
  <2>2. CASE B!EndScan
    BY <1>1, <1>4, <2>2, PassIsTyped DEF B!EndScan
  <2>3. CASE B!ReplayReserveNone
    BY <1>1, <1>5, <2>3 DEF B!ReplayReserveNone
  <2>4. ASSUME NEW ok \in BOOLEAN, B!Deliver(ok) PROVE DeliveredIsKnown'
    <3>1. /\ rThread'.delivered = ok
          /\ rThread'.response = rThread.response
          /\ Recorded' = Recorded
      BY <2>4, PassIsTyped DEF B!Deliver, B!Recovery, Recorded
    <3>2. ok => IsSent(Recorded.job, rThread.response)'
      <4> PICK job, response : job = Recorded.job /\ response = rThread.response
        OBVIOUS
      <4>1. ok => IsSent(job, response)'
        BY <2>4, DeliverySends DEF IsSent
      <4> QED
        BY <3>1, <4>1
    <3> QED
      BY <3>1, <3>2 DEF DeliveredIsKnown
  <2>5. CASE B!Record
    <3>1. BP!IsQueue(B!Rest(rThread.queue))
      BY <2>5, HeadOfQueue DEF B!Record
    <3> QED
      BY <1>1, <1>4, <2>5, <3>1 DEF B!Record
  <2> QED
    BY <1>6, <2>1, <2>2, <2>3, <2>4, <2>5 DEF RecoveryStep
<1>7. CASE RecoveryCalls
  <2>1. rThread.pc = "calling"
    BY <1>7 DEF RecoveryCalls
  <2>2. CASE UNCHANGED rThread
    BY <1>1, <2>1, <2>2
  <2>3. ASSUME NEW response, B!ReplayReturns(response) PROVE DeliveredIsKnown'
    BY <1>1, <2>3, PassIsTyped DEF B!ReplayReturns, B!Recovery
  <2>4. CASE B!ReplayFails
    BY <1>1, <1>5, <2>1, <2>4 DEF B!ReplayFails
  <2> QED
    BY <1>7, <2>2, <2>3, <2>4 DEF RecoveryCalls, Connect, bVars
<1> QED
  BY <1>2, <1>3, <1>6, <1>7, WhoRecovers


\* A row marked DELIVERED keeps its text as long as it keeps the mark, and the
\* row that was delivered stays beside it.
LEMMA DeliveredKept ==
  ASSUME IInv, [Next]_vars, Moves, RowsAreTrue, PassIsTrue, DeliveredIsKnown,
         DeliveredMeansSent
  PROVE  DeliveredMeansSent'
<1>1. /\ \A k \in DOMAIN bLog : /\ k \in DOMAIN bLog'
                                /\ bLog'[k].sid = bLog[k].sid
                                /\ bLog'[k].job = bLog[k].job
      /\ \A k \in DOMAIN bLog : bLog[k].job \in Jobs
  BY BackupLogGrows, LogsAreRows DEF Moves, Grows, Row
<1> SUFFICES ASSUME NEW i \in DOMAIN bLog', bLog'[i].delivery = "DELIVERED"
             PROVE  \E k \in DOMAIN bLog' :
                      /\ bLog'[k].sid = bLog'[i].sid
                      /\ \E c \in DOMAIN callbacks'[bLog'[k].job] :
                           callbacks'[bLog'[k].job][c] = bLog'[i].response
  BY DEF DeliveredMeansSent
<1>2. ASSUME NEW k \in DOMAIN bLog, bLog[k].sid = bLog'[i].sid,
             IsSent(bLog[k].job, bLog'[i].response)
      PROVE  \E l \in DOMAIN bLog' :
               /\ bLog'[l].sid = bLog'[i].sid
               /\ \E c \in DOMAIN callbacks'[bLog'[l].job] :
                    callbacks'[bLog'[l].job][c] = bLog'[i].response
  <2> PICK j, response : j = bLog[k].job /\ response = bLog'[i].response
    OBVIOUS
  <2>1. j \in Jobs /\ IsSent(j, response)
    BY <1>1, <1>2
  <2>2. \E c \in DOMAIN callbacks'[j] : callbacks'[j][c] = response
    BY <2>1, SentStays DEF IsSent
  <2> QED
    BY <1>1, <1>2, <2>2
<1>3. ASSUME i \in DOMAIN bLog, bLog'[i] = bLog[i]
      PROVE  \E k \in DOMAIN bLog : bLog[k].sid = bLog'[i].sid /\ IsSent(bLog[k].job, bLog'[i].response)
  BY <1>3 DEF DeliveredMeansSent, IsSent
<1>4. CASE bLog' = bLog
  BY <1>2, <1>3, <1>4
<1>5. ASSUME NEW row, row.delivery = "PENDING", row \in Row, bLog' = Append(bLog, row)
      PROVE  i \in DOMAIN bLog /\ bLog'[i] = bLog[i]
  BY <1>5, LogsAreRows, AppendKeepsRows
<1>6. ASSUME NEW j \in Jobs, bLog' = Append(bLog, NewRow(bThread[j].sid, bThread[j].receipt, j))
      PROVE  i \in DOMAIN bLog /\ bLog'[i] = bLog[i]
  BY <1>5, <1>6, ThreadsAreTyped, NewRowIsRow, PendingIsTrue
<1>7. ASSUME NEW m \in replication, m.action = "insert", bLog' = Append(bLog, m.row)
      PROVE  i \in DOMAIN bLog /\ bLog'[i] = bLog[i]
  <2>1. m.row = NewRow(m.row.sid, m.row.receipt, m.row.job)
    BY <1>7 DEF IInv, Joined, MessagesAreTrue
  <2>2. m.row \in Row
    BY <1>7, Typed, Vocabulary DEF TypeOK, P!TypeOK, P!Replication, P!InsertMessage, P!UpdateMessage
  <2>3. m.row.delivery = "PENDING"
    BY <2>1, PendingIsTrue
  <2> QED
    BY <1>5, <1>7, <2>2, <2>3
<1>8. ASSUME NEW m \in P!UpdateMessage, Outcome(m), bLog' = UpdatedBy(bLog, m)
      PROVE  i \in DOMAIN bLog /\ bLog'[i] = bLog[i]
  <2> PICK new : new = bLog'
    OBVIOUS
  <2>1. /\ DOMAIN new = DOMAIN bLog
        /\ \A k \in DOMAIN bLog : new[k] = bLog[k] \/ new[k].delivery # "DELIVERED"
    BY <1>8, LogsAreRows, UpdatedIsTrue DEF RowsAreTrue
  <2> QED
    BY <2>1
<1>9. CASE B!Record
  <2>1. /\ DOMAIN bLog' = DOMAIN bLog
        /\ bLog'[i].sid = bLog[i].sid
        /\ bLog[i].sid # Recorded.sid => bLog'[i] = bLog[i]
        /\ bLog[i].sid = Recorded.sid =>
             /\ bLog'[i].response = rThread.response
             /\ bLog'[i].delivery = IF rThread.delivered THEN "DELIVERED" ELSE "UNDELIVERED"
    BY <1>9, RecordWrites
  <2>2. CASE bLog[i].sid = Recorded.sid
    <3>1. rThread.pc = "recording" /\ rThread.delivered /\ bLog'[i].response = rThread.response
      BY <1>9, <2>1, <2>2 DEF B!Record
    <3>2. PICK h \in DOMAIN bLog : bLog[h].sid = Recorded.sid /\ bLog[h].job = Recorded.job
      BY <3>1, RecoveryRow
    <3>3. IsSent(bLog[h].job, bLog'[i].response)
      BY <3>1, <3>2 DEF DeliveredIsKnown
    <3> QED
      BY <1>2, <2>1, <2>2, <3>2, <3>3
  <2>3. CASE bLog[i].sid # Recorded.sid
    BY <1>2, <1>3, <2>1, <2>3
  <2> QED
    BY <2>2, <2>3
<1> QED
  BY <1>2, <1>3, <1>4, <1>6, <1>7, <1>8, <1>9 DEF Moves, BackupLogMoves

\* Every step keeps the account of the texts.
LEMMA TruthKept ==
  ASSUME IInv, [Next]_vars, Truth
  PROVE  Truth'
<1>1. Moves
  BY StepMoves
<1> QED
  BY <1>1, RowsAreTrueKept, PassIsTrueKept, CallbacksAreTrueKept, RecoveryCallsOneKept,
     DeliveredIsKnownKept, DeliveredKept DEF Truth

-----------------------------------------------------------------------------
(***************************************************************************)
(* Ids                                                                     *)
(***************************************************************************)

\* A run goes on having a row, or a living thread, that it is for.
LEMMA RunsAreLoggedKept ==
  ASSUME IInv, Moves, RunsAreLogged
  PROVE  RunsAreLogged'
<1>1. RequestsMove /\ RunsMove /\ Grows(pLog, pLog')
  BY PrimaryLogGrows DEF Moves
<1> SUFFICES ASSUME NEW r \in Runs, run'[r].pc # "unused", pThread'[run'[r].job].sid # 0
             PROVE  \E i \in DOMAIN pLog' : pLog'[i].job = run'[r].job
  BY DEF RunsAreLogged
<1> PICK job : job = run'[r].job
  OBVIOUS
<1>2. CASE run[r].pc # "unused"
  <2>1. run[r].job = job
    BY <1>1, <1>2 DEF RunsMove, RunMoves
  <2>2. job \in Taken /\ job \in Jobs
    BY <1>2, <2>1 DEF IInv, Joined, RunsAreTaken, Taken
  <2>3. pThread'[job].sid = pThread[job].sid
    <3>1. pThread[job].pc # "idle" \/ bThread[job].pc # "idle"
      BY <2>2 DEF Taken, TakenAs, IInv, Joined, OneMaster, Unserved
    <3>2. ASSUME NEW k \in Jobs, PrimaryTakes(k) \/ PrimaryRefuses(k) PROVE k # job
      BY <3>1, <3>2 DEF PrimaryTakes, PrimaryRefuses
    <3> QED
      BY <1>1, <2>2, <3>2 DEF RequestsMove, IdsStay, PrimaryThreadMoves, PrimaryTakes,
        PrimaryRefuses, BackupTakes, BackupRefuses, pVars
  <2>4. PICK i \in DOMAIN pLog : pLog[i].job = job
    BY <1>2, <2>1, <2>3 DEF RunsAreLogged
  <2> QED
    BY <1>1, <2>4 DEF Grows
<1>3. CASE run[r].pc = "unused"
  <2> PICK caller \in Callers, n \in Nodes, sid \in Nat, j \in Jobs :
        /\ Calls(caller, sid, j)
        /\ run'[r] = [pc |-> "executing", node |-> n, sid |-> sid, job |-> j,
                      caller |-> caller, kind |-> "PENDING", connection |-> "open"]
    BY <1>1, <1>3 DEF RunsMove, RunMoves
  <2>1. job = j /\ job \in Jobs /\ Calls(caller, sid, job)
    OBVIOUS
  <2>2. run'[r] # run[r] =>
          ~\E k \in Jobs : PrimaryTakes(k) \/ BackupTakes(k) \/ PrimaryRefuses(k) \/ BackupRefuses(k)
    BY DEF PrimaryTakes, BackupTakes, PrimaryRefuses, BackupRefuses, nVars
  <2>3. pThread'[job].sid = pThread[job].sid
    BY <1>1, <1>3, <2>1, <2>2 DEF RequestsMove, IdsStay, PrimaryThreadMoves
  <2>4. pThread[job].pc # "idle" /\ bThread[job].pc = "idle" /\ bThread[job].sid = 0
    BY <2>1, <2>3 DEF IInv, Joined, OneMaster, Unserved
  <2>5. \E i \in DOMAIN pLog : pLog[i].job = job
    <3>1. CASE pThread[job].pc = "calling"
      <4>1. ~pThread[job].unwritten
        BY <2>1, ThreadsAreTyped DEF IInv, PP!IInv, PP!UnwrittenHasCause
      <4> QED
        BY <2>1, <3>1, <4>1 DEF IInv, PP!IInv, PP!InsertedIsLogged, PP!Inserted, PP!Scheduled
    <3>2. CASE \E i \in DOMAIN bLog : bLog[i].job = job
      <4>1. PICK i \in DOMAIN bLog : bLog[i].job = job
        BY <3>2
      <4>2. Copied(bLog[i])
        BY <2>4, <4>1 DEF IInv, Joined, RowsAreTaken
      <4> QED
        BY <4>1, <4>2 DEF Copied
    <3> QED
      BY <2>1, <2>4, <3>1, <3>2 DEF Calls
  <2> QED
    BY <1>1, <2>5 DEF Grows
<1> QED
  BY <1>2, <1>3

\* A client called back goes on having a row in the backup's log.
LEMMA CallbacksAreLoggedKept ==
  ASSUME IInv, [Next]_vars, Moves, CallbacksAreLogged
  PROVE  CallbacksAreLogged'
<1>1. Grows(bLog, bLog')
  BY BackupLogGrows DEF Moves
<1> SUFFICES ASSUME NEW j \in Jobs, DOMAIN callbacks'[j] # {}
             PROVE  \E i \in DOMAIN bLog' : bLog'[i].job = j
  BY DEF CallbacksAreLogged
<1>2. \E i \in DOMAIN bLog : bLog[i].job = j
  <2>1. CASE callbacks'[j] = callbacks[j]
    BY <2>1 DEF CallbacksAreLogged
  <2>2. CASE B!Deliver(TRUE) /\ j = Recorded.job
    BY <2>2, RecoveryRow DEF B!Deliver
  <2>3. CASE B!Deliver(TRUE)
    BY <2>1, <2>2, <2>3, DeliverySends
  <2> QED
    BY <2>1, <2>3, WhoDelivers
<1> QED
  BY <1>1, <1>2 DEF Grows

\* The counter of a backup that does not start goes up by what it gives.
LEMMA LifeNumbers ==
  ASSUME IInv, [Next]_vars
  PROVE  \/ bRestarts' = bRestarts + 1
         \/ bRestarts' = bRestarts /\ bNextSid' \in {bNextSid, bNextSid + 1}
<1>1. [BP!Next]_bVars
  BY BackupStepsAlone, BackupNext
<1>2. ASSUME NEW j \in Jobs, BP!RequestStep(j)
      PROVE  bRestarts' = bRestarts /\ bNextSid' \in {bNextSid, bNextSid + 1}
  BY <1>2 DEF BP!RequestStep, BP!Accept, BP!Reject, BP!StartProbe, BP!ProbeReturns, BP!ProbeRejects,
    BP!Insert, BP!Reserve, BP!ReserveNone, BP!ForwardReturns, BP!ForwardFails, BP!LogOutcome,
    BP!Reply, BP!Admit, BP!TakeIds, BP!roleVars, BP!idVars
<1>3. BP!RecoveryStep => UNCHANGED <<bRestarts, bNextSid>>
  BY DEF BP!RecoveryStep, BP!StartScan, BP!EndScan, BP!ReplayReserve, BP!ReplayReserveNone,
    BP!ReplayReturns, BP!ReplayFails, BP!Deliver, BP!Record, BP!roleVars, BP!idVars
<1>4. BP!ReplicaStep \/ BP!UdpStep => UNCHANGED <<bRestarts, bNextSid>>
  BY DEF BP!ReplicaStep, BP!InsertComes, BP!UpdateComes, BP!ReplicaArrives, BP!UdpStep,
    BP!ResultArrives, BP!Heartbeat, BP!roleVars, BP!idVars
<1>5. (\E n \in Nodes : BP!Evict(n)) \/ (\E reachable \in BOOLEAN : BP!HealthCheck(reachable))
        \/ BP!NoPrimary \/ BP!Crash => UNCHANGED <<bRestarts, bNextSid>>
  BY DEF BP!Evict, BP!HealthCheck, BP!NoPrimary, BP!Crash, BP!roleVars, BP!idVars
<1>6. BP!Restart => bRestarts' = bRestarts + 1
  BY DEF BP!Restart
<1>7. UNCHANGED bVars => UNCHANGED <<bRestarts, bNextSid>>
  BY DEF bVars
<1> QED
  BY <1>1, <1>2, <1>3, <1>4, <1>5, <1>6, <1>7 DEF BP!Next

\* In its first life the backup gives no id twice.
LEMMA FirstLifeNumbersKept ==
  ASSUME IInv, [Next]_vars, Moves, FirstLifeNumbers
  PROVE  FirstLifeNumbers'
<1> SUFFICES ASSUME bRestarts' = 0
             PROVE  \A j \in Jobs :
                      /\ bThread'[j].sid < bNextSid'
                      /\ \A k \in Jobs : bThread'[k].sid = bThread'[j].sid =>
                           bThread'[j].sid = 0 \/ k = j
  BY DEF FirstLifeNumbers
<1>1. /\ bRestarts \in Nat /\ bNextSid \in Nat
      /\ \A j \in Jobs : bThread[j].sid \in Nat
  BY Typed, ThreadsAreTyped DEF TypeOK, B!TypeOK
<1>2. bRestarts = 0 /\ bNextSid' \in {bNextSid, bNextSid + 1}
  BY <1>1, LifeNumbers
<1>3. CASE \A j \in Jobs : bThread'[j].sid = bThread[j].sid
  BY <1>1, <1>2, <1>3 DEF FirstLifeNumbers
<1>4. ASSUME NEW j \in Jobs, BackupTakes(j)
      PROVE  \A k \in Jobs :
                      /\ bThread'[k].sid < bNextSid'
                      /\ \A l \in Jobs : bThread'[l].sid = bThread'[k].sid =>
                           bThread'[k].sid = 0 \/ k = l
  <2>1. /\ bThread'[j].sid = bNextSid
        /\ bNextSid' = bNextSid + 1
        /\ \A k \in Jobs \ {j} : bThread'[k].sid = bThread[k].sid
    BY <1>4 DEF BackupTakes
  <2> QED
    BY <1>1, <1>2, <2>1 DEF FirstLifeNumbers
<1>5. ASSUME NEW j \in Jobs, PrimaryTakes(j) \/ PrimaryRefuses(j) \/ BackupRefuses(j)
      PROVE  \A k \in Jobs : bThread'[k].sid = bThread[k].sid
  BY <1>5 DEF PrimaryTakes, PrimaryRefuses, BackupRefuses, bVars
<1> QED
  BY <1>3, <1>4, <1>5 DEF Moves, RequestsMove, IdsStay, BackupThreadMoves


-----------------------------------------------------------------------------
(***************************************************************************)
(* Replays                                                                 *)
(***************************************************************************)

RecoveryConnects == RecoveryCalls /\ Connect(<<"recovery">>, rThread.target, Recorded.sid, Recorded.job)

\* What a call that is not a connection does to the runs: some hang up.
LEMMA NoNewReplay ==
  ASSUME IInv, [Next]_vars, Moves, ~RecoveryConnects, NEW j \in Jobs
  PROVE  Replays(j)' \subseteq Replays(j)
<1>1. run \in [Runs -> N!Run]
  BY RunsAreTyped
<1>2. ASSUME NEW rs, \A r \in rs : IsOpen(r),
             N!Hangup(rs) \/ \E r \in rs : N!Break(r)
      PROVE  Replays(j)' \subseteq Replays(j)
  <2>1. \A r \in Runs : /\ run'[r].caller = run[r].caller
                        /\ run'[r].pc = run[r].pc
                        /\ run'[r].job = run[r].job
                        /\ run'[r].connection # "broken" => run[r].connection # "broken"
    BY <1>1, <1>2 DEF N!Hangup, N!Break, N!Run, IsOpen
  <2> QED
    BY <2>1 DEF Replays, Heard
<1>3. CASE RecoveryStands
  <2> SUFFICES ASSUME NEW r \in Replays(j)'
               PROVE  r \in Replays(j)
    OBVIOUS
  <2>1. r \in Heard(<<"recovery">>) /\ r \in Runs /\ run[r].caller = <<"recovery">> /\ run'[r].job = j
    BY <1>3 DEF RecoveryStands, Replays, Heard, QuietRun
  <2>2. <<"recovery">> # NoNode
    BY ClusterAssumption DEF Callers
  <2>3. run[r].pc # "unused"
    BY <2>1, <2>2 DEF IInv, Joined, RunsAreTaken, N!Unused
  <2>4. run'[r].job = run[r].job
    BY <2>1, <2>3 DEF Moves, RunsMove, RunMoves
  <2> QED
    BY <2>1, <2>4 DEF Replays
<1>4. CASE RecoveryStep \/ (B!Restart /\ UNCHANGED <<pVars, nVars, faults>>)
  BY <1>4 DEF RecoveryStep, nVars, Replays, Heard
<1>5. CASE BackupCrash
  BY <1>2, <1>5 DEF BackupCrash, RunsOfMaster
<1>6. CASE RecoveryCalls
  <2>1. ~Connect(<<"recovery">>, rThread.target, Recorded.sid, Recorded.job)
    BY <1>6 DEF RecoveryConnects
  <2>2. \/ \E r \in Runs : Answered(<<"recovery">>, r)
        \/ Failed(<<"recovery">>, rThread.target)
    BY <1>6, <2>1 DEF RecoveryCalls, Recorded
  <2>3. ASSUME NEW r \in OpenRuns(<<"recovery">>), N!Hangup({r}) \/ N!Break(r)
        PROVE  Replays(j)' \subseteq Replays(j)
    BY <1>2, <2>3 DEF OpenRuns
  <2>4. CASE UNCHANGED run
    BY <2>4 DEF Replays, Heard
  <2> QED
    BY <2>2, <2>3, <2>4 DEF Answered, Failed
<1> QED
  BY <1>3, <1>4, <1>5, <1>6, WhoRecovers

\* A pass only loses rows, until the next one starts.
LEMMA PassAdvances ==
  ASSUME IInv, [Next]_vars
  PROVE  \/ B!StartScan
         \/ BackupCrash
         \/ /\ DOMAIN rThread'.queue \subseteq DOMAIN rThread.queue
            /\ \A i \in DOMAIN rThread'.queue : rThread'.queue[i] = rThread.queue[i]
<1> DEFINE Advances == /\ DOMAIN rThread'.queue \subseteq DOMAIN rThread.queue
                       /\ \A i \in DOMAIN rThread'.queue : rThread'.queue[i] = rThread.queue[i]
<1>1. ASSUME rThread'.queue = rThread.queue PROVE Advances
  BY <1>1
<1>2. ASSUME NEW queue, BP!IsQueue(queue), rThread' = B!Turn(queue),
             DOMAIN queue \subseteq DOMAIN rThread.queue,
             \A i \in DOMAIN queue : queue[i] = rThread.queue[i]
      PROVE  Advances
  BY <1>2, TurnTo, IdleFields
<1>3. ASSUME rThread.pc \notin {"idle", "scanning"}, rThread' = B!Turn(B!Rest(rThread.queue))
      PROVE  Advances
  <2>1. /\ BP!IsQueue(B!Rest(rThread.queue))
        /\ DOMAIN B!Rest(rThread.queue) \subseteq DOMAIN rThread.queue
        /\ \A i \in DOMAIN B!Rest(rThread.queue) : B!Rest(rThread.queue)[i] = rThread.queue[i]
    BY <1>3, HeadOfQueue
  <2> QED
    BY <1>2, <1>3, <2>1
<1>4. ASSUME rThread.pc \notin {"idle", "scanning"}, B!ReplayRetry PROVE Advances
  BY <1>1, <1>3, <1>4, PassIsTyped DEF B!ReplayRetry, B!Recovery
<1>5. CASE RecoveryStep
  <2>1. CASE (\E n \in Nodes : B!ReplayReserve(n)) \/ (\E ok \in BOOLEAN : B!Deliver(ok))
    BY <1>1, <2>1, PassIsTyped DEF B!ReplayReserve, B!Deliver, B!Recovery
  <2>2. CASE B!EndScan
    BY <1>2, <2>2, PassIsTyped DEF B!EndScan
  <2>3. CASE B!ReplayReserveNone
    BY <1>4, <2>3 DEF B!ReplayReserveNone
  <2>4. CASE B!Record
    BY <1>3, <2>4 DEF B!Record
  <2> QED
    BY <1>5, <2>1, <2>2, <2>3, <2>4 DEF RecoveryStep
<1>6. CASE RecoveryCalls
  <2>1. CASE UNCHANGED rThread
    BY <1>1, <2>1
  <2>2. ASSUME NEW response, B!ReplayReturns(response) PROVE Advances
    BY <1>1, <2>2, PassIsTyped DEF B!ReplayReturns, B!Recovery
  <2>3. CASE B!ReplayFails
    BY <1>4, <2>3 DEF B!ReplayFails
  <2> QED
    BY <1>6, <2>1, <2>2, <2>3 DEF RecoveryCalls, Connect, bVars
<1>7. CASE B!Restart \/ RecoveryStands
  BY <1>1, <1>7 DEF B!Restart, RecoveryStands
<1> QED
  BY <1>5, <1>6, <1>7, WhoRecovers

\* A job has one row in the log of the backup, and one in a pass.
LEMMA OneRow ==
  ASSUME IInv
  PROVE  /\ \A i, k \in DOMAIN bLog : bLog[i].job = bLog[k].job => i = k
         /\ \A i \in DOMAIN rThread.queue : i \in DOMAIN bLog /\ bLog[i].job = rThread.queue[i].job
BY DEF IInv, Joined, RowsAreTaken, BP!IInv, BP!PassIsSound, BP!QueueIsOfLog

\* No write turns a text back into PENDING, or adds a second row.
LEMMA TextsStay ==
  ASSUME IInv, Moves, RowsAreTrue, PassIsTrue, NEW j \in Jobs,
         \E i \in DOMAIN bLog : bLog[i].job = j,
         \A i \in DOMAIN bLog : bLog[i].job = j => bLog[i].response # Pending
  PROVE  /\ \E i \in DOMAIN bLog' : bLog'[i].job = j
         /\ \A i \in DOMAIN bLog' : bLog'[i].job = j => bLog'[i].response # Pending
<1> PICK new : new = bLog'
  OBVIOUS
<1>1. bLog \in Seq(Row)
  BY LogsAreRows
<1>2. \E i \in DOMAIN new : new[i].job = j
  BY BackupLogGrows DEF Moves, Grows
<1>3. \A i \in DOMAIN new : new[i].job = j => new[i].response # Pending
  <2>1. CASE bLog' = bLog
    BY <2>1
  <2>2. ASSUME NEW row \in Row, row.job # j, bLog' = Append(bLog, row)
        PROVE  \A i \in DOMAIN new : new[i].job = j => new[i].response # Pending
    BY <1>1, <2>2, AppendKeepsRows
  <2>3. ASSUME NEW k \in Jobs, bThread[k].pc = "inserting",
               bLog' = Append(bLog, NewRow(bThread[k].sid, bThread[k].receipt, k))
        PROVE  \A i \in DOMAIN new : new[i].job = j => new[i].response # Pending
    <3>1. k # j
      BY <2>3 DEF IInv, BP!IInv, BP!IdsAreApart, BP!UnservedHasNoRow
    <3> QED
      BY <2>2, <2>3, <3>1, ThreadsAreTyped, NewRowIsRow
  <2>4. ASSUME NEW m \in replication, m.action = "insert", bLog' = Append(bLog, m.row)
        PROVE  \A i \in DOMAIN new : new[i].job = j => new[i].response # Pending
    <3>1. m.row \in Row
      BY <2>4, Typed, Vocabulary DEF TypeOK, P!TypeOK, P!Replication, P!InsertMessage, P!UpdateMessage
    <3>2. m.row.job # j
      BY <2>4 DEF IInv, Joined, MessagesAreTrue
    <3> QED
      BY <2>2, <2>4, <3>1, <3>2
  <2>5. ASSUME NEW m \in P!UpdateMessage, Outcome(m), bLog' = UpdatedBy(bLog, m)
        PROVE  \A i \in DOMAIN new : new[i].job = j => new[i].response # Pending
    <3>1. /\ DOMAIN new = DOMAIN bLog
          /\ \A i \in DOMAIN bLog : new[i] = bLog[i] \/ new[i].response # Pending
      BY <1>1, <2>5, UpdatedIsTrue DEF RowsAreTrue
    <3> QED
      BY <3>1
  <2>6. CASE B!Record
    <3>1. rThread.response # Pending
      BY <2>6, OutputIsComputed DEF B!Record, PassIsTrue, Output
    <3>2. /\ DOMAIN new = DOMAIN bLog
          /\ \A i \in DOMAIN bLog : new[i] = bLog[i] \/ new[i].response # Pending
      BY <2>6, <3>1, RecordWrites
    <3> QED
      BY <3>2
  <2> QED
    BY <2>1, <2>3, <2>4, <2>5, <2>6 DEF Moves, BackupLogMoves
<1> QED
  BY <1>2, <1>3

\* A job whose text the backup has keeps a text.
LEMMA HasTextStays ==
  ASSUME IInv, [Next]_vars, Moves, RowsAreTrue, PassIsTrue, NEW j \in Jobs, HasText(j)
  PROVE  HasText(j)'
<1>1. /\ \E i \in DOMAIN bLog' : bLog'[i].job = j
      /\ \A i \in DOMAIN bLog' : bLog'[i].job = j => bLog'[i].response # Pending
  BY TextsStay DEF HasText
<1> PICK queue : queue = rThread'.queue
  OBVIOUS
<1>2. \A i \in DOMAIN queue : queue[i].job = j => queue[i].response # Pending
  <2>1. CASE B!StartScan
    <3>1. queue = BP!PendingRows(bLog)
      BY <2>1, PassIsTyped, QueueTerms DEF B!StartScan, B!Recovery
    <3>2. DOMAIN queue \subseteq DOMAIN bLog /\ \A i \in DOMAIN queue : queue[i] = bLog[i]
      BY <3>1 DEF BP!PendingRows, BP!Restrict
    <3> QED
      BY <3>2 DEF HasText
  <2>2. CASE BackupCrash
    BY <2>2, IdleFields DEF BackupCrash, B!Crash
  <2> QED
    BY <2>1, <2>2, PassAdvances DEF HasText
<1> QED
  BY <1>1, <1>2 DEF HasText

\* The count is kept by a step that adds no replay.
LEMMA CountStays ==
  ASSUME IInv, ReplaysAreCounted, NEW j \in Jobs, Replays(j)' \subseteq Replays(j),
         bRestarts' = bRestarts, Replayed(j) => Replayed(j)'
  PROVE  /\ IsFiniteSet(Replays(j)')
         /\ Cardinality(Replays(j)') <= bRestarts' + (IF Replayed(j)' THEN 1 ELSE 0)
<1>1. /\ IsFiniteSet(Replays(j))
      /\ Cardinality(Replays(j)) <= bRestarts + (IF Replayed(j) THEN 1 ELSE 0)
  BY DEF ReplaysAreCounted
<1>2. /\ IsFiniteSet(Replays(j)')
      /\ Cardinality(Replays(j)') <= Cardinality(Replays(j))
  BY <1>1, FS_Subset
<1>3. bRestarts \in Nat
  BY Typed DEF TypeOK, B!TypeOK
<1>4. Cardinality(Replays(j)) \in Nat /\ Cardinality(Replays(j)') \in Nat
  BY <1>1, <1>2, FS_CardinalityType
<1>5. CASE Replayed(j)
  BY <1>1, <1>2, <1>3, <1>4, <1>5
<1>6. CASE ~Replayed(j)
  BY <1>1, <1>2, <1>3, <1>4, <1>6
<1> QED
  BY <1>5, <1>6

\* A replay that dies with its node, or whose call breaks, was counted.
LEMMA CountFalls ==
  ASSUME IInv, ReplaysAreCounted, NEW j \in Jobs, NEW r \in Replays(j),
         Replays(j)' \subseteq Replays(j) \ {r}, bRestarts' = bRestarts
  PROVE  /\ IsFiniteSet(Replays(j)')
         /\ Cardinality(Replays(j)') <= bRestarts' + (IF Replayed(j)' THEN 1 ELSE 0)
<1>1. /\ IsFiniteSet(Replays(j))
      /\ Cardinality(Replays(j)) <= bRestarts + (IF Replayed(j) THEN 1 ELSE 0)
  BY DEF ReplaysAreCounted
<1>2. /\ IsFiniteSet(Replays(j) \ {r})
      /\ Cardinality(Replays(j) \ {r}) = Cardinality(Replays(j)) - 1
  BY <1>1, FS_RemoveElement
<1>3. /\ IsFiniteSet(Replays(j)')
      /\ Cardinality(Replays(j)') <= Cardinality(Replays(j) \ {r})
  BY <1>2, FS_Subset
<1>4. bRestarts \in Nat
  BY Typed DEF TypeOK, B!TypeOK
<1>5. Cardinality(Replays(j)) \in Nat /\ Cardinality(Replays(j)') \in Nat
  BY <1>1, <1>3, FS_CardinalityType
<1>6. Cardinality(Replays(j)') <= bRestarts
  <2>1. Cardinality(Replays(j)) <= bRestarts + 1
    BY <1>1, <1>4, <1>5
  <2> QED
    BY <1>2, <1>3, <1>4, <1>5, <2>1
<1> QED
  BY <1>3, <1>4, <1>5, <1>6

\* A replay that starts was not counted.
LEMMA CountRises ==
  ASSUME IInv, ReplaysAreCounted, NEW j \in Jobs, ~Replayed(j), NEW r,
         Replays(j)' \subseteq Replays(j) \cup {r}, bRestarts' = bRestarts, Replayed(j)'
  PROVE  /\ IsFiniteSet(Replays(j)')
         /\ Cardinality(Replays(j)') <= bRestarts' + (IF Replayed(j)' THEN 1 ELSE 0)
<1>1. bRestarts \in Nat
  BY Typed DEF TypeOK, B!TypeOK
<1>2. IsFiniteSet(Replays(j)) /\ Cardinality(Replays(j)) <= bRestarts
  BY <1>1 DEF ReplaysAreCounted
<1>3. /\ IsFiniteSet(Replays(j) \cup {r})
      /\ Cardinality(Replays(j) \cup {r}) \in {Cardinality(Replays(j)), Cardinality(Replays(j)) + 1}
  BY <1>2, FS_AddElement
<1>4. /\ IsFiniteSet(Replays(j)')
      /\ Cardinality(Replays(j)') <= Cardinality(Replays(j) \cup {r})
  BY <1>3, FS_Subset
<1>5. Cardinality(Replays(j)) \in Nat /\ Cardinality(Replays(j)') \in Nat
  BY <1>2, <1>4, FS_CardinalityType
<1>6. Cardinality(Replays(j)') <= bRestarts + 1
  BY <1>1, <1>2, <1>3, <1>4, <1>5
<1> QED
  BY <1>4, <1>6

\* The row the pass is at keeps a text that is being recorded.
LEMMA RecordedHasText ==
  ASSUME IInv, [Next]_vars, Moves, RowsAreTrue, PassIsTrue, B!Record,
         NEW j, j = Recorded.job
  PROVE  HasText(j)'
<1> PICK text : text = rThread.response
  OBVIOUS
<1>1. text # Pending
  BY OutputIsComputed DEF B!Record, PassIsTrue, Output
<1>2. PICK h \in DOMAIN rThread.queue :
        /\ h \in DOMAIN bLog
        /\ bLog[h].sid = Recorded.sid
        /\ bLog[h].job = j
        /\ DOMAIN B!Rest(rThread.queue) = DOMAIN rThread.queue \ {h}
        /\ \A i \in DOMAIN B!Rest(rThread.queue) : B!Rest(rThread.queue)[i] = rThread.queue[i]
        /\ BP!IsQueue(B!Rest(rThread.queue))
  BY HeadOfQueue DEF B!Record
<1> PICK new, rest, queue : new = bLog' /\ rest = B!Rest(rThread.queue) /\ queue = rThread'.queue
  OBVIOUS
<1>3. /\ DOMAIN new = DOMAIN bLog
      /\ new[h].job = j
      /\ new[h].response = text
      /\ \A i \in DOMAIN new : new[i].job = j => i = h
  BY <1>2, RecordWrites, OneRow
<1>4. \A i \in DOMAIN rest : rest[i].job # j
  BY <1>2, OneRow
<1>5. DOMAIN queue \subseteq DOMAIN rest /\ \A i \in DOMAIN queue : queue[i] = rest[i]
  BY <1>2, TurnTo, IdleFields DEF B!Record
<1>6. /\ \E i \in DOMAIN new : new[i].job = j
      /\ \A i \in DOMAIN new : new[i].job = j => new[i].response # Pending
      /\ \A i \in DOMAIN queue : queue[i].job = j => queue[i].response # Pending
  BY <1>1, <1>2, <1>3, <1>4, <1>5
<1> QED
  BY <1>6 DEF HasText

\* A replay in hand is one to the end of its row's turn.
LEMMA InHandStays ==
  ASSUME IInv, [Next]_vars, Moves, RowsAreTrue, PassIsTrue, RecoveryCallsOne, bUp', ~RecoveryStands,
         ~\E r \in OpenRuns(<<"recovery">>) : N!Break(r),
         NEW j \in Jobs, InHand(j)
  PROVE  Replayed(j)'
<1>1. ASSUME rThread'.pc \in {"delivering", "recording"}, rThread'.queue = rThread.queue
      PROVE  Replayed(j)'
  <2>1. Recorded' = Recorded
    BY <1>1 DEF Recorded
  <2> QED
    BY <1>1, <2>1 DEF InHand, Replayed
<1>2. rThread.pc \in {"calling", "delivering", "recording"}
  BY DEF InHand, RecoveryCallsOne
<1>3. CASE RecoveryStep
  <2>1. ASSUME NEW ok \in BOOLEAN, B!Deliver(ok) PROVE Replayed(j)'
    BY <1>1, <2>1, PassIsTyped DEF B!Deliver, B!Recovery
  <2>2. CASE B!Record
    BY <2>2, RecordedHasText DEF InHand, Replayed
  <2> QED
    BY <1>2, <1>3, <2>1, <2>2 DEF RecoveryStep, B!StartScan, B!EndScan, B!ReplayReserve,
      B!ReplayReserveNone
<1>4. CASE RecoveryCalls
  <2>1. PICK r \in OpenRuns(<<"recovery">>) : run[r].pc # "lost"
    BY <1>4 DEF InHand, RecoveryCalls
  <2>2. ASSUME NEW q \in Runs, B!ReplayReturns(N!ResponseOf(q)) PROVE Replayed(j)'
    BY <1>1, <2>2, PassIsTyped DEF B!ReplayReturns, B!Recovery
  <2>3. ~Failed(<<"recovery">>, rThread.target)
    BY <2>1 DEF Failed, RecoveryCallsOne
  <2> QED
    BY <1>4, <2>1, <2>2, <2>3 DEF RecoveryCalls, Connect
<1>5. CASE BackupCrash
  BY <1>5 DEF BackupCrash, B!Crash
<1>6. CASE B!Restart
  BY <1>2, <1>6, IdleFields, QueueTerms DEF B!Restart, IInv, BP!IInv, BP!RoleIsKept, BP!DeadIsQuiet
<1> QED
  BY <1>3, <1>4, <1>5, <1>6, WhoRecovers

\* A new replay is of a row without a text, and is the job's first in this life.
LEMMA FirstReplay ==
  ASSUME IInv, PassIsTrue, RecoveryConnects, NEW j, j = Recorded.job
  PROVE  ~Replayed(j)
<1>1. rThread.pc = "calling" /\ OpenRuns(<<"recovery">>) = {}
  BY DEF RecoveryConnects, RecoveryCalls, Connect
<1>2. bUp
  BY <1>1, IdleFields, QueueTerms DEF IInv, BP!IInv, BP!RoleIsKept, BP!DeadIsQuiet
<1>3. \E h \in DOMAIN rThread.queue :
        rThread.queue[h].job = j /\ rThread.queue[h].response = Pending
  BY <1>1, HeadOfQueue DEF PassIsTrue
<1> QED
  BY <1>1, <1>2, <1>3 DEF Replayed, InHand, HasText

\* Replays of a job that ended stay as few as the lives of the backup.
LEMMA ReplaysAreCountedKept ==
  ASSUME IInv, [Next]_vars, Truth, ReplaysAreCounted
  PROVE  ReplaysAreCounted'
<1> SUFFICES ASSUME NEW j \in Jobs
             PROVE  /\ IsFiniteSet(Replays(j)')
                    /\ Cardinality(Replays(j)') <= bRestarts' + (IF Replayed(j)' THEN 1 ELSE 0)
  BY DEF ReplaysAreCounted
<1>1. Moves /\ RowsAreTrue /\ PassIsTrue /\ RecoveryCallsOne
  BY StepMoves DEF Truth
<1>2. CASE RecoveryConnects
  <2>1. PICK r \in Runs : N!Start(r, <<"recovery">>, rThread.target, Recorded.sid, Recorded.job)
    BY <1>2 DEF RecoveryConnects, Connect
  <2>2. run \in [Runs -> N!Run]
    BY RunsAreTyped
  <2>3. /\ \A q \in Runs \ {r} : run'[q] = run[q]
        /\ run'[r].job = Recorded.job
        /\ run'[r].pc = "executing"
        /\ run'[r].caller = <<"recovery">>
        /\ run'[r].connection = "open"
    BY <2>1, <2>2 DEF N!Start
  <2>4. UNCHANGED <<pVars, bVars, faults>> /\ Recorded' = Recorded
    BY <1>2 DEF RecoveryConnects, Connect, bVars, Recorded
  <2>5. CASE Recorded.job = j
    <3>1. ~Replayed(j)
      BY <1>1, <1>2, <2>5, FirstReplay
    <3>2. Replays(j)' \subseteq Replays(j) \cup {r}
      BY <2>3 DEF Replays, Heard
    <3>3. Replayed(j)'
      BY <2>3, <2>4, <2>5 DEF Replayed, InHand, OpenRuns, IsOpen
    <3> QED
      BY <2>4, <3>1, <3>2, <3>3, CountRises DEF bVars
  <2>6. CASE Recorded.job # j
    <3>1. Replays(j)' \subseteq Replays(j)
      BY <2>3, <2>6 DEF Replays, Heard
    <3>2. Replayed(j) => Replayed(j)'
      <4>1. ~InHand(j)
        BY <2>6 DEF InHand
      <4> QED
        BY <2>4, <4>1 DEF Replayed, HasText, bVars
    <3> QED
      BY <2>4, <3>1, <3>2, CountStays DEF bVars
  <2> QED
    BY <2>5, <2>6
<1>3. CASE ~RecoveryConnects
  <2>1. Replays(j)' \subseteq Replays(j)
    BY <1>1, <1>3, NoNewReplay
  <2>2. HasText(j) => Replayed(j)'
    BY <1>1, HasTextStays DEF Replayed
  <2>3. CASE RecoveryStands
    <3>1. bRestarts' = bRestarts /\ bUp' = bUp /\ rThread' = rThread /\ Recorded' = Recorded
      BY <2>3 DEF RecoveryStands, Recorded
    <3>2. CASE InHand(j) => InHand(j)'
      <4>1. Replayed(j) => Replayed(j)'
        BY <2>2, <3>1, <3>2 DEF Replayed
      <4> QED
        BY <2>1, <3>1, <4>1, CountStays
    <3>3. CASE InHand(j) /\ ~InHand(j)'
      <4>1. PICK r \in OpenRuns(<<"recovery">>) : run[r].pc # "lost"
        BY <3>1, <3>3 DEF InHand
      <4>2. r \in Replays(j)
        BY <1>1, <3>3, <4>1 DEF RecoveryCallsOne, InHand, OpenRuns, IsOpen, Replays, Heard
      <4>3. r \notin Replays(j)'
        <5>1. r \in OpenRuns(<<"recovery">>)'
          BY <2>3, <4>1 DEF RecoveryStands, OpenRuns, QuietRun
        <5>2. run'[r].pc = "lost"
          BY <3>1, <3>3, <5>1 DEF InHand
        <5> QED
          BY <5>2 DEF Replays, Heard
      <4> QED
        BY <2>1, <3>1, <4>2, <4>3, CountFalls
    <3> QED
      BY <3>2, <3>3
  <2>4. CASE BackupCrash
    <3>1. bRestarts' = bRestarts /\ Replayed(j)'
      BY <2>4 DEF BackupCrash, B!Crash, Replayed
    <3> QED
      BY <2>1, <3>1, CountStays
  <2>5. CASE B!Restart
    <3>1. bRestarts' = bRestarts + 1
      BY <2>5 DEF B!Restart
    <3>2. bRestarts \in Nat
      BY Typed DEF TypeOK, B!TypeOK
    <3>3. /\ IsFiniteSet(Replays(j))
          /\ Cardinality(Replays(j)) <= bRestarts + 1
      BY <3>2, FS_CardinalityType DEF ReplaysAreCounted
    <3>4. /\ IsFiniteSet(Replays(j)')
          /\ Cardinality(Replays(j)') <= Cardinality(Replays(j))
      BY <2>1, <3>3, FS_Subset
    <3>5. Cardinality(Replays(j)) \in Nat /\ Cardinality(Replays(j)') \in Nat
      BY <3>3, <3>4, FS_CardinalityType
    <3>6. Cardinality(Replays(j)') <= bRestarts'
      BY <3>1, <3>2, <3>3, <3>4, <3>5
    <3> QED
      BY <3>1, <3>2, <3>4, <3>5, <3>6
  <2>6. CASE RecoveryStep \/ RecoveryCalls
    <3>1. bUp /\ bUp' /\ bRestarts' = bRestarts
      <4>1. rThread.pc = "calling" => bUp
        BY IdleFields, QueueTerms DEF IInv, BP!IInv, BP!RoleIsKept, BP!DeadIsQuiet
      <4>2. CASE RecoveryStep
        <5>1. B!StartScan \/ B!EndScan => bUp /\ UNCHANGED <<bUp, bRestarts>>
          BY DEF B!StartScan, B!EndScan, B!roleVars
        <5>2. B!ReplayReserveNone \/ (\E n \in Nodes : B!ReplayReserve(n))
                => bUp /\ UNCHANGED <<bUp, bRestarts>>
          BY DEF B!ReplayReserve, B!ReplayReserveNone, B!roleVars
        <5>3. B!Record \/ (\E ok \in BOOLEAN : B!Deliver(ok)) => bUp /\ UNCHANGED <<bUp, bRestarts>>
          BY DEF B!Deliver, B!Record, B!roleVars
        <5> QED
          BY <4>2, <5>1, <5>2, <5>3 DEF RecoveryStep
      <4>3. CASE RecoveryCalls
        BY <4>1, <4>3 DEF RecoveryCalls, B!ReplayReturns, B!ReplayFails, Connect, B!roleVars, bVars
      <4> QED
        BY <2>6, <4>2, <4>3
    <3>2. ASSUME NEW r \in OpenRuns(<<"recovery">>), N!Break(r), InHand(j)
          PROVE  /\ IsFiniteSet(Replays(j)')
                 /\ Cardinality(Replays(j)') <= bRestarts' + (IF Replayed(j)' THEN 1 ELSE 0)
      <4>1. rThread.pc = "calling" /\ run[r].job = j /\ run[r].pc # "lost"
        BY <1>1, <3>2 DEF RecoveryCallsOne, InHand
      <4>2. r \in Replays(j)
        BY <4>1 DEF Replays, Heard, OpenRuns, IsOpen
      <4>3. r \notin Replays(j)'
        <5>1. run'[r].connection = "broken"
          BY <3>2, RunsAreTyped DEF N!Break, OpenRuns, N!Run
        <5> QED
          BY <5>1 DEF Replays, Heard
      <4> QED
        BY <2>1, <3>1, <4>2, <4>3, CountFalls
    <3>3. ASSUME ~RecoveryStands, ~(InHand(j) /\ \E r \in OpenRuns(<<"recovery">>) : N!Break(r))
          PROVE  /\ IsFiniteSet(Replays(j)')
                 /\ Cardinality(Replays(j)') <= bRestarts' + (IF Replayed(j)' THEN 1 ELSE 0)
      <4>1. InHand(j) => Replayed(j)'
        BY <1>1, <3>1, <3>3, InHandStays
      <4>2. Replayed(j) => Replayed(j)'
        BY <2>2, <3>1, <4>1 DEF Replayed
      <4> QED
        BY <2>1, <3>1, <4>2, CountStays
    <3> QED
      BY <2>3, <3>2, <3>3
  <2> QED
    BY <2>3, <2>4, <2>5, <2>6, WhoRecovers
<1> QED
  BY <1>2, <1>3


-----------------------------------------------------------------------------
(***************************************************************************)
(* The invariant holds                                                     *)
(***************************************************************************)

\* The cluster starts in the invariant.
LEMMA InitInv == Init => Inv
<1> SUFFICES ASSUME Init PROVE Inv
  OBVIOUS
<1>1. IInv
  BY InitEstablishes
<1>2. /\ DOMAIN pLog = {} /\ DOMAIN bLog = {}
      /\ rThread = B!IdleRecovery
      /\ callbacks = [j \in Jobs |-> <<>>]
      /\ run = [r \in Runs |-> N!Unused]
      /\ bRestarts = 0
      /\ bThread = [j \in Jobs |-> B!IdleRequest]
  BY DEF Init, P!InitWith, B!InitWith, N!Init
<1>3. <<"recovery">> # NoNode /\ DOMAIN <<>> = {}
  BY ClusterAssumption DEF Callers
<1>4. \A r \in Runs : run[r].caller = NoNode /\ run[r].pc = "unused"
  BY <1>2 DEF N!Unused
<1>5. Truth
  <2>1. RowsAreTrue /\ DeliveredMeansSent
    BY <1>2 DEF RowsAreTrue, DeliveredMeansSent
  <2>2. PassIsTrue /\ DeliveredIsKnown
    BY <1>2, IdleFields DEF PassIsTrue, QueueIsTrue, DeliveredIsKnown
  <2>3. CallbacksAreTrue
    BY <1>2, <1>3 DEF CallbacksAreTrue
  <2>4. RecoveryCallsOne
    BY <1>2, <1>3 DEF RecoveryCallsOne, OpenRuns, IsOpen, N!Unused
  <2> QED
    BY <2>1, <2>2, <2>3, <2>4 DEF Truth
<1>6. RunsAreLogged /\ CallbacksAreLogged
  BY <1>2, <1>3, <1>4 DEF RunsAreLogged, CallbacksAreLogged
<1>7. FirstLifeNumbers
  <2>1. \A j \in Jobs : bThread[j].sid = 0
    BY <1>2 DEF B!IdleRequest
  <2>2. bNextSid > 0
    BY <1>1 DEF IInv, BP!IInv, BP!IdsAreApart, BP!IdsAreBounded
  <2> QED
    BY <2>1, <2>2 DEF FirstLifeNumbers
<1>8. ReplaysAreCounted
  <2>1. \A j \in Jobs : Replays(j) = {}
    BY <1>3, <1>4 DEF Replays, Heard
  <2>2. IsFiniteSet({}) /\ Cardinality({}) = 0
    BY FS_EmptySet
  <2> SUFFICES ASSUME NEW j \in Jobs
               PROVE  /\ IsFiniteSet(Replays(j))
                      /\ Cardinality(Replays(j)) <= 0 + (IF Replayed(j) THEN 1 ELSE 0)
    BY <1>2 DEF ReplaysAreCounted
  <2>3. IsFiniteSet(Replays(j)) /\ Cardinality(Replays(j)) = 0
    BY <2>1, <2>2
  <2> QED
    BY <2>3
<1> QED
  BY <1>1, <1>5, <1>6, <1>7, <1>8 DEF Inv

\* Every step keeps the invariant.
LEMMA InvKept == Inv /\ [Next]_vars => Inv'
<1> SUFFICES ASSUME Inv, [Next]_vars PROVE Inv'
  OBVIOUS
<1>1. IInv /\ Truth /\ RunsAreLogged /\ CallbacksAreLogged /\ FirstLifeNumbers /\ ReplaysAreCounted
  BY DEF Inv
<1>2. Moves
  BY <1>1, StepMoves
<1>3. IInv'
  BY <1>1, NextKeeps
<1>4. Truth' /\ ReplaysAreCounted'
  BY <1>1, TruthKept, ReplaysAreCountedKept
<1>5. RunsAreLogged' /\ CallbacksAreLogged' /\ FirstLifeNumbers'
  BY <1>1, <1>2, RunsAreLoggedKept, CallbacksAreLoggedKept, FirstLifeNumbersKept
<1> QED
  BY <1>3, <1>4, <1>5 DEF Inv

\* The inductive invariant holds.
THEOREM ServiceInvariance == Spec => []Inv
<1>1. Init => Inv
  BY InitInv
<1>2. Inv /\ [Next]_vars => Inv'
  BY InvKept
<1> QED
  BY <1>1, <1>2, PTL DEF Spec

\* The text of a row marked DELIVERED was sent, whole, to the listener of its
\* client or of a client whose job has the same id (backup.cpp:262-276, 426-477).
THEOREM DeliveredIsSent == Spec => []DeliveredMeansSent
<1>1. Inv => DeliveredMeansSent
  BY DEF Inv, Truth
<1> QED
  BY <1>1, ServiceInvariance, PTL

\* In one life the backup reads the answer to one replay of a job, and replays it
\* again only when the calls before failed (backup.cpp:426-477, 608-620).
THEOREM OneReplayPerLife == Spec => []ReplayedOnce
<1>1. Inv => ReplayedOnce
  <2> SUFFICES ASSUME Inv, NEW j \in Jobs
               PROVE  Cardinality({r \in N!RunsOf(j) :
                         /\ run[r].caller = <<"recovery">>
                         /\ run[r].connection = "closed"
                         /\ run[r].pc \in {"publishing", "done"}}) <= 1 + bRestarts
    BY DEF ReplayedOnce
  <2> DEFINE Ended == {r \in N!RunsOf(j) : /\ run[r].caller = <<"recovery">>
                                           /\ run[r].connection = "closed"
                                           /\ run[r].pc \in {"publishing", "done"}}
  <2>1. bRestarts \in Nat
    BY Typed DEF Inv, TypeOK, B!TypeOK
  <2>2. IsFiniteSet(Replays(j)) /\ Cardinality(Replays(j)) <= bRestarts + 1
    BY <2>1, FS_CardinalityType DEF Inv, ReplaysAreCounted
  <2>3. Ended \subseteq Replays(j)
    BY DEF N!RunsOf, Replays, Heard
  <2>4. IsFiniteSet(Ended) /\ Cardinality(Ended) <= Cardinality(Replays(j))
    BY <2>2, <2>3, FS_Subset
  <2>5. Cardinality(Ended) \in Nat /\ Cardinality(Replays(j)) \in Nat
    BY <2>2, <2>4, FS_CardinalityType
  <2>6. Cardinality(Ended) <= 1 + bRestarts
    BY <2>1, <2>2, <2>4, <2>5
  <2> QED
    BY <2>6
<1> QED
  BY <1>1, ServiceInvariance, PTL


-----------------------------------------------------------------------------
(***************************************************************************)
(* Whose output a client or a row gets                                     *)
(***************************************************************************)

\* A run under the id of j is of a job that was given that id.
LEMMA OutputIsOfNamesake ==
  ASSUME IInv, NEW response, NEW sid, Output(response, sid)
  PROVE  \E r \in Runs :
           /\ response.run = r
           /\ response.kind = run[r].kind
           /\ run[r].kind \in RunKinds
           /\ run[r].pc # "unused"
           /\ run[r].job \in Taken
           /\ TakenAs(run[r].job) = sid
<1>1. PICK r \in Runs : /\ run[r].sid = sid
                        /\ run[r].kind \in RunKinds
                        /\ response = N!ResponseOf(r)
  BY DEF Output
<1>2. run[r].pc # "unused"
  BY <1>1, RunsAssumption DEF IInv, Joined, RunsAreTaken, N!Unused
<1>3. run[r].job \in Taken /\ run[r].sid = TakenAs(run[r].job)
  BY <1>2 DEF IInv, Joined, RunsAreTaken
<1> QED
  BY <1>1, <1>2, <1>3 DEF N!ResponseOf

\* What a request thread holds is put out by a run of its own job.
LEMMA OwnOutputIsOwn ==
  ASSUME IInv, NEW response, NEW j \in Jobs, NEW m \in {"primary", "backup"},
         OwnOutput(response, <<m, j>>)
  PROVE  \E r \in Runs :
           /\ response.run = r
           /\ response.kind = run[r].kind
           /\ run[r].kind \in RunKinds
           /\ run[r].job = j
<1>1. PICK r \in Runs : /\ run[r].caller = <<m, j>>
                        /\ run[r].kind \in RunKinds
                        /\ response = N!ResponseOf(r)
  BY DEF OwnOutput
<1>2. run[r].pc # "unused"
  BY <1>1, RunsAssumption DEF IInv, Joined, RunsAreTaken, N!Unused
<1>3. <<m, j>> # <<"recovery">> /\ <<m, j>>[2] = j
  OBVIOUS
<1>4. run[r].job = j
  BY <1>1, <1>2, <1>3 DEF IInv, Joined, RunsAreTaken
<1> QED
  BY <1>1, <1>4 DEF N!ResponseOf

\* Where what is sent to j, or stored for it, comes from: a run under its id,
\* for a job that has a row or was called back, or a run of its own.
LEMMA TextsAreOutputs ==
  ASSUME Inv, NEW j \in Jobs, NEW response \in TextsOf(j), ~OwnText(j, response)
  PROVE  /\ TakenAs(j) # 0
         /\ Output(response, TakenAs(j))
         /\ \/ \E i \in DOMAIN pLog : pLog[i].job = j
            \/ \E i \in DOMAIN bLog : bLog[i].job = j
<1>1. IInv
  BY DEF Inv
<1>2. response \notin {Pending, Fatal}
  BY DEF OwnText, Pending, Fatal
<1>3. CASE response \in SentTo(j)
  <2>1. CASE \E c \in DOMAIN callbacks[j] : response = callbacks[j][c]
    BY <2>1 DEF Inv, Truth, CallbacksAreTrue, CallbacksAreLogged
  <2>2. ASSUME NEW m \in {"primary", "backup"}, OwnOutput(response, <<m, j>>) PROVE FALSE
    BY <1>1, <2>2, OwnOutputIsOwn DEF OwnText
  <2>3. ASSUME pThread[j].pc = "done", response = pThread[j].response PROVE FALSE
    BY <1>1, <1>2, <2>2, <2>3 DEF IInv, Joined, ThreadsHoldOwn
  <2>4. ASSUME bThread[j].pc = "done", response = bThread[j].response PROVE FALSE
    BY <1>1, <1>2, <2>2, <2>4 DEF IInv, Joined, ThreadsHoldOwn
  <2> QED
    BY <1>3, <2>1, <2>3, <2>4 DEF SentTo
<1>4. ASSUME NEW i \in DOMAIN pLog, pLog[i].job = j, response = pLog[i].response
      PROVE  TakenAs(j) # 0 /\ Output(response, TakenAs(j))
  <2>1. Output(response, pLog[i].sid)
    BY <1>2, <1>4 DEF Inv, Truth, RowsAreTrue, RowIsTrue
  <2>2. pThread[j].sid = pLog[i].sid /\ pThread[j].sid # 0
    BY <1>1, <1>4 DEF IInv, Joined, RowsAreTaken, OneMaster
  <2> QED
    BY <2>1, <2>2 DEF TakenAs
<1>5. ASSUME NEW i \in DOMAIN bLog, bLog[i].job = j, response = bLog[i].response
      PROVE  TakenAs(j) # 0 /\ Output(response, TakenAs(j))
  <2>1. Output(response, bLog[i].sid)
    BY <1>2, <1>5 DEF Inv, Truth, RowsAreTrue, RowIsTrue
  <2>2. j \in Taken /\ TakenAs(j) = bLog[i].sid
    BY <1>1, <1>5, RowIsOfTaken
  <2> QED
    BY <2>1, <2>2 DEF Taken
<1> QED
  BY <1>3, <1>4, <1>5 DEF TextsOf

\* The primary gives no two jobs with rows one id.
LEMMA PrimaryRowIsOne ==
  ASSUME Inv, NEW j \in Jobs, NEW k \in Jobs,
         pThread[j].sid # 0, pThread[k].sid = pThread[j].sid,
         \/ \E i \in DOMAIN pLog : pLog[i].job = j
         \/ \E i \in DOMAIN bLog : bLog[i].job = j,
         \E i \in DOMAIN pLog : pLog[i].job = k
  PROVE  j = k
<1>1. IInv
  BY DEF Inv
<1>2. \E i \in DOMAIN pLog : pLog[i].job = j
  <2>1. CASE \E i \in DOMAIN bLog : bLog[i].job = j
    <3>1. PICK i \in DOMAIN bLog : bLog[i].job = j
      BY <2>1
    <3>2. bThread[j].sid = 0
      BY <1>1 DEF IInv, Joined, OneMaster, Unserved
    <3>3. Copied(bLog[i])
      BY <1>1, <3>1, <3>2 DEF IInv, Joined, RowsAreTaken
    <3> QED
      BY <3>1, <3>3 DEF Copied
  <2> QED
    BY <2>1
<1>3. \A i \in DOMAIN pLog : pLog[i].sid = pThread[pLog[i].job].sid
  BY <1>1 DEF IInv, Joined, RowsAreTaken
<1>4. \A i, l \in DOMAIN pLog : pLog[i].sid = pLog[l].sid => i = l
  BY <1>1 DEF IInv, PP!IInv, PP!SubmissionsUnique
<1> QED
  BY <1>2, <1>3, <1>4

\* The output of another client's job is given or stored only where two jobs
\* have one id, which two masters gave, or two lives of the backup.
THEOREM CollisionsAlone == Spec => []ForeignOnlyByCollision
<1>1. Inv => ForeignOnlyByCollision
  <2> SUFFICES ASSUME Inv, NEW j \in Jobs, NEW response \in TextsOf(j), ~OwnText(j, response)
               PROVE  LET k == run[response.run].job
                      IN  \E s \in SidsOfJob(j) \cap SidsOfJob(k) :
                            \/ ~(pThread[j].sid = s <=> pThread[k].sid = s)
                            \/ bRestarts > 0 /\ bThread[j].sid = s /\ bThread[k].sid = s
    BY DEF ForeignOnlyByCollision
  <2>1. IInv
    BY DEF Inv
  <2> PICK s : s = TakenAs(j)
    OBVIOUS
  <2>2. /\ s # 0
        /\ Output(response, s)
        /\ \/ \E i \in DOMAIN pLog : pLog[i].job = j
           \/ \E i \in DOMAIN bLog : bLog[i].job = j
    BY TextsAreOutputs
  <2>3. PICK r \in Runs : /\ response.run = r
                          /\ run[r].pc # "unused"
                          /\ run[r].job \in Taken
                          /\ TakenAs(run[r].job) = s
    BY <2>1, <2>2, OutputIsOfNamesake
  <2> PICK k : k = run[r].job
    OBVIOUS
  <2>4. k \in Jobs /\ k # j
    BY <2>3 DEF OwnText, Taken
  <2>5. s \in SidsOfJob(j) \cap SidsOfJob(k)
    BY <2>2, <2>3 DEF SidsOfJob, TakenAs
  <2>6. CASE pThread[j].sid = s /\ pThread[k].sid = s
    <3>1. \E i \in DOMAIN pLog : pLog[i].job = k
      BY <2>2, <2>3, <2>6 DEF Inv, RunsAreLogged
    <3> QED
      BY <2>2, <2>4, <2>6, <3>1, PrimaryRowIsOne
  <2>7. CASE pThread[j].sid # s /\ pThread[k].sid # s
    <3>1. bThread[j].sid = s /\ bThread[k].sid = s
      BY <2>3, <2>7 DEF TakenAs
    <3>2. bRestarts \in Nat /\ bRestarts # 0
      BY <2>1, <2>2, <2>4, <3>1, Typed DEF Inv, FirstLifeNumbers, TypeOK, B!TypeOK
    <3> QED
      BY <2>3, <2>5, <3>1, <3>2
  <2>8. CASE ~(pThread[j].sid = s <=> pThread[k].sid = s)
    BY <2>3, <2>5, <2>8
  <2> QED
    BY <2>6, <2>7, <2>8
<1> QED
  BY <1>1, ServiceInvariance, PTL


-----------------------------------------------------------------------------
(***************************************************************************)
(* The cluster is a job service                                            *)
(***************************************************************************)

\* No thread answers its client, and none takes an answer back.
AnswersStay ==
  \A j \in Jobs :
    /\ pThread'[j].pc = "done" <=> pThread[j].pc = "done"
    /\ pThread[j].pc = "done" => pThread'[j].response = pThread[j].response
    /\ bThread'[j].pc = "done" <=> bThread[j].pc = "done"
    /\ bThread[j].pc = "done" => bThread'[j].response = bThread[j].response

PrimaryReplies(j) == P!Reply(j) /\ UNCHANGED <<bVars, nVars>>
BackupReplies(j) == B!Reply(j) /\ UNCHANGED <<pVars, nVars>>

\* The steps of a primary's thread before its reply answer nobody.
LEMMA PrimaryAnswersStay ==
  ASSUME IInv, NEW j \in Jobs, UNCHANGED bThread,
         \/ P!Accept(j)
         \/ P!Reject(j)
         \/ P!Insert(j)
         \/ \E sent \in BOOLEAN : P!ReplicateInsert(j, sent) \/ P!ReplicateOutcome(j, sent)
         \/ \E n \in Nodes : P!Reserve(j, n)
         \/ P!ReserveNone(j)
         \/ P!ForwardFails(j)
         \/ \E response : P!ForwardReturns(j, response)
         \/ P!LogOutcome(j)
  PROVE  AnswersStay
<1>1. pThread \in [Jobs -> P!Thread]
  BY Typed DEF TypeOK, P!TypeOK
<1>2. \A k \in Jobs \ {j} : pThread'[k] = pThread[k]
  BY <1>1 DEF P!Accept, P!Reject, P!Insert, P!ReplicateInsert, P!Reserve, P!ReserveNone,
    P!ForwardFails, P!ForwardReturns, P!LogOutcome, P!ReplicateOutcome, P!Goto, P!Retry
<1>3. pThread[j].pc # "done"
  BY DEF P!Accept, P!Reject, P!Insert, P!ReplicateInsert, P!Reserve, P!ReserveNone,
    P!ForwardFails, P!ForwardReturns, P!LogOutcome, P!ReplicateOutcome
<1>4. pThread'[j].pc # "done"
  <2> USE DEF P!Thread
  <2>1. CASE P!Accept(j) \/ P!Reject(j) \/ P!Insert(j)
    BY <1>1, <2>1 DEF P!Accept, P!Reject, P!Insert, P!Goto
  <2>2. CASE \E sent \in BOOLEAN : P!ReplicateInsert(j, sent) \/ P!ReplicateOutcome(j, sent)
    BY <1>1, <2>2 DEF P!ReplicateInsert, P!ReplicateOutcome, P!Goto
  <2>3. ASSUME NEW n \in Nodes, P!Reserve(j, n) PROVE pThread'[j].pc # "done"
    BY <1>1, <2>3 DEF P!Reserve
  <2>4. CASE P!ReserveNone(j) \/ P!ForwardFails(j)
    BY <1>1, <2>4 DEF P!ReserveNone, P!ForwardFails, P!Retry
  <2>5. ASSUME NEW response, P!ForwardReturns(j, response) PROVE pThread'[j].pc # "done"
    BY <1>1, <2>5 DEF P!ForwardReturns
  <2>6. CASE P!LogOutcome(j)
    BY <1>1, <2>6 DEF P!LogOutcome, P!Goto
  <2> QED
    BY <2>1, <2>2, <2>3, <2>4, <2>5, <2>6
<1> QED
  BY <1>2, <1>3, <1>4 DEF AnswersStay

\* The same for the backup's threads.
LEMMA BackupAnswersStay ==
  ASSUME IInv, NEW j \in Jobs, UNCHANGED pThread,
         \/ B!Accept(j)
         \/ B!Reject(j)
         \/ B!StartProbe(j)
         \/ \E reachable \in BOOLEAN : B!ProbeReturns(j, reachable)
         \/ B!ProbeRejects(j)
         \/ B!Insert(j)
         \/ \E n \in Nodes : B!Reserve(j, n)
         \/ B!ReserveNone(j)
         \/ B!ForwardFails(j)
         \/ \E response : B!ForwardReturns(j, response)
         \/ B!LogOutcome(j)
  PROVE  AnswersStay
<1>1. bThread \in [Jobs -> B!Request]
  BY Typed DEF TypeOK, B!TypeOK
<1>2. \A k \in Jobs \ {j} : bThread'[k] = bThread[k]
  BY <1>1 DEF B!Accept, B!Reject, B!StartProbe, B!ProbeReturns, B!ProbeRejects, B!Insert, B!Reserve, B!ReserveNone,
    B!ForwardFails, B!ForwardReturns, B!LogOutcome, B!Admit, B!Goto, B!Retry
<1>3. bThread[j].pc # "done"
  BY DEF B!Accept, B!Reject, B!StartProbe, B!ProbeReturns, B!ProbeRejects, B!Insert, B!Reserve, B!ReserveNone,
    B!ForwardFails, B!ForwardReturns, B!LogOutcome
<1>4. bThread'[j].pc # "done"
  <2> USE DEF B!Request
  <2>1. CASE B!Accept(j) \/ B!Reject(j) \/ B!StartProbe(j) \/ B!ProbeRejects(j)
    BY <1>1, <2>1 DEF B!Accept, B!Reject, B!StartProbe, B!ProbeRejects, B!Admit, B!Goto
  <2>2. ASSUME NEW reachable \in BOOLEAN, B!ProbeReturns(j, reachable)
        PROVE  bThread'[j].pc # "done"
    BY <1>1, <2>2 DEF B!ProbeReturns, B!Admit, B!Goto
  <2>3. ASSUME NEW n \in Nodes, B!Reserve(j, n) PROVE bThread'[j].pc # "done"
    BY <1>1, <2>3 DEF B!Reserve
  <2>4. CASE B!ReserveNone(j) \/ B!ForwardFails(j)
    BY <1>1, <2>4 DEF B!ReserveNone, B!ForwardFails, B!Retry
  <2>5. ASSUME NEW response, B!ForwardReturns(j, response) PROVE bThread'[j].pc # "done"
    BY <1>1, <2>5 DEF B!ForwardReturns
  <2>6. CASE B!Insert(j) \/ B!LogOutcome(j)
    BY <1>1, <2>6 DEF B!Insert, B!LogOutcome, B!Goto
  <2> QED
    BY <2>1, <2>2, <2>3, <2>4, <2>5, <2>6
<1> QED
  BY <1>2, <1>3, <1>4 DEF AnswersStay

\* Only a reply gives a client its answer.
LEMMA WhoReplies ==
  ASSUME IInv, [Next]_vars
  PROVE  AnswersStay \/ \E j \in Jobs : PrimaryReplies(j) \/ BackupReplies(j)
<1>1. ASSUME UNCHANGED <<pThread, bThread>> PROVE AnswersStay
  BY <1>1 DEF AnswersStay
<1>2. CASE UNCHANGED vars
  BY <1>1, <1>2 DEF vars, pVars, bVars
<1>3. ASSUME NEW j \in Jobs, Submit(j) \/ PrimaryStep(j)
      PROVE  AnswersStay \/ PrimaryReplies(j)
  BY <1>3, PrimaryAnswersStay DEF Submit, PrimaryStep, PrimaryReplies, bVars
<1>4. ASSUME NEW j \in Jobs, FallBack(j) \/ BackupStep(j)
      PROVE  AnswersStay \/ BackupReplies(j)
  BY <1>4, BackupAnswersStay DEF FallBack, BackupStep, BackupReplies, pVars
<1>5. ASSUME NEW j \in Jobs, PrimaryCalls(j) PROVE AnswersStay
  BY <1>1, <1>5, PrimaryAnswersStay DEF PrimaryCalls, Connect, pVars, bVars
<1>6. ASSUME NEW j \in Jobs, BackupCalls(j) PROVE AnswersStay
  BY <1>1, <1>6, BackupAnswersStay DEF BackupCalls, Connect, pVars, bVars
<1>7. CASE RecoveryStep
  BY <1>1, <1>7 DEF RecoveryStep, B!StartScan, B!EndScan, B!ReplayReserve, B!ReplayReserveNone,
    B!Deliver, B!Record, pVars
<1>8. CASE RecoveryCalls
  BY <1>1, <1>8 DEF RecoveryCalls, Connect, B!ReplayReturns, B!ReplayFails, pVars, bVars
<1>9. CASE MonitorStep
  BY <1>1, <1>9 DEF MonitorStep, B!HealthCheck, pVars
<1>10. ASSUME NEW m \in replication, ReplicaArrives(m) PROVE AnswersStay
  BY <1>1, <1>10 DEF ReplicaArrives, B!ReplicaArrives
<1>11. ASSUME NEW m \in results, TakeResult(m) PROVE AnswersStay
  BY <1>1, <1>11 DEF TakeResult, P!ResultArrives, B!ResultArrives, pVars, bVars
<1>12. CASE ReplicateResult
  BY <1>1, <1>12 DEF ReplicateResult, P!ReplicateResult, bVars
<1>13. ASSUME NEW n \in Nodes, Heartbeat(n) \/ Evict(n) PROVE AnswersStay
  BY <1>1, <1>13 DEF Heartbeat, Evict, P!Heartbeat, P!Evict, B!Heartbeat, B!Evict, pVars, bVars
<1>14. CASE NodeStep
  BY <1>1, <1>14 DEF NodeStep, pVars, bVars
<1>15. CASE Crash
  <2>1. pThread \in [Jobs -> P!Thread] /\ bThread \in [Jobs -> B!Request]
    BY Typed DEF TypeOK, P!TypeOK, B!TypeOK
  <2>2. CASE PrimaryCrash
    BY <2>1, <2>2 DEF PrimaryCrash, P!Crash, P!Live, AnswersStay, bVars, P!Thread
  <2>3. CASE BackupCrash
    BY <2>1, <2>3 DEF BackupCrash, B!Crash, B!Live, AnswersStay, B!Request
  <2> QED
    BY <1>1, <1>15, <2>2, <2>3 DEF Crash, pVars, bVars
<1>16. CASE Restart
  BY <1>1, <1>16 DEF Restart, P!Restart, B!Restart, pVars, bVars
<1> QED
  BY <1>2, <1>3, <1>4, <1>5, <1>6, <1>7, <1>8, <1>9, <1>10, <1>11, <1>12, <1>13, <1>14, <1>15,
     <1>16 DEF Next

\* No run starts or comes to its end.
RunsStay == \A r \in Runs : run'[r].job = run[r].job /\ run'[r].kind = run[r].kind

\* Only a connection starts a run, and only the node ends it.
LEMMA WhoRuns ==
  ASSUME IInv, [Next]_vars
  PROVE  \/ RunsStay
         \/ \E caller, target, sid, job : Connect(caller, target, sid, job)
         \/ /\ \E r \in Runs, kind \in RunKinds : N!Finish(r, kind)
            /\ UNCHANGED <<pVars, bVars, faults>>
<1>1. run \in [Runs -> N!Run]
  BY RunsAreTyped
<1>2. CASE UNCHANGED run
  BY <1>2 DEF RunsStay
<1>3. ASSUME NEW rs, N!Hangup(rs) \/ \E r \in rs : N!Break(r) PROVE RunsStay
  BY <1>1, <1>3 DEF N!Hangup, N!Break, RunsStay, N!Run
<1>4. ASSUME NEW caller, NEW target,
             (\E r \in Runs : Answered(caller, r)) \/ Failed(caller, target)
      PROVE  RunsStay
  <2>1. ASSUME NEW r \in Runs, N!Hangup({r}) \/ N!Break(r) PROVE RunsStay
    BY <1>3, <2>1
  <2>2. OpenRuns(caller) \subseteq Runs
    BY DEF OpenRuns
  <2>3. CASE \E r \in Runs : Answered(caller, r)
    BY <2>1, <2>3 DEF Answered
  <2>4. CASE Failed(caller, target)
    <3>1. UNCHANGED run => RunsStay
      BY DEF RunsStay
    <3> QED
      BY <2>1, <2>2, <2>4, <3>1 DEF Failed
  <2> QED
    BY <1>4, <2>3, <2>4
<1>5. CASE NodeStep
  <2>1. ASSUME NEW r \in Runs, N!Answer(r) \/ N!Publish(r) PROVE RunsStay
    BY <1>1, <2>1 DEF N!Answer, N!Publish, RunsStay, N!Run
  <2> QED
    BY <1>5, <2>1 DEF NodeStep
<1>6. CASE Crash
  <2>1. ASSUME NEW n \in Nodes, N!Crash(n) PROVE RunsStay
    BY <1>1, <2>1 DEF N!Crash, RunsStay, N!Run
  <2> QED
    BY <1>3, <1>6, <2>1 DEF Crash, PrimaryCrash, BackupCrash
<1>7. ASSUME NEW j \in Jobs, PrimaryCalls(j) \/ BackupCalls(j)
      PROVE  RunsStay \/ \E caller, target, sid, job : Connect(caller, target, sid, job)
  BY <1>4, <1>7 DEF PrimaryCalls, BackupCalls
<1>8. CASE RecoveryCalls
  BY <1>4, <1>8 DEF RecoveryCalls
<1>9. ASSUME NEW j \in Jobs, Submit(j) \/ FallBack(j) \/ PrimaryStep(j) \/ BackupStep(j)
      PROVE  UNCHANGED run
  BY <1>9 DEF Submit, FallBack, PrimaryStep, BackupStep, nVars
<1>10. CASE RecoveryStep \/ MonitorStep \/ ReplicateResult \/ Restart
  BY <1>2, <1>10 DEF RecoveryStep, MonitorStep, ReplicateResult, Restart, N!Restart, nVars
<1>11. ASSUME NEW m, ReplicaArrives(m) \/ TakeResult(m) PROVE UNCHANGED run
  BY <1>11 DEF ReplicaArrives, TakeResult, nVars
<1>12. ASSUME NEW n \in Nodes, Heartbeat(n) \/ Evict(n) PROVE UNCHANGED run
  BY <1>12 DEF Heartbeat, Evict, nVars
<1>13. CASE UNCHANGED vars
  BY <1>2, <1>13 DEF vars, nVars
<1> QED
  BY <1>2, <1>5, <1>6, <1>7, <1>8, <1>9, <1>10, <1>11, <1>12, <1>13 DEF Next

\* The service's own copies of the shared definitions.
LEMMA ServiceTerms ==
  /\ S!Pending = Pending
  /\ S!Fatal = Fatal
  /\ S!Computed = Computed
BY DEF S!Pending, S!Fatal, S!Computed, Pending, Fatal, Computed

\* A thread at work has given no answer yet.
LEMMA NoAnswerYet ==
  ASSUME IInv, NEW j \in Jobs, pThread[j].pc # "done", bThread[j].pc # "done"
  PROVE  DirectAnswer(j) = Pending
BY DEF DirectAnswer

\* If no thread replies, no client has a new direct answer.
LEMMA AnswersKept ==
  ASSUME AnswersStay
  PROVE  \A j \in Jobs : DirectAnswer(j)' = DirectAnswer(j)
BY DEF AnswersStay, DirectAnswer

\* A run that has ended is an output the service knows, of its own job.
LEMMA OutputOfRun ==
  ASSUME NEW r \in Runs, run[r].kind \in RunKinds, NEW js, run[r].job \in js,
         NEW response, response = N!ResponseOf(r)
  PROVE  response \in S!OutputsOf(js)
<1>1. run[r].kind # "PENDING"
  BY RunsAssumption
<1>2. ExecutedAs(r).kind = run[r].kind /\ ExecutedAs(r).of \subseteq js
  BY DEF ExecutedAs
<1>3. response = [kind |-> ExecutedAs(r).kind, run |-> r]
  BY <1>2 DEF N!ResponseOf
<1> QED
  BY <1>1, <1>2, <1>3 DEF S!OutputsOf

\* What the service's variables are after a step that takes no request.
LEMMA TakesOrNot ==
  ASSUME IInv, IInv', [Next]_vars, Moves, RunsStay, AnswersStay, UNCHANGED callbacks
  PROVE  [S!Next]_S!vars
<1>1. /\ \A j \in Jobs : DirectAnswer(j)' = DirectAnswer(j)
      /\ \A r \in Runs : ExecutedAs(r)' = ExecutedAs(r)
  BY AnswersKept DEF RunsStay, ExecutedAs
<1>2. ASSUME NEW j \in Jobs, TakenAs(j) = 0, TakenAs(j)' # 0,
             \A k \in Jobs \ {j} : TakenAs(k)' = TakenAs(k)
      PROVE  S!Next
  <2>1. TakenAs(j)' \in Sids
    <3>1. j \in Taken'
      BY <1>2 DEF Taken
    <3>2. TakenAs(j)' \in (1001..(1000 + Cardinality(Spent)))'
      BY <3>1 DEF IInv, Joined, NumbersAreCounted
    <3>3. Cardinality(Spent') \in Nat /\ Cardinality(Spent') <= Cardinality(Jobs)
      <4>1. Spent' \subseteq Jobs /\ IsFiniteSet(Jobs)
        BY ClusterAssumption DEF Spent, Taken
      <4> QED
        BY <4>1, FS_Subset, FS_CardinalityType
    <3> QED
      BY <3>2, <3>3, JobsAreCounted DEF Sids
  <2> PICK sid, number, new :
        /\ sid = TakenAs(j)'
        /\ number = [k \in Jobs |-> TakenAs(k)]
        /\ new = [k \in Jobs |-> TakenAs(k)]'
    OBVIOUS
  <2>2. new = [number EXCEPT ![j] = sid]
    BY <1>2
  <2>3. S!Take(j)
    BY <1>1, <1>2, <2>1, <2>2 DEF S!Take
  <2> QED
    BY <2>3 DEF S!Next
<1>3. ASSUME \A j \in Jobs : TakenAs(j)' = TakenAs(j) PROVE UNCHANGED S!vars
  BY <1>1, <1>3 DEF S!vars
<1>4. ASSUME NEW j \in Jobs, PrimaryTakes(j) PROVE S!Next
  <2>1. /\ TakenAs(j) = 0
        /\ \A k \in Jobs \ {j} : TakenAs(k)' = TakenAs(k)
    BY <1>4 DEF PrimaryTakes, TakenAs, IInv, Joined, OneMaster, Unserved, bVars
  <2>2. TakenAs(j)' # 0
    <3>1. pThread'[j].sid # 0
      BY <1>4 DEF PrimaryTakes, IInv, Joined, OneMaster, Unserved
    <3> QED
      BY <3>1 DEF TakenAs
  <2> QED
    BY <1>2, <2>1, <2>2
<1>5. ASSUME NEW j \in Jobs, BackupTakes(j) PROVE S!Next
  <2>1. /\ TakenAs(j) = 0
        /\ \A k \in Jobs \ {j} : TakenAs(k)' = TakenAs(k)
    BY <1>5 DEF BackupTakes, TakenAs, IInv, Joined, OneMaster, Unserved, pVars
  <2>2. TakenAs(j)' # 0
    <3>1. bThread'[j].sid # 0
      BY <1>5 DEF BackupTakes, IInv, Joined, OneMaster, Unserved
    <3> QED
      BY <3>1 DEF TakenAs
  <2> QED
    BY <1>2, <2>1, <2>2
<1>6. CASE IdsStay
  <2>1. \A j \in Jobs : TakenAs(j)' = TakenAs(j)
    BY <1>6 DEF IdsStay, PrimaryThreadMoves, BackupThreadMoves, TakenAs
  <2> QED
    BY <1>3, <2>1
<1>7. ASSUME NEW j \in Jobs, PrimaryRefuses(j) \/ BackupRefuses(j) PROVE UNCHANGED S!vars
  BY <1>3, <1>7, RefusesOne
<1> QED
  BY <1>4, <1>5, <1>6, <1>7 DEF Moves, RequestsMove

\* A reply is the client's only direct answer, and its own.
LEMMA ReplyIsAnswer ==
  ASSUME IInv, NEW j \in Jobs, PrimaryReplies(j) \/ BackupReplies(j)
  PROVE  S!Next
<1> DEFINE response == IF PrimaryReplies(j) THEN pThread[j].response ELSE bThread[j].response
<1>1. pThread \in [Jobs -> P!Thread] /\ bThread \in [Jobs -> B!Request]
  BY Typed DEF TypeOK, P!TypeOK, B!TypeOK
<1>2. /\ run' = run /\ callbacks' = callbacks
      /\ \A k \in Jobs : /\ pThread'[k].sid = pThread[k].sid
                         /\ bThread'[k].sid = bThread[k].sid
  BY <1>1 DEF PrimaryReplies, BackupReplies, P!Reply, B!Reply, P!Goto, B!Goto, pVars, bVars, nVars,
    P!Thread, B!Request
<1>3. /\ \A k \in Jobs : TakenAs(k)' = TakenAs(k)
      /\ \A r \in Runs : ExecutedAs(r)' = ExecutedAs(r)
  BY <1>2 DEF TakenAs, ExecutedAs
<1>4. TakenAs(j) # 0 /\ DirectAnswer(j) = Pending
  BY DEF PrimaryReplies, BackupReplies, P!Reply, B!Reply, IInv, Joined, OneMaster, Unserved, TakenAs,
    DirectAnswer
<1>5. /\ DirectAnswer(j)' = response
      /\ \A k \in Jobs \ {j} : DirectAnswer(k)' = DirectAnswer(k)
  <2>1. CASE PrimaryReplies(j)
    <3>1. /\ pThread'[j].pc = "done"
          /\ pThread'[j].response = pThread[j].response
          /\ \A k \in Jobs \ {j} : pThread'[k] = pThread[k]
          /\ bThread' = bThread
      BY <1>1, <2>1 DEF PrimaryReplies, P!Reply, P!Goto, bVars, P!Thread
    <3> QED
      BY <2>1, <3>1 DEF DirectAnswer
  <2>2. CASE ~PrimaryReplies(j)
    <3>1. /\ bThread'[j].pc = "done"
          /\ bThread'[j].response = bThread[j].response
          /\ \A k \in Jobs \ {j} : bThread'[k] = bThread[k]
          /\ pThread' = pThread
          /\ pThread[j].pc = "idle"
      BY <1>1, <2>2 DEF BackupReplies, B!Reply, B!Goto, pVars, B!Request, IInv, Joined, OneMaster
    <3> QED
      BY <2>2, <3>1 DEF DirectAnswer
  <2> QED
    BY <2>1, <2>2
<1>6. response = Fatal \/ \E m \in {"primary", "backup"} : OwnOutput(response, <<m, j>>)
  <2>1. CASE PrimaryReplies(j)
    <3>1. pThread[j].pc \in Settled
      BY <2>1 DEF PrimaryReplies, P!Reply, Settled
    <3> QED
      BY <2>1, <3>1 DEF IInv, Joined, ThreadsHoldOwn
  <2>2. CASE ~PrimaryReplies(j)
    <3>1. bThread[j].pc \in Settled
      BY <2>2 DEF BackupReplies, B!Reply, Settled
    <3> QED
      BY <2>2, <3>1 DEF IInv, Joined, ThreadsHoldOwn
  <2> QED
    BY <2>1, <2>2
<1> HIDE DEF response
<1>7. response \in S!OutputsOf({j}) \cup {S!Fatal} /\ response \in S!Computed \cup {S!Fatal}
  <2>1. ASSUME NEW m \in {"primary", "backup"}, OwnOutput(response, <<m, j>>)
        PROVE  response \in S!OutputsOf({j}) /\ response \in Computed
    <3>1. PICK r \in Runs : /\ run[r].caller = <<m, j>>
                            /\ run[r].kind \in RunKinds
                            /\ response = N!ResponseOf(r)
      BY <2>1 DEF OwnOutput
    <3>2. PICK q \in Runs : response.run = q /\ run[q].job = j
      BY <2>1, OwnOutputIsOwn
    <3>3. q = r
      BY <3>1, <3>2 DEF N!ResponseOf
    <3> QED
      BY <3>1, <3>2, <3>3, OutputOfRun, OutputIsComputed
  <2> QED
    BY <1>6, <2>1, ServiceTerms
<1>8. S!Answer(j, response)
  <2> PICK direct, new : /\ direct = [k \in Jobs |-> DirectAnswer(k)]
                         /\ new = [k \in Jobs |-> DirectAnswer(k)]'
    OBVIOUS
  <2>1. new = [direct EXCEPT ![j] = response]
    BY <1>5
  <2> QED
    BY <1>2, <1>3, <1>4, <1>7, <2>1, ServiceTerms DEF S!Answer
<1> QED
  BY <1>7, <1>8 DEF S!Next

\* A connection is an execution for a client that has asked.
LEMMA ConnectExecutes ==
  ASSUME IInv, IInv', NEW caller, NEW target, NEW sid, NEW job, Connect(caller, target, sid, job)
  PROVE  S!Next
<1>1. PICK r \in Runs : N!Start(r, caller, target, sid, job)
  BY DEF Connect
<1>2. run \in [Runs -> N!Run]
  BY RunsAreTyped
<1>3. /\ run[r] = N!Unused
      /\ run'[r].job = job
      /\ run'[r].kind = "PENDING"
      /\ run'[r].pc = "executing"
      /\ \A q \in Runs \ {r} : run'[q] = run[q]
  BY <1>1, <1>2 DEF N!Start, N!NextRun, IInv, Joined, RunsAreTaken
<1>4. /\ \A j \in Jobs : TakenAs(j)' = TakenAs(j) /\ DirectAnswer(j)' = DirectAnswer(j)
      /\ callbacks' = callbacks
  BY DEF Connect, pVars, bVars, TakenAs, DirectAnswer
<1>5. job \in Jobs /\ TakenAs(job) # 0 /\ job # NoNode
  <2>1. run'[r].job \in Taken'
    BY <1>3 DEF IInv, Joined, RunsAreTaken
  <2>2. \A j \in Taken' : j \in Jobs /\ TakenAs(j)' # 0
    BY DEF Taken
  <2> QED
    BY <1>3, <1>4, <2>1, <2>2, ClusterAssumption
<1>6. /\ ExecutedAs(r) = [of |-> {}, kind |-> "PENDING"]
      /\ ExecutedAs(r)' = [of |-> {job}, kind |-> "PENDING"]
      /\ \A q \in Runs \ {r} : ExecutedAs(q)' = ExecutedAs(q)
  <2>1. run[r].job = NoNode /\ run[r].kind = "PENDING"
    BY <1>3 DEF N!Unused
  <2>2. {run[r].job} \ {NoNode} = {} /\ {run'[r].job} \ {NoNode} = {job}
    BY <1>3, <1>5, <2>1
  <2>3. \A q \in Runs \ {r} : ExecutedAs(q)' = ExecutedAs(q)
    BY <1>3 DEF ExecutedAs
  <2> QED
    BY <1>3, <2>1, <2>2, <2>3 DEF ExecutedAs
<1>7. S!Execute(job, r)
  <2> PICK executed, new : /\ executed = [q \in Runs |-> ExecutedAs(q)]
                           /\ new = [q \in Runs |-> ExecutedAs(q)]'
    OBVIOUS
  <2>1. new = [executed EXCEPT ![r].of = {job}]
    BY <1>6
  <2> QED
    BY <1>4, <1>5, <1>6, <2>1 DEF S!Execute, S!NotStarted
<1> QED
  BY <1>5, <1>7 DEF S!Next

\* A node that finishes a run is the service's Finish.
LEMMA FinishFinishes ==
  ASSUME IInv, NEW r \in Runs, NEW kind \in RunKinds, N!Finish(r, kind),
         UNCHANGED <<pVars, bVars, faults>>
  PROVE  S!Next
<1>1. run \in [Runs -> N!Run]
  BY RunsAreTyped
<1>2. /\ run'[r].job = run[r].job
      /\ run'[r].kind = kind
      /\ \A q \in Runs \ {r} : run'[q] = run[q]
  BY <1>1 DEF N!Finish, N!Run
<1>3. run[r].kind = "PENDING" /\ run[r].job \in Taken
  BY DEF N!Finish, IInv, Joined, RunsAreTaken
<1>4. /\ \A j \in Jobs : TakenAs(j)' = TakenAs(j) /\ DirectAnswer(j)' = DirectAnswer(j)
      /\ callbacks' = callbacks
  BY DEF pVars, bVars, TakenAs, DirectAnswer
<1>5. run[r].job # NoNode
  BY <1>3, ClusterAssumption DEF Taken
<1>6. /\ ExecutedAs(r).of # {} /\ ExecutedAs(r).kind = "PENDING"
      /\ ExecutedAs(r)' = [of |-> ExecutedAs(r).of, kind |-> kind]
      /\ \A q \in Runs \ {r} : ExecutedAs(q)' = ExecutedAs(q)
  BY <1>2, <1>3, <1>5 DEF ExecutedAs
<1>7. S!Finish(r, kind)
  BY <1>4, <1>6 DEF S!Finish, ExecutedAs
<1> QED
  BY <1>7 DEF S!Next

\* A delivery is a callback with the output of a job of that number.
LEMMA DeliveryCallsBack ==
  ASSUME IInv, PassIsTrue, B!Deliver(TRUE), UNCHANGED <<pVars, nVars, faults>>
  PROVE  S!Next
<1> PICK job, response : job = Recorded.job /\ response = rThread.response
  OBVIOUS
<1>1. /\ job \in Jobs
      /\ callbacks'[job] = Append(callbacks[job], response)
      /\ \A j \in Jobs \ {job} : callbacks'[j] = callbacks[j]
  BY DeliverySends
<1>2. callbacks' = [callbacks EXCEPT ![job] = Append(@, response)]
  BY DEF B!Deliver, Recorded
<1>3. /\ \A j \in Jobs : TakenAs(j)' = TakenAs(j) /\ DirectAnswer(j)' = DirectAnswer(j)
      /\ \A r \in Runs : ExecutedAs(r)' = ExecutedAs(r)
  BY DEF B!Deliver, pVars, nVars, TakenAs, DirectAnswer, ExecutedAs
<1>4. TakenAs(job) # 0 /\ Output(response, TakenAs(job))
  <2>1. PICK h \in DOMAIN bLog : bLog[h].sid = Recorded.sid /\ bLog[h].job = job
    BY RecoveryRow DEF B!Deliver
  <2>2. job \in Taken /\ TakenAs(job) = Recorded.sid
    BY <2>1, RowIsOfTaken
  <2> QED
    BY <2>2 DEF Taken, PassIsTrue, B!Deliver
<1>5. PICK r \in Runs : /\ run[r].kind \in RunKinds
                        /\ response = N!ResponseOf(r)
                        /\ run[r].job \in Taken
                        /\ TakenAs(run[r].job) = TakenAs(job)
  <2>1. PICK r \in Runs : /\ run[r].sid = TakenAs(job)
                          /\ run[r].kind \in RunKinds
                          /\ response = N!ResponseOf(r)
    BY <1>4 DEF Output
  <2>2. run[r].pc # "unused"
    BY <2>1, RunsAssumption DEF IInv, Joined, RunsAreTaken, N!Unused
  <2> QED
    BY <2>1, <2>2 DEF IInv, Joined, RunsAreTaken
<1>6. run[r].job \in S!Namesakes(job)
  BY <1>1, <1>5 DEF S!Namesakes, Taken
<1>7. response \in S!OutputsOf(S!Namesakes(job)) /\ response \in S!Computed
  BY <1>5, <1>6, OutputOfRun, OutputIsComputed, ServiceTerms
<1>8. S!CallBack(job, response)
  BY <1>1, <1>2, <1>3, <1>4, <1>7 DEF S!CallBack
<1> QED
  BY <1>1, <1>7, <1>8 DEF S!Next

\* Every step of the cluster is a step of the service, or none of it.
LEMMA StepServes ==
  ASSUME Inv, [Next]_vars
  PROVE  [S!Next]_S!vars
<1>1. IInv /\ IInv' /\ Moves /\ PassIsTrue
  BY InvKept, StepMoves DEF Inv, Truth
<1>2. CASE \E j \in Jobs : PrimaryReplies(j) \/ BackupReplies(j)
  BY <1>1, <1>2, ReplyIsAnswer
<1>3. CASE \E caller, target, sid, job : Connect(caller, target, sid, job)
  BY <1>1, <1>3, ConnectExecutes
<1>4. CASE /\ \E r \in Runs, kind \in RunKinds : N!Finish(r, kind)
           /\ UNCHANGED <<pVars, bVars, faults>>
  BY <1>1, <1>4, FinishFinishes
<1>5. CASE B!Deliver(TRUE) /\ UNCHANGED <<pVars, nVars, faults>>
  BY <1>1, <1>5, DeliveryCallsBack
<1>6. CASE RunsStay /\ AnswersStay /\ UNCHANGED callbacks
  BY <1>1, <1>6, TakesOrNot
<1> QED
  BY <1>1, <1>2, <1>3, <1>4, <1>5, <1>6, WhoReplies, WhoRuns, WhoDelivers

\* Two masters, replays, late RESULTs, lost replication and crashes leave the
\* cluster a job service: every step is one of the service, or none.
THEOREM ServiceRefinement == Spec => ServesJobs
<1>1. Init => S!Init
  <2> SUFFICES ASSUME Init PROVE S!Init
    OBVIOUS
  <2>1. /\ pThread = [j \in Jobs |-> P!IdleThread]
        /\ bThread = [j \in Jobs |-> B!IdleRequest]
        /\ callbacks = [j \in Jobs |-> <<>>]
        /\ run = [r \in Runs |-> N!Unused]
    BY DEF Init, P!InitWith, B!InitWith, N!Init
  <2>2. \A j \in Jobs : TakenAs(j) = 0 /\ DirectAnswer(j) = Pending
    BY <2>1 DEF TakenAs, DirectAnswer, P!IdleThread, B!IdleRequest
  <2>3. \A r \in Runs : ExecutedAs(r) = [of |-> {}, kind |-> "PENDING"]
    BY <2>1 DEF ExecutedAs, N!Unused
  <2> QED
    BY <2>1, <2>2, <2>3, ServiceTerms DEF S!Init, S!NotStarted
<1>2. Inv /\ [Next]_vars => [S!Next]_S!vars
  BY StepServes
<1> QED
  BY <1>1, <1>2, ServiceInvariance, PTL DEF Spec, ServesJobs, S!Spec
=============================================================================
