-------------------------- MODULE DeliveryProofs --------------------------
(***************************************************************************)
(* How often a client is called back.  Every callback after the first is   *)
(* paid for: by a RESULT the backup took, by one the primary took and      *)
(* passed on, or by a restart of the backup.  The account is kept over a   *)
(* row's way from PENDING to the record of its delivery.                   *)
(***************************************************************************)
EXTENDS ServiceProofs

-----------------------------------------------------------------------------
(***************************************************************************)
(* The inductive invariant                                                 *)
(***************************************************************************)

\* The datagram that tells a master of run r, and the update by which the
\* primary passes it on.
Told(master, r) == [to |-> master, sid |-> run[r].sid, response |-> N!ResponseOf(r)]
RelayOf(r) == P!UpdateOf(run[r].sid, "FORWARDED", N!ResponseOf(r), "PENDING")

IsRelay(m) == m.action = "update" /\ m.delivery = "PENDING"

\* A RESULT is of a run that is done; the primary passes it on once, and only
\* the text of an error.
ReportsTravel ==
  /\ \A m \in results :
       \E r \in Runs : run[r].pc = "done" /\ m \in {Told("primary", r), Told("backup", r)}
  /\ \A m \in pUdp \cup {n \in replication : IsRelay(n)} :
       \E r \in Runs : run[r].pc = "done" /\ run[r].kind = "ERROR" /\ m = RelayOf(r)
  /\ \A r \in Runs :
       run[r].pc = "done" =>
         /\ RelayOf(r) \in pUdp \cup replication => Told("primary", r) \notin results
         /\ ~(RelayOf(r) \in pUdp /\ RelayOf(r) \in replication)

\* Of the RESULTs under an id of j, those the backup has taken or will not
\* get any more, directly and by way of the primary.
Arrived(j) == {r \in Reports(j) : Told("backup", r) \notin results}
Relayed(j) == {r \in Reports(j) : /\ run[r].kind = "ERROR"
                                  /\ Told("primary", r) \notin results
                                  /\ RelayOf(r) \notin pUdp \cup replication}

AtRecord(j) == rThread.pc = "recording" /\ Recorded.job = j

Deferred(j) == \E i \in DOMAIN bLog : bLog[i].job = j /\ bLog[i].delivery = "PENDING"
Queued(j) == \E i \in DOMAIN rThread.queue : rThread.queue[i].job = j

\* A callback of j is still to come: its row is PENDING, or a pass has a copy.
\* The record that follows a callback settles both.
Due(j) == bUp /\ ~AtRecord(j) /\ (Deferred(j) \/ Queued(j))

Load(j) == IF Due(j) THEN Len(callbacks[j]) + 1 ELSE Len(callbacks[j])
Allowed(j) == 1 + bRestarts + Cardinality(Arrived(j)) + Cardinality(Relayed(j))

Ended == {r \in Runs : run[r].pc = "done"}

DeliveriesAreCounted == IsFiniteSet(Ended) /\ \A j \in Jobs : Load(j) <= Allowed(j)

DInv == Inv /\ ReportsTravel /\ DeliveriesAreCounted

-----------------------------------------------------------------------------
(***************************************************************************)
(* Who publishes, takes and relays a RESULT                                *)
(***************************************************************************)

\* No run is done that was not, and no RESULT is sent or taken.
ResultsStay == /\ UNCHANGED results
               /\ \A r \in Runs : run'[r].pc = "done" <=> run[r].pc = "done"

\* RESULT datagrams are added by Publish, removed by TakeResult, and touched
\* by nothing else.
LEMMA WhoPublishes ==
  ASSUME IInv, [Next]_vars
  PROVE  \/ \E r \in Runs : N!Publish(r) /\ UNCHANGED <<pVars, bVars, faults>>
         \/ \E m \in results : TakeResult(m)
         \/ ResultsStay
<1>1. run \in [Runs -> N!Run]
  BY RunsAreTyped
<1>2. CASE UNCHANGED <<run, results>>
  BY <1>2 DEF ResultsStay
<1>3. ASSUME NEW rs, N!Hangup(rs) \/ \E r \in rs : N!Break(r), UNCHANGED results
      PROVE  ResultsStay
  BY <1>1, <1>3 DEF N!Hangup, N!Break, ResultsStay, N!Run
<1>4. ASSUME NEW caller, NEW target,
             \/ \E r \in Runs : Answered(caller, r)
             \/ Failed(caller, target)
             \/ \E sid, job : Connect(caller, target, sid, job)
      PROVE  ResultsStay
  <2>1. CASE (\E r \in Runs : Answered(caller, r)) \/ Failed(caller, target)
    <3>1. ASSUME NEW r, N!Hangup({r}) \/ N!Break(r), UNCHANGED results PROVE ResultsStay
      BY <1>3, <3>1
    <3>2. UNCHANGED <<run, results>> => ResultsStay
      BY DEF ResultsStay
    <3> QED
      BY <2>1, <3>1, <3>2 DEF Answered, Failed
  <2>2. CASE \E sid, job : Connect(caller, target, sid, job)
    <3> PICK sid, job : Connect(caller, target, sid, job)
      BY <2>2
    <3>1. PICK r \in Runs : N!Start(r, caller, target, sid, job)
      BY DEF Connect
    <3>2. /\ UNCHANGED results
          /\ run[r].pc = "unused"
          /\ run'[r].pc = "executing"
          /\ \A q \in Runs \ {r} : run'[q] = run[q]
      BY <1>1, <3>1 DEF N!Start, N!NextRun
    <3> QED
      BY <3>2 DEF ResultsStay
  <2> QED
    BY <1>4, <2>1, <2>2
<1>5. CASE NodeStep
  <2>1. ASSUME NEW r \in Runs, N!Answer(r) \/ (\E kind \in RunKinds : N!Finish(r, kind))
        PROVE  ResultsStay
    <3>1. /\ UNCHANGED results
          /\ run[r].pc # "done" /\ run'[r].pc # "done"
          /\ \A q \in Runs \ {r} : run'[q] = run[q]
      BY <1>1, <2>1 DEF N!Answer, N!Finish, N!Run
    <3> QED
      BY <3>1 DEF ResultsStay
  <2> QED
    BY <1>5, <2>1 DEF NodeStep
<1>6. CASE Crash
  <2>1. ASSUME NEW n \in Nodes, N!Crash(n) PROVE ResultsStay
    BY <1>1, <2>1 DEF N!Crash, ResultsStay, N!Run
  <2> QED
    BY <1>3, <1>6, <2>1 DEF Crash, PrimaryCrash, BackupCrash
<1>7. ASSUME NEW j \in Jobs, PrimaryCalls(j) \/ BackupCalls(j) PROVE ResultsStay
  BY <1>4, <1>7 DEF PrimaryCalls, BackupCalls
<1>8. CASE RecoveryCalls
  BY <1>4, <1>8 DEF RecoveryCalls
<1>9. ASSUME NEW j \in Jobs, Submit(j) \/ FallBack(j) \/ PrimaryStep(j) \/ BackupStep(j)
      PROVE  UNCHANGED <<run, results>>
  BY <1>9 DEF Submit, FallBack, PrimaryStep, BackupStep, nVars
<1>10. CASE RecoveryStep \/ MonitorStep \/ ReplicateResult \/ Restart
  BY <1>2, <1>10 DEF RecoveryStep, MonitorStep, ReplicateResult, Restart, N!Restart, nVars
<1>11. ASSUME NEW m, ReplicaArrives(m) PROVE UNCHANGED <<run, results>>
  BY <1>11 DEF ReplicaArrives, nVars
<1>12. ASSUME NEW n \in Nodes, Heartbeat(n) \/ Evict(n) PROVE UNCHANGED <<run, results>>
  BY <1>12 DEF Heartbeat, Evict, nVars
<1>13. CASE UNCHANGED vars
  BY <1>2, <1>13 DEF vars, nVars
<1> QED
  BY <1>2, <1>5, <1>6, <1>7, <1>8, <1>9, <1>10, <1>11, <1>12, <1>13 DEF Next

\* The messages about a run do not change with what does not concern them.
LEMMA SameRun ==
  ASSUME NEW r \in Runs, run'[r].sid = run[r].sid, run'[r].kind = run[r].kind
  PROVE  /\ Told("primary", r)' = Told("primary", r)
         /\ Told("backup", r)' = Told("backup", r)
         /\ RelayOf(r)' = RelayOf(r)
BY DEF Told, RelayOf, N!ResponseOf, P!UpdateOf

\* They name their run.
LEMMA ReportTerms ==
  /\ \A a, b, r, q : Told(a, r) = Told(b, q) => r = q /\ a = b
  /\ \A r, q : RelayOf(r) = RelayOf(q) => r = q
  /\ \A r : IsRelay(RelayOf(r))
BY DEF Told, RelayOf, N!ResponseOf, P!UpdateOf, IsRelay

\* A node publishes one text to both masters as its run is done.
LEMMA PublishSends ==
  ASSUME IInv, NEW r \in Runs, N!Publish(r)
  PROVE  /\ run[r].pc = "publishing"
         /\ run'[r].pc = "done"
         /\ run'[r].sid = run[r].sid
         /\ run'[r].kind = run[r].kind
         /\ \A q \in Runs \ {r} : run'[q] = run[q]
         /\ results' = results \cup {Told("primary", r), Told("backup", r)}
<1>1. run \in [Runs -> N!Run]
  BY RunsAreTyped
<1>2. results' = results \cup {Told("primary", r), Told("backup", r)}
  BY DEF N!Publish, Told
<1> QED
  BY <1>1, <1>2 DEF N!Publish, N!Run

\* What is done stays as it is.
LEMMA DoneStays ==
  ASSUME IInv, [Next]_vars, NEW r \in Runs, run[r].pc = "done"
  PROVE  /\ run'[r].pc = "done"
         /\ run'[r].sid = run[r].sid
         /\ run'[r].kind = run[r].kind
<1>1. Moves
  BY StepMoves
<1>2. /\ run'[r].sid = run[r].sid
      /\ run'[r].kind = run[r].kind
  BY <1>1 DEF Moves, RunsMove, RunMoves
<1>3. ASSUME NEW q \in Runs, N!Publish(q) PROVE run'[r].pc = "done"
  BY <1>3, PublishSends
<1>4. ASSUME NEW m, TakeResult(m) PROVE run' = run
  BY <1>4 DEF TakeResult
<1> QED
  BY <1>2, <1>3, <1>4, WhoPublishes DEF ResultsStay

\* The primary passes nothing on but what it was told before; what it sends of
\* its own is not a relay.
RelaysStay ==
  /\ pUdp' \subseteq pUdp
  /\ \A m \in replication' : IsRelay(m) => m \in replication

\* Only the primary's taking and replicating a RESULT touch what relays it.
LEMMA WhoRelays ==
  ASSUME IInv, [Next]_vars
  PROVE  \/ \E m \in results : TakeResult(m)
         \/ ReplicateResult
         \/ RelaysStay
<1>1. ASSUME UNCHANGED <<pUdp, replication>> PROVE RelaysStay
  BY <1>1 DEF RelaysStay
<1>2. ASSUME NEW j \in Jobs, Submit(j) \/ FallBack(j) \/ BackupStep(j) \/ PrimaryCalls(j) \/ BackupCalls(j)
      PROVE  UNCHANGED <<pUdp, replication>>
  BY <1>2 DEF Submit, FallBack, BackupStep, PrimaryCalls, BackupCalls, Connect, P!Accept,
    P!Reject, P!ForwardReturns, P!ForwardFails, pVars
<1>3. ASSUME NEW j \in Jobs, PrimaryStep(j) PROVE RelaysStay
  <2>1. ASSUME NEW sent, P!ReplicateInsert(j, sent) PROVE RelaysStay
    <3>1. ~IsRelay(P!InsertOf(P!RowOf(j)))
      BY DEF IsRelay, P!InsertOf
    <3> QED
      BY <2>1, <3>1 DEF P!ReplicateInsert, P!Replicate, RelaysStay
  <2>2. ASSUME NEW sent, P!ReplicateOutcome(j, sent) PROVE RelaysStay
    <3>1. ~IsRelay(P!OutcomeUpdate(j))
      BY DEF IsRelay, P!OutcomeUpdate, P!UpdateOf
    <3> QED
      BY <2>2, <3>1 DEF P!ReplicateOutcome, P!Replicate, RelaysStay
  <2>3. P!Insert(j) \/ P!LogOutcome(j) \/ P!Reply(j) => UNCHANGED <<pUdp, replication>>
    BY DEF P!Insert, P!LogOutcome, P!Reply
  <2>4. P!ReserveNone(j) \/ (\E n \in Nodes : P!Reserve(j, n)) => UNCHANGED <<pUdp, replication>>
    BY DEF P!Reserve, P!ReserveNone
  <2>5. \/ \E sent : P!ReplicateInsert(j, sent) \/ P!ReplicateOutcome(j, sent)
        \/ P!Insert(j) \/ P!LogOutcome(j) \/ P!Reply(j)
        \/ P!ReserveNone(j) \/ (\E n \in Nodes : P!Reserve(j, n))
    BY <1>3 DEF PrimaryStep
  <2> QED
    BY <1>1, <2>1, <2>2, <2>3, <2>4, <2>5
<1>4. CASE RecoveryStep \/ RecoveryCalls \/ MonitorStep \/ NodeStep
  BY <1>1, <1>4 DEF RecoveryStep, RecoveryCalls, Connect, MonitorStep, NodeStep, pVars
<1>5. ASSUME NEW m \in replication, ReplicaArrives(m) PROVE RelaysStay
  BY <1>5 DEF ReplicaArrives, RelaysStay
<1>6. ASSUME NEW n \in Nodes, Heartbeat(n) \/ Evict(n) PROVE UNCHANGED <<pUdp, replication>>
  BY <1>6 DEF Heartbeat, Evict, P!Heartbeat, P!Evict, pVars
<1>7. CASE Crash
  BY <1>7 DEF Crash, PrimaryCrash, BackupCrash, P!Crash, pVars, RelaysStay
<1>8. CASE Restart
  BY <1>1, <1>8 DEF Restart, P!Restart, pVars
<1>9. CASE UNCHANGED vars
  BY <1>1, <1>9 DEF vars, pVars
<1> QED
  BY <1>1, <1>2, <1>3, <1>4, <1>5, <1>6, <1>7, <1>8, <1>9 DEF Next


\* What the primary takes it passes on if it is one line.
LEMMA PrimaryTold ==
  ASSUME IInv, NEW r \in Runs, TakeResult(Told("primary", r)), Told("primary", r) \in results
  PROVE  /\ results' = results \ {Told("primary", r)}
         /\ replication' = replication
         /\ pUdp' = IF run[r].kind = "ERROR" THEN {RelayOf(r)} ELSE pUdp
         /\ UNCHANGED <<run, bVars>>
<1> PICK m : m = Told("primary", r)
  OBVIOUS
<1>1. /\ m.to = "primary"
      /\ m.sid = run[r].sid
      /\ m.response = N!ResponseOf(r)
      /\ m.response.kind = run[r].kind
  BY DEF Told, N!ResponseOf
<1>2. /\ results' = results \ {m}
      /\ P!ResultArrives(m.sid, m.response)
      /\ UNCHANGED <<run, bVars>>
  BY <1>1 DEF TakeResult
<1>3. pUdp' = IF run[r].kind = "ERROR" THEN {RelayOf(r)} ELSE pUdp
  BY <1>1, <1>2 DEF P!ResultArrives, P!OneLine, RelayOf
<1> QED
  BY <1>2, <1>3 DEF P!ResultArrives

\* A RESULT the backup takes is stored under the run's id.
LEMMA BackupTold ==
  ASSUME IInv, NEW r \in Runs, TakeResult(Told("backup", r))
  PROVE  /\ results' = results \ {Told("backup", r)}
         /\ B!ResultArrives(run[r].sid, N!ResponseOf(r))
         /\ UNCHANGED <<run, pVars>>
BY DEF Told, TakeResult

\* Every step keeps a RESULT in one place: on its way, stored, or lost.
LEMMA ReportsTravelKept ==
  ASSUME IInv, [Next]_vars, ReportsTravel
  PROVE  ReportsTravel'
<1> DEFINE Done(r) == run[r].pc = "done"
           New == {r \in Runs : run'[r].pc = "done"}
<1>1. ASSUME NEW r \in New, Done(r)
      PROVE  /\ run'[r].kind = run[r].kind
             /\ Told("primary", r)' = Told("primary", r)
             /\ Told("backup", r)' = Told("backup", r)
             /\ RelayOf(r)' = RelayOf(r)
  BY <1>1, DoneStays, SameRun
<1>2. \A r \in Runs : Done(r) => r \in New
  BY DoneStays
<1>3. ASSUME \A r \in New : Done(r),
             \A m \in results' : m \in results,
             \A m \in pUdp' \cup {n \in replication' : IsRelay(n)} :
                \E r \in New : run[r].kind = "ERROR" /\ m = RelayOf(r),
             \A r \in New : /\ RelayOf(r) \in pUdp' \cup replication' => Told("primary", r) \notin results'
                            /\ ~(RelayOf(r) \in pUdp' /\ RelayOf(r) \in replication')
      PROVE  ReportsTravel'
  <2>1. \A m \in results' : \E r \in New : m \in {Told("primary", r), Told("backup", r)}
    BY <1>2, <1>3 DEF ReportsTravel
  <2>2. \A m \in results' : \E r \in New : m \in {Told("primary", r)', Told("backup", r)'}
    BY <1>1, <1>3, <2>1
  <2>3. \A m \in pUdp' \cup {n \in replication' : IsRelay(n)} :
          \E r \in New : run'[r].kind = "ERROR" /\ m = RelayOf(r)'
    BY <1>1, <1>3
  <2>4. \A r \in New :
          /\ RelayOf(r)' \in pUdp' \cup replication' => Told("primary", r)' \notin results'
          /\ ~(RelayOf(r)' \in pUdp' /\ RelayOf(r)' \in replication')
    BY <1>1, <1>3
  <2> QED
    BY <2>2, <2>3, <2>4 DEF ReportsTravel, IsRelay
<1>4. CASE \E r \in Runs : N!Publish(r) /\ UNCHANGED <<pVars, bVars, faults>>
  <2> PICK r \in Runs : N!Publish(r) /\ UNCHANGED <<pVars, bVars, faults>>
    BY <1>4
  <2>1. /\ run[r].pc = "publishing"
        /\ r \in New
        /\ \A q \in New \ {r} : Done(q)
        /\ results' = results \cup {Told("primary", r), Told("backup", r)}
        /\ UNCHANGED <<pUdp, replication>>
    BY PublishSends DEF pVars
  <2>2. \A q \in New : /\ Told("primary", q)' = Told("primary", q)
                       /\ Told("backup", q)' = Told("backup", q)
                       /\ RelayOf(q)' = RelayOf(q)
                       /\ run'[q].kind = run[q].kind
    BY <1>1, <2>1, PublishSends, SameRun
  <2>3. \A m \in results' : \E q \in New : m \in {Told("primary", q), Told("backup", q)}
    BY <1>2, <2>1 DEF ReportsTravel
  <2>4. \A m \in pUdp' \cup {n \in replication' : IsRelay(n)} :
          \E q \in New : q # r /\ run[q].kind = "ERROR" /\ m = RelayOf(q)
    BY <1>2, <2>1 DEF ReportsTravel
  <2>5. \A q \in New :
          /\ RelayOf(q) \in pUdp' \cup replication' => Told("primary", q) \notin results'
          /\ ~(RelayOf(q) \in pUdp' /\ RelayOf(q) \in replication')
    <3>1. RelayOf(r) \notin pUdp' \cup replication'
      BY <2>4, ReportTerms
    <3>2. \A q \in New \ {r} : Told("primary", q) \in results' => Told("primary", q) \in results
      BY <2>1, ReportTerms
    <3> QED
      BY <2>1, <3>1, <3>2 DEF ReportsTravel
  <2> HIDE DEF New, Done
  <2>6. \A m \in results' : \E q \in New : m \in {Told("primary", q)', Told("backup", q)'}
    BY <2>2, <2>3
  <2>7. \A m \in pUdp' \cup {n \in replication' : IsRelay(n)} :
          \E q \in New : run'[q].kind = "ERROR" /\ m = RelayOf(q)'
    BY <2>2, <2>4
  <2>8. \A q \in New :
          /\ RelayOf(q)' \in pUdp' \cup replication' => Told("primary", q)' \notin results'
          /\ ~(RelayOf(q)' \in pUdp' /\ RelayOf(q)' \in replication')
    BY <2>2, <2>5
  <2> QED
    BY <2>6, <2>7, <2>8 DEF ReportsTravel, IsRelay, New
<1>5. ASSUME NEW m \in results, TakeResult(m) PROVE ReportsTravel'
  <2>1. PICK r \in Runs : Done(r) /\ m \in {Told("primary", r), Told("backup", r)}
    BY DEF ReportsTravel
  <2>2. \A q \in New : Done(q)
    BY <1>5 DEF TakeResult
  <2>3. CASE m = Told("backup", r)
    <3>1. /\ \A n \in results' : n \in results
          /\ UNCHANGED <<pUdp, replication>>
      BY <1>5, <2>3, BackupTold DEF pVars
    <3> QED
      BY <1>2, <1>3, <2>2, <3>1 DEF ReportsTravel
  <2>4. CASE m = Told("primary", r)
    <3>1. /\ results' = results \ {Told("primary", r)}
          /\ replication' = replication
          /\ pUdp' = IF run[r].kind = "ERROR" THEN {RelayOf(r)} ELSE pUdp
      BY <1>5, <2>4, PrimaryTold
    <3>2. RelayOf(r) \notin pUdp \cup replication
      BY <2>1, <2>4 DEF ReportsTravel
    <3>3. \A n \in pUdp' \cup {n \in replication' : IsRelay(n)} :
             \E q \in New : run[q].kind = "ERROR" /\ n = RelayOf(q)
      BY <1>2, <2>1, <3>1 DEF ReportsTravel
    <3>4. \A q \in New : /\ RelayOf(q) \in pUdp' \cup replication' => Told("primary", q) \notin results'
                         /\ ~(RelayOf(q) \in pUdp' /\ RelayOf(q) \in replication')
      <4>1. CASE run[r].kind = "ERROR"
        BY <2>2, <3>1, <3>2, <4>1, ReportTerms DEF ReportsTravel
      <4>2. CASE run[r].kind # "ERROR"
        BY <2>2, <3>1, <4>2 DEF ReportsTravel
      <4> QED
        BY <4>1, <4>2
    <3> QED
      BY <1>3, <2>2, <3>1, <3>3, <3>4
  <2> QED
    BY <2>1, <2>3, <2>4
<1>6. CASE ResultsStay /\ (ReplicateResult \/ RelaysStay)
  <2>1. (\A q \in New : Done(q)) /\ results' = results
    BY <1>6 DEF ResultsStay
  <2>2. CASE RelaysStay
    <3>1. \A m : m \in pUdp' => m \in pUdp
      BY <2>2 DEF RelaysStay
    <3>2. \A m : m \in replication' /\ IsRelay(m) => m \in replication
      BY <2>2 DEF RelaysStay
    <3> QED
      BY <1>2, <1>3, <2>1, <3>1, <3>2, ReportTerms DEF ReportsTravel
  <2>3. CASE ReplicateResult
    <3>1. pUdp' = {} /\ \A m \in replication' : m \in pUdp \cup replication
      BY <2>3 DEF ReplicateResult, P!ReplicateResult, P!Replicate
    <3> QED
      BY <1>2, <1>3, <2>1, <3>1 DEF ReportsTravel
  <2> QED
    BY <1>6, <2>2, <2>3
<1> QED
  BY <1>4, <1>5, <1>6, WhoPublishes, WhoRelays

-----------------------------------------------------------------------------
(***************************************************************************)
(* The causes of a callback are only ever added to                         *)
(***************************************************************************)

\* A job has one id, or none.
LEMMA NumberOfJob ==
  ASSUME IInv, NEW j \in Jobs
  PROVE  SidsOfJob(j) = {TakenAs(j)} \ {0}
BY DEF IInv, Joined, OneMaster, Unserved, SidsOfJob, TakenAs

\* A job keeps its id.
LEMMA NumbersStay ==
  ASSUME IInv, [Next]_vars, NEW j \in Jobs
  PROVE  SidsOfJob(j) \subseteq SidsOfJob(j)'
<1>1. RequestsMove
  BY StepMoves DEF Moves
<1>2. CASE TakenAs(j) # 0
  <2>1. TakenAs(j)' = TakenAs(j)
    BY <1>1, <1>2, TakenStays DEF Taken
  <2>2. SidsOfJob(j)' = {TakenAs(j)'} \ {0}
    BY NextKeeps DEF IInv, Joined, OneMaster, Unserved, SidsOfJob, TakenAs
  <2> QED
    BY <1>2, <2>1, <2>2, NumberOfJob
<1>3. CASE TakenAs(j) = 0
  BY <1>3, NumberOfJob
<1> QED
  BY <1>2, <1>3

\* What was published under a job's id stays so.
LEMMA ReportsStay ==
  ASSUME IInv, [Next]_vars, NEW j \in Jobs, NEW r \in Reports(j)
  PROVE  /\ r \in Runs
         /\ run[r].pc = "done"
         /\ r \in Reports(j)'
         /\ run'[r].kind = run[r].kind
         /\ Told("primary", r)' = Told("primary", r)
         /\ Told("backup", r)' = Told("backup", r)
         /\ RelayOf(r)' = RelayOf(r)
<1>1. r \in Runs /\ run[r].pc = "done" /\ run[r].sid \in SidsOfJob(j)
  BY DEF Reports
<1>2. run'[r].pc = "done" /\ run'[r].sid = run[r].sid /\ run'[r].kind = run[r].kind
  BY <1>1, DoneStays
<1>3. run'[r].sid \in SidsOfJob(j)'
  BY <1>1, <1>2, NumbersStay
<1> QED
  BY <1>1, <1>2, <1>3, SameRun DEF Reports

\* A RESULT that was taken is not sent again, nor passed on again.
LEMMA TakenForGood ==
  ASSUME IInv, [Next]_vars, ReportsTravel, NEW r \in Runs, run[r].pc = "done"
  PROVE  /\ Told("backup", r) \notin results => Told("backup", r) \notin results'
         /\ Told("primary", r) \notin results =>
              /\ Told("primary", r) \notin results'
              /\ RelayOf(r) \notin pUdp \cup replication =>
                   RelayOf(r) \notin pUdp' \cup replication'
<1>1. CASE \E q \in Runs : N!Publish(q) /\ UNCHANGED <<pVars, bVars, faults>>
  <2> PICK q \in Runs : N!Publish(q) /\ UNCHANGED <<pVars, bVars, faults>>
    BY <1>1
  <2>1. /\ q # r
        /\ results' = results \cup {Told("primary", q), Told("backup", q)}
        /\ UNCHANGED <<pUdp, replication>>
    BY PublishSends DEF pVars
  <2> QED
    BY <2>1, ReportTerms
<1>2. ASSUME NEW m \in results, TakeResult(m)
      PROVE  /\ Told("backup", r) \notin results => Told("backup", r) \notin results'
             /\ Told("primary", r) \notin results =>
                  /\ Told("primary", r) \notin results'
                  /\ RelayOf(r) \notin pUdp \cup replication =>
                       RelayOf(r) \notin pUdp' \cup replication'
  <2>1. PICK q \in Runs : m \in {Told("primary", q), Told("backup", q)}
    BY DEF ReportsTravel
  <2>2. CASE m = Told("backup", q)
    BY <1>2, <2>2, BackupTold DEF pVars
  <2>3. CASE m = Told("primary", q)
    <3>1. /\ results' = results \ {Told("primary", q)}
          /\ replication' = replication
          /\ pUdp' = IF run[q].kind = "ERROR" THEN {RelayOf(q)} ELSE pUdp
      BY <1>2, <2>3, PrimaryTold
    <3>2. Told("primary", r) \notin results => r # q
      BY <1>2, <2>3
    <3>3. pUdp' = pUdp \/ pUdp' = {RelayOf(q)}
      BY <3>1
    <3> QED
      BY <3>1, <3>2, <3>3, ReportTerms
  <2> QED
    BY <2>1, <2>2, <2>3
<1>3. CASE ResultsStay /\ (ReplicateResult \/ RelaysStay)
  <2>1. results' = results
    BY <1>3 DEF ResultsStay
  <2>2. CASE RelaysStay
    BY <2>1, <2>2, ReportTerms DEF RelaysStay
  <2>3. CASE ReplicateResult
    <3>1. pUdp' = {} /\ \A m \in replication' : m \in pUdp \cup replication
      BY <2>3 DEF ReplicateResult, P!ReplicateResult, P!Replicate
    <3> QED
      BY <2>1, <3>1
  <2> QED
    BY <1>3, <2>2, <2>3
<1> QED
  BY <1>1, <1>2, <1>3, WhoPublishes, WhoRelays

\* What the backup has heard of a job it has heard for good.
LEMMA CausesStay ==
  ASSUME IInv, [Next]_vars, ReportsTravel, NEW j \in Jobs
  PROVE  Arrived(j) \subseteq Arrived(j)' /\ Relayed(j) \subseteq Relayed(j)'
<1>1. ASSUME NEW r \in Arrived(j) PROVE r \in Arrived(j)'
  <2>1. r \in Reports(j) /\ Told("backup", r) \notin results
    BY DEF Arrived
  <2>2. r \in Reports(j)' /\ Told("backup", r)' \notin results'
    BY <2>1, ReportsStay, TakenForGood
  <2> QED
    BY <2>2 DEF Arrived
<1>2. ASSUME NEW r \in Relayed(j) PROVE r \in Relayed(j)'
  <2>1. /\ r \in Reports(j)
        /\ run[r].kind = "ERROR"
        /\ Told("primary", r) \notin results
        /\ RelayOf(r) \notin pUdp \cup replication
    BY DEF Relayed
  <2>2. /\ r \in Reports(j)'
        /\ run'[r].kind = "ERROR"
        /\ Told("primary", r)' \notin results'
        /\ RelayOf(r)' \notin pUdp' \cup replication'
    BY <2>1, ReportsStay, TakenForGood
  <2> QED
    BY <2>2 DEF Relayed
<1> QED
  BY <1>1, <1>2

\* Only finitely many runs have ended at any time.
LEMMA EndedAreFinite ==
  ASSUME IInv, [Next]_vars, IsFiniteSet(Ended)
  PROVE  IsFiniteSet(Ended')
<1>1. CASE \E r \in Runs : N!Publish(r)
  <2> PICK r \in Runs : N!Publish(r)
    BY <1>1
  <2>1. Ended' \subseteq Ended \cup {r}
    BY PublishSends DEF Ended
  <2> QED
    BY <2>1, FS_AddElement, FS_Subset
<1>2. CASE (\E m \in results : TakeResult(m)) \/ ResultsStay
  <2>1. Ended' = Ended
    BY <1>2 DEF TakeResult, ResultsStay, Ended
  <2> QED
    BY <2>1
<1> QED
  BY <1>1, <1>2, WhoPublishes

\* So the causes of a callback can be counted.
LEMMA CausesAreFinite ==
  ASSUME IsFiniteSet(Ended), NEW j \in Jobs
  PROVE  /\ IsFiniteSet(Arrived(j)) /\ IsFiniteSet(Relayed(j))
         /\ Cardinality(Arrived(j)) \in Nat /\ Cardinality(Relayed(j)) \in Nat
<1>1. Arrived(j) \subseteq Ended /\ Relayed(j) \subseteq Ended
  BY DEF Arrived, Relayed, Reports, Ended
<1> QED
  BY <1>1, FS_Subset, FS_CardinalityType

\* What the account allows goes up with a restart, and with a new cause.
LEMMA AllowedGrows ==
  ASSUME IInv, [Next]_vars, ReportsTravel, IsFiniteSet(Ended), NEW j \in Jobs
  PROVE  /\ Allowed(j) \in Nat \ {0}
         /\ Allowed(j)' \in Nat \ {0}
         /\ Allowed(j)' >= Allowed(j) + bRestarts' - bRestarts
         /\ \A r : r \in Arrived(j)' \ Arrived(j) \/ r \in Relayed(j)' \ Relayed(j) =>
              Allowed(j)' >= Allowed(j) + 1 + bRestarts' - bRestarts
<1> PICK h, k, i, l : h = Arrived(j) /\ k = Arrived(j)' /\ i = Relayed(j) /\ l = Relayed(j)'
  OBVIOUS
<1>1. /\ IsFiniteSet(h) /\ IsFiniteSet(i)
      /\ Cardinality(h) \in Nat /\ Cardinality(i) \in Nat
  BY CausesAreFinite
<1>2. /\ IsFiniteSet(k) /\ IsFiniteSet(l)
      /\ Cardinality(k) \in Nat /\ Cardinality(l) \in Nat
  <2>1. IsFiniteSet(Ended')
    BY EndedAreFinite
  <2>2. k \subseteq Ended' /\ l \subseteq Ended'
    BY DEF Arrived, Relayed, Reports, Ended
  <2> QED
    BY <2>1, <2>2, FS_Subset, FS_CardinalityType
<1>3. h \subseteq k /\ i \subseteq l
  BY CausesStay
<1>4. Cardinality(h) <= Cardinality(k) /\ Cardinality(i) <= Cardinality(l)
  BY <1>2, <1>3, FS_Subset
<1>5. ASSUME NEW r, NEW T, NEW U, IsFiniteSet(U), T \subseteq U, r \in U, r \notin T
      PROVE  Cardinality(T) + 1 <= Cardinality(U)
  <2>1. IsFiniteSet(U \ {r}) /\ Cardinality(U \ {r}) = Cardinality(U) - 1
    BY <1>5, FS_RemoveElement
  <2>2. T \subseteq U \ {r}
    BY <1>5
  <2>3. IsFiniteSet(T) /\ Cardinality(T) <= Cardinality(U \ {r})
    BY <2>1, <2>2, FS_Subset
  <2> QED
    BY <1>5, <2>1, <2>3, FS_CardinalityType
<1>6. bRestarts \in Nat /\ bRestarts' \in Nat
  BY LifeNumbers, Typed DEF TypeOK, B!TypeOK
<1>7. /\ Allowed(j) = 1 + bRestarts + Cardinality(h) + Cardinality(i)
      /\ Allowed(j)' = 1 + bRestarts' + Cardinality(k) + Cardinality(l)
  BY DEF Allowed
<1>8. ASSUME NEW r, r \in Arrived(j)' \ Arrived(j) \/ r \in Relayed(j)' \ Relayed(j)
      PROVE  Cardinality(h) + Cardinality(i) + 1 <= Cardinality(k) + Cardinality(l)
  <2>1. CASE r \in k \ h
    <3>1. Cardinality(h) + 1 <= Cardinality(k)
      BY <1>2, <1>3, <1>5, <2>1
    <3> QED
      BY <1>1, <1>2, <1>4, <3>1
  <2>2. CASE r \in l \ i
    <3>1. Cardinality(i) + 1 <= Cardinality(l)
      BY <1>2, <1>3, <1>5, <2>2
    <3> QED
      BY <1>1, <1>2, <1>4, <3>1
  <2> QED
    BY <1>8, <2>1, <2>2
<1>9. Allowed(j) \in Nat \ {0} /\ Allowed(j)' \in Nat \ {0}
  BY <1>1, <1>2, <1>6, <1>7
<1>10. Allowed(j)' >= Allowed(j) + bRestarts' - bRestarts
  BY <1>1, <1>2, <1>4, <1>6, <1>7
<1>11. ASSUME NEW r, r \in Arrived(j)' \ Arrived(j) \/ r \in Relayed(j)' \ Relayed(j)
       PROVE  Allowed(j)' >= Allowed(j) + 1 + bRestarts' - bRestarts
  BY <1>1, <1>2, <1>6, <1>7, <1>8, <1>11
<1> QED
  BY <1>9, <1>10, <1>11

-----------------------------------------------------------------------------
(***************************************************************************)
(* What defers a row to the recovery thread                                *)
(***************************************************************************)

NewCause(j, r) == r \in Arrived(j)' \ Arrived(j) \/ r \in Relayed(j)' \ Relayed(j)

HasRow(j) == \E i \in DOMAIN bLog : bLog[i].job = j

\* Who writes to the log of the backup.
LEMMA WhoWrites ==
  ASSUME IInv, [Next]_vars
  PROVE  \/ bLog' = bLog
         \/ \E k \in Jobs : B!Insert(k) \/ B!LogOutcome(k)
         \/ \E m \in replication : ReplicaArrives(m)
         \/ \E m \in results : TakeResult(m)
         \/ B!Record
<1>1. ASSUME NEW k \in Jobs, Submit(k) \/ FallBack(k) \/ PrimaryStep(k) PROVE bLog' = bLog
  BY <1>1 DEF Submit, FallBack, B!Accept, B!Reject, B!StartProbe, PrimaryStep, bVars
<1>2. ASSUME NEW k \in Jobs, BackupStep(k), ~B!Insert(k), ~B!LogOutcome(k) PROVE bLog' = bLog
  BY <1>2 DEF BackupStep, B!Reserve, B!ReserveNone, B!Reply, B!ProbeReturns, B!ProbeRejects
<1>3. ASSUME NEW k \in Jobs, PrimaryCalls(k) \/ BackupCalls(k) PROVE bLog' = bLog
  BY <1>3 DEF PrimaryCalls, BackupCalls, Connect, B!ForwardReturns, B!ForwardFails, bVars
<1>4. CASE RecoveryStep
  BY <1>4 DEF RecoveryStep, B!StartScan, B!EndScan, B!ReplayReserve, B!ReplayReserveNone, B!Deliver
<1>5. CASE RecoveryCalls
  BY <1>5 DEF RecoveryCalls, Connect, B!ReplayReturns, B!ReplayFails, bVars
<1>6. CASE MonitorStep \/ ReplicateResult \/ NodeStep
  BY <1>6 DEF MonitorStep, B!HealthCheck, ReplicateResult, NodeStep, bVars
<1>7. ASSUME NEW n \in Nodes, Heartbeat(n) \/ Evict(n) PROVE bLog' = bLog
  BY <1>7 DEF Heartbeat, Evict, B!Heartbeat, B!Evict, bVars
<1>8. CASE Crash
  BY <1>8 DEF Crash, PrimaryCrash, BackupCrash, B!Crash, bVars
<1>9. CASE Restart
  BY <1>9 DEF Restart, B!Restart, bVars
<1>10. CASE UNCHANGED vars
  BY <1>10 DEF vars, bVars
<1> QED
  BY <1>1, <1>2, <1>3, <1>4, <1>5, <1>6, <1>7, <1>8, <1>9, <1>10 DEF Next

\* The row of another job defers nothing.
LEMMA AppendDefers ==
  ASSUME IInv, NEW j \in Jobs, NEW row \in Row, row.job # j, bLog' = Append(bLog, row),
         Deferred(j)'
  PROVE  Deferred(j)
<1> PICK new : new = bLog'
  OBVIOUS
<1>1. \A i \in DOMAIN new : (i \in DOMAIN bLog /\ new[i] = bLog[i]) \/ new[i] = row
  BY LogsAreRows, AppendKeepsRows
<1> QED
  BY <1>1 DEF Deferred

\* An update defers only if it says PENDING, and only the row it finds.
LEMMA UpdateDefers ==
  ASSUME IInv, NEW j \in Jobs, NEW m \in P!UpdateMessage, bLog' = UpdatedBy(bLog, m),
         Deferred(j)', ~Deferred(j)
  PROVE  m.delivery = "PENDING" /\ \E i \in DOMAIN bLog : bLog[i].job = j /\ bLog[i].sid = m.sid
<1>1. /\ m.sid \in Nat
      /\ m.forwarding \in Forwardings
      /\ m.response \in Responses
      /\ m.delivery \in Deliveries
  BY Vocabulary DEF P!UpdateMessage
<1> PICK new : new = bLog'
  OBVIOUS
<1>2. /\ DOMAIN new = DOMAIN bLog
      /\ \A i \in DOMAIN bLog :
           /\ new[i].job = bLog[i].job
           /\ bLog[i].sid # m.sid => new[i] = bLog[i]
           /\ bLog[i].sid = m.sid => new[i].delivery = m.delivery
  BY <1>1, LogsAreRows, UpdatedKeepsRows DEF UpdatedBy
<1> QED
  BY <1>2 DEF Deferred

\* The run of a RESULT under the id of a row is one of the job's reports.
LEMMA ReportOfRow ==
  ASSUME IInv, NEW j \in Jobs, NEW i \in DOMAIN bLog, bLog[i].job = j,
         NEW r \in Runs, run[r].pc = "done", run[r].sid = bLog[i].sid
  PROVE  r \in Reports(j)
<1>1. TakenAs(j) = bLog[i].sid /\ TakenAs(j) # 0
  BY RowIsOfTaken DEF Taken
<1> QED
  BY <1>1, NumberOfJob DEF Reports

\* A RESULT the backup takes of the run itself.
LEMMA ResultDefers ==
  ASSUME IInv, [Next]_vars, ReportsTravel, NEW j \in Jobs, NEW m \in results, TakeResult(m),
         Deferred(j)', ~Deferred(j)
  PROVE  \E r : NewCause(j, r)
<1>1. PICK r \in Runs : run[r].pc = "done" /\ m \in {Told("primary", r), Told("backup", r)}
  BY DEF ReportsTravel
<1>2. CASE m = Told("primary", r)
  <2>1. bLog' = bLog
    BY <1>2, PrimaryTold DEF bVars
  <2> QED
    BY <2>1 DEF Deferred
<1>3. CASE m = Told("backup", r)
  <2>1. results' = results \ {Told("backup", r)} /\ B!ResultArrives(run[r].sid, N!ResponseOf(r))
    BY <1>3, BackupTold
  <2> PICK n : n = P!UpdateOf(m.sid, "FORWARDED", m.response, "PENDING")
    OBVIOUS
  <2>2. m.sid = run[r].sid /\ m.response = N!ResponseOf(r)
    BY <1>3 DEF Told
  <2>3. /\ n \in P!UpdateMessage
        /\ n.sid = run[r].sid
        /\ n.forwarding = "FORWARDED"
        /\ n.response = N!ResponseOf(r)
        /\ n.delivery = "PENDING"
    BY <2>2, ResultOutcome
  <2>4. bLog' = bLog \/ bLog' = UpdatedBy(bLog, n)
    BY <2>1, <2>3, Statements DEF B!ResultArrives, B!Store, UpdatedBy
  <2>5. bLog' # bLog
    BY DEF Deferred
  <2>6. PICK i \in DOMAIN bLog : bLog[i].job = j /\ bLog[i].sid = run[r].sid
    BY <2>3, <2>4, <2>5, UpdateDefers
  <2>7. r \in Reports(j) /\ r \notin Arrived(j)
    BY <1>1, <1>3, <2>6, ReportOfRow DEF Arrived
  <2>8. r \in Reports(j)' /\ Told("backup", r)' \notin results'
    BY <2>1, <2>7, ReportsStay
  <2> QED
    BY <2>7, <2>8 DEF Arrived, NewCause
<1> QED
  BY <1>1, <1>2, <1>3

\* The primary's update: a RESULT it has passed on.
LEMMA ReplicaDefers ==
  ASSUME IInv, [Next]_vars, ReportsTravel, NEW j \in Jobs, HasRow(j),
         NEW m \in replication, ReplicaArrives(m), Deferred(j)', ~Deferred(j)
  PROVE  \E r : NewCause(j, r)
<1>1. bLog' # bLog
  BY DEF Deferred
<1>2. CASE m.action = "insert"
  <2>1. bLog' = Append(bLog, NewRow(m.row.sid, m.row.receipt, m.row.job))
    BY <1>1, <1>2, Statements DEF ReplicaArrives, B!ReplicaArrives, B!ApplyInsert, B!Store
  <2>2. m.row = NewRow(m.row.sid, m.row.receipt, m.row.job) /\ m.row.job # j
    BY <1>2 DEF IInv, Joined, MessagesAreTrue, HasRow
  <2>3. m.row \in Row
    BY <1>2, Typed, Vocabulary DEF TypeOK, P!TypeOK, P!Replication, P!InsertMessage, P!UpdateMessage
  <2> QED
    BY <2>1, <2>2, <2>3, AppendDefers
<1>3. CASE m.action # "insert"
  <2>1. m \in P!UpdateMessage
    BY <1>3, Typed DEF TypeOK, P!TypeOK, P!Replication, P!InsertMessage
  <2>2. bLog' = UpdatedBy(bLog, m) /\ m.action = "update"
    BY <1>1, <1>3, Statements DEF ReplicaArrives, B!ReplicaArrives, B!ApplyUpdate, B!Store, UpdatedBy
  <2>3. PICK i \in DOMAIN bLog : m.delivery = "PENDING" /\ bLog[i].job = j /\ bLog[i].sid = m.sid
    BY <2>1, <2>2, UpdateDefers
  <2>4. PICK r \in Runs : run[r].pc = "done" /\ run[r].kind = "ERROR" /\ m = RelayOf(r)
    BY <2>2, <2>3 DEF ReportsTravel, IsRelay
  <2>5. run[r].sid = bLog[i].sid
    BY <2>3, <2>4 DEF RelayOf, P!UpdateOf
  <2>6. /\ r \in Reports(j)
        /\ RelayOf(r) \in replication
        /\ RelayOf(r) \notin pUdp
        /\ Told("primary", r) \notin results
    BY <2>3, <2>4, <2>5, ReportOfRow DEF ReportsTravel
  <2>7. r \notin Relayed(j)
    BY <2>6 DEF Relayed
  <2>8. /\ results' = results
        /\ pUdp' = pUdp
        /\ replication' = replication \ {RelayOf(r)}
    BY <2>4 DEF ReplicaArrives, nVars
  <2>9. /\ r \in Reports(j)'
        /\ run'[r].kind = "ERROR"
        /\ Told("primary", r)' \notin results'
        /\ RelayOf(r)' \notin pUdp' \cup replication'
    BY <2>4, <2>6, <2>8, ReportsStay
  <2> QED
    BY <2>7, <2>9 DEF Relayed, NewCause
<1> QED
  BY <1>2, <1>3

\* The row of a request that was answered directly is not deferred.
LEMMA OutcomeDefersNone ==
  ASSUME IInv, NEW j \in Jobs, HasRow(j), NEW k \in Jobs, B!Insert(k) \/ B!LogOutcome(k),
         Deferred(j)'
  PROVE  Deferred(j)
<1>1. CASE bLog' = bLog
  BY <1>1 DEF Deferred
<1>2. CASE B!Insert(k) /\ bLog' # bLog
  <2>1. /\ bThread[k].pc = "inserting"
        /\ bLog' = Append(bLog, NewRow(bThread[k].sid, bThread[k].receipt, k))
    BY <1>2, Statements DEF B!Insert, B!Store
  <2>2. k # j
    BY <2>1 DEF IInv, BP!IInv, BP!IdsAreApart, BP!UnservedHasNoRow, HasRow
  <2> PICK row : row = NewRow(bThread[k].sid, bThread[k].receipt, k)
    OBVIOUS
  <2>3. row \in Row /\ row.job = k
    BY ThreadsAreTyped, NewRowIsRow
  <2> QED
    BY <2>1, <2>2, <2>3, AppendDefers
<1>3. CASE B!LogOutcome(k) /\ bLog' # bLog
  <2>1. bThread[k].pc = "logging"
    BY <1>3 DEF B!LogOutcome
  <2>2. PICK m \in P!UpdateMessage :
          /\ m.sid = bThread[k].sid
          /\ m.forwarding = IF bThread[k].response = Fatal THEN "FAILED" ELSE "FORWARDED"
          /\ m.response = bThread[k].response
          /\ m.delivery = "DIRECT"
    BY <2>1, BackupOutcome
  <2>3. bLog' = UpdatedBy(bLog, m)
    BY <1>3, <2>2, Statements, Vocabulary DEF B!LogOutcome, B!Store, UpdatedBy
  <2> QED
    BY <2>2, <2>3, UpdateDefers
<1> QED
  BY <1>1, <1>2, <1>3

\* Once a job has its row, only a RESULT makes the row PENDING again.
LEMMA DeferralHasCause ==
  ASSUME IInv, [Next]_vars, ReportsTravel, NEW j \in Jobs, HasRow(j), ~B!Record,
         Deferred(j)', ~Deferred(j)
  PROVE  \E r : NewCause(j, r)
<1>1. bLog' # bLog
  BY DEF Deferred
<1> QED
  BY <1>1, WhoWrites, OutcomeDefersNone, ReplicaDefers, ResultDefers

-----------------------------------------------------------------------------
(***************************************************************************)
(* The account is kept                                                     *)
(***************************************************************************)

\* A client's callbacks are a sequence, and its length is a number.
LEMMA CallbacksAreTyped ==
  ASSUME IInv, NEW j \in Jobs
  PROVE  Len(callbacks[j]) \in Nat /\ (DOMAIN callbacks[j] = {} => Len(callbacks[j]) = 0)
<1>1. callbacks[j] \in Seq(B!Responses)
  BY Typed DEF TypeOK, B!TypeOK
<1> PICK received : received = callbacks[j]
  OBVIOUS
<1>2. Len(received) \in Nat /\ DOMAIN received = 1..Len(received)
  BY <1>1
<1> DEFINE n == Len(received)
<1> HIDE DEF n
<1>3. n \in Nat /\ DOMAIN received = 1..n
  BY <1>2 DEF n
<1>4. DOMAIN received = {} => n = 0
  BY <1>3
<1> QED
  BY <1>3, <1>4 DEF n

\* The recovery thread is at a record only until its next step.
LEMMA NotAtRecord ==
  ASSUME RecoveryStep \/ RecoveryCalls
  PROVE  B!Record \/ (rThread.pc # "recording" /\ bUp' = bUp)
<1>1. CASE RecoveryStep
  <2>1. CASE B!StartScan \/ B!EndScan \/ B!ReplayReserveNone
    BY <2>1 DEF B!StartScan, B!EndScan, B!ReplayReserveNone, B!roleVars
  <2>2. ASSUME NEW n \in Nodes, B!ReplayReserve(n) PROVE rThread.pc # "recording" /\ bUp' = bUp
    BY <2>2 DEF B!ReplayReserve, B!roleVars
  <2>3. ASSUME NEW ok \in BOOLEAN, B!Deliver(ok) PROVE rThread.pc # "recording" /\ bUp' = bUp
    BY <2>3 DEF B!Deliver, B!roleVars
  <2> QED
    BY <1>1, <2>1, <2>2, <2>3 DEF RecoveryStep
<1>2. CASE RecoveryCalls
  BY <1>2 DEF RecoveryCalls, Connect, B!ReplayReturns, B!ReplayFails, B!roleVars, bVars
<1> QED
  BY <1>1, <1>2

\* The record of a delivery settles the row and the copy.
LEMMA RecordSettles ==
  ASSUME IInv, [Next]_vars, B!Record, NEW j \in Jobs, Due(j)'
  PROVE  Due(j)
<1>1. rThread.pc = "recording" /\ bUp /\ bUp' = bUp
  BY DEF B!Record, B!roleVars
<1>2. PICK h \in DOMAIN rThread.queue :
        /\ Recorded = rThread.queue[h]
        /\ h \in DOMAIN bLog
        /\ bLog[h].sid = Recorded.sid
        /\ bLog[h].job = Recorded.job
        /\ DOMAIN B!Rest(rThread.queue) = DOMAIN rThread.queue \ {h}
        /\ \A i \in DOMAIN B!Rest(rThread.queue) : B!Rest(rThread.queue)[i] = rThread.queue[i]
        /\ BP!IsQueue(B!Rest(rThread.queue))
  BY <1>1, HeadOfQueue
<1> PICK queue : queue = rThread'.queue
  OBVIOUS
<1>3. /\ DOMAIN queue \subseteq DOMAIN rThread.queue \ {h}
      /\ \A i \in DOMAIN queue : queue[i] = rThread.queue[i]
  <2>1. rThread' = B!Turn(B!Rest(rThread.queue))
    BY DEF B!Record
  <2>2. rThread' = B!IdleRecovery \/ rThread'.queue = B!Rest(rThread.queue)
    BY <1>2, <2>1, TurnTo
  <2> QED
    BY <1>2, <2>2, IdleFields
<1> PICK new : new = bLog'
  OBVIOUS
<1>4. /\ DOMAIN new = DOMAIN bLog
      /\ \A i \in DOMAIN bLog :
           /\ new[i].job = bLog[i].job
           /\ new[i] = bLog[i] \/ new[i].delivery # "PENDING"
           /\ bLog[i].sid = Recorded.sid => new[i].delivery # "PENDING"
  BY RecordWrites
<1>5. (\E i \in DOMAIN new : new[i].job = j /\ new[i].delivery = "PENDING")
        \/ (\E i \in DOMAIN queue : queue[i].job = j)
  BY DEF Due, Deferred, Queued
<1>6. j # Recorded.job
  BY <1>2, <1>3, <1>4, <1>5, OneRow
<1>7. Deferred(j) \/ Queued(j)
  BY <1>3, <1>4, <1>5 DEF Deferred, Queued
<1> QED
  BY <1>1, <1>6, <1>7 DEF Due, AtRecord

\* A scan copies rows that are deferred.
LEMMA CopiesAreDeferred ==
  ASSUME IInv, [Next]_vars, NEW j \in Jobs, Queued(j)'
  PROVE  Queued(j) \/ (B!StartScan /\ Deferred(j))
<1> PICK queue : queue = rThread'.queue
  OBVIOUS
<1>1. PICK i \in DOMAIN queue : queue[i].job = j
  BY DEF Queued
<1>2. CASE B!StartScan
  <2>1. queue = BP!PendingRows(bLog)
    BY <1>2, PassIsTyped, QueueTerms DEF B!StartScan, B!Recovery
  <2>2. i \in DOMAIN bLog /\ queue[i] = bLog[i] /\ bLog[i].delivery = "PENDING"
    BY <1>1, <2>1 DEF BP!PendingRows, BP!Restrict
  <2> QED
    BY <1>1, <1>2, <2>2 DEF Deferred
<1>3. CASE BackupCrash
  BY <1>1, <1>3, IdleFields DEF BackupCrash, B!Crash
<1> QED
  BY <1>1, <1>2, <1>3, PassAdvances DEF Queued

\* What is due was due before, or has a cause of its own.
LEMMA DueHasCause ==
  ASSUME IInv, [Next]_vars, ReportsTravel, NEW j \in Jobs, HasRow(j), Due(j)', ~Due(j), ~B!Restart
  PROVE  \E r : NewCause(j, r)
<1>1. bUp' /\ ~AtRecord(j)' /\ (Deferred(j)' \/ Queued(j)')
  BY DEF Due
<1>2. ~B!Record
  BY RecordSettles
<1>3. bUp /\ ~AtRecord(j)
  <2>1. CASE RecoveryStep \/ RecoveryCalls
    BY <1>1, <1>2, <2>1, NotAtRecord DEF AtRecord
  <2>2. CASE RecoveryStands
    BY <1>1, <2>2 DEF RecoveryStands, AtRecord, Recorded
  <2>3. CASE BackupCrash
    BY <1>1, <2>3 DEF BackupCrash, B!Crash
  <2> QED
    BY <2>1, <2>2, <2>3, WhoRecovers
<1>4. ~Deferred(j) /\ ~Queued(j)
  BY <1>3 DEF Due
<1>5. Deferred(j)'
  BY <1>1, <1>4, CopiesAreDeferred
<1> QED
  BY <1>2, <1>4, <1>5, DeferralHasCause

\* A job without a row has not been called back, and is not about to be.
LEMMA NoRowNoLoad ==
  ASSUME Inv, NEW j \in Jobs, ~HasRow(j)
  PROVE  ~Due(j) /\ Len(callbacks[j]) = 0
<1>1. IInv /\ CallbacksAreLogged
  BY DEF Inv
<1>2. ~Deferred(j) /\ ~Queued(j)
  BY <1>1, OneRow DEF Deferred, Queued, HasRow
<1>3. DOMAIN callbacks[j] = {}
  BY <1>1 DEF CallbacksAreLogged, HasRow
<1> QED
  BY <1>1, <1>2, <1>3, CallbacksAreTyped DEF Due

\* A callback is one that was due, and the record comes before the next.
LEMMA DeliveryWasDue ==
  ASSUME IInv, B!Deliver(TRUE), NEW j \in Jobs, j = Recorded.job
  PROVE  Due(j) /\ ~Due(j)'
<1>1. /\ rThread.pc = "delivering"
      /\ bUp
      /\ rThread'.pc = "recording"
      /\ rThread'.queue = rThread.queue
  BY PassIsTyped DEF B!Deliver, B!Recovery
<1>2. Queued(j)
  BY <1>1, HeadOfQueue DEF Queued
<1>3. Recorded' = Recorded
  BY <1>1 DEF Recorded
<1> QED
  BY <1>1, <1>2, <1>3 DEF Due, AtRecord

\* No step lets the callbacks made, and the one that is due, outgrow their
\* causes.
LEMMA LoadIsKept ==
  ASSUME DInv, [Next]_vars, NEW j \in Jobs
  PROVE  Load(j)' <= Allowed(j)'
<1>1. /\ Inv /\ IInv /\ ReportsTravel /\ IsFiniteSet(Ended)
      /\ Load(j) <= Allowed(j)
  BY DEF DInv, Inv, DeliveriesAreCounted
<1> PICK a, b, len, new : /\ a = Allowed(j) /\ b = Allowed(j)'
                         /\ len = Len(callbacks[j]) /\ new = Len(callbacks'[j])
  OBVIOUS
<1>2. /\ a \in Nat \ {0} /\ b \in Nat \ {0}
      /\ len \in Nat
  BY <1>1, AllowedGrows, CallbacksAreTyped
<1>3. bRestarts \in Nat
  BY <1>1, Typed DEF TypeOK, B!TypeOK
<1>4. /\ b >= a + bRestarts' - bRestarts
      /\ \A r : NewCause(j, r) => b >= a + 1 + bRestarts' - bRestarts
  BY <1>1, AllowedGrows DEF NewCause
<1>5. /\ Due(j) => len + 1 <= a
      /\ len <= a
  <2>1. CASE Due(j)
    BY <1>1, <1>2, <2>1 DEF Load
  <2>2. CASE ~Due(j)
    BY <1>1, <2>2 DEF Load
  <2> QED
    BY <2>1, <2>2
<1>6. Load(j)' = IF Due(j)' THEN new + 1 ELSE new
  BY DEF Load
<1>7. CASE B!Restart
  <2>1. new = len /\ bRestarts' = bRestarts + 1
    BY <1>7 DEF B!Restart
  <2> QED
    BY <1>2, <1>3, <1>4, <1>5, <1>6, <2>1
<1>8. CASE ~B!Restart
  <2>1. b >= a
    BY <1>1, <1>2, <1>3, <1>4, LifeNumbers
  <2>2. CASE new = len
    <3>1. CASE ~Due(j)' \/ Due(j)
      BY <1>2, <1>5, <1>6, <2>1, <2>2, <3>1
    <3>2. CASE ~HasRow(j)
      <4>1. len = 0
        BY <1>1, <3>2, NoRowNoLoad
      <4> QED
        BY <1>2, <1>6, <2>2, <4>1
    <3>3. CASE HasRow(j) /\ Due(j)' /\ ~Due(j)
      <4>1. PICK r : NewCause(j, r)
        BY <1>1, <1>8, <3>3, DueHasCause
      <4>2. b >= a + 1
        BY <1>1, <1>2, <1>3, <1>4, <4>1, LifeNumbers
      <4> QED
        BY <1>2, <1>5, <1>6, <2>2, <4>2
    <3> QED
      BY <3>1, <3>2, <3>3
  <2>3. CASE new # len
    <3>1. B!Deliver(TRUE) /\ j = Recorded.job
      BY <1>1, <2>3, WhoDelivers, DeliverySends
    <3>2. new = len + 1
      <4> PICK old, text : old = callbacks[j] /\ text = rThread.response
        OBVIOUS
      <4>1. old \in Seq(Responses) /\ callbacks'[j] = Append(old, text)
        BY <1>1, <3>1, DeliverySends
      <4>2. Len(Append(old, text)) = Len(old) + 1
        BY <4>1
      <4> QED
        BY <4>1, <4>2
    <3>3. Due(j) /\ ~Due(j)'
      BY <1>1, <3>1, DeliveryWasDue
    <3> QED
      BY <1>2, <1>5, <1>6, <2>1, <3>2, <3>3
  <2> QED
    BY <2>2, <2>3
<1> QED
  BY <1>7, <1>8

\* The cluster starts in the invariant.
LEMMA InitDInv == Init => DInv
<1> SUFFICES ASSUME Init PROVE DInv
  OBVIOUS
<1>1. Inv /\ IInv
  BY InitInv DEF Inv
<1>2. /\ pUdp = {} /\ replication = {} /\ results = {}
      /\ run = [r \in Runs |-> N!Unused]
      /\ bRestarts = 0
      /\ callbacks = [j \in Jobs |-> <<>>]
  BY DEF Init, P!InitWith, B!InitWith, N!Init
<1>3. \A r \in Runs : run[r].pc # "done"
  BY <1>2 DEF N!Unused
<1>4. ReportsTravel
  BY <1>2, <1>3 DEF ReportsTravel
<1>5. Ended = {} /\ IsFiniteSet(Ended)
  BY <1>3, FS_EmptySet DEF Ended
<1>6. ASSUME NEW j \in Jobs PROVE Load(j) <= Allowed(j)
  <2>1. DOMAIN bLog = {} /\ DOMAIN rThread.queue = {}
    BY IdleFields DEF Init, B!InitWith
  <2>2. ~Due(j)
    BY <2>1 DEF Due, Deferred, Queued
  <2>3. Load(j) = 0
    BY <1>2, <2>2 DEF Load
  <2>4. Cardinality(Arrived(j)) \in Nat /\ Cardinality(Relayed(j)) \in Nat
    BY <1>5, CausesAreFinite
  <2> QED
    BY <1>2, <2>3, <2>4 DEF Allowed
<1> QED
  BY <1>1, <1>4, <1>5, <1>6 DEF DInv, DeliveriesAreCounted

\* Every step keeps the invariant.
LEMMA DInvKept == DInv /\ [Next]_vars => DInv'
<1> SUFFICES ASSUME DInv, [Next]_vars PROVE DInv'
  OBVIOUS
<1>1. Inv /\ IInv /\ ReportsTravel /\ IsFiniteSet(Ended)
  BY DEF DInv, Inv, DeliveriesAreCounted
<1>2. Inv'
  BY <1>1, InvKept
<1>3. ReportsTravel'
  BY <1>1, ReportsTravelKept
<1>4. IsFiniteSet(Ended')
  BY <1>1, EndedAreFinite
<1>5. \A j \in Jobs : Load(j)' <= Allowed(j)'
  BY LoadIsKept
<1> QED
  BY <1>2, <1>3, <1>4, <1>5 DEF DInv, DeliveriesAreCounted

\* The inductive invariant holds.
THEOREM DeliveryInvariance == Spec => []DInv
<1>1. Init => DInv
  BY InitDInv
<1>2. DInv /\ [Next]_vars => DInv'
  BY DInvKept
<1> QED
  BY <1>1, <1>2, PTL DEF Spec

\* A client is called back once, and once more for each RESULT that reopened a
\* row of its job, each relay of one and each restart of the backup
\* (backup.cpp:426-477, 789, master.cpp:551).
THEOREM BoundedDeliveries == Spec => []DeliveriesBounded
<1>1. DInv => DeliveriesBounded
  <2> SUFFICES ASSUME DInv, NEW j \in Jobs
               PROVE  Len(callbacks[j]) <=
                        1 + bRestarts + Cardinality(Reports(j))
                          + Cardinality({r \in Reports(j) : run[r].kind = "ERROR"})
    BY DEF DeliveriesBounded
  <2>1. IInv /\ IsFiniteSet(Ended) /\ Load(j) <= Allowed(j)
    BY DEF DInv, Inv, DeliveriesAreCounted
  <2> PICK f, e, h, l : /\ f = Reports(j) /\ e = {r \in Reports(j) : run[r].kind = "ERROR"}
                       /\ h = Arrived(j) /\ l = Relayed(j)
    OBVIOUS
  <2>2. IsFiniteSet(f) /\ e \subseteq f /\ h \subseteq f /\ l \subseteq e
    <3>1. f \subseteq Ended
      BY DEF Reports, Ended
    <3>2. IsFiniteSet(f)
      BY <2>1, <3>1, FS_Subset
    <3> QED
      BY <3>2 DEF Arrived, Relayed
  <2>3. IsFiniteSet(e)
    BY <2>2, FS_Subset
  <2>4. Cardinality(h) <= Cardinality(f) /\ Cardinality(l) <= Cardinality(e)
    BY <2>2, <2>3, FS_Subset
  <2>5. /\ Cardinality(f) \in Nat /\ Cardinality(e) \in Nat
        /\ Cardinality(h) \in Nat /\ Cardinality(l) \in Nat
    BY <2>1, <2>2, <2>3, FS_CardinalityType, CausesAreFinite
  <2>6. bRestarts \in Nat /\ Len(callbacks[j]) \in Nat
    BY <2>1, Typed, CallbacksAreTyped DEF TypeOK, B!TypeOK
  <2>7. Len(callbacks[j]) <= 1 + bRestarts + Cardinality(h) + Cardinality(l)
    <3>1. Load(j) <= 1 + bRestarts + Cardinality(h) + Cardinality(l)
      BY <2>1 DEF Allowed
    <3>2. CASE Due(j)
      BY <2>5, <2>6, <3>1, <3>2 DEF Load
    <3>3. CASE ~Due(j)
      BY <3>1, <3>3 DEF Load
    <3> QED
      BY <3>2, <3>3
  <2> QED
    BY <2>4, <2>5, <2>6, <2>7
<1> QED
  BY <1>1, DeliveryInvariance, PTL
=============================================================================
