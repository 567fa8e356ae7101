--------------------------- MODULE PrimaryProofs ---------------------------
(***************************************************************************)
(* Theorems about the primary, for any set of jobs and of nodes, any bound *)
(* on retries and any number of restarts.  All of them rest on one         *)
(* inductive invariant, IInv; QuietStep disposes of most actions at once.  *)
(***************************************************************************)
EXTENDS Primary, JobsLogProofs

-----------------------------------------------------------------------------
(***************************************************************************)
(* The inductive invariant.  SubmissionsUnique is not inductive by itself: *)
(* it needs the ids of the log and of the live threads to be below the     *)
(* counter, the threads' ids to be apart from one another and from those   *)
(* of others' rows, and a restart, which recomputes the counter from the   *)
(* log alone, to find no live thread: it gives an id again if the thread   *)
(* that had it waited to insert, or its INSERT failed.                     *)
(***************************************************************************)

Waiting(j) == pThread[j].pc = "inserting"
Inserted(j) == pThread[j].pc \in Scheduled \cup {"replicatingInsert"}

LogBelowCounter == \A i \in DOMAIN pLog : pLog[i].sid < pNextSid

LiveIdsAreOwn ==
  \A j \in Jobs : Live(j) =>
    /\ pThread[j].sid < pNextSid
    /\ \A i \in DOMAIN pLog :
         pLog[i].sid = pThread[j].sid => Inserted(j) /\ pLog[i].job = j
    /\ \A k \in Jobs : Live(k) /\ pThread[k].sid = pThread[j].sid => k = j

InsertedIsLogged ==
  \A j \in Jobs : Inserted(j) /\ ~pThread[j].unwritten =>
    \E i \in DOMAIN pLog : /\ pLog[i].sid = pThread[j].sid
                           /\ pLog[i].receipt = pThread[j].receipt
                           /\ pLog[i].job = j

\* Only a failing database leaves a request unwritten, behind its INSERT.
UnwrittenHasCause ==
  \A j \in Jobs : pThread[j].unwritten =>
    DatabaseMayFail /\ (Inserted(j) \/ pThread[j].pc = "gone")

DeadIsQuiet == ~pUp => \A j \in Jobs : ~Live(j)

OutcomeIsKnown ==
  \A j \in Jobs :
    pThread[j].pc \in {"logging", "replicatingOutcome"} => pThread[j].response # Pending

IInv ==
  /\ TypeOK
  /\ LogBelowCounter
  /\ LiveIdsAreOwn
  /\ InsertedIsLogged
  /\ UnwrittenHasCause
  /\ DeadIsQuiet
  /\ OutcomeIsKnown
  /\ SubmissionsUnique
  /\ ReplicationFollowsLog

-----------------------------------------------------------------------------
(***************************************************************************)
(* Steps that neither add a row nor give an id                             *)
(***************************************************************************)

\* A row of the log is what message m is about, unless it passes on a RESULT
\* or a write of the request it is about has failed.
Known(m) ==
  IF m.action = "insert"
  THEN \/ \E i \in DOMAIN pLog : /\ pLog[i].sid = m.row.sid
                                /\ pLog[i].job = m.row.job
                                /\ pLog[i].receipt = m.row.receipt
       \/ Unwritten(m.row.sid)
  ELSE m.delivery = "PENDING" \/ m.sid \in SidsOf(pLog) \/ Unwritten(m.sid)

\* The rows are the same rows, though their status columns may differ.
SameRows ==
  /\ DOMAIN pLog' = DOMAIN pLog
  /\ \A i \in DOMAIN pLog : /\ pLog'[i].sid = pLog[i].sid
                            /\ pLog'[i].receipt = pLog[i].receipt
                            /\ pLog'[i].job = pLog[i].job

\* The thread of k stands still, or moves on behind its INSERT.
Advances(k) ==
  \/ pThread'[k] = pThread[k]
  \/ /\ Inserted(k)
     /\ Live(k)
     /\ pUp
     /\ pThread'[k].pc \in Scheduled
     /\ pThread'[k].sid = pThread[k].sid
     /\ pThread'[k].receipt = pThread[k].receipt
     /\ pThread[k].unwritten => pThread'[k].unwritten
     /\ pThread'[k].unwritten => pThread[k].unwritten \/ DatabaseMayFail
     /\ pThread'[k].pc \in {"logging", "replicatingOutcome"}
          => pThread'[k].response # Pending

\* Such a step keeps the invariant, if what it sends is about a known row.
LEMMA QuietStep ==
  ASSUME IInv, TypeOK', SameRows, pNextSid' = pNextSid, pUp' = pUp,
         \A k \in Jobs : Advances(k),
         \A m \in replication' \cup pUdp' : m \in replication \cup pUdp \/ Known(m)
  PROVE  IInv'
<1> USE DEF Inserted, Scheduled, Live
<1>1. \A k \in Jobs : Live(k)' => /\ Live(k)
                                  /\ Inserted(k) => Inserted(k)'
                                  /\ pThread'[k].sid = pThread[k].sid
  BY DEF Advances
<1>2. \A k \in Jobs : Inserted(k)' => /\ Inserted(k)
                                      /\ pThread'[k].sid = pThread[k].sid
                                      /\ pThread'[k].receipt = pThread[k].receipt
                                      /\ pThread[k].unwritten => pThread'[k].unwritten
  BY DEF Advances
<1>3. LogBelowCounter'
  BY DEF IInv, LogBelowCounter, SameRows
<1>4. LiveIdsAreOwn'
  BY <1>1 DEF IInv, LiveIdsAreOwn, SameRows
<1>5. InsertedIsLogged' /\ UnwrittenHasCause'
  <2>1. InsertedIsLogged'
    BY <1>2 DEF IInv, InsertedIsLogged, SameRows
  <2>2. UnwrittenHasCause'
    BY DEF IInv, UnwrittenHasCause, Advances
  <2> QED
    BY <2>1, <2>2
<1>6. DeadIsQuiet'
  BY DEF IInv, DeadIsQuiet, Advances, Live
<1>7. OutcomeIsKnown'
  BY DEF IInv, OutcomeIsKnown, Advances
<1>8. SubmissionsUnique'
  BY DEF IInv, SubmissionsUnique, SameRows
<1>9. ReplicationFollowsLog'
  <2>1. \A m \in replication \cup pUdp : Known(m)
    BY DEF IInv, ReplicationFollowsLog, Known
  <2>2. \A sid : Unwritten(sid) => Unwritten(sid)'
    BY DEF Unwritten, Advances
  <2>3. \A m : Known(m) => Known(m)'
    BY <2>2 DEF Known, SameRows, SidsOf
  <2> QED
    BY <2>1, <2>3 DEF ReplicationFollowsLog, Known
<1> QED
  BY <1>3, <1>4, <1>5, <1>6, <1>7, <1>8, <1>9 DEF IInv

\* A step of the thread of j behind its INSERT, in the terms of QuietStep: t
\* is what becomes of the thread.
LEMMA ThreadStep ==
  ASSUME IInv, NEW j \in Jobs, NEW t \in Thread,
         pUp, Inserted(j), Live(j),
         pThread' = [pThread EXCEPT ![j] = t],
         t.pc \in Scheduled,
         t.sid = pThread[j].sid,
         t.receipt = pThread[j].receipt,
         pThread[j].unwritten => t.unwritten,
         t.unwritten => pThread[j].unwritten \/ DatabaseMayFail,
         t.pc \in {"logging", "replicatingOutcome"} => t.response # Pending,
         pLog' \in Seq(Row), SameRows,
         pPool' \subseteq Nodes,
         UNCHANGED <<pUp, pRestarts, pNextSid, pNextReceipt, pUdp>>,
         replication' \subseteq Replication,
         \A m \in replication' : m \in replication \/ Known(m)
  PROVE  IInv'
<1>1. TypeOK'
  BY DEF IInv, TypeOK
<1>2. \A k \in Jobs : Advances(k)
  BY DEF IInv, TypeOK, Advances
<1> QED
  BY <1>1, <1>2, QuietStep

\* A step that leaves every thread alone.
LEMMA ThreadlessStep ==
  ASSUME IInv, TypeOK', SameRows,
         UNCHANGED <<pUp, pNextSid, pThread>>,
         \A m \in replication' \cup pUdp' : m \in replication \cup pUdp \/ Known(m)
  PROVE  IInv'
<1>1. \A k \in Jobs : Advances(k)
  BY DEF Advances
<1> QED
  BY <1>1, QuietStep

-----------------------------------------------------------------------------
(***************************************************************************)
(* The thread of a request, behind its INSERT                              *)
(***************************************************************************)

\* Trying again moves the thread to the scheduler, or to the log with the
\* failure as its outcome.
LEMMA RetryStep ==
  ASSUME IInv, NEW j \in Jobs, pUp, Retry(j),
         pThread[j].pc \in {"scheduling", "calling"},
         pPool' \subseteq Nodes,
         UNCHANGED <<pUp, pRestarts, pLog, pNextSid, pNextReceipt, pUdp, replication>>
  PROVE  IInv'
<1> DEFINE again == pThread[j].attempt + 1 < MaxRetries
           t == [pc |-> IF again THEN "scheduling" ELSE "logging",
                 sid |-> pThread[j].sid,
                 receipt |-> pThread[j].receipt,
                 attempt |-> pThread[j].attempt + 1,
                 target |-> NoNode,
                 response |-> IF again THEN pThread[j].response ELSE Fatal,
                 unwritten |-> pThread[j].unwritten]
<1>1. pThread \in [Jobs -> Thread] /\ pThread[j] \in Thread
  BY DEF IInv, TypeOK
<1>2. Fatal \in Responses /\ Fatal # Pending
  BY DEF Fatal, Pending, Responses, Kinds
<1>3. t \in Thread
  <2>1. pThread[j].attempt + 1 \in Nat
    BY <1>1 DEF Thread
  <2>2. /\ pThread[j].sid \in Nat
        /\ pThread[j].receipt \in Nat
        /\ pThread[j].response \in Responses
        /\ pThread[j].unwritten \in BOOLEAN
    BY <1>1 DEF Thread
  <2> QED
    BY <1>2, <2>1, <2>2 DEF Thread, Pcs
<1>4. pThread' = [pThread EXCEPT ![j] = t]
  <2>1. pThread'[j] = t
    BY <1>1 DEF Retry, Thread
  <2>2. \A k \in Jobs : k # j => pThread'[k] = pThread[k]
    BY <1>1 DEF Retry
  <2>3. pThread' = [k \in Jobs |-> pThread'[k]]
    BY <1>1 DEF Retry
  <2> QED
    BY <1>1, <2>1, <2>2, <2>3
<1>5. /\ t.pc \in Scheduled
      /\ t.sid = pThread[j].sid
      /\ t.receipt = pThread[j].receipt
      /\ t.unwritten = pThread[j].unwritten
      /\ t.pc \in {"logging", "replicatingOutcome"} => t.response # Pending
  BY <1>1, <1>2 DEF Scheduled, Thread
<1>6. Inserted(j) /\ Live(j)
  BY DEF Inserted, Scheduled, Live
<1>7. pLog' \in Seq(Row) /\ SameRows /\ replication' \subseteq Replication
  BY DEF IInv, TypeOK, SameRows
<1> HIDE DEF t
<1> QED
  BY <1>3, <1>4, <1>5, <1>6, <1>7, ThreadStep

\* No node has room: a retry that leaves the pool alone.
LEMMA ReserveNoneStep ==
  ASSUME IInv, NEW j \in Jobs, ReserveNone(j)
  PROVE  IInv'
BY RetryStep DEF ReserveNone, IInv, TypeOK

\* A transport failure: a retry that takes the node out of the pool.
LEMMA ForwardFailsStep ==
  ASSUME IInv, NEW j \in Jobs, ForwardFails(j)
  PROVE  IInv'
BY RetryStep DEF ForwardFails, IInv, TypeOK

\* A node is chosen: the thread goes to call it.
LEMMA ReserveStep ==
  ASSUME IInv, NEW j \in Jobs, NEW n \in Nodes, Reserve(j, n)
  PROVE  IInv'
<1> DEFINE t == [pThread[j] EXCEPT !.pc = "calling", !.target = n]
<1>1. pThread \in [Jobs -> Thread] /\ pThread[j] \in Thread
  BY DEF IInv, TypeOK
<1>2. t \in Thread
  BY <1>1 DEF Thread, Pcs
<1>3. pThread' = [pThread EXCEPT ![j] = t]
  BY <1>1 DEF Reserve
<1>4. /\ t.pc = "calling"
      /\ t.sid = pThread[j].sid
      /\ t.receipt = pThread[j].receipt
      /\ t.unwritten = pThread[j].unwritten
  BY <1>1 DEF Thread
<1>5. pUp /\ Inserted(j) /\ Live(j)
  BY DEF Reserve, Inserted, Scheduled, Live
<1>6. /\ pLog' \in Seq(Row) /\ SameRows
      /\ pPool' \subseteq Nodes /\ replication' \subseteq Replication
      /\ UNCHANGED <<pUp, pRestarts, pNextSid, pNextReceipt, pUdp, replication>>
  BY DEF IInv, TypeOK, SameRows, Reserve
<1> HIDE DEF t
<1> QED
  BY <1>2, <1>3, <1>4, <1>5, <1>6, ThreadStep DEF Scheduled

\* A node's text is the thread's outcome, and it is not PENDING.
LEMMA ForwardReturnsStep ==
  ASSUME IInv, NEW j \in Jobs, NEW response \in Computed, ForwardReturns(j, response)
  PROVE  IInv'
<1> DEFINE t == [pThread[j] EXCEPT !.pc = "logging",
                                   !.target = NoNode,
                                   !.response = response]
<1>1. pThread \in [Jobs -> Thread] /\ pThread[j] \in Thread
  BY DEF IInv, TypeOK
<1>2. response \in Responses /\ response # Pending
  BY ComputedIsOutcome
<1>3. t \in Thread
  BY <1>1, <1>2 DEF Thread, Pcs
<1>4. pThread' = [pThread EXCEPT ![j] = t]
  BY <1>1 DEF ForwardReturns
<1>5. /\ t.pc = "logging"
      /\ t.sid = pThread[j].sid
      /\ t.receipt = pThread[j].receipt
      /\ t.unwritten = pThread[j].unwritten
      /\ t.response = response
  BY <1>1 DEF Thread
<1>6. pUp /\ Inserted(j) /\ Live(j)
  BY DEF ForwardReturns, Inserted, Scheduled, Live
<1>7. /\ pLog' \in Seq(Row) /\ SameRows
      /\ pPool' \subseteq Nodes /\ replication' \subseteq Replication
      /\ UNCHANGED <<pUp, pRestarts, pNextSid, pNextReceipt, pUdp, replication>>
  BY DEF IInv, TypeOK, SameRows, ForwardReturns
<1> HIDE DEF t
<1> QED
  BY <1>2, <1>3, <1>4, <1>5, <1>6, <1>7, ThreadStep DEF Scheduled

\* The steps that only move the thread on: what Goto makes of a thread.
LEMMA GotoThread ==
  ASSUME TypeOK, NEW j \in Jobs, NEW pc \in Pcs, Goto(j, pc)
  PROVE  \E t \in Thread : /\ pThread' = [pThread EXCEPT ![j] = t]
                           /\ t.pc = pc
                           /\ t.sid = pThread[j].sid
                           /\ t.receipt = pThread[j].receipt
                           /\ t.response = pThread[j].response
                           /\ t.unwritten = pThread[j].unwritten
<1> DEFINE t == [pThread[j] EXCEPT !.pc = pc]
<1>1. pThread \in [Jobs -> Thread] /\ pThread[j] \in Thread
  BY DEF TypeOK
<1>2. t \in Thread
  BY <1>1 DEF Thread
<1>3. pThread' = [pThread EXCEPT ![j] = t]
  BY <1>1 DEF Goto
<1>4. /\ t.pc = pc
      /\ t.sid = pThread[j].sid
      /\ t.receipt = pThread[j].receipt
      /\ t.response = pThread[j].response
      /\ t.unwritten = pThread[j].unwritten
  BY <1>1 DEF Thread
<1> HIDE DEF t
<1> QED
  BY <1>2, <1>3, <1>4

\* The answer is sent: nothing but the thread moves.
LEMMA ReplyStep ==
  ASSUME IInv, NEW j \in Jobs, Reply(j)
  PROVE  IInv'
<1>1. PICK t \in Thread : /\ pThread' = [pThread EXCEPT ![j] = t]
                          /\ t.pc = "done"
                          /\ t.sid = pThread[j].sid
                          /\ t.receipt = pThread[j].receipt
                          /\ t.unwritten = pThread[j].unwritten
  BY GotoThread DEF IInv, Reply, Pcs
<1>2. pUp /\ Inserted(j) /\ Live(j)
  BY DEF Reply, Inserted, Scheduled, Live
<1>3. /\ pLog' \in Seq(Row) /\ SameRows
      /\ pPool' \subseteq Nodes /\ replication' \subseteq Replication
      /\ UNCHANGED <<pUp, pRestarts, pNextSid, pNextReceipt, pUdp, replication>>
  BY DEF IInv, TypeOK, SameRows, Reply
<1> QED
  BY <1>1, <1>2, <1>3, ThreadStep DEF Scheduled

\* The insert that is sent is about the row the thread has just written.
LEMMA ReplicateInsertStep ==
  ASSUME IInv, NEW j \in Jobs, NEW sent \in BOOLEAN, ReplicateInsert(j, sent)
  PROVE  IInv'
<1> DEFINE message == InsertOf(RowOf(j))
<1>1. PICK t \in Thread : /\ pThread' = [pThread EXCEPT ![j] = t]
                          /\ t.pc = "scheduling"
                          /\ t.sid = pThread[j].sid
                          /\ t.receipt = pThread[j].receipt
                          /\ t.unwritten = pThread[j].unwritten
  BY GotoThread DEF IInv, ReplicateInsert, Pcs
<1>2. pUp /\ Inserted(j) /\ Live(j)
  BY DEF ReplicateInsert, Inserted, Live
<1>3. /\ pLog' \in Seq(Row) /\ SameRows
      /\ pPool' \subseteq Nodes
      /\ UNCHANGED <<pUp, pRestarts, pNextSid, pNextReceipt, pUdp>>
  BY DEF IInv, TypeOK, SameRows, ReplicateInsert
<1>4. pThread[j] \in Thread /\ pThread[j].sid \in Nat /\ pThread[j].receipt \in Nat
  BY DEF IInv, TypeOK, Thread
<1>5. message \in Replication
  <2>1. RowOf(j) \in Row
    BY <1>4 DEF RowOf, NewRow, Row, Pending, Responses, Kinds, Forwardings, Deliveries
  <2> QED
    BY <2>1 DEF Replication, InsertMessage, InsertOf
<1>6. Known(message)
  BY <1>2 DEF IInv, InsertedIsLogged, Known, InsertOf, RowOf, NewRow, Unwritten
<1>7. replication' \subseteq replication \cup {message}
  BY DEF ReplicateInsert, Replicate
<1>8. replication \subseteq Replication
  BY DEF IInv, TypeOK
<1> HIDE DEF message
<1> QED
  BY <1>1, <1>2, <1>3, <1>5, <1>6, <1>7, <1>8, ThreadStep DEF Scheduled

\* The update that is sent is about the row the thread wrote before.
LEMMA ReplicateOutcomeStep ==
  ASSUME IInv, NEW j \in Jobs, NEW sent \in BOOLEAN, ReplicateOutcome(j, sent)
  PROVE  IInv'
<1> DEFINE message == OutcomeUpdate(j)
<1>1. PICK t \in Thread : /\ pThread' = [pThread EXCEPT ![j] = t]
                          /\ t.pc = "replying"
                          /\ t.sid = pThread[j].sid
                          /\ t.receipt = pThread[j].receipt
                          /\ t.unwritten = pThread[j].unwritten
  BY GotoThread DEF IInv, ReplicateOutcome, Pcs
<1>2. pUp /\ Inserted(j) /\ Live(j)
  BY DEF ReplicateOutcome, Inserted, Scheduled, Live
<1>3. /\ pLog' \in Seq(Row) /\ SameRows
      /\ pPool' \subseteq Nodes
      /\ UNCHANGED <<pUp, pRestarts, pNextSid, pNextReceipt, pUdp>>
  BY DEF IInv, TypeOK, SameRows, ReplicateOutcome
<1>4. pThread[j] \in Thread /\ pThread[j].sid \in Nat /\ pThread[j].response \in Responses
  BY DEF IInv, TypeOK, Thread
<1>5. message \in Replication
  BY <1>4 DEF OutcomeUpdate, UpdateOf, OutcomeOf, Replication, UpdateMessage,
              Forwardings, Deliveries
<1>6. Known(message)
  BY <1>2 DEF IInv, InsertedIsLogged, Known, OutcomeUpdate, UpdateOf, SidsOf, Unwritten
<1>7. replication' \subseteq replication \cup {message}
  BY DEF ReplicateOutcome, Replicate
<1>8. replication \subseteq Replication
  BY DEF IInv, TypeOK
<1> HIDE DEF message
<1> QED
  BY <1>1, <1>2, <1>3, <1>5, <1>6, <1>7, <1>8, ThreadStep DEF Scheduled

\* Writing an outcome changes status columns, and the outcome is not PENDING.
LEMMA LogOutcomeStep ==
  ASSUME IInv, NEW j \in Jobs, LogOutcome(j)
  PROVE  IInv'
<1>1. PICK t \in Thread : /\ pThread' = [pThread EXCEPT ![j] = t]
                          /\ t.pc = "replicatingOutcome"
                          /\ t.sid = pThread[j].sid
                          /\ t.receipt = pThread[j].receipt
                          /\ t.unwritten = pThread[j].unwritten
                          /\ t.response = pThread[j].response
  BY GotoThread DEF IInv, LogOutcome, Pcs
<1>2. pUp /\ Inserted(j) /\ Live(j)
  BY DEF LogOutcome, Inserted, Scheduled, Live
<1>3. pThread[j].response # Pending
  BY DEF IInv, OutcomeIsKnown, LogOutcome
<1>4. /\ pPool' \subseteq Nodes /\ replication' \subseteq Replication
      /\ UNCHANGED <<pUp, pRestarts, pNextSid, pNextReceipt, pUdp, replication>>
  BY DEF IInv, TypeOK, LogOutcome
<1>5. pLog' \in Seq(Row) /\ SameRows
  <2>1. /\ pLog \in Seq(Row)
        /\ pThread[j].sid \in Nat
        /\ OutcomeOf(pThread[j]) \in Forwardings
        /\ pThread[j].response \in Responses
        /\ "DIRECT" \in Deliveries
    BY DEF IInv, TypeOK, Thread, OutcomeOf, Forwardings, Deliveries
  <2> QED
    BY <2>1, UpdatedKeepsRows DEF LogOutcome, SameRows
<1> QED
  BY <1>1, <1>2, <1>3, <1>4, <1>5, ThreadStep DEF Scheduled

\* The write fails: the thread goes on with the outcome it has.
LEMMA LogFailsStep ==
  ASSUME IInv, NEW j \in Jobs, LogFails(j)
  PROVE  IInv'
<1>1. PICK next \in {"replying", "replicatingOutcome"} :
        pThread' = [pThread EXCEPT ![j].pc = next, ![j].unwritten = TRUE]
  BY DEF LogFails
<1> DEFINE t == [pThread[j] EXCEPT !.pc = next, !.unwritten = TRUE]
<1>2. pThread \in [Jobs -> Thread] /\ pThread[j] \in Thread
  BY DEF IInv, TypeOK
<1>3. t \in Thread
  BY <1>2 DEF Thread, Pcs
<1>4. pThread' = [pThread EXCEPT ![j] = t]
  BY <1>1, <1>2
<1>5. /\ t.pc = next
      /\ t.sid = pThread[j].sid
      /\ t.receipt = pThread[j].receipt
      /\ t.unwritten = TRUE
      /\ t.response = pThread[j].response
  BY <1>2 DEF Thread
<1>6. pUp /\ Inserted(j) /\ Live(j) /\ DatabaseMayFail
  BY DEF LogFails, Inserted, Scheduled, Live
<1>7. pThread[j].response # Pending
  BY DEF IInv, OutcomeIsKnown, LogFails
<1>8. /\ pLog' \in Seq(Row) /\ SameRows
      /\ pPool' \subseteq Nodes /\ replication' \subseteq Replication
      /\ UNCHANGED <<pUp, pRestarts, pNextSid, pNextReceipt, pUdp, replication>>
  BY DEF IInv, TypeOK, SameRows, LogFails
<1> HIDE DEF t
<1> QED
  BY <1>3, <1>4, <1>5, <1>6, <1>7, <1>8, ThreadStep DEF Scheduled

-----------------------------------------------------------------------------
(***************************************************************************)
(* The UDP thread, the monitor thread and the network                      *)
(***************************************************************************)

\* A RESULT writes to the row it is about, if there is one; the update it is
\* replicated by says PENDING.
LEMMA ResultArrivesStep ==
  ASSUME IInv, NEW sid \in SidsOf(pLog) \cup ForeignSids, NEW response \in Computed,
         ResultArrives(sid, response)
  PROVE  IInv'
<1> DEFINE message == UpdateOf(sid, "FORWARDED", response, "PENDING")
<1>1. CASE ~OneLine(response)
  <2>1. TypeOK' /\ SameRows /\ UNCHANGED <<pUp, pNextSid, pThread, replication, pUdp>>
    BY <1>1 DEF IInv, TypeOK, ResultArrives, SameRows
  <2> QED
    BY <2>1, ThreadlessStep
<1>2. CASE OneLine(response)
  <2>1. /\ pLog \in Seq(Row)
        /\ response \in Responses
        /\ "FORWARDED" \in Forwardings
        /\ "PENDING" \in Deliveries
    BY ComputedIsOutcome DEF IInv, TypeOK, Forwardings, Deliveries
  <2>3. sid \in Nat
    BY <2>1, SidsAreNaturals, PrimaryAssumption
  <2>4. pLog' \in Seq(Row) /\ SameRows
    BY <1>2, <2>1, <2>3, UpdatedKeepsRows DEF ResultArrives, SameRows
  <2>5. message \in UpdateMessage
    BY <2>1, <2>3 DEF UpdateOf, UpdateMessage
  <2>6. Known(message)
    BY DEF Known, UpdateOf
  <2>7. /\ pUdp' = {message}
        /\ UNCHANGED <<pUp, pRestarts, pNextSid, pNextReceipt, pThread, pPool, replication>>
    BY <1>2 DEF ResultArrives
  <2> HIDE DEF message
  <2>8. TypeOK'
    BY <2>4, <2>5, <2>7 DEF IInv, TypeOK
  <2> QED
    BY <2>4, <2>6, <2>7, <2>8, ThreadlessStep
<1> QED
  BY <1>1, <1>2

\* A RESULT whose write fails is replicated or not; the log stays as it is.
LEMMA ResultFailsStep ==
  ASSUME IInv, NEW sid \in SidsOf(pLog) \cup ForeignSids, NEW response \in Computed,
         ResultFails(sid, response)
  PROVE  IInv'
<1> DEFINE message == UpdateOf(sid, "FORWARDED", response, "PENDING")
<1>1. /\ pLog \in Seq(Row)
      /\ response \in Responses
      /\ "FORWARDED" \in Forwardings
      /\ "PENDING" \in Deliveries
  BY ComputedIsOutcome DEF IInv, TypeOK, Forwardings, Deliveries
<1>2. sid \in Nat
  BY <1>1, SidsAreNaturals, PrimaryAssumption
<1>3. message \in UpdateMessage /\ Known(message)
  BY <1>1, <1>2 DEF UpdateOf, UpdateMessage, Known
<1>4. /\ pUdp' \subseteq pUdp \cup {message}
      /\ UNCHANGED <<pUp, pRestarts, pLog, pNextSid, pNextReceipt, pThread, pPool, replication>>
  BY DEF ResultFails
<1> HIDE DEF message
<1>5. TypeOK' /\ SameRows
  BY <1>3, <1>4 DEF IInv, TypeOK, SameRows
<1> QED
  BY <1>3, <1>4, <1>5, ThreadlessStep

\* The update the UDP thread sends was about a known row when it was made.
LEMMA ReplicateResultStep ==
  ASSUME IInv, NEW sent \in BOOLEAN, ReplicateResult(sent)
  PROVE  IInv'
<1>1. replication' \subseteq replication \cup pUdp /\ pUdp' = {}
  BY DEF ReplicateResult, Replicate
<1>2. pUdp \subseteq Replication
  BY DEF IInv, TypeOK, Replication
<1>3. TypeOK' /\ SameRows /\ UNCHANGED <<pUp, pNextSid, pThread>>
  BY <1>1, <1>2 DEF IInv, TypeOK, ReplicateResult, SameRows
<1> QED
  BY <1>1, <1>3, ThreadlessStep

\* The pool is apart from everything the invariant relates.
LEMMA HeartbeatStep ==
  ASSUME IInv, NEW n \in Nodes, Heartbeat(n) \/ Evict(n)
  PROVE  IInv'
<1>1. TypeOK' /\ SameRows /\ UNCHANGED <<pUp, pNextSid, pThread, replication, pUdp>>
  BY DEF IInv, TypeOK, Heartbeat, Evict, SameRows
<1> QED
  BY <1>1, ThreadlessStep

\* The network only takes messages away.
LEMMA ReplicaTakenStep ==
  ASSUME IInv, ReplicaTaken
  PROVE  IInv'
<1>1. replication' \subseteq replication
  BY DEF ReplicaTaken
<1>2. TypeOK' /\ SameRows /\ UNCHANGED <<pUp, pNextSid, pThread, pUdp>>
  BY <1>1 DEF IInv, TypeOK, ReplicaTaken, SameRows
<1> QED
  BY <1>1, <1>2, ThreadlessStep

-----------------------------------------------------------------------------
(***************************************************************************)
(* The steps that give an id, add a row, or end a process                  *)
(***************************************************************************)

\* The id a request is given is the counter's old value: above every id of
\* the log, and below the counter's new one.
LEMMA AcceptStep ==
  ASSUME IInv, NEW j \in Jobs, Accept(j)
  PROVE  IInv'
<1> DEFINE t == [pThread[j] EXCEPT !.pc = "inserting",
                                   !.sid = pNextSid,
                                   !.receipt = pNextReceipt]
<1>1. /\ pThread \in [Jobs -> Thread] /\ pThread[j] \in Thread
      /\ pNextSid \in Nat /\ pNextReceipt \in Nat
      /\ pLog \in Seq(Row)
  BY DEF IInv, TypeOK
<1>2. t \in Thread
  BY <1>1 DEF Thread, Pcs
<1>3. pThread' = [pThread EXCEPT ![j] = t]
  BY <1>1 DEF Accept
<1>4. t.pc = "inserting" /\ t.sid = pNextSid
  BY <1>1 DEF Thread
<1>5. /\ pUp
      /\ pNextSid' = pNextSid + 1
      /\ pNextReceipt' = pNextReceipt + 1
      /\ UNCHANGED <<pUp, pRestarts, pLog, pPool, pUdp, replication>>
  BY DEF Accept, TakeIds
<1> HIDE DEF t
<1>6. pThread'[j] = t /\ \A k \in Jobs : k # j => pThread'[k] = pThread[k]
  BY <1>1, <1>2, <1>3
<1>7. TypeOK'
  BY <1>1, <1>2, <1>3, <1>5 DEF IInv, TypeOK
<1>8. \A i \in DOMAIN pLog : pLog[i].sid \in Nat /\ pLog[i].sid < pNextSid
  <2>1. \A i \in DOMAIN pLog : pLog[i] \in Row
    BY <1>1
  <2>2. \A row \in Row : row.sid \in Nat
    BY DEF Row
  <2> QED
    BY <2>1, <2>2 DEF IInv, LogBelowCounter
<1>9. LogBelowCounter'
  BY <1>1, <1>5, <1>8 DEF LogBelowCounter
<1>10. LiveIdsAreOwn'
  <2>1. \A k \in Jobs : k # j /\ Live(k)' =>
           /\ Live(k)
           /\ Inserted(k)' <=> Inserted(k)
           /\ pThread'[k].sid = pThread[k].sid
           /\ pThread[k].sid < pNextSid
           /\ pThread[k].sid \in Nat
    BY <1>1, <1>6 DEF Live, Inserted, IInv, LiveIdsAreOwn, Thread
  <2>2. \A k \in Jobs : Live(k)' => pThread'[k].sid < pNextSid'
    BY <1>1, <1>4, <1>5, <1>6, <2>1
  <2>3. \A k \in Jobs : Live(k)' => \A i \in DOMAIN pLog' :
          pLog'[i].sid = pThread'[k].sid => Inserted(k)' /\ pLog'[i].job = k
    BY <1>1, <1>4, <1>5, <1>6, <1>8, <2>1 DEF IInv, LiveIdsAreOwn
  <2>4. \A k, l \in Jobs : Live(k)' /\ Live(l)' /\ pThread'[k].sid = pThread'[l].sid => k = l
    BY <1>1, <1>4, <1>6, <2>1 DEF IInv, LiveIdsAreOwn
  <2> QED
    BY <2>2, <2>3, <2>4 DEF LiveIdsAreOwn
<1>11. InsertedIsLogged' /\ UnwrittenHasCause'
  <2>1. ~pThread[j].unwritten /\ pThread'[j].unwritten = pThread[j].unwritten
    BY <1>1, <1>6 DEF IInv, UnwrittenHasCause, Inserted, Scheduled, Accept, Thread
  <2>2. ~Inserted(j)'
    BY <1>4, <1>6 DEF Inserted, Scheduled
  <2> QED
    BY <1>5, <1>6, <2>1, <2>2 DEF IInv, InsertedIsLogged, UnwrittenHasCause, Inserted
<1>12. DeadIsQuiet' /\ OutcomeIsKnown'
  BY <1>4, <1>5, <1>6 DEF IInv, DeadIsQuiet, OutcomeIsKnown
<1>13. SubmissionsUnique' /\ ReplicationFollowsLog'
  <2>1. \A sid : Unwritten(sid) => Unwritten(sid)'
    BY <1>6 DEF Unwritten, IInv, UnwrittenHasCause, Inserted, Scheduled, Accept
  <2> QED
    BY <1>5, <2>1 DEF IInv, SubmissionsUnique, ReplicationFollowsLog
<1> QED
  BY <1>7, <1>9, <1>10, <1>11, <1>12, <1>13 DEF IInv

\* A request that does not parse burns an id: the counter moves, nothing else.
LEMMA RejectStep ==
  ASSUME IInv, NEW j \in Jobs, Reject(j)
  PROVE  IInv'
<1>1. PICK t \in Thread : /\ pThread' = [pThread EXCEPT ![j] = t]
                          /\ t.pc = "rejected"
                          /\ t.unwritten = pThread[j].unwritten
  BY GotoThread DEF IInv, Reject, Pcs
<1>2. /\ pThread \in [Jobs -> Thread]
      /\ pNextSid \in Nat /\ pNextReceipt \in Nat
      /\ pLog \in Seq(Row)
  BY DEF IInv, TypeOK
<1>3. /\ pUp
      /\ pNextSid' = pNextSid + 1
      /\ pNextReceipt' = pNextReceipt + 1
      /\ UNCHANGED <<pUp, pRestarts, pLog, pPool, pUdp, replication>>
  BY DEF Reject, TakeIds
<1>4. pThread'[j] = t /\ \A k \in Jobs : k # j => pThread'[k] = pThread[k]
  BY <1>1, <1>2
<1>5. TypeOK'
  BY <1>1, <1>2, <1>3 DEF IInv, TypeOK
<1>6. LogBelowCounter'
  <2>1. \A i \in DOMAIN pLog : pLog[i] \in Row
    BY <1>2
  <2>2. \A row \in Row : row.sid \in Nat
    BY DEF Row
  <2> QED
    BY <1>2, <1>3, <2>1, <2>2 DEF IInv, LogBelowCounter
<1>7. \A k \in Jobs : Live(k)' => /\ Live(k)
                                  /\ Inserted(k)' <=> Inserted(k)
                                  /\ pThread'[k] = pThread[k]
                                  /\ pThread[k].sid \in Nat
  BY <1>1, <1>2, <1>4 DEF Live, Inserted, Thread
<1>8. LiveIdsAreOwn'
  <2>1. \A k \in Jobs : Live(k)' => pThread'[k].sid < pNextSid'
    BY <1>2, <1>3, <1>7 DEF IInv, LiveIdsAreOwn
  <2> QED
    BY <1>3, <1>7, <2>1 DEF IInv, LiveIdsAreOwn
<1>9. InsertedIsLogged' /\ UnwrittenHasCause'
  <2>1. ~pThread[j].unwritten /\ ~Inserted(j)' /\ pThread'[j].unwritten = pThread[j].unwritten
    BY <1>1, <1>4 DEF IInv, UnwrittenHasCause, Inserted, Scheduled, Reject
  <2> QED
    BY <1>3, <1>4, <2>1 DEF IInv, InsertedIsLogged, UnwrittenHasCause, Inserted
<1>10. DeadIsQuiet' /\ OutcomeIsKnown'
  BY <1>1, <1>3, <1>4 DEF IInv, DeadIsQuiet, OutcomeIsKnown
<1>11. SubmissionsUnique' /\ ReplicationFollowsLog'
  <2>1. \A sid : Unwritten(sid) => Unwritten(sid)'
    BY <1>4 DEF Unwritten, IInv, UnwrittenHasCause, Inserted, Scheduled, Reject
  <2> QED
    BY <1>3, <2>1 DEF IInv, SubmissionsUnique, ReplicationFollowsLog
<1> QED
  BY <1>5, <1>6, <1>8, <1>9, <1>10, <1>11 DEF IInv

\* The row a thread inserts has an id no row and no other waiting thread has.
LEMMA InsertStep ==
  ASSUME IInv, NEW j \in Jobs, Insert(j)
  PROVE  IInv'
<1> DEFINE row == RowOf(j)
           n == Len(pLog) + 1
<1>1. PICK t \in Thread : /\ pThread' = [pThread EXCEPT ![j] = t]
                          /\ t.pc = "replicatingInsert"
                          /\ t.sid = pThread[j].sid
                          /\ t.receipt = pThread[j].receipt
                          /\ t.unwritten = pThread[j].unwritten
  BY GotoThread DEF IInv, Insert, Pcs
<1>2. /\ pThread \in [Jobs -> Thread] /\ pThread[j] \in Thread
      /\ pLog \in Seq(Row)
      /\ replication \subseteq Replication
  BY DEF IInv, TypeOK
<1>3. /\ pUp
      /\ Waiting(j)
      /\ pLog' = Append(pLog, row)
      /\ UNCHANGED <<pUp, pRestarts, pNextSid, pNextReceipt, pPool, pUdp, replication>>
  BY DEF Insert, Waiting
<1>4. pThread'[j] = t /\ \A k \in Jobs : k # j => pThread'[k] = pThread[k]
  BY <1>1, <1>2
<1>5. /\ row \in Row
      /\ row.sid = pThread[j].sid
      /\ row.receipt = pThread[j].receipt
      /\ row.job = j
  BY <1>2 DEF Thread, RowOf, NewRow, Row, Pending, Responses, Kinds, Forwardings, Deliveries
<1> HIDE DEF row
<1>6. /\ pLog' \in Seq(Row)
      /\ DOMAIN pLog' = DOMAIN pLog \cup {n}
      /\ n \notin DOMAIN pLog
      /\ \A i \in DOMAIN pLog : pLog'[i] = pLog[i]
      /\ pLog'[n] = row
  BY <1>2, <1>3, <1>5, AppendKeepsRows
<1> HIDE DEF n
<1>7. TypeOK'
  BY <1>1, <1>2, <1>3, <1>6 DEF IInv, TypeOK
<1>8. LogBelowCounter'
  BY <1>3, <1>5, <1>6 DEF IInv, LogBelowCounter, LiveIdsAreOwn, Waiting, Live
<1>9. LiveIdsAreOwn'
  <2>1. \A k \in Jobs : Live(k)' => /\ Live(k)
                                    /\ pThread'[k].sid = pThread[k].sid
                                    /\ Inserted(k) => Inserted(k)'
    BY <1>1, <1>3, <1>4 DEF Waiting, Live, Inserted
  <2>2. Live(j) /\ Inserted(j)'
    BY <1>1, <1>3, <1>4 DEF Waiting, Live, Inserted
  <2>3. \A k \in Jobs : Live(k)' => \A i \in DOMAIN pLog' :
          pLog'[i].sid = pThread'[k].sid => Inserted(k)' /\ pLog'[i].job = k
    BY <1>5, <1>6, <2>1, <2>2 DEF IInv, LiveIdsAreOwn
  <2> QED
    BY <1>3, <2>1, <2>3 DEF IInv, LiveIdsAreOwn
<1>10. InsertedIsLogged' /\ UnwrittenHasCause'
  <2>1. \A k \in Jobs : k # j /\ Inserted(k)' /\ ~pThread'[k].unwritten =>
          \E i \in DOMAIN pLog' : /\ pLog'[i].sid = pThread'[k].sid
                                  /\ pLog'[i].receipt = pThread'[k].receipt
                                  /\ pLog'[i].job = k
    BY <1>4, <1>6 DEF IInv, InsertedIsLogged, Inserted
  <2>2. /\ pLog'[n].sid = pThread'[j].sid
        /\ pLog'[n].receipt = pThread'[j].receipt
        /\ pLog'[n].job = j
    BY <1>1, <1>4, <1>5, <1>6
  <2>3. InsertedIsLogged'
    BY <1>6, <2>1, <2>2 DEF InsertedIsLogged
  <2>4. UnwrittenHasCause'
    BY <1>1, <1>4 DEF IInv, UnwrittenHasCause, Inserted
  <2> QED
    BY <2>3, <2>4
<1>11. DeadIsQuiet' /\ OutcomeIsKnown'
  BY <1>1, <1>3, <1>4 DEF IInv, DeadIsQuiet, OutcomeIsKnown
<1>12. SubmissionsUnique'
  <2>1. \A i \in DOMAIN pLog : pLog'[i].sid # pLog'[n].sid
    BY <1>3, <1>5, <1>6 DEF IInv, LiveIdsAreOwn, Waiting, Live, Inserted, Scheduled
  <2> QED
    BY <1>6, <2>1 DEF IInv, SubmissionsUnique
<1>13. ReplicationFollowsLog'
  <2>1. \A m \in replication' \cup pUdp' : Known(m)
    BY <1>3 DEF IInv, ReplicationFollowsLog, Known
  <2>2. \A sid : Unwritten(sid) => Unwritten(sid)'
    BY <1>1, <1>4 DEF Unwritten
  <2>3. \A m : Known(m) => Known(m)'
    BY <1>6, <2>2 DEF Known, SidsOf
  <2> QED
    BY <2>1, <2>3 DEF ReplicationFollowsLog, Known
<1> QED
  BY <1>7, <1>8, <1>9, <1>10, <1>11, <1>12, <1>13 DEF IInv

\* The INSERT fails: the thread goes on behind it, without a row.
LEMMA InsertFailsStep ==
  ASSUME IInv, NEW j \in Jobs, InsertFails(j)
  PROVE  IInv'
<1>1. PICK next \in {"scheduling", "replicatingInsert"} :
        pThread' = [pThread EXCEPT ![j].pc = next, ![j].unwritten = TRUE]
  BY DEF InsertFails
<1> DEFINE t == [pThread[j] EXCEPT !.pc = next, !.unwritten = TRUE]
<1>2. pThread \in [Jobs -> Thread] /\ pThread[j] \in Thread
  BY DEF IInv, TypeOK
<1>3. t \in Thread
  BY <1>2 DEF Thread, Pcs
<1>4. pThread' = [pThread EXCEPT ![j] = t]
  BY <1>1, <1>2
<1>5. /\ t.pc = next
      /\ t.sid = pThread[j].sid
      /\ t.unwritten = TRUE
  BY <1>2 DEF Thread
<1>6. /\ pUp /\ Waiting(j) /\ DatabaseMayFail
      /\ UNCHANGED <<pUp, pRestarts, pLog, pNextSid, pNextReceipt, pPool, pUdp, replication>>
  BY DEF InsertFails, Waiting
<1> HIDE DEF t
<1>7. pThread'[j] = t /\ \A k \in Jobs : k # j => pThread'[k] = pThread[k]
  BY <1>2, <1>3, <1>4
<1>8. TypeOK'
  BY <1>2, <1>3, <1>4, <1>6 DEF IInv, TypeOK
<1>9. LogBelowCounter' /\ DeadIsQuiet' /\ OutcomeIsKnown'
  BY <1>5, <1>6, <1>7 DEF IInv, LogBelowCounter, DeadIsQuiet, OutcomeIsKnown
<1>10. LiveIdsAreOwn'
  <2>1. \A k \in Jobs : Live(k)' => /\ Live(k)
                                    /\ pThread'[k].sid = pThread[k].sid
                                    /\ Inserted(k) => Inserted(k)'
    BY <1>5, <1>6, <1>7 DEF Waiting, Live, Inserted, Scheduled
  <2> QED
    BY <1>6, <2>1 DEF IInv, LiveIdsAreOwn
<1>11. InsertedIsLogged' /\ UnwrittenHasCause'
  <2>1. pThread'[j].unwritten /\ Inserted(j)'
    BY <1>5, <1>7 DEF Inserted, Scheduled
  <2> QED
    BY <1>6, <1>7, <2>1 DEF IInv, InsertedIsLogged, UnwrittenHasCause, Inserted
<1>12. SubmissionsUnique' /\ ReplicationFollowsLog'
  <2>1. \A sid : Unwritten(sid) => Unwritten(sid)'
    BY <1>5, <1>7 DEF Unwritten
  <2> QED
    BY <1>6, <2>1 DEF IInv, SubmissionsUnique, ReplicationFollowsLog
<1> QED
  BY <1>8, <1>9, <1>10, <1>11, <1>12 DEF IInv

\* A crash ends every thread under way, so none is live.
LEMMA CrashStep ==
  ASSUME IInv, Crash
  PROVE  IInv'
<1>1. pThread \in [Jobs -> Thread]
  BY DEF IInv, TypeOK
<1>2. /\ pUp' = FALSE /\ pPool' = {} /\ pUdp' = {}
      /\ UNCHANGED <<pRestarts, pLog, pNextSid, pNextReceipt, replication>>
  BY DEF Crash
<1>3. \A k \in Jobs : /\ Live(k) => pThread'[k] = [pThread[k] EXCEPT !.pc = "gone"]
                      /\ ~Live(k) => pThread'[k] = pThread[k]
  BY DEF Crash
<1>4. pThread' \in [Jobs -> Thread]
  <2>1. \A k \in Jobs : [pThread[k] EXCEPT !.pc = "gone"] \in Thread
    BY <1>1 DEF Thread, Pcs
  <2>2. \A k \in Jobs : pThread'[k] \in Thread
    BY <1>1, <1>3, <2>1
  <2> QED
    BY <2>2 DEF Crash
<1>5. TypeOK'
  BY <1>2, <1>4 DEF IInv, TypeOK
<1>6. ASSUME NEW k \in Jobs, Live(k) PROVE pThread'[k].pc = "gone"
  <2>1. pThread'[k] = [pThread[k] EXCEPT !.pc = "gone"]
    BY <1>3, <1>6
  <2>2. pThread[k] \in Thread
    BY <1>1
  <2> QED
    BY <2>1, <2>2 DEF Thread
<1>7. ASSUME NEW k \in Jobs PROVE ~Live(k)'
  <2>1. CASE Live(k)
    <3>1. pThread'[k].pc = "gone"
      BY <1>6, <2>1
    <3> QED
      BY <3>1 DEF Live
  <2>2. CASE ~Live(k)
    <3>1. pThread'[k] = pThread[k]
      BY <1>3, <2>2
    <3> QED
      BY <2>2, <3>1 DEF Live
  <2> QED
    BY <2>1, <2>2
<1>8. \A k \in Jobs : Inserted(k)' => Inserted(k) /\ pThread'[k] = pThread[k]
  BY <1>3, <1>6 DEF Inserted, Scheduled
<1>9. LogBelowCounter' /\ LiveIdsAreOwn' /\ DeadIsQuiet'
  BY <1>2, <1>7 DEF IInv, LogBelowCounter, LiveIdsAreOwn, DeadIsQuiet
<1>10. InsertedIsLogged' /\ UnwrittenHasCause'
  <2>1. InsertedIsLogged'
    BY <1>2, <1>8 DEF IInv, InsertedIsLogged
  <2>2. \A k \in Jobs : pThread'[k].unwritten = pThread[k].unwritten
    BY <1>1, <1>3 DEF Thread
  <2>3. \A k \in Jobs : pThread'[k].pc = "gone" \/ pThread'[k] = pThread[k]
    BY <1>3, <1>6
  <2>4. UnwrittenHasCause'
    BY <2>2, <2>3 DEF IInv, UnwrittenHasCause, Inserted
  <2> QED
    BY <2>1, <2>4
<1>11. OutcomeIsKnown'
  BY <1>7 DEF OutcomeIsKnown, Live
<1>12. SubmissionsUnique' /\ ReplicationFollowsLog'
  <2>1. \A k \in Jobs : /\ pThread'[k].unwritten = pThread[k].unwritten
                        /\ pThread'[k].sid = pThread[k].sid
    BY <1>1, <1>3 DEF Thread
  <2>2. \A sid : Unwritten(sid) => Unwritten(sid)'
    BY <2>1 DEF Unwritten
  <2> QED
    BY <1>2, <2>2 DEF IInv, SubmissionsUnique, ReplicationFollowsLog
<1> QED
  BY <1>5, <1>9, <1>10, <1>11, <1>12 DEF IInv

\* A restart recomputes the counter from the log.  That may give an id again,
\* but only one no row has; and no live thread has such an id.
LEMMA RestartStep ==
  ASSUME IInv, Restart
  PROVE  IInv'
<1>1. pLog \in Seq(Row) /\ pNextSid \in Nat
  BY DEF IInv, TypeOK
<1>2. /\ ~pUp
      /\ pUp' = TRUE
      /\ pRestarts' = pRestarts + 1
      /\ pNextSid' = NextSubmission(pLog)
      /\ pNextReceipt' = NextReceipt(pLog)
      /\ UNCHANGED <<pLog, pThread, pPool, pUdp, replication>>
  BY DEF Restart
<1>3. /\ NextSubmission(pLog) \in Nat
      /\ \A i \in DOMAIN pLog : pLog[i].sid < NextSubmission(pLog)
  BY <1>1, NextSubmissionIsFresh DEF IInv, LogBelowCounter
<1>4. TypeOK'
  BY <1>1, <1>2, <1>3, NextReceiptType DEF IInv, TypeOK
<1>5. LogBelowCounter'
  BY <1>2, <1>3 DEF LogBelowCounter
<1>6. \A j \in Jobs : ~Live(j)'
  BY <1>2 DEF IInv, DeadIsQuiet, Live
<1>7. LiveIdsAreOwn' /\ DeadIsQuiet'
  BY <1>2, <1>6 DEF LiveIdsAreOwn, DeadIsQuiet
<1>8. /\ InsertedIsLogged' /\ UnwrittenHasCause' /\ OutcomeIsKnown'
      /\ SubmissionsUnique' /\ ReplicationFollowsLog'
  BY <1>2 DEF IInv, InsertedIsLogged, UnwrittenHasCause, Inserted, OutcomeIsKnown,
              SubmissionsUnique, ReplicationFollowsLog, Unwritten
<1> QED
  BY <1>4, <1>5, <1>7, <1>8 DEF IInv

-----------------------------------------------------------------------------
(***************************************************************************)
(* The invariant, and what follows from it                                 *)
(***************************************************************************)

\* A process that starts with an empty log satisfies the invariant.
LEMMA InitInvariant == Init => IInv
<1> SUFFICES ASSUME Init
             PROVE  IInv
  OBVIOUS
<1>1. /\ pUp = TRUE /\ pRestarts = 0 /\ pLog = <<>>
      /\ pNextSid = 1001 /\ pNextReceipt = 2001
      /\ pPool \subseteq Nodes /\ pUdp = {} /\ replication = {}
  BY DEF Init, InitWith, NextSubmission, NextReceipt
<1>2. IdleThread \in Thread
  BY DEF IdleThread, Thread, Pcs, Pending, Responses, Kinds
<1>3. \A j \in Jobs : pThread[j].pc = "idle" /\ ~pThread[j].unwritten
  BY DEF Init, InitWith, IdleThread
<1>4. TypeOK
  BY <1>1, <1>2 DEF TypeOK, Init, InitWith
<1> QED
  BY <1>1, <1>3, <1>4 DEF IInv, LogBelowCounter, LiveIdsAreOwn, Live, InsertedIsLogged,
     UnwrittenHasCause, Inserted, Scheduled, DeadIsQuiet, OutcomeIsKnown, SubmissionsUnique, ReplicationFollowsLog

\* Every step of the primary keeps the invariant.
LEMMA StepInvariant == IInv /\ [Next]_pVars => IInv'
<1> SUFFICES ASSUME IInv, [Next]_pVars
             PROVE  IInv'
  OBVIOUS
<1>1. ASSUME NEW j \in Jobs, ClientStep(j) PROVE IInv'
  BY <1>1, AcceptStep, RejectStep, InsertStep, InsertFailsStep, ReplicateInsertStep,
     ReserveStep, ReserveNoneStep, ForwardReturnsStep, ForwardFailsStep, LogOutcomeStep,
     LogFailsStep, ReplicateOutcomeStep, ReplyStep DEF ClientStep
<1>2. CASE UdpStep
  BY <1>2, ResultArrivesStep, ResultFailsStep, ReplicateResultStep, HeartbeatStep DEF UdpStep
<1>3. CASE \E n \in Nodes : Evict(n)
  BY <1>3, HeartbeatStep
<1>4. CASE Crash
  BY <1>4, CrashStep
<1>5. CASE Restart
  BY <1>5, RestartStep
<1>6. CASE ReplicaTaken
  BY <1>6, ReplicaTakenStep
<1>7. CASE UNCHANGED pVars
  <2>1. TypeOK' /\ SameRows
    BY <1>7 DEF pVars, IInv, TypeOK, SameRows
  <2> QED
    BY <1>7, <2>1, ThreadlessStep DEF pVars
<1> QED
  BY <1>1, <1>2, <1>3, <1>4, <1>5, <1>6, <1>7 DEF Next

\* The invariant holds in every reachable state.
THEOREM Invariant == Spec => []IInv
BY InitInvariant, StepInvariant, PTL DEF Spec

\* Type correctness: every variable of the primary keeps its type.
THEOREM TypeCorrect == Spec => []TypeOK
<1>1. IInv => TypeOK
  BY DEF IInv
<1> QED
  BY <1>1, Invariant, PTL

\* However many clients, ids burned by rejected requests, crashes and
\* restarts: the submission id of a row is no other row's (master.cpp:241-260).
THEOREM UniqueSubmissions == Spec => []SubmissionsUnique
<1>1. IInv => SubmissionsUnique
  BY DEF IInv
<1> QED
  BY <1>1, Invariant, PTL

\* Whatever a request got to before the process died, if it got as far as
\* the scheduler its row is on disk, unless SQLite refused a write of it
\* (master.cpp:485, 491).
THEOREM WriteAheadHolds == Spec => []WriteAhead
<1>1. IInv => WriteAhead
  BY DEF IInv, InsertedIsLogged, Inserted, WriteAhead
<1> QED
  BY <1>1, Invariant, PTL

\* No request whose writes succeeded sends the backup a row that the primary's
\* log does not hold, or an outcome of one (master.cpp:277-287, 301-310).
THEOREM ReplicationFollows == Spec => []ReplicationFollowsLog
<1>1. IInv => ReplicationFollowsLog
  BY DEF IInv
<1> QED
  BY <1>1, Invariant, PTL

-----------------------------------------------------------------------------
(***************************************************************************)
(* What a step does to the rows there are                                  *)
(***************************************************************************)

\* The parameters of the two UPDATEs have their types.
LEMMA LogOutcomeArguments ==
  ASSUME IInv, NEW j \in Jobs, LogOutcome(j)
  PROVE  /\ pLog \in Seq(Row)
         /\ pThread[j].sid \in Nat
         /\ OutcomeOf(pThread[j]) \in Forwardings
         /\ pThread[j].response \in Responses
         /\ "DIRECT" \in Deliveries
         /\ pThread[j].response # Pending
BY DEF IInv, TypeOK, Thread, OutcomeOf, Forwardings, Deliveries, OutcomeIsKnown, LogOutcome

\* A RESULT makes a well typed UPDATE, and not one to PENDING.
LEMMA ResultArguments ==
  ASSUME IInv, NEW sid \in SidsOf(pLog) \cup ForeignSids, NEW response \in Computed
  PROVE  /\ pLog \in Seq(Row)
         /\ sid \in Nat
         /\ "FORWARDED" \in Forwardings
         /\ response \in Responses
         /\ "PENDING" \in Deliveries
         /\ response # Pending
<1>1. pLog \in Seq(Row)
  BY DEF IInv, TypeOK
<1>2. sid \in Nat
  BY <1>1, SidsAreNaturals, PrimaryAssumption
<1> QED
  BY <1>1, <1>2, ComputedIsOutcome DEF Forwardings, Deliveries

\* INSERT and UPDATE are the only statements a step runs on the log.
LEMMA StepOnLog ==
  ASSUME IInv, [Next]_pVars
  PROVE  \/ \E j \in Jobs : Insert(j) \/ LogOutcome(j)
         \/ \E sid \in SidsOf(pLog) \cup ForeignSids, response \in Computed :
              ResultArrives(sid, response)
         \/ pLog' = pLog
BY DEF Next, ClientStep, UdpStep, pVars, Accept, Reject, ReplicateInsert, Reserve, ReserveNone,
       ForwardReturns, ForwardFails, ReplicateOutcome, Reply, ReplicateResult, Heartbeat, Evict,
       Crash, Restart, ReplicaTaken, InsertFails, LogFails, ResultFails

\* No step removes a row, gives it to another job or forgets its outcome
\* (master.cpp:262-311, 361-388).
THEOREM RowsPermanent == Spec => RowsArePermanent
<1>1. IInv /\ [Next]_pVars => RowsStay
  <2> SUFFICES ASSUME IInv, [Next]_pVars
               PROVE  RowsStay
    OBVIOUS
  <2>1. pLog \in Seq(Row)
    BY DEF IInv, TypeOK
  <2>2. ASSUME NEW j \in Jobs, Insert(j) PROVE RowsStay
    <3>1. \A i \in DOMAIN Append(pLog, RowOf(j)) \ {Len(pLog) + 1} :
            Append(pLog, RowOf(j))[i] = pLog[i]
      BY <2>1
    <3>2. Len(Append(pLog, RowOf(j))) = Len(pLog) + 1 /\ Len(pLog) \in Nat
      BY <2>1
    <3>3. DOMAIN pLog = 1..Len(pLog)
      BY <2>1
    <3>4. \A i \in DOMAIN pLog : Append(pLog, RowOf(j))[i] = pLog[i]
      BY <2>1, <3>1, <3>2, <3>3
    <3> QED
      BY <2>2, <3>2, <3>4 DEF Insert, RowsStay
  <2>3. ASSUME NEW j \in Jobs, LogOutcome(j) PROVE RowsStay
    BY <2>1, <2>3, LogOutcomeArguments, UpdatedKeepsRows DEF LogOutcome, RowsStay
  <2>4. ASSUME NEW sid \in SidsOf(pLog) \cup ForeignSids, NEW response \in Computed, ResultArrives(sid, response)
        PROVE  RowsStay
    <3>1. CASE OneLine(response)
      BY <2>1, <2>4, <3>1, ResultArguments, UpdatedKeepsRows DEF ResultArrives, RowsStay
    <3>2. CASE ~OneLine(response)
      BY <2>1, <2>4, <3>2 DEF ResultArrives, RowsStay
    <3> QED
      BY <3>1, <3>2
  <2>5. CASE pLog' = pLog
    BY <2>1, <2>5 DEF RowsStay
  <2> QED
    BY <2>2, <2>3, <2>4, <2>5, StepOnLog
<1> QED
  BY <1>1, Invariant, PTL DEF Spec, RowsArePermanent

-----------------------------------------------------------------------------
(***************************************************************************)
(* What the log says of a request that was answered                        *)
(***************************************************************************)

AnsweredPcs == {"replicatingOutcome", "replying", "done"}
Answered(j) == pThread[j].pc \in AnsweredPcs /\ ~pThread[j].unwritten

\* The row's outcome is the one the thread has, or a RESULT's.
RecordedIn(row, response) ==
  \/ row.response = response /\ row.delivery = "DIRECT"
  \/ OneLine(row.response) /\ row.delivery = "PENDING"

\* A live request does not share the id of a request that has its row.
LEMMA IdsAreOwn ==
  ASSUME IInv, NEW j \in Jobs, NEW k \in Jobs,
         Live(j), Inserted(k), ~pThread[k].unwritten,
         pThread[j].sid = pThread[k].sid
  PROVE  j = k
<1>1. PICK i \in DOMAIN pLog : pLog[i].sid = pThread[k].sid /\ pLog[i].job = k
  BY DEF IInv, InsertedIsLogged
<1> QED
  BY <1>1 DEF IInv, LiveIdsAreOwn

\* A thread is as answered as it was: it moved no further, or not at all.
StaysAnswered(k) ==
  Answered(k)' => /\ Answered(k)
                  /\ pThread'[k].unwritten = pThread[k].unwritten
                  /\ pThread'[k].sid = pThread[k].sid
                  /\ pThread'[k].response = pThread[k].response

\* Only log_master's UPDATE takes a thread to the answered ones.
LEMMA AnsweredByLogOutcome ==
  ASSUME IInv, [Next]_pVars, NEW k \in Jobs
  PROVE  StaysAnswered(k) \/ LogOutcome(k)
<1>1. /\ pThread \in [Jobs -> Thread]
      /\ \A j \in Jobs, pc \in Pcs : Goto(j, pc) =>
           /\ pThread'[j].pc = pc
           /\ pThread'[j].sid = pThread[j].sid
           /\ pThread'[j].response = pThread[j].response
           /\ pThread'[j].unwritten = pThread[j].unwritten
           /\ \A l \in Jobs : l # j => pThread'[l] = pThread[l]
  BY DEF IInv, TypeOK, Goto, Thread
<1> USE DEF StaysAnswered, Answered, AnsweredPcs, Pcs
<1>2. ASSUME NEW j \in Jobs, ClientStep(j) PROVE StaysAnswered(k) \/ LogOutcome(k)
  <2>1. CASE Accept(j)
    BY <1>1, <2>1 DEF Accept, Thread
  <2>2. CASE Reject(j)
    BY <1>1, <2>2 DEF Reject
  <2>3. CASE Insert(j)
    BY <1>1, <2>3 DEF Insert
  <2>4. CASE \E sent \in BOOLEAN : ReplicateInsert(j, sent)
    BY <1>1, <2>4 DEF ReplicateInsert
  <2>5. CASE \E n \in Nodes : Reserve(j, n)
    BY <1>1, <2>5 DEF Reserve, Thread
  <2>6. CASE ReserveNone(j) \/ ForwardFails(j)
    BY <1>1, <2>6 DEF ReserveNone, ForwardFails, Retry, Thread
  <2>7. CASE \E response \in Computed : ForwardReturns(j, response)
    BY <1>1, <2>7 DEF ForwardReturns, Thread
  <2>8. CASE LogOutcome(j)
    BY <1>1, <2>8 DEF LogOutcome
  <2>9. CASE \E sent \in BOOLEAN : ReplicateOutcome(j, sent)
    BY <1>1, <2>9 DEF ReplicateOutcome
  <2>10. CASE Reply(j)
    BY <1>1, <2>10 DEF Reply
  <2>11. CASE InsertFails(j)
    BY <1>1, <2>11 DEF InsertFails, Thread
  <2>12. CASE LogFails(j)
    BY <1>1, <2>12 DEF LogFails, Thread
  <2> QED
    BY <1>2, <2>1, <2>2, <2>3, <2>4, <2>5, <2>6, <2>7, <2>8, <2>9, <2>10, <2>11, <2>12
       DEF ClientStep
<1>3. CASE Crash
  BY <1>1, <1>3 DEF Crash, Thread
<1>4. CASE UdpStep \/ (\E n \in Nodes : Evict(n)) \/ Restart \/ ReplicaTaken \/ UNCHANGED pVars
  <2>1. pThread' = pThread
    BY <1>4 DEF UdpStep, ResultArrives, ResultFails, ReplicateResult, Heartbeat, Evict, Restart, ReplicaTaken,
                pVars
  <2> QED
    BY <2>1
<1> QED
  BY <1>2, <1>3, <1>4 DEF Next

\* When a request is answered the log holds the answer, or a RESULT that came
\* later; no other request, and no restart, overwrites it (master.cpp:521-523).
THEOREM AnswersRecorded == Spec => []AnsweredIsRecorded
<1>1. Init => AnsweredIsRecorded
  BY DEF Init, InitWith, AnsweredIsRecorded
<1>2. IInv /\ AnsweredIsRecorded /\ [Next]_pVars => AnsweredIsRecorded'
  <2> SUFFICES ASSUME IInv, AnsweredIsRecorded, [Next]_pVars,
                      NEW k \in Jobs, Answered(k)',
                      NEW i \in DOMAIN pLog', pLog'[i].sid = pThread'[k].sid
               PROVE  RecordedIn(pLog'[i], pThread'[k].response)
    BY DEF AnsweredIsRecorded, Answered, AnsweredPcs, RecordedIn
  <2>1. pLog \in Seq(Row) /\ pThread \in [Jobs -> Thread]
    BY DEF IInv, TypeOK
  <2>2. CASE LogOutcome(k)
    <3>1. pThread'[k].sid = pThread[k].sid /\ pThread'[k].response = pThread[k].response
      BY <2>1, <2>2 DEF LogOutcome, Goto, Thread
    <3>2. pLog' = Updated(pLog, pThread[k].sid, OutcomeOf(pThread[k]),
                          pThread[k].response, "DIRECT")
      BY <2>2 DEF LogOutcome
    <3>3. /\ DOMAIN pLog' = DOMAIN pLog
          /\ pLog'[i].sid = pLog[i].sid
          /\ pLog[i].sid = pThread[k].sid =>
               pLog'[i].response = pThread[k].response /\ pLog'[i].delivery = "DIRECT"
      BY <2>2, <3>2, LogOutcomeArguments, UpdatedKeepsRows
    <3> QED
      BY <3>1, <3>3 DEF RecordedIn
  <2>3. CASE StaysAnswered(k)
    <3>1. /\ Answered(k)
          /\ pThread'[k].sid = pThread[k].sid
          /\ pThread'[k].response = pThread[k].response
          /\ Inserted(k)
      BY <2>3 DEF StaysAnswered, Answered, AnsweredPcs, Inserted, Scheduled
    <3>2. ASSUME i \in DOMAIN pLog, pLog[i].sid = pThread[k].sid
          PROVE  RecordedIn(pLog[i], pThread[k].response)
      BY <3>1, <3>2 DEF AnsweredIsRecorded, Answered, AnsweredPcs, RecordedIn
    <3>3. CASE pLog' = pLog
      BY <3>1, <3>2, <3>3
    <3>4. ASSUME NEW j \in Jobs, Insert(j)
          PROVE  RecordedIn(pLog'[i], pThread'[k].response)
      <4>1. PICK l \in DOMAIN pLog : pLog[l].sid = pThread[k].sid
        BY <3>1 DEF IInv, InsertedIsLogged, Answered
      <4>2. pThread[j].sid # pThread[k].sid
        BY <3>4, <4>1 DEF IInv, LiveIdsAreOwn, Live, Inserted, Scheduled, Insert
      <4>3. /\ Len(pLog') = Len(pLog) + 1
            /\ DOMAIN pLog' = DOMAIN pLog \cup {Len(pLog) + 1}
            /\ pLog'[Len(pLog) + 1] = RowOf(j)
            /\ \A m \in DOMAIN pLog : pLog'[m] = pLog[m]
        <5>1. /\ Len(Append(pLog, RowOf(j))) = Len(pLog) + 1
              /\ DOMAIN pLog = 1..Len(pLog) /\ Len(pLog) \in Nat
              /\ Append(pLog, RowOf(j))[Len(pLog) + 1] = RowOf(j)
              /\ \A m \in 1..Len(pLog) : Append(pLog, RowOf(j))[m] = pLog[m]
              /\ DOMAIN Append(pLog, RowOf(j)) = 1..(Len(pLog) + 1)
          BY <2>1
        <5> QED
          BY <3>4, <5>1 DEF Insert
      <4>4. RowOf(j).sid = pThread[j].sid
        BY DEF RowOf, NewRow
      <4>5. i \in DOMAIN pLog
        BY <3>1, <4>2, <4>3, <4>4
      <4> QED
        BY <3>1, <3>2, <4>3, <4>5
    <3>5. ASSUME NEW j \in Jobs, LogOutcome(j)
          PROVE  RecordedIn(pLog'[i], pThread'[k].response)
      <4>1. Live(j) /\ j # k
        BY <3>1, <3>5 DEF LogOutcome, Live, Answered, AnsweredPcs
      <4>2. pThread[j].sid # pThread[k].sid
        BY <3>1, <4>1, IdsAreOwn DEF Answered
      <4>3. i \in DOMAIN pLog /\ pLog'[i].sid = pLog[i].sid
        BY <3>5, LogOutcomeArguments, UpdatedKeepsRows DEF LogOutcome
      <4>4. pLog'[i] = pLog[i]
        BY <3>1, <3>5, <4>2, <4>3, LogOutcomeArguments, UpdatedKeepsRows DEF LogOutcome
      <4> QED
        BY <3>1, <3>2, <4>3, <4>4
    <3>6. ASSUME NEW sid \in SidsOf(pLog) \cup ForeignSids, NEW response \in Computed,
                 ResultArrives(sid, response), pLog' # pLog
          PROVE  RecordedIn(pLog'[i], pThread'[k].response)
      <4>1. OneLine(response) /\ pLog' = Updated(pLog, sid, "FORWARDED", response, "PENDING")
        BY <3>6 DEF ResultArrives
      <4>2. /\ i \in DOMAIN pLog
            /\ pLog'[i].sid = pLog[i].sid
            /\ pLog[i].sid # sid => pLog'[i] = pLog[i]
            /\ pLog[i].sid = sid => pLog'[i].response = response /\ pLog'[i].delivery = "PENDING"
        BY <4>1, ResultArguments, UpdatedKeepsRows
      <4>3. CASE pLog[i].sid = sid
        BY <4>1, <4>2, <4>3 DEF RecordedIn
      <4>4. CASE pLog[i].sid # sid
        BY <3>1, <3>2, <4>2, <4>4
      <4> QED
        BY <4>3, <4>4
    <3> QED
      BY <3>3, <3>4, <3>5, <3>6, StepOnLog
  <2> QED
    BY <2>2, <2>3, AnsweredByLogOutcome
<1> QED
  BY <1>1, <1>2, Invariant, PTL DEF Spec
=============================================================================
