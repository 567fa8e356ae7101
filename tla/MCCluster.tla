------------------------------ MODULE MCCluster ------------------------------
(* Small instances of Cluster. *)
EXTENDS Cluster, TLC

Symmetry == Permutations(Jobs) \cup Permutations(Nodes)

(***************************************************************************)
(* For liveness each master is looked at by itself, in three states of the *)
(* cluster a death of the other leads to; jobs are numbers there.          *)
(*  - The backup is dead, and the primary about to serve two requests.     *)
(*  - The primary is dead, after it took two requests and replicated their *)
(*    rows: the backup has to promote and recover both.                    *)
(*  - The primary is dead and knew of no job; one client turns to the      *)
(*    backup, which may recover the request's row while it serves it.  (The *)
(*    other's request did not parse.)                                      *)
(* Nodes may die in each of them, and come back in the second.             *)
(***************************************************************************)
Rows(jobs) == [i \in DOMAIN jobs |-> NewRow(1000 + i, 2000 + i, jobs[i])]

\* What became of j's request: cut off, rejected, or not sent yet.
Request(jobs, rejected, j) ==
  IF j \in rejected THEN [P!IdleThread EXCEPT !.pc = "rejected"]
  ELSE IF \E i \in DOMAIN jobs : jobs[i] = j
  THEN LET i == CHOOSE i \in DOMAIN jobs : jobs[i] = j
       IN  [P!IdleThread EXCEPT !.pc = "gone", !.sid = 1000 + i, !.receipt = 2000 + i]
  ELSE P!IdleThread

Primary(up, jobs, rejected) ==
  /\ pUp = up
  /\ pRestarts = 0
  /\ pLog = Rows(jobs)
  /\ pNextSid = 1001 + Len(jobs) + Cardinality(rejected)
  /\ pNextReceipt = 2001 + Len(jobs) + Cardinality(rejected)
  /\ pThread = [j \in Jobs |-> Request(jobs, rejected, j)]
  /\ pPool = {}
  /\ pUdp = {}
  /\ replication = {}

Backup(up, jobs) ==
  /\ bConfigured = TRUE
  /\ bUp = up
  /\ bRestarts = 0
  /\ promoted = FALSE
  /\ bFailures = 0
  /\ bLog = Rows(jobs)
  /\ bNextSid = 1001
  /\ bNextReceipt = 2001
  /\ bThread = [j \in Jobs |-> B!IdleRequest]
  /\ bPool = {}
  /\ rThread = B!IdleRecovery
  /\ callbacks = [j \in Jobs |-> <<>>]

OneMasterLeft ==
  /\ nodeUp = Nodes
  /\ run = [r \in Runs |-> N!Unused]
  /\ results = {}
  /\ faults = 0
  /\ \/ Primary(TRUE, <<>>, {}) /\ Backup(FALSE, <<>>) /\ nodeRestarts = MaxNodeRestarts
     \/ Primary(FALSE, <<1, 2>>, {}) /\ Backup(TRUE, <<1, 2>>) /\ nodeRestarts = 0
     \/ Primary(FALSE, <<>>, {1}) /\ Backup(TRUE, <<>>) /\ nodeRestarts = MaxNodeRestarts

LiveSpec == OneMasterLeft /\ [][Next]_vars /\ Fairness
=============================================================================
