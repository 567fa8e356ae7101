----------------------------- MODULE ComputeNode -----------------------------
(***************************************************************************)
(* The compute nodes, src/compute/compute.cpp.                             *)
(*                                                                         *)
(* handle_master serves one connection in a thread of its own: it executes *)
(* the job, answers on the connection, then publishes the same text to     *)
(* both masters in one UDP datagram each.  A connection is a run here.     *)
(* The caller may be gone when the answer is sent (SIGPIPE is ignored and  *)
(* send's result not read): the node publishes all the same.               *)
(***************************************************************************)
EXTENDS JobsLog

CONSTANTS Nodes, NoNode,
          Callers,         \* the threads that call forward_to_compute
          MaxNodeRestarts  \* bound: restarts of nodes explored

VARIABLES
  nodeUp,       \* the nodes that run
  nodeRestarts, \* how often one was restarted
  run,          \* per execution name, its connection
  results       \* RESULT datagrams on their way

nVars == <<nodeUp, nodeRestarts, run, results>>

(***************************************************************************)
(* unused: no such run.  executing: the thread runs the job.  answering,   *)
(* publishing: about to send on the connection, by UDP.  lost: the node    *)
(* died first.  The connection is open until its caller has read the       *)
(* answer or its end, or has died, or until it breaks under a caller who   *)
(* goes on without it.                                                     *)
(***************************************************************************)
Run == [pc : {"unused", "executing", "answering", "publishing", "done", "lost"},
        node : Nodes \cup {NoNode}, sid : Nat, job : Jobs \cup {NoNode},
        caller : Callers \cup {NoNode},
        kind : {"PENDING", "OUTPUT", "ERROR"},
        connection : {"closed", "open", "answered", "broken"}]

Unused == [pc |-> "unused", node |-> NoNode, sid |-> 0, job |-> NoNode,
           caller |-> NoNode, kind |-> "PENDING", connection |-> "closed"]

Result == [to : {"primary", "backup"}, sid : Nat, response : Computed]

Init ==
  /\ nodeUp = Nodes
  /\ nodeRestarts = 0
  /\ run = [r \in Runs |-> Unused]
  /\ results = {}

ResponseOf(r) == [kind |-> run[r].kind, run |-> r]

RunsOf(j) == {r \in Runs : run[r].job = j}

\* Names are given in order.
NextRun(r) == run[r].pc = "unused" /\ \A q \in Runs : run[q].pc = "unused" => r <= q

\* A forward request is read and parsed.
Start(r, caller, n, sid, job) ==
  /\ n \in nodeUp
  /\ NextRun(r)
  /\ run' = [run EXCEPT ![r] = [pc |-> "executing", node |-> n, sid |-> sid,
                                job |-> job, caller |-> caller,
                                kind |-> "PENDING", connection |-> "open"]]
  /\ UNCHANGED <<nodeUp, nodeRestarts, results>>

\* The job is executed, or the handler throws before it can be: the
\* executable does not decode, or no temporary file can be written.
Finish(r, kind) ==
  /\ run[r].pc = "executing"
  /\ run' = [run EXCEPT ![r].pc = "answering", ![r].kind = kind]
  /\ UNCHANGED <<nodeUp, nodeRestarts, results>>

\* Mutant of Answer: the thread does not wait for the job.
AnswerEarly(r) ==
  /\ run[r].pc \in {"executing", "answering"}
  /\ run' = [run EXCEPT ![r].pc = "publishing",
                        ![r].connection = IF @ = "open" THEN "answered" ELSE @]
  /\ UNCHANGED <<nodeUp, nodeRestarts, results>>

Answer(r) ==
  /\ run[r].pc = "answering"
  /\ run' = [run EXCEPT ![r].pc = "publishing",
                        ![r].connection = IF @ = "open" THEN "answered" ELSE @]
  /\ UNCHANGED <<nodeUp, nodeRestarts, results>>

\* send_result: a datagram to each master.
Publish(r) ==
  /\ run[r].pc = "publishing"
  /\ run' = [run EXCEPT ![r].pc = "done"]
  /\ results' = results \cup
       {[to |-> m, sid |-> run[r].sid, response |-> ResponseOf(r)] :
          m \in {"primary", "backup"}}
  /\ UNCHANGED <<nodeUp, nodeRestarts>>

\* The caller's end: it has read what there is to read, or has died.
Hangup(rs) ==
  run' = [r \in Runs |-> IF r \in rs THEN [run[r] EXCEPT !.connection = "closed"]
                         ELSE run[r]]

\* connect, send or read fails at the caller's end, which gives the call up;
\* the handler does not notice.
Break(r) == run' = [run EXCEPT ![r].connection = "broken"]

Crash(n) ==
  /\ n \in nodeUp
  /\ nodeUp' = nodeUp \ {n}
  /\ run' = [r \in Runs |->
               IF run[r].node = n /\ run[r].pc # "done"
               THEN [run[r] EXCEPT !.pc = "lost"] ELSE run[r]]
  /\ UNCHANGED <<nodeRestarts, results>>

Restart(n) ==
  /\ n \notin nodeUp
  /\ nodeRestarts < MaxNodeRestarts
  /\ nodeUp' = nodeUp \cup {n}
  /\ nodeRestarts' = nodeRestarts + 1
  /\ UNCHANGED <<run, results>>

-----------------------------------------------------------------------------
\* Every variable has its type.
TypeOK ==
  /\ nodeUp \subseteq Nodes
  /\ nodeRestarts \in Nat
  /\ run \in [Runs -> Run]
  /\ results \subseteq Result
=============================================================================
