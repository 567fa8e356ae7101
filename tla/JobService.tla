----------------------------- MODULE JobService -----------------------------
(***************************************************************************)
(* What the cluster promises its clients, whoever serves them and whatever *)
(* fails.  A job is taken under a number; it is executed any number of     *)
(* times, but never before it is taken; its client gets at most one direct *)
(* answer, the output of an execution of its own job or a failure, and any *)
(* number of callbacks, each the output of a finished execution of a job   *)
(* with that number, never a failure.                                      *)
(*                                                                         *)
(* Numbers may be given twice: each master numbers what it takes.          *)
(***************************************************************************)
EXTENDS JobsLog

CONSTANT Numbers \* the submission ids a master may give

VARIABLES
  number,    \* per job, its submission id, 0 before it is taken
  executed,  \* per execution name, the job and how it ended
  direct,    \* per job, the answer on the connection it was submitted on
  callbacks  \* per job, the texts sent to its listener

vars == <<number, executed, direct, callbacks>>

NotStarted == [of |-> {}, kind |-> "PENDING"]

Init ==
  /\ number = [j \in Jobs |-> 0]
  /\ executed = [r \in Runs |-> NotStarted]
  /\ direct = [j \in Jobs |-> Pending]
  /\ callbacks = [j \in Jobs |-> <<>>]

Take(j) ==
  /\ number[j] = 0
  /\ \E s \in Numbers : number' = [number EXCEPT ![j] = s]
  /\ UNCHANGED <<executed, direct, callbacks>>

Execute(j, r) ==
  /\ number[j] # 0
  /\ executed[r] = NotStarted
  /\ executed' = [executed EXCEPT ![r].of = {j}]
  /\ UNCHANGED <<number, direct, callbacks>>

Finish(r, kind) ==
  /\ executed[r].of # {}
  /\ executed[r].kind = "PENDING"
  /\ executed' = [executed EXCEPT ![r].kind = kind]
  /\ UNCHANGED <<number, direct, callbacks>>

OutputsOf(js) ==
  {[kind |-> executed[r].kind, run |-> r] :
     r \in {q \in Runs : executed[q].kind # "PENDING" /\ executed[q].of \subseteq js}}

Namesakes(j) == {k \in Jobs : number[k] = number[j]}

Answer(j, response) ==
  /\ number[j] # 0
  /\ direct[j] = Pending
  /\ response \in OutputsOf({j}) \cup {Fatal}
  /\ direct' = [direct EXCEPT ![j] = response]
  /\ UNCHANGED <<number, executed, callbacks>>

CallBack(j, response) ==
  /\ number[j] # 0
  /\ response \in OutputsOf(Namesakes(j))
  /\ callbacks' = [callbacks EXCEPT ![j] = Append(@, response)]
  /\ UNCHANGED <<number, executed, direct>>

Next ==
  \/ \E j \in Jobs :
       \/ Take(j)
       \/ \E r \in Runs : Execute(j, r)
       \/ \E response \in Computed \cup {Fatal} : Answer(j, response)
       \/ \E response \in Computed : CallBack(j, response)
  \/ \E r \in Runs, kind \in RunKinds : Finish(r, kind)

Spec == Init /\ [][Next]_vars
=============================================================================
