------------------------------ MODULE JobsLog ------------------------------
(***************************************************************************)
(* The jobs_log table (master.cpp:365-385, backup.cpp:568-588) and the SQL *)
(* statements the primary and the backup issue against their copy of it.   *)
(*                                                                         *)
(* A log is a sequence of rows; the position of a row is its AUTOINCREMENT *)
(* id, because no statement of the program deletes a row.  Of a row the    *)
(* model keeps what a later decision reads: the submission id, the forward *)
(* payload (the job, and the receipt id written into it) and the three     *)
(* status columns.  sender, timestamp and the callback address are not     *)
(* read by any decision.                                                   *)
(***************************************************************************)
EXTENDS Integers, Sequences, FiniteSetsExt

CONSTANTS Jobs, \* the jobs clients submit, one request each
          Runs, \* names of the executions a compute node can be asked for
          RunKinds \* how an execution can end: OUTPUT, ERROR

ASSUME RunsAssumption == /\ Runs \subseteq Nat \ {0}
                         /\ RunKinds \subseteq {"OUTPUT", "ERROR"}

(***************************************************************************)
(* A response text, by what the program distinguishes: PENDING, the        *)
(* multi-line text of a completed execution, the single line of a compute  *)
(* error, and the texts a master writes itself.  `run' is the execution    *)
(* that produced the text, 0 when none did.                                *)
(***************************************************************************)
Kinds == {"PENDING", "OUTPUT", "ERROR", "FATAL"}
Responses == [kind : Kinds, run : Runs \cup {0}]

Pending == [kind |-> "PENDING", run |-> 0]
Fatal   == [kind |-> "FATAL", run |-> 0]

Computed == [kind : RunKinds, run : Runs]

Forwardings == {"PENDING", "FORWARDED", "FAILED", "RECOVERED"}
Deliveries  == {"PENDING", "DIRECT", "DELIVERED", "UNDELIVERED"}

Row == [sid : Nat, receipt : Nat, job : Jobs,
        forwarding : Forwardings, response : Responses, delivery : Deliveries]

\* What an INSERT stores: every caller passes PENDING for both statuses and
\* the statement itself writes the delivery status 'PENDING'.
NewRow(sid, receipt, job) ==
  [sid |-> sid, receipt |-> receipt, job |-> job,
   forwarding |-> "PENDING", response |-> Pending, delivery |-> "PENDING"]

\* Mutant of Updated: the newest row, whatever its id.
UpdatedNewest(log, sid, forwarding, response, delivery) ==
  [i \in DOMAIN log |->
     IF i = Len(log)
     THEN [log[i] EXCEPT !.forwarding = forwarding,
                         !.response = response,
                         !.delivery = delivery]
     ELSE log[i]]

\* UPDATE ... WHERE submission_id = sid: every row with that id, none if
\* there is none.
Updated(log, sid, forwarding, response, delivery) ==
  [i \in DOMAIN log |->
     IF log[i].sid = sid
     THEN [log[i] EXCEPT !.forwarding = forwarding,
                         !.response = response,
                         !.delivery = delivery]
     ELSE log[i]]

SidsOf(log) == {log[i].sid : i \in DOMAIN log}

\* Mutant of NextSubmission: the largest id again.
NextSubmissionNotAdvanced(log) == IF log = <<>> THEN 1001 ELSE Max(SidsOf(log))

\* SELECT COALESCE(MAX(submission_id), 1000) + 1: the first id a process
\* that starts on this log hands out.
NextSubmission(log) == IF log = <<>> THEN 1001 ELSE Max(SidsOf(log)) + 1

\* SELECT COALESCE(MAX(id), 2000) + 1, over the row ids.
NextReceipt(log) == IF log = <<>> THEN 2001 ELSE Len(log) + 1
=============================================================================
