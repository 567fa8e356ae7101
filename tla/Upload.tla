------------------------------- MODULE Upload -------------------------------
(***************************************************************************)
(* The way of a job and its executable from the client's files to a node:  *)
(* the client attaches the encoded executable to the job file and sends    *)
(* it (module Framing), the primary takes the job out, replicates it and   *)
(* forwards it, the node takes out what it was forwarded, by the primary   *)
(* or by the backup from its replica, and decodes the executable (module   *)
(* Base64).  Framing shows that a connection carries a payload whole or    *)
(* not at all; the later legs are taken for such connections.              *)
(***************************************************************************)
EXTENDS Records

CONSTANTS Names,               \* what stands between the quotes of "name"
          HeaderLength, Base,  \* of module Framing
          Bytes, MaxLength     \* of module Base64

VARIABLES
  name,      \* the name in the job file, as it is written there
  uploaded,  \* the client could read the executable, and it is not empty
  payload, sender, sent, got, reader, received,  \* the client's connection
  stage,     \* how far the job is
  job,       \* receive_job_from_client
  row,       \* the backup's row
  task,      \* receive_forwarded_job
  data, text, pc, pos, buf, bits, pad, out       \* the executable

F == INSTANCE Framing
B == INSTANCE Base64

\* What a job file can hold between two quotes.
Quotable(n) ==
  n \in Seq({n[i] : i \in DOMAIN n}) /\ n # Missing /\ EndOfString(n \o <<Q>>, 1) = Len(n) + 1

ASSUME UploadAssumption ==
  /\ F!FramingAssumption
  /\ B!Base64Assumption
  /\ \A n \in Names : Quotable(n)
  /\ \A n \in Names, u \in BOOLEAN : Len(ClientPayload(n, u)) < Base^HeaderLength

fVars == <<sender, sent, got, reader, received>>
rVars == <<stage, job, row, task>>
bVars == <<data, text, pc, pos, buf, bits, pad, out>>
inputs == <<name, uploaded, payload>>
vars == <<inputs, fVars, rVars, bVars>>

Init ==
  /\ name \in Names
  /\ B!Init
  /\ uploaded \in BOOLEAN
  /\ data = <<>> => ~uploaded
  /\ payload = ClientPayload(name, uploaded)
  /\ F!Init
  /\ stage = "sending"
  /\ job = {}
  /\ row = {}
  /\ task = {}

Send == stage = "sending" /\ F!Send /\ UNCHANGED <<name, uploaded, rVars, bVars>>
Stalls == stage = "sending" /\ F!Stalls /\ UNCHANGED <<name, uploaded, rVars, bVars>>
Breaks == stage = "sending" /\ F!Breaks /\ UNCHANGED <<name, uploaded, rVars, bVars>>
Read == stage = "sending" /\ F!Read /\ UNCHANGED <<name, uploaded, rVars, bVars>>

\* handle_client: nothing is done with an empty payload.
Receive ==
  /\ stage = "sending"
  /\ reader # "reading"
  /\ IF received = <<>>
     THEN stage' = "dropped" /\ UNCHANGED job
     ELSE /\ job' = {ReceivedJob(received)}
          /\ stage' = IF \A j \in job' : Parses(j) THEN "received" ELSE "rejected"
  /\ UNCHANGED <<inputs, fVars, row, task, bVars>>

RowOf(j) == [name |-> j.name, callback |-> j.callback, payload |-> ForwardPayload(j)]

Replicate ==
  /\ stage = "received"
  /\ row' = {ReplicatedRow(InsertMessage(RowOf(j))) : j \in job}
  /\ stage' = "replicated"
  /\ UNCHANGED <<inputs, fVars, job, task, bVars>>

\* The primary forwards what it made, the backup what it stored.
Forwarded == {ForwardPayload(j) : j \in job} \cup {r.payload : r \in row}

Execute ==
  /\ stage = "replicated"
  /\ \E p \in Forwarded : task' = {ForwardedJob(p)}
  /\ stage' = IF \E t \in task' : ~Parses(t) THEN "failed"
              ELSE IF \E t \in task' : t.code = <<>> THEN "running" ELSE "decoding"
  /\ UNCHANGED <<inputs, fVars, job, row, bVars>>

Decode == stage = "decoding" /\ B!Next /\ UNCHANGED <<inputs, fVars, rVars>>

Next == Send \/ Stalls \/ Breaks \/ Read \/ Receive \/ Replicate \/ Execute \/ Decode

\* Either end of the connection goes on while it can.
Fairness == WF_vars(Send) /\ WF_vars(Read)

Spec == Init /\ [][Next]_vars /\ Fairness

-----------------------------------------------------------------------------
\* Framing implements a channel on the client's connection.
ChannelImplemented == F!ChannelImplemented

\* A name whose end the scan takes for one of `keys': it stands in quotes.
EndsInKey(t, keys) ==
  t # <<>> /\ Last(t) \in keys /\ (Len(t) = 1 \/ t[Len(t) - 1] = Q)

\* What is looked for behind the name, in a job and in a replicated row.
JobKeys == {"executable", "executable_b64", "min_cores"}
RowKeys == {"response_status", "client_callback_address", "forward_payload"}

\* Quotes, backslashes, line ends, colons and braces in a name, escaped up to
\* three times over on the way, change nothing of what the node executes: by
\* either master it is given the client's job, and neither the primary's nor
\* the node's parser refuses it.  Only a name that ends in the
\* name of a field looked for later leads the scan astray
\* (job_forward.cpp:13-29, job.cpp:69-94, job_execution.cpp:13-36).
NodeGetsJob ==
  EndsInKey(name, JobKeys \cup RowKeys)
    \/ /\ stage # "rejected"
       /\ \A t \in task :
            t = [sid        |-> <<"1001">>,
                 name       |-> name,
                 executable |-> <<"path">>,
                 code       |-> IF uploaded THEN <<"code">> ELSE <<>>,
                 min_cores  |-> <<"2">>]

\* What the backup stores of a replicated INSERT is the primary's row, the
\* payload to replay included, with the same exception
\* (master.cpp:281-287, backup.cpp:682-698).
ReplicaIsRow ==
  \A r \in row, j \in job :
    EndsInKey(name, RowKeys)
      \/ r = [name |-> j.name, response |-> <<"PENDING">>, callback |-> j.callback,
              payload |-> ForwardPayload(j)]

DecodesPrefix == B!DecodesPrefix
AlignedRoundTrip == B!AlignedRoundTrip

\* The exchange ends at the reader, however the bytes arrive and wherever the
\* connection breaks: no loop waits for bytes the other one does not send.
\* Only a sender that gives up or vanishes without closing its connection
\* leaves the reader waiting (master.cpp:315-337, client.cpp:186-193, 336).
ExchangeEnds == <>(reader # "reading" \/ sender = "stalled")
=============================================================================
