# Cluster_middleware in TLA+

A model of the cluster middleware in `src/`: a client submits a job to a
primary master, which logs it, runs it on a compute node and answers; a backup
master holds a replica of the log and takes over when the primary dies. The
modules below model the two masters thread by thread, the compute nodes, the
clients as far as they decide anything, the messages and faults between them,
the choice of a node, and the texts a job travels in. TLC checks small
instances; TLAPS proves the safety of the two masters and of the whole cluster,
that the cluster is the service clients are promised, why a node is
oversubscribed, that a connection in pieces carries whole payloads, what arrives of
an uploaded file, and that a job comes out of the texts it travels in as it went
in, for every size.

## 1. The system

| Part | Source | State | Operations |
|---|---|---|---|
| Primary master | `master/master.cpp` | `jobs_log` (SQLite), `next_submission_id`, `next_receipt_id`, `compute_nodes`, a thread per connection, `db_mutex` | `handle_client`, `insert_job_log`, `update_job_log`, `replicate_to_backup`, `reserve_compute_node`, `forward_to_compute`, `udp_heartbeat_listener`, `dead_compute_monitor`, `init_sequence_counters` |
| Backup master | `master/backup.cpp` | its own `jobs_log`, `promoted_to_master`, `consecutive_failures`, the same counters and pool | replicate branch and client branch of `handle_client`, `primary_monitor_loop`, `primary_is_reachable`, `recover_pending_jobs_loop` (`load_pending_jobs`, `replay_to_compute`, `deliver_to_client`) |
| Compute node | `compute/compute.cpp` | free cores and memory, `execution_log` | `handle_master`, `execute`, `send_result`, `send_heartbeats` |
| Client | `client/client.cpp` | the callbacks its listener received | submit, fall back to the backup, `recovery_listener` |
| Job codec | `common/base64.hpp` | the decoder's bit buffer | `base64_encode`, `base64_decode` |
| Job records, JSON | `*/jobs/*.cpp` | none | string building and extraction |
| Configuration | `common/config_parser.hpp` | none after start | read once |
| Wire framing | `send_socket_payload`, `read_socket_payload` and the like | partial reads | length-prefixed messages over TCP |

How they interact:

- client to master: one TCP connection per job; the answer comes back on it.
  A client turns to the backup only if its connection to the primary fails.
- primary to backup: one TCP connection per replicated INSERT or UPDATE, made
  while `db_mutex` is held, its result ignored. The backup serves each in a
  thread of its own, so they may be applied in any order.
- master to node: one TCP connection per execution, with no read timeout. When
  it ends before an answer, whether the node died or only the connection broke,
  the call is a transport failure and the master tries again, up to three times.
- node to both masters: UDP heartbeats, and a `RESULT:<sid>:<text>` datagram
  after each execution, whoever asked for it.
- backup to primary: a TCP connect as health check. After
  `primary_failure_threshold` failures in a row, or one failed check made for a
  client's request, the backup is promoted, for good.
- backup to client: a callback connection with a recovered answer.

What is hard about it: an UPDATE finds its row by `submission_id` alone, with
two masters handing ids out; one job's row is written by up to four threads of
two processes; a node may be working for a master that is dead; the recovery
thread decides on a copy of the rows; nothing a master sends is retried.
PROJECT.json, "hazards", lists these at their lines.

What makes each part correct, in short:

- primary: ids are unique, the row is written before the job runs, an answered
  client's answer is in the log, replication never runs ahead of the log, all
  this as long as SQLite takes the writes, whose results nobody looks at;
- backup: passive until it has cause to promote; its log follows the primary's;
  what it marks DELIVERED was sent to the client's listener; a replay that was
  answered is not repeated;
- cluster: a client gets the output of its own job; requests, pending rows and
  a dead primary are all dealt with eventually;
- node: one answer for one connection, the same text to everyone;
- pool: a node is oversubscribed only for a known reason, its counters come
  back, no reservation is kept for ever;
- texts: what a node executes, and what the backup stores, is what the client
  submitted, whatever its name contains; a payload arrives whole or not at all;
- codec: what is decoded is what was encoded.

## 2. The modules

| Module | Models | Notes |
|---|---|---|
| `JobsLog` | table `jobs_log` and its SQL statements | a sequence of rows; a row's position is its AUTOINCREMENT id, since nothing deletes rows |
| `Primary` | `master.cpp` | an open system: nodes' answers, room and the backup's reachability are free |
| `Backup` | `backup.cpp` | likewise; its own `Next` adds an arbitrary primary, whose ids and receipts are constants (`ReplicaSids`, `ReplicaReceipts`) |
| `ComputeNode` | the life of a job in `compute.cpp` | actions only, `Cluster` composes them |
| `Cluster` | all of them, clients, messages and faults | INSTANCEs `Primary`, `Backup`, `ComputeNode` |
| `JobService` | what clients are promised | abstract; `Cluster` implements it |
| `NodePool` | `reserve_compute_node` of both masters, heartbeats, eviction, the counters of `compute.cpp` | what `Primary` and `Backup` leave open |
| `Records` | the JSON texts: `client.cpp`, `master/jobs`, `compute/jobs`, the helpers of the masters | operators only, over tokens |
| `Framing` | `send_socket_payload`, `read_socket_payload` | one connection, one payload |
| `Channel` | what callers take a connection for | abstract; `Framing` implements it |
| `Base64` | `base64.hpp` | encoder as a function, decoder as the loop it is |
| `Upload` | the way of a job and its executable from the client's files to a node | INSTANCEs `Framing` and `Base64`, EXTENDS `Records` |
| `JobsLogProofs`, `PrimaryProofs`, `BackupProofs`, `NodePoolProofs`, `UploadProofs` | theorems about the parts | section 6 |
| `ClusterProofs`, `ServiceProofs`, `DeliveryProofs` | theorems about `Cluster` | section 6; each extends the one before it |
| `MCPrimary`, `MCBackup`, `MCCluster`, `MCNodePool`, `MCUpload` | instances for TLC | |

`Cluster` and `Upload` compose; `NodePool` stands beside `Cluster`: it refines
what `Cluster` leaves free (which node, and whether there is one), at the price
of leaving out logs, replication and callbacks.

Correspondence, by way of the primary: a thread of `handle_client` is
`pThread[j]`, its `pc` the place where it blocks next.

| pc | code | left by |
|---|---|---|
| `idle` | no connection yet | `Accept`, `Reject` (479-484, 524) |
| `inserting` | waits for `db_mutex` in `insert_job_log` | `Insert` (272-279), `InsertFails` |
| `replicatingInsert` | in `replicate_to_backup`, holding `db_mutex` | `ReplicateInsert` |
| `scheduling` | head of the retry loop (491) | `Reserve`, `ReserveNone` |
| `calling` | in `forward_to_compute` | `ForwardReturns`, `ForwardFails` |
| `logging` | waits for `db_mutex` in `update_job_log` | `LogOutcome` (521), `LogFails` |
| `replicatingOutcome` | replicates, holding `db_mutex` | `ReplicateOutcome` |
| `replying` | before `send_socket_payload` (523) | `Reply` |

A write may fail, as `sqlite3_open` or `sqlite3_exec` may: the first skips the
replication, the second is not looked at, and the request goes on
(`InsertFails`, `LogFails`, `ResultFails`, where `DatabaseMayFail`). `unwritten` is a
history variable: SQLite refused a write of this request.

The backup's request threads have the same shape without replication, and with
`probing` for `primary_is_reachable`. Its writes hold no lock across a network
call, so a write is one action; but `load_pending_jobs` reads without
`db_mutex`, and while its SELECT is open a write of another connection fails
with SQLITE_BUSY and is dropped unseen (operator `Store`). The recovery thread is
`rThread`: `scanning`, then one row after the other, `scheduling`/`calling` or
straight to `delivering`, then `recording`.

A node's handler is a *run*: `executing`, `answering`, `publishing`, `done`, and
`lost` if the node dies first. Its `connection` is open, answered, closed by a caller
that has read the text or found the node gone, or `broken`: the caller gave the call
up on an error of its socket, and the handler, which does not notice, goes on
(`Break`). Response texts are reduced to their kind (PENDING,
OUTPUT for a completed execution, ERROR for a node's one-line error, FATAL for a
master's own failure text) and the run that produced them. The kind matters: the
primary's `std::regex` `^RESULT:(\d+):(.*)$` only matches a one-line text, so it
never sees the result of a completed execution, while the backup, which cuts the
datagram by position, sees all (operator `OneLine`).

In `NodePool` a request has one `pc` for the master's thread and the node's
handler, since one waits for the other. If the connection breaks, it no longer
does: the request is `abandoned` and only the handler's, and the master's next
attempt is a request of its own (`ForwardBreaks`).

| pc | code | left by |
|---|---|---|
| `scheduling` | head of the retry loop | `Reserve`, `ReserveNone` |
| `sent` | the payload is on its way | `CountScore` (`available_resources -= 20`), `ForwardFails`, `ForwardBreaks` |
| `parsing` | `receive_forwarded_job` | `CountFree` (the figures), `ParseThrows`, `ForwardBreaks` |
| `executing` | the process runs | `Execute`, which stands for the answer and the RESULT too, `ForwardBreaks` |
| `releasing`, `returning` | answered; the score, the figures are still held | `ReleaseScore`, `ReleaseFree` |
| `lost` | the node died first | `ForwardFails` |

A heartbeat is put together in two steps, as the atomics are loaded one after
the other: they are operands of one `+` chain (`compute.cpp:239-243`), which the
compiler may evaluate in any order, so either the score is loaded first
(`LoadScore`) or the figures are (`LoadFigures`), and the rest when it is sent
(`SendBeat`). It is taken in a third (`TakeBeat`).
`knows`, `saw`, `raised` and `careless` are history variables: they record what
a master's entry is based on and decide nothing.

In `Upload` the stages are the legs of the way: `sending` (module `Framing`),
`received` or `rejected` (the primary's parser), `replicated` (the backup has
parsed the INSERT), `decoding` and `running` on the node. A sender in `Framing` is
`broken` if the reader is told of the end of the connection and `stalled` if no more
bytes come and it is not: the client does not look at what `sent_payload` returns,
keeps its socket open and waits for an answer (`client.cpp:336-340`). An empty
file is not uploaded: its encoding is empty, and an empty `executable_b64` is to
every reader what none is (`job.cpp:86`, `compute.cpp:326`).

Each definition's lines are in PROJECT.json, "map". Definitions called "Mutant
of ..." are not part of the model: each is a plausible mistake in the
definition below it, kept to show that a property would notice.

### Reductions

- *Room on nodes is free*: a registered node may be chosen or not. `Reserve`
  and `ReserveNone` are both always possible in `Primary` and `Backup`. In
  `Cluster`, `ReserveNone` needs an empty pool, or `NodesMayBeFull`. Free cores
  and memory are the subject of `NodePool`.
- *Eviction of a live node* is not an action of `Cluster`: its effect on a
  request, no node found, is `ReserveNone` of a full node.
- *WarmStart* lets both pools hold every node at the start, which saves the
  interleavings of first heartbeats where they do not matter. The failover and
  liveness runs start cold.
- *A request lost before it is accepted* is not modelled: no master has seen it.
- *A message is whole or absent* in `Cluster`; that a connection does this is
  what `ChannelImplemented` shows.
- *One figure*: cores, memory and GPUs are treated alike everywhere; `NodePool`
  has one of them, `free`. A node's other fields in a heartbeat are constants.
- *Tokens*: a text of `Records` is a sequence of the characters the code tells
  apart (quote, backslash, line end, `n`, colon, comma, braces), field names,
  and one token for any other word. One field stands for those that are handled
  alike: `min_cores` for the numbers, `sender` for the columns a master fills
  itself. A number is one token.
- *Header*: `Framing` takes the number of header bytes and their base as
  constants; the instance has four digits to base 4 for 8 to base 256, which
  a payload of up to 255 tokens needs.
- *Bit buffer*: `buf` in the decoder overflows at 2^32; the loop reads its low 14
  bits only, so the model keeps it modulo 2^20.
- *SQL may fail in `Primary`*, when a row is inserted or updated, but not when the
  primary starts: a database that cannot be opened then leaves the counters at
  1001 and 2001, and all ids would be given again. In `Cluster` the primary's SQL
  works (`DatabaseMayFail` is FALSE there), and the backup's fails with
  SQLITE_BUSY during a scan and else works.
- *Job files parse* in `Upload`: the text the client reads is that of a job file
  with the fields of `client/config/config.json`; what its own parser refuses is
  never sent.
- *A row has a payload*: `Turn` leaves out the test for an empty `forward_payload`
  (`backup.cpp:453`), since every INSERT carries the one the primary or the backup
  made of a parsed job.
- *A broken call is no fault of the budget*: `MaxFaults` bounds health checks,
  replication and client connections that fail though the peer lives. Calls of
  nodes break freely where `CallsMayBreak`, and `Runs` bounds the executions.
- *One process, one file*: each master has its own `master_logs.db`. The run
  order of `src/README.md` would have the two share a directory (section 7).

## 3. Runs

Deadlock is not checked anywhere: each bounded instance stops when all
requests are done and all crashes are used up.

Passing:

| Run | Instance | Shows |
|---|---|---|
| `primary` | 2 jobs, 1 node, 1 attempt, 1 restart, writes that fail; RESULTs of its own ids and of 1001 | ids stay unique through rejections, failed INSERTs and a restart; but for requests a write was refused of, the row precedes the execution, an answered job's answer is in the log, and what a request replicates is about a row; rows are permanent |
| `failover` | 1 job, 2 runs, threshold 3, 3 faults, fallback, primary crash and restart | a dead primary is noticed (section 5); callbacks are bounded by their causes; a living primary loses its role to as many false alarms as the threshold, or to two that concern one client; each master in the cluster implements its own module |
| `two_jobs` | 2 jobs, 2 runs, fallback, primary crash | another client's output reaches a client or a row only through an id both masters gave; callbacks are bounded although a RESULT may reopen a namesake's row; the replicated part of the backup's log is the primary's; the cluster implements `JobService` |
| `restarts` | 1 job, 2 runs, 2 attempts, crashes of all three, restarts of backup and node, calls that break | of a request thread's executions at most one was neither lost nor broken off; a text marked DELIVERED was sent; one answered replay per life of the backup |
| `liveness` | 2 jobs, 6 runs, 2 attempts, threshold 2, full nodes, a node that dies and comes back, three starts | section 5 |
| `backup` | 2 jobs, 1 replicated row, 1 restart, threshold 2, with and without a primary in the configuration; one kind of text, as the backup treats all alike | no effect on the cluster before promotion, whatever primary, datagrams and requests do; the ids of its own rows are unique although inserts are dropped during a scan; rows keep their job, id and outcome, whatever a pass records from its copies |
| `node_pool` | 1 node, 2 jobs, 1 heartbeat under way, 1 death of the node or broken call, four starts | what oversubscribes a node; counters and reservations come back |
| `upload` | names of up to 3 tokens of 9, files of up to 6 bytes of 3 | what arrives is what was sent, at every leg |

Violations, section 4: `cut_off`, `completion`, `collision`, `base64_round_trip`.

Why the bounds are enough for what the runs ask. Two jobs are what it takes for one
to get the other's id or text. A node name is compared for equality only, and two
threads may use one node at once, so one node gives every interleaving except a
retry on a *different* node, which differs in nothing the modules keep. Two runs are
an execution for a master and its replay (or a retry). Two attempts, in `restarts`
and `liveness`, reach both outcomes of `Retry`; a threshold of two tells consecutive
failures from any failures; one restart gives the counters computed from a non-empty
log. A restart of the backup inside one row, one replica and one own request already
gives two rows with one id, which is the case `SubmissionsUnique` of `Backup` has to
tell apart. `SubmissionsUnique` is about rows: the id of a request whose INSERT was
dropped may well be given again (section 4).

`liveness` needs the room for what liveness is hard about: two requests that
contend for `db_mutex`, a second attempt, a node that dies in the first, a pass
that ends at a row and has another behind it. From the initial state of the
cluster that is too much for TLC, so `MCCluster` starts it in three states that the
cluster does reach (`OneMasterLeft`): the backup is dead and two requests come to
the primary; the primary died with two jobs replicated, and the backup has to
promote and recover both; the primary died with no job known, and one client
turns to the backup, which may recover the row while it serves the request. Nodes die in
each, and come back in the second, where the recovery thread depends on it. Six
runs are enough that no call finds them used up: one that did would wait for
ever, and the run would fail.
`failover` asks `PromotionFollows` of the whole cluster from its initial state.

Where a bound hid something, the proofs showed it. With one job a RESULT always
is the job's own, and with no restart of the backup an id is given twice by two
masters only: `DeliveriesBounded`, `ForeignOnlyByCollision` and
`DeliveredMeansSent` were once stated in a form that held in those instances and
not in general (section 4). `two_jobs` is an instance that tells the two forms of
`DeliveriesBounded` apart. The other two take two jobs and a second life
of the backup, which with the two runs a reopened row needs is more than TLC
finishes; what both say of such instances is shown by their theorems. `failover` has a
threshold of three because with two the two disjuncts of `PromotionHasCause`
ask for the same number of faults; its one kind of text, that of a completed
execution, leaves that of a failed one, which the primary's pattern takes and which
it replicates, to `liveness` and `primary`.

`node_pool` starts in four of the states `Init` allows: two jobs of one master on a
node with room for one, with a death of the node or a call that breaks; the same
without these where only the figures are short; a negative requirement beside one
that is too large; two masters with a job each. They are what the causes in
`ScoreHasCause` and `FreeHasCause` need, one each; an entry with a negative figure
takes a third job to arise, so that disjunct of `Careless` is exercised by the proof
only. One heartbeat under way is enough for an old one to arrive after a
reservation. With one node, the choice of the best among several is checked for one
candidate only; the properties of the run hold per node, and the proof is for any
number.

`upload`: six bytes are two groups of the codec, and three byte values suffice
because the decoder moves bits without looking at them: 0 and 255 tell lost
bits from doubled ones and 77 tells their order. Three tokens are the shortest name
in which an escape, a quote and a word meet. Partial sends and reads in every
size are explored for one name and file; for the other inputs, which differ in
what is in the payload and not in how it is carried, a send or a read takes all it can.

## 4. Where the code departs from its documents

- `completion`: the primary is to persist a reported completion
  (`master.cpp:550`), but its pattern drops every text that spans lines, and a
  completed execution's does.
- `collision`: `submission_id` is the cluster's job id (`designdoc.md`), but the
  promoted backup counts from where it started, not from the replicated rows;
  its first job gets an id of the primary's, and every later UPDATE by that id
  hits both rows.
- `cut_off`: a client cut off by the primary's death is to be recovered
  (`designdoc.md`, "Primary failure before client receives response"), but the
  outcome is marked DIRECT, and replicated as DIRECT, before the answer is
  sent. The node's RESULT, which makes the row PENDING again, may save the
  client; but it is another datagram, and if the backup takes it before it
  applies the update, or never gets it, the row stays DIRECT, the recovery scan skips
  it, and nothing on its way will change that. `CutOffIsRecoverable` asks for the
  row only when nothing that may write it is left (`MayBeWritten`).
- `base64_round_trip`: the decoder drops a byte for each `=`, though the loop
  emitted none for it; a file whose length is not a multiple of three arrives
  short, and one of a single byte is refused.

Seen while modelling, without a run: the recovery loop's copy of a row may be older
than a RESULT stored since, and the job is then executed again
(`backup.cpp:437-453`); the two-second wait for in-flight requests
(`backup.cpp:427-429`) elapses once at process start, not at promotion. Both
behaviours are in the model; `DeliveriesBounded` and `ReplayedOnce` say how much
duplication they can cause. A call that fails on its socket while the node lives
(`master.cpp:405-417`, `backup.cpp:608-620`) is tried again beside a first execution
that nobody stops, and a replay whose connection breaks leaves its row PENDING and
is repeated in the next pass, each time, until a RESULT has stored its text: this is
why `OneAnswerPerRequest` and `ReplayedOnce` except broken calls. DELIVERED says
that all bytes of a callback were handed to the socket (`backup.cpp:271-276`), not
that the client read them; no later step would find out. A request whose INSERT
SQLite refused is executed and answered with no row of it in the primary's log, and
none in the backup's if the file did not open (`master.cpp:272`, `279`). The design
document calls RECOVERED a value of `delivery_status` (`designdoc.md:271`); the code
writes RECOVERED to `forwarding_status` and DELIVERED or UNDELIVERED to
`delivery_status` (`backup.cpp:446-449`), and the models follow the code: a scan
looks for PENDING alone, so that nothing depends on it. A field is found by the
first place where its name stands in quotes, so a job whose *name* is that of a
later field (`executable`, `min_cores`, in the backup also `forward_payload` and
others) sends the scan to the wrong place and is refused, or recorded with another
column's text; this is the exception `EndsInKey` in `NodeGetsJob` and
`ReplicaIsRow`. A master may place more on a node than it has, for the three reasons
`Careless` names; no document promises otherwise.

A client whose connection to the primary fails asks the backup, which checks the
primary once and promotes if that fails too, whatever the threshold
(`backup.cpp:710-717`): the second disjunct of `PromotionHasCause`. The design
document allows for it ("or when the client explicitly falls back and the
primary is unreachable", `designdoc.md:463`).

Three more came out of the proofs, each as a step that a first statement of a
property did not survive:

- *An id may be given again by the backup itself.* The INSERT of a promoted
  backup is dropped if a scan has its SELECT open (`backup.cpp:354`), and the
  job runs without a row. After a restart the counter is computed from the rows
  (`backup.cpp:295-314`), so another client gets the id, while a RESULT of the first job
  may still come. Hence the second disjunct of `ForeignOnlyByCollision`.
- *A delivery is recorded by submission id* (`backup.cpp:446-449`, `469-472`). With
  two rows of one id both are marked DELIVERED, and only one client was called.
  `DeliveredMeansSent` therefore speaks of a row with the id, not of the row.
- *A RESULT reopens rows by submission id* (`backup.cpp:789`): a client whose job
  is settled is called once more for each RESULT of a namesake, with the
  namesake's text. `DeliveriesBounded` counts the RESULTs under the job's id
  (`Reports`), not those of the job.

## 5. Fairness and liveness

`FairSpec` of `Cluster` gives weak fairness to every thread of a live process
(a request thread, the recovery and monitor threads, a node's handler), to
calls, to heartbeats, and to replicate requests that were sent. These are
operating-system threads that are never blocked for ever in the modelled code:
`db_mutex` is held only over a SQL statement and a call that ends, loops
sleep and go on. Strong fairness is assumed of one thing, `RecoveryReserves`: the
recovery thread, which retries for ever, does not find every node full for
ever. Nothing is assumed of clients, crashes, restarts, or RESULT datagrams,
which are UDP and may all be lost. The `liveness` run has this fairness and the starts of
section 3 (`LiveSpec`); `failover` has that of the monitor thread alone
(`MonitoredSpec`), which is all that `PromotionFollows` rests on.

- `PromotionFollows`: a dead primary is noticed.
- `RequestsEnd`: a request a master accepted ends, in an answer or with the
  master, also when all nodes die.
- `PendingIsSettled`: a promoted backup deals with every PENDING row, if there is
  again and again a node (`[]<>(nodeUp # {})`): with none, it goes on trying.

Calls do not break in that run: a replay whose connection breaks each time is
repeated for ever.

`NodePool`'s `Fairness` gives weak fairness to the masters' threads, the nodes'
handlers and the heartbeat threads, and strong fairness to a heartbeat reaching
a given master: they are UDP, sent every few seconds for ever, and not all of
them are lost. Nothing is assumed of clients, evictions, crashes and restarts.
`ReservationsReturn` says that a reservation, which nothing gives back when its
job ends, is given up with a later heartbeat. `Upload` has weak fairness for `Send`
and `Read`, the two ends' loops, and none for a break: `ExchangeEnds` says that no
loop waits for bytes that cannot come, unless the sender has fallen silent with
the connection open. Then it does wait for ever: no socket has a receive
timeout, and a client whose `send` failed waits for the master as the master for it
(`client.cpp:336-340`).

The liveness properties of `Cluster` rest on an assumption the code does not
enforce: an execution on a live node ends. `forward_to_compute` has no read
timeout, so one hanging job blocks its thread, and in the recovery thread all rows
behind it.

## 6. What is proved

Eight modules hold proofs; `JobsLogProofs` has the facts about the table and its
statements that those of the masters and the cluster share.

| Module | Theorem | Property |
|---|---|---|
| `PrimaryProofs` | `TypeCorrect` | `TypeOK` |
| | `UniqueSubmissions` | `SubmissionsUnique` |
| | `WriteAheadHolds` | `WriteAhead` |
| | `ReplicationFollows` | `ReplicationFollowsLog` |
| | `RowsPermanent` | `RowsArePermanent` |
| | `AnswersRecorded` | `AnsweredIsRecorded` |
| `BackupProofs` | `TypeCorrect` | `TypeOK` |
| | `StandbyPassive` | `StandbyIsPassive` |
| | `UniqueOwnSubmissions` | `SubmissionsUnique` |
| | `OutcomesPermanent` | `OutcomesArePermanent` |
| `NodePoolProofs` | `TypeCorrect` | `TypeOK` |
| | `ScoreOverdrawnOnlyCarelessly` | `ScoreHasCause` |
| | `FreeOverdrawnOnlyCarelessly` | `FreeHasCause` |
| | `IdleNodesAreWhole` | `IdleNodeIsWhole` |
| `ClusterProofs` | `TypeCorrect` | the three modules' `TypeOK` together |
| | `PrimaryRefinement` | `PrimaryRefined` |
| | `BackupRefinement` | `BackupRefined` |
| | `BackupFollows` | `BackupFollowsPrimary` |
| | `OneAnswer` | `OneAnswerPerRequest` |
| | `PromotionCause` | `PromotionHasCause` |
| `ServiceProofs` | `DeliveredIsSent` | `DeliveredMeansSent` |
| | `OneReplayPerLife` | `ReplayedOnce` |
| | `CollisionsAlone` | `ForeignOnlyByCollision` |
| | `ServiceRefinement` | `ServesJobs` |
| `DeliveryProofs` | `BoundedDeliveries` | `DeliveriesBounded` |
| `UploadProofs` | `ChannelRefinement` | `ChannelImplemented` |
| | `ConnectionRefinement` | the same, of `Framing` on its own |
| | `DecoderEmitsPrefix` | `DecodesPrefix` |
| | `AlignedFilesArrive` | `AlignedRoundTrip` |
| | `OtherFilesAreCut` | `CutShort`: what `base64_round_trip` shows of one file, of all |
| | `ReplicaIsTheRow` | `ReplicaIsRow` |
| | `NodeGetsTheJob` | `NodeGetsJob` |

`Invariance`, `ServiceInvariance`, `DeliveryInvariance`, `Accounts`,
`DecoderInvariant` and `UploadInvariant` state the inductive invariants themselves.
So every safety property that a passing run checks is a theorem, and so are all
refinements: of both masters, of `JobService` and of `Channel`.

The theorems hold for any sets of jobs, nodes and executions, and any bounds. The
assumptions are those of the modules: `Runs` are positive numbers, `RunKinds` are
OUTPUT and ERROR or one of them, `NoNode` is no node, job or caller, bounds are
numbers and `MaxRetries`, `FailureThreshold` and the cost of a job are positive;
`NodePool` and `Cluster` assume their jobs to be finitely many. The executions
may be infinitely many: the counts below are of sets the proofs show finite.

**The primary.** `SubmissionsUnique` is not inductive: `Insert` appends an id taken
long before. The invariant `IInv` adds

- `LogBelowCounter`: the log's ids are below `next_submission_id`;
- `LiveIdsAreOwn`: a live thread has an id below the counter that no other live
  thread has, and no row unless it is past its INSERT and the row its own. It is of all
  live threads and not only of those that wait to insert, since one whose INSERT
  failed goes on and has none;
- `DeadIsQuiet`: a dead process has no live thread. This is what `Restart` needs:
  the counter is recomputed from the log, so ids taken by threads that never
  inserted are given again, and this is harmless only because those threads
  died;
- `InsertedIsLogged`: a thread past its INSERT has its row, with its receipt and
  job, unless SQLite refused it a write, which only a failing database does
  (`UnwrittenHasCause`); from it follow `WriteAhead` and that what is replicated is known. An
  update made for a RESULT is the exception: the backup's jobs are reported to
  the primary too, which may have no row of theirs and replicates all the same;
- `OutcomeIsKnown`: a thread about to log an outcome does not log PENDING.

Most actions neither add a row nor give an id. `QuietStep` handles them all
together, with `ThreadStep` and `ThreadlessStep` as its two forms; `Accept`,
`Reject`, `Insert`, the three failed writes, `Crash` and `Restart` have proofs of their own.
`NextSubmissionIsFresh` is the fact about `COALESCE(MAX(submission_id), 1000) + 1`;
it needs the maximum of a bounded set of integers to exist, which
`MaxOfBounded` derives from the well-foundedness of the naturals.
`AnswersRecorded` is a second induction on top of `IInv`: only `LogOutcome` makes
a thread an answered one, and no other UPDATE hits its row because ids are own
(`IdsAreOwn`).

**The backup.** Its log mixes its own rows with replicas, whose ids may be above
or below its counter, so nothing relates the log as a whole to the counter. The
invariant speaks of `OwnRows` and of threads that wait to insert
(`OwnBelowCounter`, `WaitingIsFresh`), and of what keeps a row from changing
sides: a thread that was not admitted has no id (`UnservedHasNoId`), and one that
has no row yet will find none (`UnservedHasNoRow`). `IdsAreBounded` lets a restart
find the maximum. `PassIsSound` keeps a recovery pass' copies at the positions of
their rows and says that a thread at work has a row to work on; `RoleIsKept` is
`StandbyIsPassive` with `DeadIsQuiet`. Most steps end in a promoted backup, where
`RoleIsKept` has nothing to show: `WorkIsPromoted` gives that from the place of the
thread. `IdsKept`, `PassKept` and `RoleOfServing` are the frame lemmas. `OutcomesPermanent`
needs that no thread is about to write PENDING as an outcome (`OutcomesAreKnown`):
neither a request's nor the recovery thread's, which writes from the copy it took when the
pass began.

**The pool.** `ScoreHasCause` needs an account across the places a score can be in.
A node's counter and the jobs it has counted make its configured score
(`ScoreIsCounted`); what a heartbeat or an entry promises is no more than that
score less what the jobs it knows of take (`BeatsFit`, `EntriesFit`); and the jobs
sent without carelessness fit the node (`CarefulFit`). The last is where a
heartbeat that overwrites a reservation matters: the entry may then know of less
than the node has to do, and the job sent on it is careless. Cardinalities of
sets of jobs are counted with `CostIsMonotone` and `CostOfOneMore`.

Figures need a second account, since jobs ask for different amounts. A sum over a
set of jobs is a recursion, with an induction for each fact about it; but the sum is
also the number of *units*, the pairs of a job and a number up to what it is due
(`Units`, `Amount`), and of cardinalities the library knows enough already. What a
job is due (`Dues`) is its requirement from when it is sent, what its handler holds
once it has reserved, and 0 outside a node; so only finitely many units are due
(`UnitsAreFinite`), however many jobs there are, and that is inductive. `Figures`
says that a node's figure and the dues of those who hold of it make the configured
one (`FreeIsCounted`); that heartbeats, the one being put together included, and
entries promise no more than the figure less the dues of the jobs they know of
(`DraftsCovered`, `BeatsCovered`, `EntriesCovered`), negative and raised entries
excepted; and that the jobs sent without carelessness are covered
(`CarefulCovered`). `FreeHasCause` and `IdleNodeIsWhole` follow from it with `IInv`.
A draft that holds the score knows of the jobs in both counters, one that holds the
figures of those in the figures; what is sent is said to know only those of them
that are still in the figures, so that in either order a heartbeat is charged for
every job it is said to know. A job whose caller gave up stays in all accounts until
its handler is through with it. A negative requirement holds nothing but raises the
entry, so it is not in `Dues` and is a cause of carelessness instead.

**The cluster.** The masters' invariants were proved against every environment, so
in the cluster they are inherited: `IInv` of `ClusterProofs` is theirs, each as an
instance of its own proof module (`PP`, `BP`), and a third part, `Joined`, for what
makes a step of the cluster one the masters' specifications foresaw. The primary's
side is easy, since its environment is free. The backup's own specification only
takes INSERTs of jobs and ids it has not seen, so that those of the cluster are
such needs the chain from a replicate request back to the primary's thread:

- `OneMaster`, `NumbersAreCounted`, `ReceiptsAreCounted`: a job has one master and one
  id, and there are no more ids than jobs that were taken or that a parser
  refused (`Spent`), which is why the constants `Sids` and `Receipts` of the instances are
  wide enough;
- `RowsAreTaken`: a row is of the request it was made for, or a copy of a row of
  the primary (`Copied`), and a job has one row in the backup;
- `MessagesAreTrue`: an INSERT on its way is a copy the backup has not got, an
  UPDATE tells the outcome of a run with its id;
- `ThreadsHoldOwn`, `RunsAreTaken`: what a thread holds, and every run, is of its own
  request;
- `CallsAreApart`: a request thread has one call open and makes another only when
  the run before was lost or its connection broke: at most one run is `Heard`. This is
  `OneAnswerPerRequest`, and not implied by the rest.

The thirty or so disjuncts of `Next` disturb these parts in few ways, so
`StepMoves` first shows once that every step is one of the *moves*: what may
happen to the threads, to each log, to the messages and to the runs. The parts
of `Joined` are then kept by moves, without a case per action. `BackupFollows`
is a consequence of `RowsAreTaken` and `SubmissionsUnique` of the primary.
`PromotionHasCause` needs a second, small invariant, `Undisturbed`: while the primary
is in its first life, each failed check in a row is a fault, and so is the
connection of any client that asked the backup.

**The service.** `Inv` of `ServiceProofs` follows a text from the run that put it
out to the rows, to the copies a recovery pass works on, to the callback, and to the
record of it (`Truth`), one id all the way. From it `DeliveredMeansSent`, and with
`RunsAreLogged`, `CallbacksAreLogged` and `FirstLifeNumbers` also
`ForeignOnlyByCollision`: a foreign text has an id two jobs share, the primary gives
no id twice, and neither does a backup before its first restart. `ReplaysAreCounted`
is the strengthening of `ReplayedOnce`: the replays that were neither lost nor
broken off (`Replays`) are at most the lives of the backup that are over, and one
more if in this life the recovery thread has the job's text in hand or the log has
it; and a row that has a text never loses it while the backup lives, because
`load_pending_jobs` skips nothing that would put it back. A connection that breaks
takes its replay out of the count, and the row is free to be replayed once more. For
`ServesJobs` each action of `Cluster` is shown to be the service's step it looks
like (`StepServes`): a reply, a run that starts or finishes, a callback, a job
taken, or nothing a client can see.

**The deliveries.** A bound on callbacks is not inductive by itself: it must
count what is about to be delivered. `DInv` keeps the account with `Load`, the
callbacks made plus one if another is due, against `Allowed`, which grows
with the causes. A callback turns what is due into what was made; its record
settles the row and the copy; a row is due again only through a RESULT the
backup takes (`Arrived`) or the primary's relay of one (`Relayed`), each of which is
used up by it, since `ReportsTravel` says that a RESULT is at most once in each of
the two ways; and a backup that dies between a callback and its record pays
with its restart.

**The connection.** The step simulation is short once two things are known: that the
stream is the header and then the payload (`StreamIsPayload`), and that
the bytes come in order (`InOrder`): none is read that was not sent, and the
reader has come to the end only when the sender is through or gone.
`ConnectionRefinement` says it of a connection whatever it is for, with a payload of any
sequence shorter than `Base^HeaderLength`; `ChannelRefinement` says it of the
client's connection in `Upload`, whose other steps leave it alone. That a header
is read back as the length it was made of (`HeaderIsLength`) is proved digit by digit
from two laws of `^`, which `FramingAssumption` states because the prover knows
nothing of powers. `UploadAssumption` says of the names that they are what a job file
can hold between quotes (`Quotable`) and that a payload made with them is shorter
than the header has room for; that it is a sequence at all is proved (`InitFits`).

**The codec.** The decoder reads a character at a time, so its invariant `Decoding`
says where in a group of four it is: `AtGroup`, `AfterOne`, `AfterTwo`, `AfterThree`
each tell how many bytes are out and which bits of the file the buffer still holds.
`ShiftedIn` is what makes it inductive although the buffer overflows: what is
shifted out was not needed. `CharactersOfGroup` gives the encoder's
four characters of a group and `CharactersFirst` says that the '=' come last, which is
why the loop has all of the file when the padding is handled (`AllIsEmitted`).
`AlignedFilesArrive` and `OtherFilesAreCut` are then counting: '=' there are none, one or two
(`PadsOfText`), the loop emitted no byte for them, and as many are taken off.

**The texts.** `Records` is made of recursive functions over texts, and what they
return for every text is an induction over positions. The prover has no induction
rule to instantiate; but a set of numbers has a least one (`LeastNumber`), so each
lemma takes the least position for which it fails and derives a contradiction from
the one before. Three notions carry the proof:

- `Wellformed`: the positions the scan for a closing quote comes to, as a set. A
  text is well-formed if no quote stands on one of them and the scan goes on behind
  the last; then the scan of the text and a quote ends at that quote
  (`EndOfWellformed`), and only then (`WellformedIfEnd`). `EscapeWellformed` says that
  `json_escape` makes any text well-formed, and `UnescapeOfEscape` that `json_unescape`
  takes it back, whatever the text;
- `Written`: an object's fields stand one behind the other with a comma or a brace
  before each. `ObjectWritten` and `AttachWritten` say so of the texts the client and
  the masters put together, the client's insertion before the last brace included;
- `Hides`: within a field no other field's name stands in quotes. This is so
  for a text that does not end in such a name (`FieldIsClear`): a quote inside is
  behind a backslash (`QuoteIsHidden`), so only the field's own last quote can close
  the name. This is where the exception `EndsInKey` comes from, and that it is the
  only one is what `NodeGetsJob` and `ReplicaIsRow` claim.

With these, `TakesString`, `TakesNumber` and `TakesNothing` give what `ExtractString` and
`ExtractInt` return, and `Received`, `ForwardedIsJob` and `Replicated` what the primary,
the node and the backup make of a payload. Escaping neither adds nor removes a
name at the end of a text (`EscapeKeepsEnd`), so that the exception is the same
after each leg.

The invariant `Underway` follows a job along the stages of `Upload`: what the reader
returned is the client's payload or nothing, each record is what was taken out of
the text before it, and nothing is there before its stage. `UploadInvariant` proves it
together with `InOrder`, and the two theorems are consequences.

All inductive invariants of the masters, the pool and the cluster were checked
with TLC on the instances of section 3 before they were proved, and `Underway` on
that of `upload`; the refinement of `Channel` itself is a property of that run.

Only model-checked: the liveness properties (`PromotionFollows`, `RequestsEnd`,
`PendingIsSettled`, `ReservationsReturn`, `ExchangeEnds`), since liveness under
fairness and ENABLED are out of the prover's reach; and that the code departs from
its documents (section 4), which is a counterexample each and needs no proof.

## 7. What is not modelled

- *Two masters in one directory* (`src/README.md:49-50`): both open
  `master_logs.db`, each insert is stored by both and each update hits both
  rows. The modules have a log each; a shared one is another system, with two
  writers and no common lock.
- *The answer to `discover_backup`* and the client's start: the client asks once
  for the backup's address and keeps what it got.
- *The callback port* of a client (`client.cpp:25`): two clients of one host may
  take the same. Every client of the models has its own.
- *Lengths of datagrams* (`backup.cpp:778`): a RESULT longer than the buffer is
  cut. A response text is an abstract value.
- *A primary's database that cannot be opened when it starts*, and one that fails
  inside the cluster (section 2).
- *Hanging jobs*: an execution on a live node ends (section 5).
- *The node's `execution_log`*, which nothing reads, and the temporary file of
  the executable.
- *Replicated updates as text*: `Records` has the INSERT; an UPDATE has fewer
  fields of the same kinds. Numbers are not read digit by digit.
- *Heartbeats in the legacy format*, without figures, which no program sends.
- *Configuration*: values read once; they are constants. *Job classes*: getters,
  operators and execution times that no program uses. *Build script, samples.*

PROJECT.json, "components", says so part by part; the hazards there without a
property have the reason in their note.

## 8. Plan

Done: the log, both masters, the nodes, the cluster and its service, the codec,
the pool, the framing and the texts; proofs of all their safety properties. What
is left, in this order:

1. `SharedLog`, for the deployment of `src/README.md:48-51`.
2. A run with an execution that never ends, to state what hangs and what does
   not.
3. `NodePool` with two nodes, when the instance can be made small enough: today
   the second node multiplies the states past what a run may take.
