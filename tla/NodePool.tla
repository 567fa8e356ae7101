------------------------------ MODULE NodePool ------------------------------
(***************************************************************************)
(* Which node a job goes to: reserve_compute_node of the masters, the      *)
(* resource counters of the compute nodes, and the heartbeats between      *)
(* them (master.cpp, backup.cpp, compute.cpp).                             *)
(*                                                                         *)
(* A node counts down its own atomics while it serves a job.  A master     *)
(* schedules on what it has heard: an entry of compute_nodes is the last   *)
(* heartbeat less what this master reserved since.  A heartbeat replaces   *)
(* the entry, though it may have been put together before a reservation    *)
(* of this master reached the node, or hold the score from before and the  *)
(* figures from after a job, or the other way round; nothing but a         *)
(* heartbeat gives a reservation back (restore_reserved_resources has no   *)
(* caller).                                                                *)
(*                                                                         *)
(* A call may fail though its node lives and has read the payload: the     *)
(* handler goes on, and the master's thread makes another attempt, which   *)
(* takes one of the names of Jobs of its own.                              *)
(*                                                                         *)
(* free_cores, free_memory_mb and free_gpus are treated alike everywhere;  *)
(* the model has one of them, `free'.  Both masters may serve: after a     *)
(* false alarm, or when the backup took over from a dead primary whose     *)
(* jobs still run.                                                         *)
(*                                                                         *)
(* saw, knows, raised and careless are history: what a figure is based on. *)
(* History forgets the jobs that are over.                                 *)
(***************************************************************************)
EXTENDS Integers, FiniteSets

CONSTANTS Nodes, NoNode, Masters,
          Jobs,        \* requests masters schedule, and repeats of them
          Needs,       \* what a job may ask for: min_cores and the like
          Configs,     \* what compute_config.json may give a node
          JobCost,     \* kJobResourceCost
          MaxRetries,  \* attempts per job
          MaxBeats,    \* bound: heartbeats under way
          MaxFailures  \* bound: deaths of nodes and broken connections explored

ASSUME NodePoolAssumption ==
  /\ NoNode \notin Nodes
  /\ IsFiniteSet(Jobs)
  /\ Needs \subseteq Int
  /\ Configs \subseteq [score : Nat, free : Nat]
  /\ JobCost \in Nat \ {0}
  /\ MaxRetries \in Nat \ {0}
  /\ MaxBeats \in Nat \ {0}
  /\ MaxFailures \in Nat

VARIABLES
  config,  \* per node, its configured figures
  up,      \* the nodes that run
  failures, \* how many of the deaths and broken connections explored are used up
  score,   \* per node, available_resources
  free,    \* per node, free_cores
  beat,    \* per node, the heartbeat it is putting together
  beats,   \* heartbeats under way
  view,    \* per master, compute_nodes
  request  \* per job, its request

vars == <<config, up, failures, score, free, beat, beats, view, request>>

(***************************************************************************)
(* scheduling: a master's thread is about to reserve.  sent: the payload   *)
(* is on its way.  parsing: the node has counted the job's score.          *)
(* executing: its figures too.  releasing, returning: it has answered, and *)
(* is about to give back the score, the figures.  lost: it died before.    *)
(* failed: no attempt is left.  An abandoned request is its node's alone.  *)
(***************************************************************************)
Pcs == {"new", "scheduling", "sent", "parsing", "executing", "releasing",
        "returning", "lost", "done", "failed"}

Request == [pc : Pcs, master : Masters, need : Needs, node : Nodes \cup {NoNode},
            attempt : Nat, held : Nat, careless : BOOLEAN, abandoned : BOOLEAN]

NewRequest(m, need) ==
  [pc |-> "new", master |-> m, need |-> need, node |-> NoNode, attempt |-> 0,
   held |-> 0, careless |-> FALSE, abandoned |-> FALSE]

Entry == [score : Int, free : Int, knows : SUBSET Jobs, raised : BOOLEAN]
Draft == [pc : {"none", "score", "figures"}, score : Int, free : Int, saw : SUBSET Jobs]
Beat  == [from : Nodes, to : Masters, score : Int, free : Int, saw : SUBSET Jobs]

NoBeat == [pc |-> "none", score |-> 0, free |-> 0, saw |-> {}]

Init ==
  /\ up = Nodes
  /\ failures \in 0..MaxFailures
  /\ config \in [Nodes -> Configs]
  /\ score = [n \in Nodes |-> config[n].score]
  /\ free = [n \in Nodes |-> config[n].free]
  /\ beat = [n \in Nodes |-> NoBeat]
  /\ beats = {}
  /\ view = [m \in Masters |-> [n \in {} |-> NoBeat]]
  /\ request \in [Jobs -> {NewRequest(m, need) : m \in Masters, need \in Needs}]

\* The masters that take requests; what another one knows decides nothing.
Serving == {request[j].master : j \in Jobs}

At(n, pcs) == {j \in Jobs : request[j].node = n /\ request[j].pc \in pcs}

\* What the node's counters hold: in the score, in the figures.
InScore(n) == At(n, {"parsing", "executing", "releasing"})
InFree(n)  == At(n, {"executing", "releasing", "returning"})

\* Jobs the node is to serve or has not finished with.
Active(n) == At(n, {"sent"}) \cup InScore(n) \cup InFree(n)

Seen(m) == DOMAIN view[m]

-----------------------------------------------------------------------------
(***************************************************************************)
(* Heartbeats.  The atomics are the operands of a chain of +, which the    *)
(* language does not order: the score may be loaded first or last.  `saw'  *)
(* are the jobs that what is loaded accounts for.                          *)
(***************************************************************************)
LoadScore(n) ==
  /\ n \in up
  /\ beat[n].pc = "none"
  /\ beat' = [beat EXCEPT ![n] = [pc |-> "score", score |-> score[n], free |-> 0,
                                  saw |-> InScore(n) \cup InFree(n)]]
  /\ UNCHANGED <<config, up, failures, score, free, beats, view, request>>

LoadFigures(n) ==
  /\ n \in up
  /\ beat[n].pc = "none"
  /\ beat' = [beat EXCEPT ![n] = [pc |-> "figures", score |-> 0, free |-> free[n],
                                  saw |-> InFree(n)]]
  /\ UNCHANGED <<config, up, failures, score, free, beats, view, request>>

\* The rest is loaded and the heartbeat is sent to both masters; it reaches
\* those in `ms', some time later, and is lost on the others.
SendBeat(n, ms) ==
  /\ n \in up
  /\ beat[n].pc # "none"
  /\ Cardinality(beats) + Cardinality(ms) <= MaxBeats
  /\ beats' = beats \cup
       {[from |-> n, to |-> m,
         score |-> IF beat[n].pc = "score" THEN beat[n].score ELSE score[n],
         free |-> IF beat[n].pc = "figures" THEN beat[n].free ELSE free[n],
         saw |-> beat[n].saw \cap InFree(n)] : m \in ms}
  /\ beat' = [beat EXCEPT ![n] = NoBeat]
  /\ UNCHANGED <<config, up, failures, score, free, view, request>>

\* Mutant of TakeBeat: a known node's entry keeps its figures, and only its
\* last_ping is set.
TakeBeatPingOnly(b) ==
  /\ b \in beats
  /\ beats' = beats \ {b}
  /\ view' = [view EXCEPT ![b.to] =
       [n \in DOMAIN @ \cup {b.from} |->
          IF n \in DOMAIN @ THEN @[n]
          ELSE [score |-> b.score, free |-> b.free, knows |-> b.saw, raised |-> FALSE]]]
  /\ UNCHANGED <<config, up, failures, score, free, beat, request>>

\* The UDP thread puts the heartbeat in the place of the node's entry.
TakeBeat(b) ==
  /\ b \in beats
  /\ beats' = beats \ {b}
  /\ view' = [view EXCEPT ![b.to] =
       [n \in DOMAIN @ \cup {b.from} |->
          IF n = b.from
          THEN [score |-> b.score, free |-> b.free, knows |-> b.saw, raised |-> FALSE]
          ELSE @[n]]]
  /\ UNCHANGED <<config, up, failures, score, free, beat, request>>

Without(m, n) == [k \in Seen(m) \ {n} |-> view[m][k]]

\* dead_compute_monitor: n has been silent for heartbeat_timeout.
Evict(m, n) ==
  /\ n \in Seen(m)
  /\ view' = [view EXCEPT ![m] = Without(m, n)]
  /\ UNCHANGED <<config, up, failures, score, free, beat, beats, request>>

-----------------------------------------------------------------------------
(***************************************************************************)
(* The masters' request threads                                            *)
(***************************************************************************)
Submit(j) ==
  /\ request[j].pc = "new"
  /\ request' = [request EXCEPT ![j].pc = "scheduling"]
  /\ UNCHANGED <<config, up, failures, score, free, beat, beats, view>>

AtLeastZero(i) == IF i < 0 THEN 0 ELSE i

\* A negative figure is an unknown one, and no reason to leave the node out.
Fits(e, j) == e.score >= JobCost /\ (e.free < 0 \/ e.free >= request[j].need)

Candidates(j) ==
  {n \in Seen(request[j].master) : Fits(view[request[j].master][n], j)}

\* Mutants of Reserved: the score, the figures are not reserved.
ReservedFiguresOnly(e, j) ==
  [score  |-> e.score,
   free   |-> IF e.free >= 0 THEN AtLeastZero(e.free - request[j].need) ELSE e.free,
   knows  |-> e.knows \cup {j},
   raised |-> e.raised \/ request[j].need < 0]

ReservedScoreOnly(e, j) ==
  [score  |-> AtLeastZero(e.score - JobCost),
   free   |-> e.free,
   knows  |-> e.knows \cup {j},
   raised |-> e.raised \/ request[j].need < 0]

Reserved(e, j) ==
  [score  |-> AtLeastZero(e.score - JobCost),
   free   |-> IF e.free >= 0 THEN AtLeastZero(e.free - request[j].need) ELSE e.free,
   knows  |-> e.knows \cup {j},
   raised |-> e.raised \/ request[j].need < 0]

\* The entry does not say what the node is left with.
Careless(e, n) == e.free < 0 \/ e.raised \/ ~(Active(n) \subseteq e.knows)

\* reserve_compute_node: the candidate with the highest score.
Reserve(j, n) ==
  LET m == request[j].master
  IN  /\ request[j].pc = "scheduling"
      /\ n \in Candidates(j)
      /\ \A k \in Candidates(j) : view[m][k].score <= view[m][n].score
      /\ view' = [view EXCEPT ![m][n] = Reserved(@, j)]
      /\ request' = [request EXCEPT ![j].pc = "sent", ![j].node = n,
                                    ![j].careless = Careless(view[m][n], n)]
      /\ UNCHANGED <<config, up, failures, score, free, beat, beats>>

Retry(j) ==
  request' = [request EXCEPT ![j].attempt = @ + 1, ![j].node = NoNode, ![j].careless = FALSE,
                             ![j].pc = IF request[j].attempt + 1 < MaxRetries
                                       THEN "scheduling" ELSE "failed"]

ReserveNone(j) ==
  /\ request[j].pc = "scheduling"
  /\ Candidates(j) = {}
  /\ Retry(j)
  /\ UNCHANGED <<config, up, failures, score, free, beat, beats, view>>

Erase(j) ==
  view' = [view EXCEPT ![request[j].master] = Without(request[j].master, request[j].node)]

\* A transport failure, and the node is erased: it died, or the connection
\* failed before the payload was read.
ForwardFails(j) ==
  /\ request[j].pc \in {"sent", "lost"}
  /\ ~request[j].abandoned
  /\ Erase(j)
  /\ Retry(j)
  /\ UNCHANGED <<config, up, failures, score, free, beat, beats>>

\* The connection fails behind the payload: the handler of the node goes on
\* without it.  The next attempt, if there is one, is a request k of its own.
ForwardBreaks(j, k) ==
  /\ request[j].pc \in {"sent", "parsing", "executing"}
  /\ request[j].node \in up
  /\ ~request[j].abandoned
  /\ failures < MaxFailures
  /\ failures' = failures + 1
  /\ IF request[j].attempt + 1 < MaxRetries THEN request[k].pc = "new" ELSE k = j
  /\ Erase(j)
  /\ request' =
       [i \in Jobs |->
          IF i = j THEN [request[j] EXCEPT !.abandoned = TRUE]
          ELSE IF i = k
          THEN [NewRequest(request[j].master, request[j].need) EXCEPT
                  !.pc = "scheduling", !.attempt = request[j].attempt + 1]
          ELSE request[i]]
  /\ UNCHANGED <<config, up, score, free, beat, beats>>

-----------------------------------------------------------------------------
(***************************************************************************)
(* handle_master of the node                                               *)
(***************************************************************************)
Goto(j, pc) == request' = [request EXCEPT ![j].pc = pc]

\* available_resources -= 20, before the payload is parsed.
CountScore(j) ==
  /\ request[j].pc = "sent"
  /\ request[j].node \in up
  /\ score' = [score EXCEPT ![request[j].node] = @ - JobCost]
  /\ Goto(j, "parsing")
  /\ UNCHANGED <<config, up, failures, free, beat, beats, view>>

\* Mutant of CountFree: reserved_cores is not kept from being negative.
CountFreeUnclamped(j) ==
  /\ request[j].pc = "parsing"
  /\ free' = [free EXCEPT ![request[j].node] = @ - request[j].need]
  /\ request' = [request EXCEPT ![j].pc = "executing", ![j].held = request[j].need]
  /\ UNCHANGED <<config, up, failures, score, beat, beats, view>>

\* Parsed; free_cores -= max(0, min_cores).
CountFree(j) ==
  /\ request[j].pc = "parsing"
  /\ free' = [free EXCEPT ![request[j].node] = @ - AtLeastZero(request[j].need)]
  /\ request' = [request EXCEPT ![j].pc = "executing", ![j].held = AtLeastZero(request[j].need)]
  /\ UNCHANGED <<config, up, failures, score, beat, beats, view>>

\* Mutant of ParseThrows: the catch block only answers.
ParseThrowsNoRelease(j) ==
  /\ request[j].pc = "parsing"
  /\ request' = [request EXCEPT ![j].pc = "done", ![j].node = NoNode]
  /\ UNCHANGED <<config, up, failures, score, free, beat, beats, view>>

\* Parsing throws: the catch block answers, and will give back
\* reserved_cores, still 0.
ParseThrows(j) ==
  /\ request[j].pc = "parsing"
  /\ Goto(j, "releasing")
  /\ UNCHANGED <<config, up, failures, score, free, beat, beats, view>>

\* The job ends, or throws; either path sends the answer and the RESULT
\* before anything is released, and a master that gets them does nothing to
\* its entry.
Execute(j) ==
  /\ request[j].pc = "executing"
  /\ Goto(j, "releasing")
  /\ UNCHANGED <<config, up, failures, score, free, beat, beats, view>>

ReleaseScore(j) ==
  /\ request[j].pc = "releasing"
  /\ score' = [score EXCEPT ![request[j].node] = @ + JobCost]
  /\ Goto(j, "returning")
  /\ UNCHANGED <<config, up, failures, free, beat, beats, view>>

Over(r) == [r EXCEPT !.pc = "done", !.node = NoNode, !.held = 0, !.careless = FALSE,
                     !.abandoned = FALSE]

ForgetInBeat(js)  == [n \in Nodes |-> [beat[n] EXCEPT !.saw = @ \ js]]
ForgetInBeats(js) == {[b EXCEPT !.saw = @ \ js] : b \in beats}
ForgetInView(js)  ==
  [m \in Masters |-> [k \in Seen(m) |-> [view[m][k] EXCEPT !.knows = @ \ js]]]

ReleaseFree(j) ==
  /\ request[j].pc = "returning"
  /\ free' = [free EXCEPT ![request[j].node] = @ + request[j].held]
  /\ request' = [request EXCEPT ![j] = Over(@)]
  /\ beat' = ForgetInBeat({j})
  /\ beats' = ForgetInBeats({j})
  /\ view' = ForgetInView({j})
  /\ UNCHANGED <<config, up, failures, score>>

\* The node dies.  `reset' are the connections it had not read yet; the jobs
\* it has answered need it no more, and nobody waits for the abandoned ones.
Crash(n, reset) ==
  LET left == {j \in Jobs : request[j].abandoned}
      lost == (reset \cup At(n, {"parsing", "executing"})) \ left
      over == At(n, {"releasing", "returning"}) \cup (Active(n) \cap left)
  IN  /\ n \in up
      /\ failures < MaxFailures
      /\ up' = up \ {n}
      /\ failures' = failures + 1
      /\ request' = [j \in Jobs |->
           IF j \in lost THEN [request[j] EXCEPT !.pc = "lost", !.held = 0]
           ELSE IF j \in over THEN Over(request[j]) ELSE request[j]]
      /\ beat' = [ForgetInBeat(lost \cup over) EXCEPT ![n] = NoBeat]
      /\ beats' = ForgetInBeats(lost \cup over)
      /\ view' = ForgetInView(lost \cup over)
      /\ UNCHANGED <<config, score, free>>

\* main: the counters are read from compute_config.json.
Restart(n) ==
  /\ n \notin up
  /\ up' = up \cup {n}
  /\ score' = [score EXCEPT ![n] = config[n].score]
  /\ free' = [free EXCEPT ![n] = config[n].free]
  /\ UNCHANGED <<config, failures, beat, beats, view, request>>

-----------------------------------------------------------------------------
BeatStep(n) == LoadScore(n) \/ LoadFigures(n) \/ \E ms \in SUBSET Serving : SendBeat(n, ms)

MasterStep(j) == (\E n \in Nodes : Reserve(j, n)) \/ ReserveNone(j) \/ ForwardFails(j)

Breaks(j) == \E k \in Jobs : ForwardBreaks(j, k)

HandlerStep(j) ==
  \/ CountScore(j)
  \/ CountFree(j)
  \/ ParseThrows(j)
  \/ Execute(j)
  \/ ReleaseScore(j)
  \/ ReleaseFree(j)

Next ==
  \/ \E n \in Nodes : \/ BeatStep(n)
                      \/ \E m \in Masters : Evict(m, n)
                      \/ \E reset \in SUBSET At(n, {"sent"}) : Crash(n, reset)
                      \/ Restart(n)
  \/ \E b \in beats : TakeBeat(b)
  \/ \E j \in Jobs : Submit(j) \/ MasterStep(j) \/ Breaks(j) \/ HandlerStep(j)

Spec == Init /\ [][Next]_vars

(***************************************************************************)
(* Fairness: the threads of the masters and of live nodes go on, and of    *)
(* the heartbeats a node keeps sending some reach each master and are      *)
(* taken.  Nothing is assumed of clients, evictions, failures, restarts.   *)
(***************************************************************************)
BeatReaches(n, m) == \E ms \in SUBSET Serving : m \in ms /\ SendBeat(n, ms)

Fairness ==
  /\ \A j \in Jobs : WF_vars(MasterStep(j) \/ HandlerStep(j))
  /\ \A n \in Nodes :
       /\ WF_vars(BeatStep(n))
       /\ \A m \in Masters :
            /\ SF_vars(BeatReaches(n, m))
            /\ WF_vars(\E b \in beats : b.from = n /\ b.to = m /\ TakeBeat(b))

FairSpec == Spec /\ Fairness

-----------------------------------------------------------------------------
(***************************************************************************)
(* Properties                                                              *)
(***************************************************************************)

\* Every variable has its type.
TypeOK ==
  /\ config \in [Nodes -> Configs]
  /\ up \subseteq Nodes
  /\ failures \in 0..MaxFailures
  /\ score \in [Nodes -> Int]
  /\ free \in [Nodes -> Int]
  /\ beat \in [Nodes -> Draft]
  /\ beats \subseteq Beat
  /\ DOMAIN view = Masters
  /\ \A m \in Masters : /\ Seen(m) \subseteq Nodes
                        /\ view[m] \in [Seen(m) -> Entry]
  /\ request \in [Jobs -> Request]

\* A node is asked for more than it has only if a master sent it a job
\* carelessly: on an entry that did not know of a job the node was to serve
\* (its own, overwritten by an older heartbeat, or the other master's), on a
\* negative figure, which it takes for unknown, or on an entry that a
\* negative requirement had raised.  On entries that are none of these, torn
\* and late heartbeats, evictions and node restarts included, no node is
\* oversubscribed (master.cpp:417-455, 591, compute.cpp:233-237, 308).
ScoreHasCause ==
  \A n \in up : score[n] < 0 => \E j \in Active(n) : request[j].careless

\* The same of the figures (compute.cpp:319-321).
FreeHasCause ==
  \A n \in up : free[n] < 0 => \E j \in Active(n) : request[j].careless

\* The counters come back to their configured values whatever way the jobs
\* ended: a node that serves nothing holds nothing back.
IdleNodeIsWhole ==
  \A n \in up : Active(n) \subseteq At(n, {"sent"}) =>
                 score[n] = config[n].score /\ free[n] = config[n].free

Quiet == \A j \in Jobs : request[j].pc \in {"new", "done", "failed"}

\* No master keeps a reservation for ever: when all jobs are over, each master
\* that schedules comes to know a live node with all it has, though it is
\* never told that a job ended (master.cpp:457 has no caller, 591 does it).
ReservationsReturn ==
  \A n \in Nodes, m \in Masters :
    Quiet /\ n \in up /\ m \in Serving
      ~> \/ n \notin up
         \/ ~Quiet
         \/ n \in Seen(m) /\ view[m][n].score = config[n].score /\ view[m][n].free = config[n].free
=============================================================================
