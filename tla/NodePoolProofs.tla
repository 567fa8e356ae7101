--------------------------- MODULE NodePoolProofs ---------------------------
(***************************************************************************)
(* Theorems about the scheduling, for any number of nodes, masters and     *)
(* jobs, any requirements and any bounds on retries, heartbeats and        *)
(* failures.                                                                *)
(*                                                                         *)
(* ScoreHasCause is not inductive.  What makes it so is an account kept    *)
(* across the places a score can be in: a node's counter and the jobs it   *)
(* has counted make its configured score (ScoreIsCounted); a heartbeat and *)
(* an entry promise no more than the configured score less the jobs they   *)
(* know of (BeatsFit, EntriesFit); and the jobs sent without carelessness  *)
(* fit the node (CarefulFit).  FreeHasCause needs the same account for the *)
(* figures, whose amounts differ by job (Figures, below); IdleNodeIsWhole  *)
(* is then the case that a node has counted no job.                        *)
(***************************************************************************)
EXTENDS NodePool, TLAPS, FiniteSetTheorems

Cost(js) == JobCost * Cardinality(js)

\* The jobs in the node's handler, and those its score is or will be less by.
Held(n)  == At(n, {"parsing", "executing", "releasing", "returning"})
Owing(n) == At(n, {"sent", "parsing", "executing", "releasing"})

Fitting(n, s, known) == s + Cost(Owing(n) \cap known) <= config[n].score

ScoreIsCounted == \A n \in up : score[n] + Cost(InScore(n)) = config[n].score

DownIsIdle == \A n \in Nodes \ up : Held(n) = {}

BeatsFit ==
  /\ \A n \in Nodes : /\ beat[n].saw \subseteq Held(n)
                      /\ beat[n].pc = "score" => Fitting(n, beat[n].score, beat[n].saw)
  /\ \A b \in beats : /\ b.saw \subseteq Held(b.from)
                      /\ Fitting(b.from, b.score, b.saw)

\* Of the jobs under way to a node, a master knows its own only.
Known(m, n) == Held(n) \cup {j \in At(n, {"sent"}) : request[j].master = m}

EntriesFit ==
  \A m \in Masters : \A n \in Seen(m) :
    /\ view[m][n].knows \subseteq Known(m, n)
    /\ Fitting(n, view[m][n].score, view[m][n].knows)

Careful(n) == {j \in Owing(n) : ~request[j].careless}

CarefulFit == \A n \in Nodes : Cost(Careful(n)) <= config[n].score

IInv == TypeOK /\ ScoreIsCounted /\ DownIsIdle /\ BeatsFit /\ EntriesFit /\ CarefulFit

-----------------------------------------------------------------------------
(***************************************************************************)
(* What jobs cost                                                          *)
(***************************************************************************)

\* No jobs cost nothing.
LEMMA CostOfNone == Cost({}) = 0
<1>1. JobCost \in Nat
  BY NodePoolAssumption
<1> QED
  BY <1>1, FS_EmptySet DEF Cost

\* Fewer jobs cost no more, and what they cost is a natural number.
LEMMA CostIsMonotone ==
  ASSUME NEW S \in SUBSET Jobs, NEW T \in SUBSET S
  PROVE  Cost(S) \in Nat /\ Cost(T) \in Nat /\ Cost(T) <= Cost(S)
<1>1. IsFiniteSet(S) /\ JobCost \in Nat
  BY NodePoolAssumption, FS_Subset
<1>2. /\ Cardinality(S) \in Nat
      /\ Cardinality(T) \in Nat
      /\ Cardinality(T) <= Cardinality(S)
  BY <1>1, FS_Subset, FS_CardinalityType
<1>3. \A x, y, c \in Nat : x <= y => c * x \in Nat /\ c * y \in Nat /\ c * x <= c * y
  OBVIOUS
<1> QED
  BY <1>1, <1>2, <1>3 DEF Cost

\* One job more costs one job more.
LEMMA CostOfOneMore ==
  ASSUME NEW S \in SUBSET Jobs, NEW j \in Jobs, j \notin S
  PROVE  Cost(S \cup {j}) = Cost(S) + JobCost
<1>1. IsFiniteSet(S) /\ JobCost \in Nat
  BY NodePoolAssumption, FS_Subset
<1>2. Cardinality(S) \in Nat /\ Cardinality(S \cup {j}) = Cardinality(S) + 1
  BY <1>1, FS_AddElement, FS_CardinalityType
<1>3. \A x, c \in Nat : c * (x + 1) = c * x + c
  OBVIOUS
<1> QED
  BY <1>1, <1>2, <1>3 DEF Cost

-----------------------------------------------------------------------------
(***************************************************************************)
(* Types                                                                   *)
(***************************************************************************)

\* The start has the right types.
LEMMA InitTypes == Init => TypeOK
<1> SUFFICES ASSUME Init PROVE TypeOK
  OBVIOUS
<1> USE NodePoolAssumption
<1>1. /\ \A n \in Nodes : config[n].score \in Int /\ config[n].free \in Int
      /\ config \in [Nodes -> Configs] /\ up = Nodes /\ failures \in 0..MaxFailures
  BY DEF Init
<1>2. score \in [Nodes -> Int] /\ free \in [Nodes -> Int]
  BY <1>1 DEF Init
<1>3. beat \in [Nodes -> Draft] /\ beats \subseteq Beat
  BY DEF Init, Draft, NoBeat
<1>4. /\ DOMAIN view = Masters
      /\ \A m \in Masters : Seen(m) = {} /\ view[m] \in [Seen(m) -> Entry]
  BY DEF Init, Seen
<1>5. request \in [Jobs -> Request]
  <2>1. \A m \in Masters, need \in Needs : NewRequest(m, need) \in Request
    BY DEF NewRequest, Request, Pcs
  <2> QED
    BY <2>1 DEF Init
<1> QED
  BY <1>1, <1>2, <1>3, <1>4, <1>5 DEF TypeOK

\* The requests a master or a node writes.
LEMMA RequestTypes ==
  ASSUME NEW r \in Request
  PROVE  /\ \A pc \in Pcs : [r EXCEPT !.pc = pc] \in Request
         /\ Over(r) \in Request
         /\ [r EXCEPT !.pc = "lost", !.held = 0] \in Request
BY NodePoolAssumption DEF Request, Pcs, Over

\* An entry is replaced by a smaller one, less what the job asks for.
LEMMA ReservedType ==
  ASSUME request \in [Jobs -> Request], NEW e \in Entry, NEW j \in Jobs
  PROVE  Reserved(e, j) \in Entry
<1>1. request[j].need \in Int
  BY NodePoolAssumption DEF Request
<1>2. AtLeastZero(e.score - JobCost) \in Int /\ AtLeastZero(e.free - request[j].need) \in Int
  BY <1>1, NodePoolAssumption DEF Entry, AtLeastZero
<1> QED
  BY <1>1, <1>2 DEF Entry, Reserved

\* What has been heard is forgotten, or a node's entry is.
LEMMA ForgetTypes ==
  ASSUME TypeOK, NEW js
  PROVE  /\ ForgetInBeat(js) \in [Nodes -> Draft]
         /\ ForgetInBeats(js) \subseteq Beat
         /\ DOMAIN ForgetInView(js) = Masters
         /\ \A m \in Masters : /\ DOMAIN ForgetInView(js)[m] = Seen(m)
                               /\ ForgetInView(js)[m] \in [Seen(m) -> Entry]
<1>1. ForgetInBeat(js) \in [Nodes -> Draft]
  BY DEF TypeOK, Draft, ForgetInBeat
<1>2. ForgetInBeats(js) \subseteq Beat
  <2>1. \A b \in Beat : [b EXCEPT !.saw = @ \ js] \in Beat
    BY DEF Beat
  <2> QED
    BY <2>1 DEF TypeOK, ForgetInBeats
<1>3. \A e \in Entry : [e EXCEPT !.knows = @ \ js] \in Entry
  BY DEF Entry
<1>4. \A m \in Masters : \A n \in Seen(m) : view[m][n] \in Entry
  BY DEF TypeOK
<1> QED
  BY <1>1, <1>2, <1>3, <1>4 DEF ForgetInView

\* A master's view without a node is a view.
LEMMA WithoutType ==
  ASSUME TypeOK, NEW m \in Masters, NEW n
  PROVE  /\ DOMAIN Without(m, n) = Seen(m) \ {n}
         /\ Without(m, n) \in [Seen(m) \ {n} -> Entry]
BY DEF TypeOK, Without

\* One entry of one master changes.
LEMMA ViewTypes ==
  ASSUME TypeOK, NEW m \in Masters, NEW S \in SUBSET Nodes, NEW entries \in [S -> Entry],
         view' = [view EXCEPT ![m] = entries]
  PROVE  /\ DOMAIN view' = Masters
         /\ \A k \in Masters : /\ Seen(k)' \subseteq Nodes
                               /\ view'[k] \in [Seen(k)' -> Entry]
BY DEF TypeOK, Seen

\* A counter goes up or down.
LEMMA CounterTypes ==
  ASSUME NEW f \in [Nodes -> Int], NEW n, NEW i \in Int
  PROVE  [f EXCEPT ![n] = @ - i] \in [Nodes -> Int] /\ [f EXCEPT ![n] = @ + i] \in [Nodes -> Int]
<1>1. CASE n \in Nodes
  <2>1. f[n] - i \in Int /\ f[n] + i \in Int
    BY <1>1
  <2> QED
    BY <2>1
<1>2. CASE n \notin Nodes
  BY <1>2
<1> QED
  BY <1>1, <1>2

\* A request that is tried again, or given up, is a request.
LEMMA RetryType ==
  ASSUME TypeOK, NEW j \in Jobs, Retry(j)
  PROVE  request' \in [Jobs -> Request]
<1>1. request[j] \in Request
  BY DEF TypeOK
<1> DEFINE pc == IF request[j].attempt + 1 < MaxRetries THEN "scheduling" ELSE "failed"
<1>2. pc \in Pcs
  BY DEF Pcs
<1>3. request' = [request EXCEPT ![j].attempt = @ + 1, ![j].node = NoNode,
                                 ![j].careless = FALSE, ![j].pc = pc]
  BY DEF Retry
<1> HIDE DEF pc
<1>4. request[j].attempt + 1 \in Nat
  BY <1>1 DEF Request
<1>5. [request[j] EXCEPT !.attempt = @ + 1, !.node = NoNode, !.careless = FALSE,
                         !.pc = pc] \in Request
  BY <1>1, <1>2, <1>4 DEF Request
<1> QED
  BY <1>3, <1>5 DEF TypeOK

\* Every step keeps the types.
LEMMA NextTypes == TypeOK /\ [Next]_vars => TypeOK'
<1> SUFFICES ASSUME TypeOK, [Next]_vars PROVE TypeOK'
  OBVIOUS
<1>a. /\ \A j \in Jobs : request[j] \in Request
      /\ \A n \in Nodes : beat[n] \in Draft /\ score[n] \in Int /\ free[n] \in Int
      /\ \A m \in Masters, n \in Nodes : n \in Seen(m) => view[m][n] \in Entry
  BY DEF TypeOK
<1>b. /\ \A n \in Nodes : config[n].score \in Int /\ config[n].free \in Int
      /\ JobCost \in Int /\ MaxFailures \in Nat
  BY NodePoolAssumption DEF TypeOK
<1>c. \A j \in Jobs : /\ request[j].master \in Masters
                      /\ request[j].need \in Int
                      /\ request[j].held \in Int
  <2> TAKE j \in Jobs
  <2>1. request[j].need \in Needs /\ request[j].held \in Nat /\ request[j].master \in Masters
    BY <1>a DEF Request
  <2>2. Needs \subseteq Int
    BY NodePoolAssumption
  <2>3. request[j].need \in Int
    BY <2>1, <2>2
  <2> QED
    BY <2>1, <2>3
<1>0. /\ \A j \in Jobs : request[j] \in Request
      /\ \A n \in Nodes : beat[n] \in Draft /\ score[n] \in Int /\ free[n] \in Int
      /\ \A n \in Nodes : config[n].score \in Int /\ config[n].free \in Int
      /\ \A m \in Masters, n \in Nodes : n \in Seen(m) => view[m][n] \in Entry
      /\ \A j \in Jobs : request[j].master \in Masters
      /\ \A j \in Jobs : request[j].need \in Int /\ request[j].held \in Int
      /\ JobCost \in Int /\ MaxFailures \in Nat
  BY <1>a, <1>b, <1>c
<1>1. ASSUME NEW n \in Nodes, LoadScore(n) PROVE TypeOK'
  <2>1. [pc |-> "score", score |-> score[n], free |-> 0,
         saw |-> InScore(n) \cup InFree(n)] \in Draft
    BY <1>0 DEF Draft, InScore, InFree, At
  <2> QED
    BY <1>1, <2>1 DEF LoadScore, TypeOK, Seen
<1>18. ASSUME NEW n \in Nodes, LoadFigures(n) PROVE TypeOK'
  <2>1. [pc |-> "figures", score |-> 0, free |-> free[n], saw |-> InFree(n)] \in Draft
    BY <1>0 DEF Draft, InFree, At
  <2> QED
    BY <1>18, <2>1 DEF LoadFigures, TypeOK, Seen
<1>2. ASSUME NEW n \in Nodes, NEW ms \in SUBSET Serving, SendBeat(n, ms) PROVE TypeOK'
  <2>1. NoBeat \in Draft
    BY DEF NoBeat, Draft
  <2>2. beat' \in [Nodes -> Draft]
    BY <1>2, <2>1 DEF SendBeat, TypeOK
  <2> DEFINE s == IF beat[n].pc = "score" THEN beat[n].score ELSE score[n]
             f == IF beat[n].pc = "figures" THEN beat[n].free ELSE free[n]
  <2>3. \A m \in ms : [from |-> n, to |-> m, score |-> s, free |-> f,
                       saw |-> beat[n].saw \cap InFree(n)] \in Beat
    <3>1. ms \subseteq Masters
      BY <1>0 DEF Serving
    <3>2. s \in Int /\ f \in Int
      BY <1>0 DEF Draft
    <3> HIDE DEF s, f
    <3> QED
      BY <1>0, <3>1, <3>2 DEF Beat, Draft
  <2>4. beats' \subseteq Beat
    BY <1>2, <2>3 DEF SendBeat, TypeOK
  <2> QED
    BY <1>2, <2>2, <2>4 DEF SendBeat, TypeOK, Seen
<1>3. ASSUME NEW b \in beats, TakeBeat(b) PROVE TypeOK'
  <2>1. b \in Beat /\ b.to \in Masters /\ b.from \in Nodes
    BY DEF TypeOK, Beat
  <2>2. [score |-> b.score, free |-> b.free, knows |-> b.saw, raised |-> FALSE] \in Entry
    BY <2>1 DEF Beat, Entry
  <2> DEFINE S == Seen(b.to) \cup {b.from}
             entries == [n \in S |->
                IF n = b.from
                THEN [score |-> b.score, free |-> b.free, knows |-> b.saw, raised |-> FALSE]
                ELSE view[b.to][n]]
  <2>3. S \in SUBSET Nodes /\ entries \in [S -> Entry]
    BY <1>0, <2>1, <2>2 DEF TypeOK
  <2>4. view' = [view EXCEPT ![b.to] = entries]
    BY <1>3, <2>1 DEF TakeBeat, Seen, TypeOK
  <2> HIDE DEF S, entries
  <2>5. /\ DOMAIN view' = Masters
        /\ \A k \in Masters : Seen(k)' \subseteq Nodes /\ view'[k] \in [Seen(k)' -> Entry]
    BY <2>1, <2>3, <2>4, ViewTypes
  <2> QED
    BY <1>3, <2>5 DEF TakeBeat, TypeOK
<1>4. ASSUME NEW m \in Masters, NEW n \in Nodes, Evict(m, n) PROVE TypeOK'
  <2>1. Without(m, n) \in [Seen(m) \ {n} -> Entry] /\ Seen(m) \ {n} \in SUBSET Nodes
    BY WithoutType DEF TypeOK
  <2>2. /\ DOMAIN view' = Masters
        /\ \A k \in Masters : Seen(k)' \subseteq Nodes /\ view'[k] \in [Seen(k)' -> Entry]
    BY <1>4, <2>1, ViewTypes DEF Evict
  <2> QED
    BY <1>4, <2>2 DEF Evict, TypeOK
<1>5. ASSUME NEW j \in Jobs, NEW pc \in Pcs, Goto(j, pc) PROVE request' \in [Jobs -> Request]
  BY <1>0, <1>5, RequestTypes DEF Goto, TypeOK
<1>6. ASSUME NEW j \in Jobs, Submit(j) PROVE TypeOK'
  BY <1>0, <1>6, RequestTypes DEF Submit, TypeOK, Seen, Pcs
<1>7. ASSUME NEW j \in Jobs, NEW n \in Nodes, Reserve(j, n) PROVE TypeOK'
  <2> DEFINE m == request[j].master
             entries == [view[m] EXCEPT ![n] = Reserved(view[m][n], j)]
  <2>1. m \in Masters /\ n \in Seen(m)
    BY <1>0, <1>7 DEF Reserve, Candidates
  <2>2. Reserved(view[m][n], j) \in Entry
    BY <1>0, <2>1, ReservedType DEF TypeOK
  <2>3. entries \in [Seen(m) -> Entry] /\ Seen(m) \in SUBSET Nodes
    BY <2>1, <2>2 DEF TypeOK
  <2>4. view' = [view EXCEPT ![m] = entries]
    BY <1>7, <2>1 DEF Reserve
  <2> HIDE DEF entries
  <2>5. /\ DOMAIN view' = Masters
        /\ \A k \in Masters : Seen(k)' \subseteq Nodes /\ view'[k] \in [Seen(k)' -> Entry]
    BY <2>1, <2>3, <2>4, ViewTypes
  <2>6. request' \in [Jobs -> Request]
    <3> DEFINE c == Careless(view[m][n], n)
    <3>1. c \in BOOLEAN
      BY DEF Careless
    <3>2. request' = [request EXCEPT ![j].pc = "sent", ![j].node = n, ![j].careless = c]
      BY <1>7 DEF Reserve
    <3> HIDE DEF c
    <3>3. [request[j] EXCEPT !.pc = "sent", !.node = n, !.careless = c] \in Request
      BY <1>0, <3>1 DEF Request, Pcs
    <3> QED
      BY <3>2, <3>3 DEF TypeOK
  <2> QED
    BY <1>7, <2>5, <2>6 DEF Reserve, TypeOK
<1>8. ASSUME NEW j \in Jobs, ReserveNone(j) PROVE TypeOK'
  BY <1>8, RetryType DEF ReserveNone, TypeOK, Seen
<1>9. ASSUME NEW j \in Jobs, ForwardFails(j) PROVE TypeOK'
  <2> DEFINE m == request[j].master
             n == request[j].node
  <2>1. m \in Masters /\ Without(m, n) \in [Seen(m) \ {n} -> Entry]
        /\ Seen(m) \ {n} \in SUBSET Nodes
    BY <1>0, WithoutType DEF TypeOK
  <2>2. /\ DOMAIN view' = Masters
        /\ \A k \in Masters : Seen(k)' \subseteq Nodes /\ view'[k] \in [Seen(k)' -> Entry]
    BY <1>9, <2>1, ViewTypes DEF ForwardFails, Erase
  <2>3. request' \in [Jobs -> Request]
    BY <1>9, RetryType DEF ForwardFails
  <2> QED
    BY <1>9, <2>2, <2>3 DEF ForwardFails, TypeOK
<1>10. ASSUME NEW j \in Jobs, CountScore(j) PROVE TypeOK'
  <2>1. request' \in [Jobs -> Request]
    BY <1>5, <1>10 DEF CountScore, Pcs
  <2>2. score' \in [Nodes -> Int]
    BY <1>0, <1>10, CounterTypes DEF CountScore, TypeOK
  <2> QED
    BY <1>10, <2>1, <2>2 DEF CountScore, TypeOK, Seen
<1>11. ASSUME NEW j \in Jobs, CountFree(j) PROVE TypeOK'
  <2>1. AtLeastZero(request[j].need) \in Nat
    BY <1>0 DEF AtLeastZero
  <2>2. request' \in [Jobs -> Request]
    <3>1. [request[j] EXCEPT !.pc = "executing", !.held = AtLeastZero(request[j].need)]
            \in Request
      BY <1>0, <2>1 DEF Request, Pcs
    <3> QED
      BY <1>11, <3>1 DEF CountFree, TypeOK
  <2>3. free' \in [Nodes -> Int]
    <3>1. /\ AtLeastZero(request[j].need) \in Int /\ free \in [Nodes -> Int]
          /\ free' = [free EXCEPT ![request[j].node] = @ - AtLeastZero(request[j].need)]
      BY <1>11, <2>1 DEF CountFree, TypeOK
    <3> QED
      BY <3>1, CounterTypes
  <2> QED
    BY <1>11, <2>2, <2>3 DEF CountFree, TypeOK, Seen
<1>12. ASSUME NEW j \in Jobs, ParseThrows(j) \/ Execute(j) PROVE TypeOK'
  <2>1. request' \in [Jobs -> Request]
    BY <1>5, <1>12 DEF ParseThrows, Execute, Pcs
  <2> QED
    BY <1>12, <2>1 DEF ParseThrows, Execute, TypeOK, Seen
<1>13. ASSUME NEW j \in Jobs, ReleaseScore(j) PROVE TypeOK'
  <2>1. request' \in [Jobs -> Request]
    BY <1>5, <1>13 DEF ReleaseScore, Pcs
  <2>2. score' \in [Nodes -> Int]
    BY <1>0, <1>13, CounterTypes DEF ReleaseScore, TypeOK
  <2> QED
    BY <1>13, <2>1, <2>2 DEF ReleaseScore, TypeOK, Seen
<1>14. ASSUME NEW j \in Jobs, ReleaseFree(j) PROVE TypeOK'
  <2>1. request' \in [Jobs -> Request]
    BY <1>0, <1>14, RequestTypes DEF ReleaseFree, TypeOK
  <2>2. free' \in [Nodes -> Int]
    BY <1>0, <1>14, CounterTypes DEF ReleaseFree, TypeOK
  <2>3. beat' \in [Nodes -> Draft] /\ beats' \subseteq Beat
    BY <1>14, ForgetTypes DEF ReleaseFree
  <2>4. /\ DOMAIN view' = Masters
        /\ \A m \in Masters : Seen(m)' \subseteq Nodes /\ view'[m] \in [Seen(m)' -> Entry]
    BY <1>14, ForgetTypes DEF ReleaseFree, Seen, TypeOK
  <2> QED
    BY <1>14, <2>1, <2>2, <2>3, <2>4 DEF ReleaseFree, TypeOK
<1>15. ASSUME NEW n \in Nodes, NEW reset \in SUBSET At(n, {"sent"}), Crash(n, reset)
       PROVE  TypeOK'
  <2> DEFINE left == {j \in Jobs : request[j].abandoned}
             lost == (reset \cup At(n, {"parsing", "executing"})) \ left
             over == At(n, {"releasing", "returning"}) \cup (Active(n) \cap left)
  <2>1. request' \in [Jobs -> Request]
    <3>1. \A j \in Jobs : /\ Over(request[j]) \in Request
                          /\ [request[j] EXCEPT !.pc = "lost", !.held = 0] \in Request
      BY <1>0, RequestTypes
    <3> QED
      BY <1>0, <1>15, <3>1 DEF Crash
  <2>2. /\ beat' = [ForgetInBeat(lost \cup over) EXCEPT ![n] = NoBeat]
        /\ beats' = ForgetInBeats(lost \cup over)
        /\ view' = ForgetInView(lost \cup over)
    BY <1>15 DEF Crash
  <2> HIDE DEF lost, over
  <2>3. NoBeat \in Draft
    BY DEF NoBeat, Draft
  <2>4. beat' \in [Nodes -> Draft] /\ beats' \subseteq Beat
    BY <2>2, <2>3, ForgetTypes
  <2>5. /\ DOMAIN view' = Masters
        /\ \A m \in Masters : Seen(m)' \subseteq Nodes /\ view'[m] \in [Seen(m)' -> Entry]
    BY <2>2, ForgetTypes DEF Seen, TypeOK
  <2>6. failures' \in 0..MaxFailures /\ up' \subseteq Nodes
    <3>1. /\ failures \in 0..MaxFailures /\ failures < MaxFailures /\ MaxFailures \in Nat
          /\ failures' = failures + 1
          /\ up' = up \ {n} /\ up \subseteq Nodes
      BY <1>0, <1>15 DEF Crash, TypeOK
    <3> QED
      BY <3>1
  <2> QED
    BY <1>15, <2>1, <2>4, <2>5, <2>6 DEF Crash, TypeOK
<1>16. ASSUME NEW n \in Nodes, Restart(n) PROVE TypeOK'
  BY <1>0, <1>16 DEF Restart, TypeOK, Seen
<1>17. CASE UNCHANGED vars
  BY <1>17 DEF vars, TypeOK, Seen
<1>19. ASSUME NEW j \in Jobs, NEW k \in Jobs, ForwardBreaks(j, k) PROVE TypeOK'
  <2> DEFINE m == request[j].master
             n == request[j].node
             next == [NewRequest(m, request[j].need) EXCEPT
                        !.pc = "scheduling", !.attempt = request[j].attempt + 1]
  <2>1. m \in Masters /\ Without(m, n) \in [Seen(m) \ {n} -> Entry]
        /\ Seen(m) \ {n} \in SUBSET Nodes
    BY <1>0, WithoutType DEF TypeOK
  <2>2. /\ DOMAIN view' = Masters
        /\ \A i \in Masters : Seen(i)' \subseteq Nodes /\ view'[i] \in [Seen(i)' -> Entry]
    BY <1>19, <2>1, ViewTypes DEF ForwardBreaks, Erase
  <2>3. request' \in [Jobs -> Request]
    <3>1. [request[j] EXCEPT !.abandoned = TRUE] \in Request
      BY <1>0 DEF Request
    <3>2. request[j].need \in Needs /\ request[j].attempt + 1 \in Nat
      BY <1>0 DEF Request
    <3>3. next \in Request
      BY <2>1, <3>2 DEF NewRequest, Request, Pcs
    <3>4. request' = [i \in Jobs |-> IF i = j THEN [request[j] EXCEPT !.abandoned = TRUE]
                                     ELSE IF i = k THEN next ELSE request[i]]
      BY <1>19 DEF ForwardBreaks
    <3> HIDE DEF next
    <3> QED
      BY <1>0, <3>1, <3>3, <3>4
  <2>4. failures' \in 0..MaxFailures
    BY <1>0, <1>19 DEF ForwardBreaks, TypeOK
  <2> QED
    BY <1>19, <2>2, <2>3, <2>4 DEF ForwardBreaks, TypeOK
<1> QED
  BY <1>1, <1>2, <1>3, <1>4, <1>6, <1>7, <1>8, <1>9, <1>10, <1>11, <1>12, <1>13, <1>14,
     <1>15, <1>16, <1>17, <1>18, <1>19 DEF Next, BeatStep, MasterStep, HandlerStep, Breaks

\* Every variable keeps its type, for every instance.
THEOREM TypeCorrect == Spec => []TypeOK
BY InitTypes, NextTypes, PTL DEF Spec

-----------------------------------------------------------------------------
(***************************************************************************)
(* The account                                                             *)
(***************************************************************************)

\* The sets of jobs are sets of jobs, and the figures integers.
LEMMA Sets ==
  ASSUME TypeOK
  PROVE  /\ \A n, pcs : At(n, pcs) \subseteq Jobs
         /\ \A n : /\ Held(n) \subseteq Jobs
                   /\ Owing(n) \subseteq Jobs
                   /\ InScore(n) \subseteq Jobs
                   /\ InScore(n) \subseteq Held(n) \cap Owing(n)
                   /\ Careful(n) \subseteq Jobs
         /\ \A n \in Nodes : config[n].score \in Nat
         /\ JobCost \in Nat \ {0}
<1>1. \A n \in Nodes : config[n].score \in Nat
  BY NodePoolAssumption DEF TypeOK
<1> QED
  BY <1>1, NodePoolAssumption DEF At, Held, Owing, InScore, Careful

\* Which sets a job is in follows from its node and its state.
LEMMA OneJobMoves ==
  ASSUME NEW j \in Jobs, NEW node, NEW pc,
         \A k \in Jobs \ {j} : request'[k] = request[k],
         request'[j].node = node, request'[j].pc = pc
  PROVE  \A n, pcs : At(n, pcs)' =
           (At(n, pcs) \ {j}) \cup (IF n = node /\ pc \in pcs THEN {j} ELSE {})
BY DEF At

\* A promise is kept when no job it did not know of comes to be owing.
LEMMA FittingKept ==
  ASSUME TypeOK, config' = config, NEW n \in Nodes, NEW s \in Int, NEW known, NEW fewer,
         Fitting(n, s, known), Owing(n)' \cap fewer \subseteq Owing(n) \cap known
  PROVE  s + Cost(Owing(n)' \cap fewer) <= config'[n].score
<1>1. Owing(n) \cap known \in SUBSET Jobs
  BY Sets
<1>2. /\ Cost(Owing(n) \cap known) \in Nat
      /\ Cost(Owing(n)' \cap fewer) \in Nat
      /\ Cost(Owing(n)' \cap fewer) <= Cost(Owing(n) \cap known)
  BY <1>1, CostIsMonotone
<1> QED
  BY <1>2, Sets DEF Fitting

\* CarefulFit stays true while no job is sent with care.
LEMMA CarefulKept ==
  ASSUME TypeOK, CarefulFit, config' = config,
         \A n \in Nodes : Careful(n)' \subseteq Careful(n)
  PROVE  CarefulFit'
<1> SUFFICES ASSUME NEW n \in Nodes PROVE Cost(Careful(n)') <= config[n].score
  BY DEF CarefulFit, Cost
<1>1. /\ Cost(Careful(n)) \in Nat /\ Cost(Careful(n)') \in Nat
      /\ Cost(Careful(n)') <= Cost(Careful(n))
  BY Sets, CostIsMonotone
<1> QED
  BY <1>1, Sets DEF CarefulFit

\* EntriesFit stays true while entries lose knowledge, jobs or themselves, and gain
\* nothing.
LEMMA EntriesKept ==
  ASSUME TypeOK, EntriesFit, config' = config,
         \A n \in Nodes : Owing(n)' \subseteq Owing(n),
         \A m \in Masters : \A n \in Seen(m)' :
           /\ n \in Seen(m)
           /\ view'[m][n].score = view[m][n].score
           /\ view'[m][n].knows \subseteq view[m][n].knows \cap Known(m, n)'
  PROVE  EntriesFit'
<1> SUFFICES ASSUME NEW m \in Masters, NEW n \in Seen(m)'
             PROVE  /\ view'[m][n].knows \subseteq Known(m, n)'
                    /\ view'[m][n].score + Cost(Owing(n)' \cap view'[m][n].knows)
                         <= config'[n].score
  BY DEF EntriesFit, Fitting, Cost
<1>1. /\ n \in Seen(m) /\ n \in Nodes
      /\ view[m][n].score \in Int
      /\ Fitting(n, view[m][n].score, view[m][n].knows)
  BY DEF EntriesFit, TypeOK, Entry
<1>2. Owing(n)' \cap view'[m][n].knows \subseteq Owing(n) \cap view[m][n].knows
  BY <1>1
<1> QED
  BY <1>1, <1>2, FittingKept

\* BeatsFit stays true while heartbeats know of less and nothing new is promised.
LEMMA BeatsKept ==
  ASSUME TypeOK, BeatsFit, config' = config,
         \A n \in Nodes : Owing(n)' \subseteq Owing(n),
         \A n \in Nodes : \/ beat'[n] = NoBeat
                          \/ /\ beat'[n].pc = beat[n].pc
                             /\ beat'[n].score = beat[n].score
                             /\ beat'[n].saw \subseteq beat[n].saw \cap Held(n)',
         \A b \in beats' : \E a \in beats : /\ b.from = a.from
                                            /\ b.score = a.score
                                            /\ b.saw \subseteq a.saw \cap Held(a.from)'
  PROVE  BeatsFit'
<1>1. ASSUME NEW n \in Nodes
      PROVE  /\ beat'[n].saw \subseteq Held(n)'
             /\ beat'[n].pc = "score" =>
                  beat'[n].score + Cost(Owing(n)' \cap beat'[n].saw) <= config'[n].score
  <2>1. CASE beat'[n] = NoBeat
    BY <2>1 DEF NoBeat
  <2>2. CASE beat'[n] # NoBeat
    <3>1. /\ beat[n].score \in Int
          /\ beat'[n].pc = "score" => Fitting(n, beat[n].score, beat[n].saw)
      BY <2>2 DEF TypeOK, Draft, BeatsFit
    <3>2. Owing(n)' \cap beat'[n].saw \subseteq Owing(n) \cap beat[n].saw
      BY <2>2
    <3> QED
      BY <2>2, <3>1, <3>2, FittingKept
  <2> QED
    BY <2>1, <2>2
<1>2. ASSUME NEW b \in beats'
      PROVE  /\ b.saw \subseteq Held(b.from)'
             /\ b.score + Cost(Owing(b.from)' \cap b.saw) <= config'[b.from].score
  <2>1. PICK a \in beats : /\ b.from = a.from
                           /\ b.score = a.score
                           /\ b.saw \subseteq a.saw \cap Held(a.from)'
    OBVIOUS
  <2>2. a.from \in Nodes /\ a.score \in Int /\ Fitting(a.from, a.score, a.saw)
    BY DEF TypeOK, Beat, BeatsFit
  <2>3. Owing(a.from)' \cap b.saw \subseteq Owing(a.from) \cap a.saw
    BY <2>1, <2>2
  <2> QED
    BY <2>1, <2>2, <2>3, FittingKept
<1> QED
  BY <1>1, <1>2 DEF BeatsFit, Fitting, Cost

\* The start has the account in order.
LEMMA InitAccount == Init => IInv
<1> SUFFICES ASSUME Init PROVE IInv
  OBVIOUS
<1>1. TypeOK
  BY InitTypes
<1>2. \A j \in Jobs : request[j].pc = "new"
  BY DEF Init, NewRequest
<1>3. \A n : Held(n) = {} /\ Owing(n) = {} /\ InScore(n) = {} /\ Careful(n) = {}
  BY <1>2 DEF Held, Owing, InScore, Careful, At
<1>4. ScoreIsCounted
  <2> SUFFICES ASSUME NEW n \in up PROVE score[n] + Cost(InScore(n)) = config[n].score
    BY DEF ScoreIsCounted
  <2>1. score[n] = config[n].score /\ config[n].score \in Nat
    BY <1>1, Sets DEF Init
  <2>2. Cost(InScore(n)) = 0
    BY <1>3, CostOfNone
  <2> QED
    BY <2>1, <2>2
<1>5. DownIsIdle
  BY <1>3 DEF DownIsIdle
<1>6. BeatsFit
  BY DEF Init, BeatsFit, NoBeat
<1>7. EntriesFit
  BY DEF Init, EntriesFit, Seen
<1>8. CarefulFit
  <2> SUFFICES ASSUME NEW n \in Nodes PROVE Cost(Careful(n)) <= config[n].score
    BY DEF CarefulFit
  <2>1. Cost(Careful(n)) = 0 /\ config[n].score \in Nat
    BY <1>1, <1>3, CostOfNone, Sets
  <2> QED
    BY <2>1
<1> QED
  BY <1>1, <1>4, <1>5, <1>6, <1>7, <1>8 DEF IInv

\* A step that leaves all requests alone leaves all sets of jobs alone.
LEMMA NobodyMoves ==
  ASSUME TypeOK, CarefulFit, UNCHANGED <<request, config>>
  PROVE  /\ \A n : /\ Held(n)' = Held(n)
                   /\ Owing(n)' = Owing(n)
                   /\ InScore(n)' = InScore(n)
                   /\ InFree(n)' = InFree(n)
         /\ \A m, n : Known(m, n)' = Known(m, n)
         /\ CarefulFit'
<1>1. \A n : /\ Held(n)' = Held(n)
             /\ Owing(n)' = Owing(n)
             /\ InScore(n)' = InScore(n)
             /\ InFree(n)' = InFree(n)
             /\ Careful(n)' = Careful(n)
             /\ At(n, {"sent"})' = At(n, {"sent"})
  BY DEF Held, Owing, InScore, InFree, Careful, At
<1>2. \A m, n : Known(m, n)' = Known(m, n)
  BY <1>1 DEF Known
<1>3. CarefulFit'
  BY <1>1, CarefulKept
<1> QED
  BY <1>1, <1>2, <1>3

\* The score a heartbeat says and the jobs it was taken with fit together.
LEMMA LoadScoreKeeps ==
  ASSUME IInv, TypeOK', NEW n \in Nodes, LoadScore(n)
  PROVE  IInv'
<1> USE DEF IInv
<1>1. UNCHANGED <<request, config, up, score, beats, view>> /\ n \in up
  BY DEF LoadScore
<1>2. /\ \A k : /\ Held(k)' = Held(k)
                /\ Owing(k)' = Owing(k)
                /\ InScore(k)' = InScore(k)
      /\ \A m, k : Known(m, k)' = Known(m, k)
      /\ CarefulFit'
  BY <1>1, NobodyMoves
<1>3. ScoreIsCounted' /\ DownIsIdle' /\ EntriesFit'
  BY <1>1, <1>2 DEF ScoreIsCounted, DownIsIdle, EntriesFit, Seen, Fitting, Cost
<1>4. /\ beat'[n].pc = "score"
      /\ beat'[n].score = score[n] /\ beat'[n].saw = InScore(n) \cup InFree(n)
  BY DEF LoadScore, TypeOK
<1>5. /\ InScore(n) \cup InFree(n) \subseteq Held(n)
      /\ Owing(n) \cap (InScore(n) \cup InFree(n)) = InScore(n)
  BY DEF Held, Owing, InScore, InFree, At
<1>6. /\ beat'[n].saw \subseteq Held(n)
      /\ beat'[n].score + Cost(Owing(n) \cap beat'[n].saw) <= config[n].score
  <2>1. score[n] + Cost(InScore(n)) = config[n].score
    BY <1>1 DEF ScoreIsCounted
  <2>2. config[n].score \in Nat
    BY Sets
  <2> QED
    BY <1>4, <1>5, <2>1, <2>2
<1>7. \A k \in Nodes \ {n} : beat'[k] = beat[k]
  BY DEF LoadScore, TypeOK
<1>8. BeatsFit'
  <2>1. \A k \in Nodes :
          /\ beat'[k].saw \subseteq Held(k)
          /\ beat'[k].pc = "score" =>
               beat'[k].score + Cost(Owing(k) \cap beat'[k].saw) <= config[k].score
    <3> TAKE k \in Nodes
    <3>1. CASE k = n
      BY <1>6, <3>1
    <3>2. CASE k # n
      BY <1>7, <3>2 DEF BeatsFit, Fitting
    <3> QED
      BY <3>1, <3>2
  <2> QED
    BY <1>1, <1>2, <2>1 DEF BeatsFit, Fitting, Cost
<1> QED
  BY <1>2, <1>3, <1>8

\* A draft of the figures alone promises no score.
LEMMA LoadFiguresKeeps ==
  ASSUME IInv, TypeOK', NEW n \in Nodes, LoadFigures(n)
  PROVE  IInv'
<1> USE DEF IInv
<1>1. UNCHANGED <<request, config, up, score, beats, view>>
  BY DEF LoadFigures
<1>2. /\ \A k : /\ Held(k)' = Held(k)
                /\ Owing(k)' = Owing(k)
                /\ InScore(k)' = InScore(k)
      /\ \A m, k : Known(m, k)' = Known(m, k)
      /\ CarefulFit'
  BY <1>1, NobodyMoves
<1>3. ScoreIsCounted' /\ DownIsIdle' /\ EntriesFit'
  BY <1>1, <1>2 DEF ScoreIsCounted, DownIsIdle, EntriesFit, Seen, Fitting, Cost
<1>4. /\ beat'[n].pc = "figures" /\ beat'[n].saw = InFree(n)
      /\ \A k \in Nodes \ {n} : beat'[k] = beat[k]
  BY DEF LoadFigures, TypeOK
<1>5. InFree(n) \subseteq Held(n)
  BY DEF Held, InFree, At
<1>6. BeatsFit'
  <2>1. \A k \in Nodes :
          /\ beat'[k].saw \subseteq Held(k)
          /\ beat'[k].pc = "score" =>
               beat'[k].score + Cost(Owing(k) \cap beat'[k].saw) <= config[k].score
    BY <1>4, <1>5 DEF BeatsFit, Fitting
  <2> QED
    BY <1>1, <1>2, <2>1 DEF BeatsFit, Fitting, Cost
<1> QED
  BY <1>2, <1>3, <1>6

\* A heartbeat leaves with what was loaded, first or last.
LEMMA SendBeatKeeps ==
  ASSUME IInv, TypeOK', NEW n \in Nodes, NEW ms \in SUBSET Serving, SendBeat(n, ms)
  PROVE  IInv'
<1> USE DEF IInv
<1>1. UNCHANGED <<request, config, up, score, view>> /\ n \in up
  BY DEF SendBeat
<1>2. /\ \A k : /\ Held(k)' = Held(k)
                /\ Owing(k)' = Owing(k)
                /\ InScore(k)' = InScore(k)
      /\ \A m, k : Known(m, k)' = Known(m, k)
      /\ CarefulFit'
  BY <1>1, NobodyMoves
<1>3. ScoreIsCounted' /\ DownIsIdle' /\ EntriesFit'
  BY <1>1, <1>2 DEF ScoreIsCounted, DownIsIdle, EntriesFit, Seen, Fitting, Cost
<1>4. \A k \in Nodes :
        /\ beat'[k].saw \subseteq Held(k)
        /\ beat'[k].pc = "score" =>
             beat'[k].score + Cost(Owing(k) \cap beat'[k].saw) <= config[k].score
  <2> TAKE k \in Nodes
  <2>1. CASE k = n
    <3>1. beat'[k] = NoBeat
      BY <2>1 DEF SendBeat, TypeOK
    <3> QED
      BY <3>1 DEF NoBeat
  <2>2. CASE k # n
    BY <2>2 DEF SendBeat, TypeOK, BeatsFit, Fitting
  <2> QED
    BY <2>1, <2>2
<1>5. \A b \in beats' : /\ b.saw \subseteq Held(b.from)
                        /\ b.score + Cost(Owing(b.from) \cap b.saw) <= config[b.from].score
  <2> TAKE b \in beats'
  <2>1. CASE b \in beats
    BY <2>1 DEF BeatsFit, Fitting
  <2>2. CASE b \notin beats
    <3>1. /\ b.from = n
          /\ b.score = IF beat[n].pc = "score" THEN beat[n].score ELSE score[n]
          /\ b.saw = beat[n].saw \cap InFree(n)
      BY <2>2 DEF SendBeat
    <3>2. /\ beat[n].score \in Int /\ score[n] \in Int
          /\ beat[n].saw \subseteq Held(n)
      BY DEF TypeOK, Draft, BeatsFit
    <3>3. CASE beat[n].pc = "score"
      <4>1. Fitting(n, beat[n].score, beat[n].saw)
        BY <3>3 DEF BeatsFit
      <4>2. Owing(n)' \cap b.saw \subseteq Owing(n) \cap beat[n].saw
        BY <1>2, <3>1
      <4>3. beat[n].score + Cost(Owing(n)' \cap b.saw) <= config'[n].score
        BY <1>1, <3>2, <4>1, <4>2, FittingKept
      <4> QED
        BY <1>1, <1>2, <3>1, <3>2, <3>3, <4>3
    <3>4. CASE beat[n].pc # "score"
      <4>1. score[n] + Cost(InScore(n)) = config[n].score /\ config[n].score \in Nat
        BY <1>1, Sets DEF ScoreIsCounted
      <4>2. Owing(n) \cap b.saw \subseteq InScore(n)
        BY <3>1 DEF Owing, InFree, InScore, At
      <4>3. /\ Cost(InScore(n)) \in Nat /\ Cost(Owing(n) \cap b.saw) \in Nat
            /\ Cost(Owing(n) \cap b.saw) <= Cost(InScore(n))
        BY <4>2, Sets, CostIsMonotone
      <4> QED
        BY <3>1, <3>2, <3>4, <4>1, <4>3
    <3> QED
      BY <3>3, <3>4
  <2> QED
    BY <2>1, <2>2
<1>6. BeatsFit'
  BY <1>1, <1>2, <1>4, <1>5 DEF BeatsFit, Fitting, Cost
<1> QED
  BY <1>2, <1>3, <1>6

\* A master takes a heartbeat, and its entry is the heartbeat's.
LEMMA TakeBeatKeeps ==
  ASSUME IInv, TypeOK', NEW b \in beats, TakeBeat(b)
  PROVE  IInv'
<1> USE DEF IInv
<1>1. UNCHANGED <<request, config, up, score, beat>> /\ beats' \subseteq beats
  BY DEF TakeBeat
<1>2. /\ \A k : /\ Held(k)' = Held(k)
                /\ Owing(k)' = Owing(k)
                /\ InScore(k)' = InScore(k)
      /\ \A m, k : Known(m, k)' = Known(m, k)
      /\ CarefulFit'
  BY <1>1, NobodyMoves
<1>3. ScoreIsCounted' /\ DownIsIdle' /\ BeatsFit'
  BY <1>1, <1>2 DEF ScoreIsCounted, DownIsIdle, BeatsFit, Fitting, Cost
<1>4. ASSUME NEW m \in Masters, NEW n \in Seen(m)'
      PROVE  /\ view'[m][n].knows \subseteq Known(m, n)
             /\ view'[m][n].score + Cost(Owing(n) \cap view'[m][n].knows) <= config[n].score
  <2>1. CASE m = b.to /\ n = b.from
    <3>1. view'[m][n].score = b.score /\ view'[m][n].knows = b.saw
      BY <2>1 DEF TakeBeat, Seen, TypeOK
    <3> QED
      BY <2>1, <3>1 DEF BeatsFit, Fitting, Known
  <2>2. CASE ~(m = b.to /\ n = b.from)
    <3>1. n \in Seen(m) /\ view'[m][n] = view[m][n]
      BY <2>2 DEF TakeBeat, Seen, TypeOK
    <3> QED
      BY <3>1 DEF EntriesFit, Fitting
  <2> QED
    BY <2>1, <2>2
<1>5. EntriesFit'
  BY <1>1, <1>2, <1>4 DEF EntriesFit, Fitting, Cost
<1> QED
  BY <1>2, <1>3, <1>5

\* A master drops a node.
LEMMA EvictKeeps ==
  ASSUME IInv, TypeOK', NEW m \in Masters, NEW n \in Nodes, Evict(m, n)
  PROVE  IInv'
<1> USE DEF IInv
<1>1. UNCHANGED <<request, config, up, score, beat, beats>>
  BY DEF Evict
<1>2. /\ \A k : /\ Held(k)' = Held(k)
                /\ Owing(k)' = Owing(k)
                /\ InScore(k)' = InScore(k)
      /\ \A q, k : Known(q, k)' = Known(q, k)
      /\ CarefulFit'
  BY <1>1, NobodyMoves
<1>3. ScoreIsCounted' /\ DownIsIdle' /\ BeatsFit'
  BY <1>1, <1>2 DEF ScoreIsCounted, DownIsIdle, BeatsFit, Fitting, Cost
<1>4. \A q \in Masters : \A k \in Seen(q)' : k \in Seen(q) /\ view'[q][k] = view[q][k]
  BY DEF Evict, Without, Seen, TypeOK
<1>5. EntriesFit'
  BY <1>1, <1>2, <1>4 DEF EntriesFit, Fitting, Cost
<1> QED
  BY <1>2, <1>3, <1>5

\* A node comes back whole.
LEMMA RestartKeeps ==
  ASSUME IInv, TypeOK', NEW n \in Nodes, Restart(n)
  PROVE  IInv'
<1> USE DEF IInv
<1>1. UNCHANGED <<request, config, beat, beats, view>> /\ up' = up \cup {n} /\ n \notin up
  BY DEF Restart
<1>2. /\ \A k : /\ Held(k)' = Held(k)
                /\ Owing(k)' = Owing(k)
                /\ InScore(k)' = InScore(k)
      /\ \A q, k : Known(q, k)' = Known(q, k)
      /\ CarefulFit'
  BY <1>1, NobodyMoves
<1>3. DownIsIdle' /\ BeatsFit' /\ EntriesFit'
  BY <1>1, <1>2 DEF DownIsIdle, BeatsFit, EntriesFit, Seen, Fitting, Cost
<1>4. ASSUME NEW k \in up' PROVE score'[k] + Cost(InScore(k)) = config[k].score
  <2>1. CASE k = n
    <3>1. InScore(n) = {}
      BY <1>1, Sets DEF DownIsIdle
    <3>2. Cost(InScore(n)) = 0
      BY <3>1, CostOfNone
    <3>3. score'[n] = config[n].score /\ config[n].score \in Nat
      BY Sets DEF Restart, TypeOK
    <3> QED
      BY <2>1, <3>2, <3>3
  <2>2. CASE k # n
    BY <1>1, <2>2 DEF Restart, TypeOK, ScoreIsCounted
  <2> QED
    BY <2>1, <2>2
<1>5. ScoreIsCounted'
  BY <1>1, <1>2, <1>4 DEF ScoreIsCounted, Cost
<1> QED
  BY <1>2, <1>3, <1>5

\* A job that no node has read: it is new, waits for a node, is lost or on its
\* way, and nobody is told of it.
LEMMA OutsideKeeps ==
  ASSUME IInv, TypeOK', NEW j \in Jobs,
         \A k \in Jobs \ {j} : request'[k] = request[k],
         request'[j].pc \in {"scheduling", "failed"},
         request[j].pc \in {"new", "scheduling", "lost", "sent"},
         UNCHANGED <<config, up, score, beat, beats>>,
         \A m \in Masters : \A n \in Seen(m)' : n \in Seen(m) /\ view'[m][n] = view[m][n],
         request[j].pc = "sent" =>
           \A m \in Masters : request[j].master = m => request[j].node \notin Seen(m)'
  PROVE  IInv'
<1> USE DEF IInv
<1>1. \A n, pcs : pcs \cap {"scheduling", "failed"} = {} => At(n, pcs)' = At(n, pcs) \ {j}
  BY OneJobMoves
<1>2. \A n : /\ Held(n)' = Held(n)
             /\ InScore(n)' = InScore(n)
             /\ Owing(n)' = Owing(n) \ {j}
             /\ At(n, {"sent"})' = At(n, {"sent"}) \ {j}
             /\ j \notin Held(n)
  BY <1>1 DEF Held, InScore, Owing, At
<1>3. \A n : Careful(n)' \subseteq Careful(n)
  BY <1>2 DEF Careful, Owing, At
<1>4. ScoreIsCounted' /\ DownIsIdle'
  BY <1>2 DEF ScoreIsCounted, DownIsIdle, Cost
<1>5. CarefulFit'
  BY <1>3, CarefulKept
<1>6. BeatsFit'
  <2>1. \A n \in Nodes : beat'[n].saw \subseteq beat[n].saw \cap Held(n)'
    BY <1>2 DEF BeatsFit
  <2>2. \A b \in beats' : b \in beats /\ b.saw \subseteq b.saw \cap Held(b.from)'
    BY <1>2 DEF BeatsFit
  <2> QED
    BY <1>2, <2>1, <2>2, BeatsKept
<1>7. EntriesFit'
  <2>1. ASSUME NEW m \in Masters, NEW n \in Seen(m)'
        PROVE  /\ n \in Seen(m)
               /\ view'[m][n].score = view[m][n].score
               /\ view'[m][n].knows \subseteq view[m][n].knows \cap Known(m, n)'
    <3>1. view'[m][n] = view[m][n] /\ view[m][n].knows \subseteq Known(m, n)
      BY DEF EntriesFit
    <3>2. j \notin Known(m, n)
      <4> SUFFICES ASSUME j \in Known(m, n) PROVE FALSE
        OBVIOUS
      <4>1. request[j].pc = "sent" /\ request[j].node = n /\ request[j].master = m
        BY <1>2 DEF Known, At
      <4> QED
        BY <4>1
    <3>3. Known(m, n) \subseteq Known(m, n)'
      BY <1>2, <3>2 DEF Known, At
    <3> QED
      BY <3>1, <3>3
  <2> QED
    BY <1>2, <2>1, EntriesKept
<1> QED
  BY <1>4, <1>5, <1>6, <1>7

\* A job comes to a master.
LEMMA SubmitKeeps ==
  ASSUME IInv, TypeOK', NEW j \in Jobs, Submit(j)
  PROVE  IInv'
<1>1. /\ \A k \in Jobs \ {j} : request'[k] = request[k]
      /\ request'[j].pc = "scheduling"
      /\ request[j].pc = "new"
      /\ UNCHANGED <<config, up, score, beat, beats, view>>
  BY DEF Submit, IInv, TypeOK, Request
<1> QED
  BY <1>1, OutsideKeeps DEF Seen

\* Only the request that is tried again moves.
LEMMA RetryMoves ==
  ASSUME TypeOK, NEW j \in Jobs, Retry(j)
  PROVE  /\ \A k \in Jobs \ {j} : request'[k] = request[k]
         /\ request'[j].pc \in {"scheduling", "failed"}
BY DEF Retry, TypeOK, Request

\* No node has room.
LEMMA ReserveNoneKeeps ==
  ASSUME IInv, TypeOK', NEW j \in Jobs, ReserveNone(j)
  PROVE  IInv'
<1>1. /\ \A k \in Jobs \ {j} : request'[k] = request[k]
      /\ request'[j].pc \in {"scheduling", "failed"}
      /\ request[j].pc = "scheduling"
      /\ UNCHANGED <<config, up, score, beat, beats, view>>
  BY RetryMoves DEF ReserveNone, IInv
<1> QED
  BY <1>1, OutsideKeeps DEF Seen

\* The node died, or the connection failed, before the payload was read.
LEMMA ForwardFailsKeeps ==
  ASSUME IInv, TypeOK', NEW j \in Jobs, ForwardFails(j)
  PROVE  IInv'
<1>1. /\ \A k \in Jobs \ {j} : request'[k] = request[k]
      /\ request'[j].pc \in {"scheduling", "failed"}
      /\ request[j].pc \in {"lost", "sent"}
      /\ UNCHANGED <<config, up, score, beat, beats>>
  BY RetryMoves DEF ForwardFails, IInv
<1>2. /\ \A m \in Masters : \A n \in Seen(m)' : n \in Seen(m) /\ view'[m][n] = view[m][n]
      /\ \A m \in Masters : request[j].master = m => request[j].node \notin Seen(m)'
  <2>1. DOMAIN view = Masters /\ request[j].master \in Masters
    BY DEF IInv, TypeOK, Request
  <2>2. view' = [view EXCEPT ![request[j].master] = Without(request[j].master, request[j].node)]
    BY DEF ForwardFails, Erase
  <2> QED
    BY <2>1, <2>2 DEF Without, Seen
<1> QED
  BY <1>1, <1>2, OutsideKeeps

\* When a connection breaks nothing moves at the node; the next attempt is one
\* of a request that no node has.
LEMMA BreaksMoves ==
  ASSUME TypeOK, NEW j \in Jobs, NEW k \in Jobs, ForwardBreaks(j, k)
  PROVE  /\ UNCHANGED <<config, up, score, free, beat, beats>>
         /\ \A i \in Jobs :
              \/ /\ request'[i].pc = request[i].pc
                 /\ request'[i].master = request[i].master
                 /\ request'[i].node = request[i].node
                 /\ request'[i].need = request[i].need
                 /\ request'[i].held = request[i].held
                 /\ request'[i].careless = request[i].careless
              \/ /\ request[i].pc = "new" /\ request'[i].pc = "scheduling"
                 /\ request'[i].held = 0
         /\ \A m \in Masters : \A n \in Seen(m)' : n \in Seen(m) /\ view'[m][n] = view[m][n]
<1> DEFINE next == [NewRequest(request[j].master, request[j].need) EXCEPT
                      !.pc = "scheduling", !.attempt = request[j].attempt + 1]
<1>1. request' = [i \in Jobs |-> IF i = j THEN [request[j] EXCEPT !.abandoned = TRUE]
                                 ELSE IF i = k THEN next ELSE request[i]]
  BY DEF ForwardBreaks
<1>2. next.pc = "scheduling" /\ next.held = 0
  BY DEF NewRequest
<1>3. k = j \/ request[k].pc = "new"
  BY DEF ForwardBreaks
<1>4. ASSUME NEW i \in Jobs
      PROVE  \/ /\ request'[i].pc = request[i].pc
                /\ request'[i].master = request[i].master
                /\ request'[i].node = request[i].node
                /\ request'[i].need = request[i].need
                /\ request'[i].held = request[i].held
                /\ request'[i].careless = request[i].careless
             \/ /\ request[i].pc = "new" /\ request'[i].pc = "scheduling"
                /\ request'[i].held = 0
  <2> HIDE DEF next
  <2>1. CASE i = j
    BY <1>1, <2>1 DEF TypeOK, Request
  <2>2. CASE i # j /\ i = k
    BY <1>1, <1>2, <1>3, <2>2
  <2>3. CASE i # j /\ i # k
    BY <1>1, <2>3
  <2> QED
    BY <2>1, <2>2, <2>3
<1>5. \A m \in Masters : \A n \in Seen(m)' : n \in Seen(m) /\ view'[m][n] = view[m][n]
  <2>1. DOMAIN view = Masters /\ request[j].master \in Masters
    BY DEF TypeOK, Request
  <2>2. view' = [view EXCEPT ![request[j].master] = Without(request[j].master, request[j].node)]
    BY DEF ForwardBreaks, Erase
  <2> QED
    BY <2>1, <2>2 DEF Without, Seen
<1> QED
  BY <1>4, <1>5 DEF ForwardBreaks

LEMMA ForwardBreaksKeeps ==
  ASSUME IInv, TypeOK', NEW j \in Jobs, NEW k \in Jobs, ForwardBreaks(j, k)
  PROVE  IInv'
<1> USE DEF IInv
<1>1. /\ UNCHANGED <<config, up, score, beat, beats>>
      /\ \A m \in Masters : \A n \in Seen(m)' : n \in Seen(m) /\ view'[m][n] = view[m][n]
  BY BreaksMoves
<1>2. \A n : /\ Held(n)' = Held(n)
             /\ Owing(n)' = Owing(n)
             /\ InScore(n)' = InScore(n)
             /\ Careful(n)' = Careful(n)
  BY BreaksMoves DEF Held, Owing, InScore, Careful, At
<1>3. \A m, n : Known(m, n)' = Known(m, n)
  BY <1>2, BreaksMoves DEF Known, At
<1>4. ScoreIsCounted' /\ DownIsIdle' /\ BeatsFit' /\ CarefulFit'
  BY <1>1, <1>2 DEF ScoreIsCounted, DownIsIdle, BeatsFit, CarefulFit, Fitting, Cost
<1>5. EntriesFit'
  BY <1>1, <1>2, <1>3 DEF EntriesFit, Fitting, Cost
<1> QED
  BY <1>4, <1>5

\* A job that goes on in its node's handler.
LEMMA HandlerKeeps ==
  ASSUME IInv, TypeOK', NEW j \in Jobs,
         \A k \in Jobs \ {j} : request'[k] = request[k],
         request'[j].node = request[j].node, request'[j].careless = request[j].careless,
         request[j].pc \in {"sent", "parsing", "executing", "releasing"},
         request'[j].pc \in {"parsing", "executing", "releasing", "returning"},
         request[j].pc = "sent" => request[j].node \in up,
         UNCHANGED <<config, up, beat, beats, view>>
  PROVE  DownIsIdle' /\ BeatsFit' /\ EntriesFit' /\ CarefulFit'
<1> USE DEF IInv
<1>1. \A n, pcs : At(n, pcs)' =
        (At(n, pcs) \ {j})
           \cup (IF n = request[j].node /\ request'[j].pc \in pcs THEN {j} ELSE {})
  BY OneJobMoves
<1>2. \A n : Held(n) \subseteq Held(n)' /\ Owing(n)' \subseteq Owing(n)
  BY <1>1 DEF Held, Owing, At
<1>3. \A m, n : Known(m, n) \subseteq Known(m, n)'
  <2> SUFFICES ASSUME NEW m, NEW n, NEW k \in Known(m, n) PROVE k \in Known(m, n)'
    OBVIOUS
  <2>1. CASE k = j
    <3>1. n = request[j].node
      BY <2>1 DEF Known, Held, At
    <3>2. j \in Held(n)'
      BY <1>1, <3>1 DEF Held
    <3> QED
      BY <2>1, <3>2 DEF Known
  <2>2. CASE k # j
    BY <1>2, <2>2 DEF Known, At
  <2> QED
    BY <2>1, <2>2
<1>4. DownIsIdle'
  <2>1. \A n \in Nodes \ up : Held(n)' = {}
    <3> TAKE n \in Nodes \ up
    <3>1. n # request[j].node
      BY DEF DownIsIdle, Held, At
    <3>2. Held(n)' = Held(n) \ {j}
      BY <1>1, <3>1 DEF Held
    <3> QED
      BY <3>2 DEF DownIsIdle
  <2> QED
    BY <2>1 DEF DownIsIdle
<1>5. CarefulFit'
  <2>1. \A n : Careful(n)' \subseteq Careful(n)
    BY <1>2 DEF Careful, Owing, At
  <2> QED
    BY <2>1, CarefulKept
<1>6. BeatsFit'
  <2>1. \A n \in Nodes : beat'[n].saw \subseteq beat[n].saw \cap Held(n)'
    BY <1>2 DEF BeatsFit
  <2>2. \A b \in beats' : b \in beats /\ b.saw \subseteq b.saw \cap Held(b.from)'
    BY <1>2 DEF BeatsFit
  <2> QED
    BY <1>2, <2>1, <2>2, BeatsKept
<1>7. EntriesFit'
  <2>1. \A m \in Masters : \A n \in Seen(m)' :
          /\ n \in Seen(m)
          /\ view'[m][n].score = view[m][n].score
          /\ view'[m][n].knows \subseteq view[m][n].knows \cap Known(m, n)'
    BY <1>3 DEF EntriesFit, Seen
  <2> QED
    BY <1>2, <2>1, EntriesKept
<1> QED
  BY <1>4, <1>5, <1>6, <1>7

\* The score is counted off while the job is in InScore.
LEMMA CountScoreKeeps ==
  ASSUME IInv, TypeOK', NEW j \in Jobs, CountScore(j)
  PROVE  IInv'
<1> USE DEF IInv
<1>1. /\ \A k \in Jobs \ {j} : request'[k] = request[k]
      /\ request'[j].node = request[j].node
      /\ request'[j].careless = request[j].careless
      /\ request[j].pc = "sent" /\ request'[j].pc = "parsing" /\ request[j].node \in up
      /\ UNCHANGED <<config, up, beat, beats, view>>
  BY DEF CountScore, Goto, TypeOK, Request
<1>2. DownIsIdle' /\ BeatsFit' /\ EntriesFit' /\ CarefulFit'
  BY <1>1, HandlerKeeps
<1>3. ScoreIsCounted'
  <2> SUFFICES ASSUME NEW n \in up PROVE score'[n] + Cost(InScore(n)') = config[n].score
    BY <1>1 DEF ScoreIsCounted, Cost
  <2>1. n \in Nodes /\ score[n] \in Int /\ score[n] + Cost(InScore(n)) = config[n].score
    BY DEF TypeOK, ScoreIsCounted
  <2>2. CASE n = request[j].node
    <3>1. InScore(n)' = InScore(n) \cup {j} /\ j \notin InScore(n) /\ InScore(n) \subseteq Jobs
      BY <1>1, <2>2 DEF InScore, At
    <3>2. Cost(InScore(n)') = Cost(InScore(n)) + JobCost
      BY <3>1, CostOfOneMore
    <3>3. Cost(InScore(n)) \in Nat /\ JobCost \in Nat
      BY <3>1, CostIsMonotone, Sets
    <3>4. score'[n] = score[n] - JobCost
      BY <2>1, <2>2 DEF CountScore, TypeOK
    <3> QED
      BY <2>1, <3>2, <3>3, <3>4
  <2>3. CASE n # request[j].node
    <3>1. InScore(n)' = InScore(n)
      BY <1>1, <2>3 DEF InScore, At
    <3>2. score'[n] = score[n]
      BY <2>1, <2>3 DEF CountScore, TypeOK
    <3> QED
      BY <2>1, <3>1, <3>2
  <2> QED
    BY <2>2, <2>3
<1> QED
  BY <1>2, <1>3

\* Parsing, refusing and executing leave the score alone.
LEMMA InsideKeeps ==
  ASSUME IInv, TypeOK', NEW j \in Jobs, CountFree(j) \/ ParseThrows(j) \/ Execute(j)
  PROVE  IInv'
<1> USE DEF IInv
<1>1. /\ \A k \in Jobs \ {j} : request'[k] = request[k]
      /\ request'[j].node = request[j].node
      /\ request'[j].careless = request[j].careless
      /\ request[j].pc \in {"parsing", "executing"}
      /\ request'[j].pc \in {"executing", "releasing"}
      /\ UNCHANGED <<config, up, score, beat, beats, view>>
  BY DEF CountFree, ParseThrows, Execute, Goto, TypeOK, Request
<1>2. DownIsIdle' /\ BeatsFit' /\ EntriesFit' /\ CarefulFit'
  BY <1>1, HandlerKeeps
<1>3. \A n : InScore(n)' = InScore(n)
  BY <1>1 DEF InScore, At
<1>4. ScoreIsCounted'
  BY <1>1, <1>3 DEF ScoreIsCounted, Cost
<1> QED
  BY <1>2, <1>4

\* A node gives a job's score back.
LEMMA ReleaseScoreKeeps ==
  ASSUME IInv, TypeOK', NEW j \in Jobs, ReleaseScore(j)
  PROVE  IInv'
<1> USE DEF IInv
<1>1. /\ \A k \in Jobs \ {j} : request'[k] = request[k]
      /\ request'[j].node = request[j].node
      /\ request'[j].careless = request[j].careless
      /\ request[j].pc = "releasing" /\ request'[j].pc = "returning"
      /\ UNCHANGED <<config, up, beat, beats, view>>
  BY DEF ReleaseScore, Goto, TypeOK, Request
<1>2. DownIsIdle' /\ BeatsFit' /\ EntriesFit' /\ CarefulFit'
  BY <1>1, HandlerKeeps
<1>3. ScoreIsCounted'
  <2> SUFFICES ASSUME NEW n \in up PROVE score'[n] + Cost(InScore(n)') = config[n].score
    BY <1>1 DEF ScoreIsCounted, Cost
  <2>1. n \in Nodes /\ score[n] \in Int /\ score[n] + Cost(InScore(n)) = config[n].score
    BY DEF TypeOK, ScoreIsCounted
  <2>2. CASE n = request[j].node
    <3>1. InScore(n) = InScore(n)' \cup {j} /\ j \notin InScore(n)' /\ InScore(n)' \subseteq Jobs
      BY <1>1, <2>2 DEF InScore, At
    <3>2. Cost(InScore(n)) = Cost(InScore(n)') + JobCost
      BY <3>1, CostOfOneMore
    <3>3. Cost(InScore(n)') \in Nat /\ JobCost \in Nat
      BY <3>1, CostIsMonotone, Sets
    <3>4. score'[n] = score[n] + JobCost
      BY <2>1, <2>2 DEF ReleaseScore, TypeOK
    <3> QED
      BY <2>1, <3>2, <3>3, <3>4
  <2>3. CASE n # request[j].node
    <3>1. InScore(n)' = InScore(n)
      BY <1>1, <2>3 DEF InScore, At
    <3>2. score'[n] = score[n]
      BY <2>1, <2>3 DEF ReleaseScore, TypeOK
    <3> QED
      BY <2>1, <3>1, <3>2
  <2> QED
    BY <2>2, <2>3
<1> QED
  BY <1>2, <1>3

\* Jobs that leave their node are forgotten everywhere.
LEMMA LeavingKeeps ==
  ASSUME IInv, TypeOK', NEW js \in SUBSET Jobs, config' = config,
         \A n : Held(n)' = Held(n) \ js /\ Owing(n)' = Owing(n) \ js,
         \A n : At(n, {"sent"})' = At(n, {"sent"}) \ js,
         \A k \in Jobs \ js : request'[k] = request[k],
         \A n \in Nodes : beat'[n] = NoBeat \/ beat'[n] = ForgetInBeat(js)[n],
         beats' = ForgetInBeats(js), view' = ForgetInView(js)
  PROVE  BeatsFit' /\ EntriesFit' /\ CarefulFit'
<1> USE DEF IInv
<1>1. CarefulFit'
  <2>1. \A n : Careful(n)' \subseteq Careful(n)
    BY Sets DEF Careful
  <2> QED
    BY <2>1, CarefulKept
<1>2. BeatsFit'
  <2>1. \A n \in Nodes : \/ beat'[n] = NoBeat
                         \/ /\ beat'[n].pc = beat[n].pc
                            /\ beat'[n].score = beat[n].score
                            /\ beat'[n].saw \subseteq beat[n].saw \cap Held(n)'
    <3> TAKE n \in Nodes
    <3>1. CASE beat'[n] = ForgetInBeat(js)[n]
      <4>1. /\ beat'[n].pc = beat[n].pc /\ beat'[n].score = beat[n].score
            /\ beat'[n].saw = beat[n].saw \ js
        BY <3>1 DEF ForgetInBeat, TypeOK, Draft
      <4> QED
        BY <4>1 DEF BeatsFit
    <3> QED
      BY <3>1
  <2>2. \A b \in beats' : \E a \in beats : /\ b.from = a.from
                                           /\ b.score = a.score
                                           /\ b.saw \subseteq a.saw \cap Held(a.from)'
    <3> TAKE b \in beats'
    <3>1. PICK a \in beats : b = [a EXCEPT !.saw = @ \ js]
      BY DEF ForgetInBeats
    <3>2. b.from = a.from /\ b.score = a.score /\ b.saw = a.saw \ js
      BY <3>1 DEF TypeOK, Beat
    <3> QED
      BY <3>2 DEF BeatsFit
  <2> QED
    BY <2>1, <2>2, BeatsKept
<1>3. EntriesFit'
  <2>1. ASSUME NEW m \in Masters, NEW n \in Seen(m)'
        PROVE  /\ n \in Seen(m)
               /\ view'[m][n].score = view[m][n].score
               /\ view'[m][n].knows \subseteq view[m][n].knows \cap Known(m, n)'
    <3>1. n \in Seen(m) /\ view[m][n] \in Entry
      BY DEF ForgetInView, Seen, TypeOK
    <3>2. view'[m][n] = [view[m][n] EXCEPT !.knows = @ \ js]
      BY <3>1 DEF ForgetInView
    <3>3. view'[m][n].score = view[m][n].score /\ view'[m][n].knows = view[m][n].knows \ js
      BY <3>1, <3>2 DEF Entry
    <3>4. Known(m, n) \ js \subseteq Known(m, n)'
      BY Sets DEF Known, At
    <3> QED
      BY <3>1, <3>3, <3>4 DEF EntriesFit
  <2> QED
    BY <2>1, EntriesKept
<1> QED
  BY <1>1, <1>2, <1>3

\* A node gives a job's figures back.
LEMMA ReleaseFreeKeeps ==
  ASSUME IInv, TypeOK', NEW j \in Jobs, ReleaseFree(j)
  PROVE  IInv'
<1> USE DEF IInv
<1>1. /\ \A k \in Jobs \ {j} : request'[k] = request[k]
      /\ request[j].pc = "returning" /\ request'[j].pc = "done"
      /\ UNCHANGED <<config, up, score>>
      /\ beat' = ForgetInBeat({j}) /\ beats' = ForgetInBeats({j}) /\ view' = ForgetInView({j})
  BY DEF ReleaseFree, Over, TypeOK, Request
<1>2. \A n : /\ Held(n)' = Held(n) \ {j}
             /\ Owing(n)' = Owing(n) \ {j}
             /\ InScore(n)' = InScore(n)
             /\ At(n, {"sent"})' = At(n, {"sent"}) \ {j}
  BY <1>1 DEF Held, Owing, InScore, At
<1>3. BeatsFit' /\ EntriesFit' /\ CarefulFit'
  BY <1>1, <1>2, LeavingKeeps
<1>4. ScoreIsCounted' /\ DownIsIdle'
  BY <1>1, <1>2 DEF ScoreIsCounted, DownIsIdle, Cost
<1> QED
  BY <1>3, <1>4

\* A node dies with what it was doing.
LEMMA CrashKeeps ==
  ASSUME IInv, TypeOK', NEW n \in Nodes, NEW reset \in SUBSET At(n, {"sent"}), Crash(n, reset)
  PROVE  IInv'
<1> USE DEF IInv
<1> DEFINE left == {k \in Jobs : request[k].abandoned}
           lost == (reset \cup At(n, {"parsing", "executing"})) \ left
           over == At(n, {"releasing", "returning"}) \cup (Active(n) \cap left)
<1>1. /\ \A k \in Jobs : k \in lost => request'[k].pc = "lost"
      /\ \A k \in Jobs : k \in over => request'[k].pc = "done"
      /\ \A k \in Jobs \ (lost \cup over) : request'[k] = request[k]
  <2>1. request' = [k \in Jobs |->
          IF k \in lost THEN [request[k] EXCEPT !.pc = "lost", !.held = 0]
          ELSE IF k \in over THEN Over(request[k]) ELSE request[k]]
    BY DEF Crash
  <2>2. lost \cap over = {}
    BY DEF At
  <2>3. \A k \in Jobs : /\ [request[k] EXCEPT !.pc = "lost", !.held = 0].pc = "lost"
                        /\ Over(request[k]).pc = "done"
    BY DEF TypeOK, Request, Over
  <2> HIDE DEF lost, over
  <2> QED
    BY <2>1, <2>2, <2>3
<1>2. /\ UNCHANGED <<config, score>> /\ up' = up \ {n}
      /\ \A k \in Nodes : beat'[k] = NoBeat \/ beat'[k] = ForgetInBeat(lost \cup over)[k]
      /\ beats' = ForgetInBeats(lost \cup over)
      /\ view' = ForgetInView(lost \cup over)
  BY DEF Crash, ForgetInBeat
<1>3. lost \cup over \in SUBSET Jobs
  BY DEF Active, InScore, InFree, At
<1>4. \A k, pcs : "lost" \notin pcs /\ "done" \notin pcs => At(k, pcs)' = At(k, pcs) \ (lost \cup over)
  <2> HIDE DEF lost, over
  <2> QED
    BY <1>1, <1>3 DEF At
<1>5. \A k : /\ Held(k)' = Held(k) \ (lost \cup over)
             /\ Owing(k)' = Owing(k) \ (lost \cup over)
             /\ InScore(k)' = InScore(k) \ (lost \cup over)
             /\ At(k, {"sent"})' = At(k, {"sent"}) \ (lost \cup over)
  <2> HIDE DEF lost, over
  <2> QED
    BY <1>4 DEF Held, Owing, InScore
<1>6. /\ Held(n) \subseteq lost \cup over
      /\ \A k : k # n => InScore(k) \cap (lost \cup over) = {}
  BY DEF Held, Active, InScore, InFree, At
<1> HIDE DEF lost, over
<1>7. BeatsFit' /\ EntriesFit' /\ CarefulFit'
  BY <1>1, <1>2, <1>3, <1>5, LeavingKeeps
<1>8. ScoreIsCounted'
  <2>1. \A k \in up' : InScore(k)' = InScore(k) /\ k \in up
    BY <1>2, <1>5, <1>6
  <2> QED
    BY <1>2, <2>1 DEF ScoreIsCounted, Cost
<1>9. DownIsIdle'
  BY <1>2, <1>5, <1>6 DEF DownIsIdle
<1> QED
  BY <1>7, <1>8, <1>9

\* A reservation on an entry that knows of all the node has to do fits.
LEMMA ReserveKeeps ==
  ASSUME IInv, TypeOK', NEW j \in Jobs, NEW n \in Nodes, Reserve(j, n)
  PROVE  IInv'
<1> USE DEF IInv
<1>0. PICK m \in Masters : m = request[j].master
  BY DEF TypeOK, Request
<1> DEFINE e == view[m][n]
           new == view'[m][n]
<1>1. /\ \A k \in Jobs \ {j} : request'[k] = request[k]
      /\ request[j].pc = "scheduling" /\ request'[j].pc = "sent" /\ request'[j].node = n
      /\ request'[j].master = m
      /\ ~request'[j].careless => e.free >= 0 /\ Active(n) \subseteq e.knows
      /\ UNCHANGED <<config, up, score, beat, beats>>
  <2>1. request' = [request EXCEPT ![j].pc = "sent", ![j].node = n, ![j].careless = Careless(e, n)]
    BY <1>0 DEF Reserve
  <2>2. request[j] \in Request /\ request \in [Jobs -> Request]
    BY DEF TypeOK
  <2>3. request'[j].careless = Careless(e, n)
    BY <2>1, <2>2 DEF Request
  <2>4. e.free \in Int
    BY <1>0 DEF Reserve, Candidates, TypeOK, Entry
  <2>5. ~Careless(e, n) => e.free >= 0 /\ Active(n) \subseteq e.knows
    BY <2>4 DEF Careless
  <2> QED
    BY <1>0, <2>1, <2>2, <2>3, <2>5 DEF Reserve, Request
<1>2. /\ m \in Masters /\ n \in Seen(m) /\ e \in Entry
      /\ e.score \in Int /\ e.score >= JobCost
      /\ JobCost \in Nat \ {0} /\ config[n].score \in Nat
  <2>1. m \in Masters /\ n \in Seen(m) /\ e.score >= JobCost
    BY <1>0 DEF Reserve, Candidates, Fits
  <2> QED
    BY <2>1, Sets DEF TypeOK, Entry
<1>3. /\ view' = [view EXCEPT ![m][n] = Reserved(e, j)]
      /\ new.score = e.score - JobCost
      /\ new.knows = e.knows \cup {j}
  <2>1. view' = [view EXCEPT ![m][n] = Reserved(e, j)]
    BY <1>0, <1>2 DEF Reserve
  <2>2. new = Reserved(e, j)
    BY <1>2, <2>1 DEF TypeOK
  <2>3. AtLeastZero(e.score - JobCost) = e.score - JobCost
    BY <1>2 DEF AtLeastZero
  <2> QED
    BY <2>1, <2>2, <2>3 DEF Reserved
<1> HIDE DEF e, new
<1>4. \A k, pcs : At(k, pcs)' = (At(k, pcs) \ {j}) \cup (IF k = n /\ "sent" \in pcs THEN {j} ELSE {})
  BY <1>1, OneJobMoves
<1>5. \A k : /\ Held(k)' = Held(k) /\ InScore(k)' = InScore(k)
             /\ j \notin Held(k) /\ j \notin Owing(k)
             /\ Owing(k)' = Owing(k) \cup (IF k = n THEN {j} ELSE {})
  BY <1>1, <1>4 DEF Held, InScore, Owing, At
<1>6. \A q, k : j \notin Known(q, k) /\ Known(q, k) \subseteq Known(q, k)'
  BY <1>1, <1>5 DEF Known, At
<1>7. ScoreIsCounted' /\ DownIsIdle'
  BY <1>1, <1>5 DEF ScoreIsCounted, DownIsIdle, Cost
<1>8. /\ Owing(n) \cap e.knows \subseteq Jobs
      /\ e.score + Cost(Owing(n) \cap e.knows) <= config[n].score
      /\ Cost(Owing(n) \cap e.knows) \in Nat
      /\ e.knows \subseteq Known(m, n)
  <2>1. e.score + Cost(Owing(n) \cap e.knows) <= config[n].score /\ e.knows \subseteq Known(m, n)
    BY <1>2 DEF EntriesFit, Fitting, e
  <2>2. Owing(n) \cap e.knows \subseteq Jobs
    BY Sets
  <2> QED
    BY <2>1, <2>2, CostIsMonotone
<1>9. BeatsFit'
  <2>1. ASSUME NEW k \in Nodes
        PROVE  /\ beat[k].saw \subseteq Held(k)
               /\ beat[k].pc = "score" =>
                    beat[k].score + Cost(Owing(k)' \cap beat[k].saw) <= config'[k].score
    <3>1. /\ beat[k].score \in Int
          /\ beat[k].pc = "score" => Fitting(k, beat[k].score, beat[k].saw)
          /\ beat[k].saw \subseteq Held(k)
      BY DEF TypeOK, Draft, BeatsFit
    <3>2. Owing(k)' \cap beat[k].saw \subseteq Owing(k) \cap beat[k].saw
      BY <1>5, <3>1
    <3> QED
      BY <1>1, <3>1, <3>2, FittingKept
  <2>2. ASSUME NEW b \in beats
        PROVE  /\ b.saw \subseteq Held(b.from)
               /\ b.score + Cost(Owing(b.from)' \cap b.saw) <= config'[b.from].score
    <3>1. b.from \in Nodes /\ b.score \in Int /\ Fitting(b.from, b.score, b.saw)
          /\ b.saw \subseteq Held(b.from)
      BY DEF TypeOK, Beat, BeatsFit
    <3> DEFINE k == b.from
    <3>2. Owing(k)' \cap b.saw \subseteq Owing(k) \cap b.saw
      BY <1>5, <3>1
    <3> QED
      BY <1>1, <3>1, <3>2, FittingKept
  <2> QED
    BY <1>1, <1>5, <2>1, <2>2 DEF BeatsFit, Fitting, Cost
<1>10. EntriesFit'
  <2>1. ASSUME NEW q \in Masters, NEW k \in Seen(q)'
        PROVE  /\ view'[q][k].knows \subseteq Known(q, k)'
               /\ view'[q][k].score + Cost(Owing(k)' \cap view'[q][k].knows) <= config'[k].score
    <3>1. CASE q = m /\ k = n
      <4>1. view'[q][k].score = e.score - JobCost /\ view'[q][k].knows = e.knows \cup {j}
        BY <1>3, <3>1 DEF new
      <4>2. j \in Known(m, n)'
        BY <1>1, <1>4 DEF Known, At
      <4>3. /\ Owing(n)' \cap (e.knows \cup {j}) = (Owing(n) \cap e.knows) \cup {j}
            /\ j \notin Owing(n) \cap e.knows
        BY <1>5
      <4>4. Cost(Owing(n)' \cap (e.knows \cup {j})) = Cost(Owing(n) \cap e.knows) + JobCost
        BY <1>8, <4>3, CostOfOneMore
      <4>5. (e.score - JobCost) + Cost(Owing(n)' \cap (e.knows \cup {j})) <= config[n].score
        BY <1>2, <1>8, <4>4
      <4>6. e.knows \cup {j} \subseteq Known(m, n)'
        BY <1>6, <1>8, <4>2
      <4> QED
        BY <1>1, <3>1, <4>1, <4>5, <4>6
    <3>2. CASE ~(q = m /\ k = n)
      <4>1. k \in Seen(q) /\ k \in Nodes /\ view'[q][k] = view[q][k] /\ view[q][k] \in Entry
        BY <1>2, <1>3, <3>2 DEF Seen, TypeOK
      <4>2. /\ view[q][k].score \in Int
            /\ Fitting(k, view[q][k].score, view[q][k].knows)
            /\ view[q][k].knows \subseteq Known(q, k)
        BY <4>1 DEF EntriesFit, Entry
      <4>3. Owing(k)' \cap view[q][k].knows \subseteq Owing(k) \cap view[q][k].knows
        BY <1>5, <1>6, <4>2
      <4>4. view[q][k].score + Cost(Owing(k)' \cap view[q][k].knows) <= config'[k].score
        BY <1>1, <4>1, <4>2, <4>3, FittingKept
      <4> QED
        BY <1>6, <4>1, <4>2, <4>4
    <3> QED
      BY <3>1, <3>2
  <2> QED
    BY <2>1 DEF EntriesFit, Fitting, Cost
<1>11. CarefulFit'
  <2>1. ASSUME NEW k \in Nodes PROVE Cost(Careful(k)') <= config[k].score
    <3>1. CASE Careful(k)' \subseteq Careful(k)
      <4>1. /\ Cost(Careful(k)) \in Nat /\ Cost(Careful(k)') \in Nat
            /\ Cost(Careful(k)') <= Cost(Careful(k))
        BY <3>1, Sets, CostIsMonotone
      <4> QED
        BY <4>1, Sets DEF CarefulFit
    <3>2. CASE k = n /\ ~request'[j].careless
      <4>1. Owing(n) \subseteq e.knows
        BY <1>1, <3>2 DEF Active, Owing, InScore, InFree, At
      <4>2. Owing(n) \cap e.knows = Owing(n)
        BY <4>1
      <4>3. Cost(Owing(n) \cup {j}) = Cost(Owing(n)) + JobCost
        BY <1>5, Sets, CostOfOneMore
      <4>4. Careful(n)' \subseteq Owing(n) \cup {j} /\ Owing(n) \cup {j} \in SUBSET Jobs
        BY <1>5, Sets DEF Careful
      <4>5. Cost(Careful(n)') \in Nat /\ Cost(Careful(n)') <= Cost(Owing(n) \cup {j})
        BY <4>4, CostIsMonotone
      <4> QED
        BY <1>2, <1>8, <3>2, <4>2, <4>3, <4>5
    <3>3. Careful(k)' \subseteq Careful(k) \/ (k = n /\ ~request'[j].careless)
      BY <1>1, <1>5 DEF Careful, Owing, At
    <3> QED
      BY <3>1, <3>2, <3>3
  <2> QED
    BY <1>1, <2>1 DEF CarefulFit, Cost
<1> QED
  BY <1>7, <1>9, <1>10, <1>11

\* Every step keeps the account.
LEMMA NextAccount == IInv /\ [Next]_vars => IInv'
<1> SUFFICES ASSUME IInv, [Next]_vars PROVE IInv'
  OBVIOUS
<1>1. TypeOK'
  BY NextTypes DEF IInv
<1>2. ASSUME NEW n \in Nodes, BeatStep(n) PROVE IInv'
  BY <1>1, <1>2, LoadScoreKeeps, LoadFiguresKeeps, SendBeatKeeps DEF BeatStep
<1>3. ASSUME NEW b \in beats, TakeBeat(b) PROVE IInv'
  BY <1>1, <1>3, TakeBeatKeeps
<1>4. ASSUME NEW n \in Nodes, NEW m \in Masters, Evict(m, n) PROVE IInv'
  BY <1>1, <1>4, EvictKeeps
<1>5. ASSUME NEW n \in Nodes, NEW reset \in SUBSET At(n, {"sent"}), Crash(n, reset) PROVE IInv'
  BY <1>1, <1>5, CrashKeeps
<1>6. ASSUME NEW n \in Nodes, Restart(n) PROVE IInv'
  BY <1>1, <1>6, RestartKeeps
<1>7. ASSUME NEW j \in Jobs, Submit(j) PROVE IInv'
  BY <1>1, <1>7, SubmitKeeps
<1>8. ASSUME NEW j \in Jobs, MasterStep(j) PROVE IInv'
  BY <1>1, <1>8, ReserveKeeps, ReserveNoneKeeps, ForwardFailsKeeps DEF MasterStep
<1>11. ASSUME NEW j \in Jobs, Breaks(j) PROVE IInv'
  BY <1>1, <1>11, ForwardBreaksKeeps DEF Breaks
<1>9. ASSUME NEW j \in Jobs, HandlerStep(j) PROVE IInv'
  BY <1>1, <1>9, CountScoreKeeps, InsideKeeps, ReleaseScoreKeeps, ReleaseFreeKeeps
  DEF HandlerStep
<1>10. CASE UNCHANGED vars
  <2>1. UNCHANGED <<request, config, up, score, beat, beats, view>>
    BY <1>10 DEF vars
  <2>2. /\ \A k : /\ Held(k)' = Held(k)
                  /\ Owing(k)' = Owing(k)
                  /\ InScore(k)' = InScore(k)
        /\ \A q, k : Known(q, k)' = Known(q, k)
        /\ CarefulFit'
    BY <2>1, NobodyMoves DEF IInv
  <2> QED
    BY <1>1, <2>1, <2>2
    DEF IInv, ScoreIsCounted, DownIsIdle, BeatsFit, EntriesFit, Seen, Fitting, Cost
<1> QED
  BY <1>2, <1>3, <1>4, <1>5, <1>6, <1>7, <1>8, <1>9, <1>10, <1>11 DEF Next

-----------------------------------------------------------------------------
\* No node's score is overdrawn but through a job sent carelessly, however
\* many nodes, masters, jobs, heartbeats and failures there are.
THEOREM ScoreOverdrawnOnlyCarelessly == Spec => []ScoreHasCause
<1>1. IInv => ScoreHasCause
  <2> SUFFICES ASSUME IInv, NEW n \in up, \A j \in Active(n) : ~request[j].careless
               PROVE  ~(score[n] < 0)
    BY DEF ScoreHasCause
  <2> USE DEF IInv
  <2>1. n \in Nodes /\ score[n] \in Int /\ score[n] + Cost(InScore(n)) = config[n].score
    BY DEF TypeOK, ScoreIsCounted
  <2>2. InScore(n) \subseteq Careful(n)
    BY DEF Careful, Owing, Active, InScore, At
  <2>3. /\ Cost(InScore(n)) \in Nat /\ Cost(Careful(n)) \in Nat
        /\ Cost(InScore(n)) <= Cost(Careful(n))
    BY <2>2, Sets, CostIsMonotone
  <2>4. Cost(Careful(n)) <= config[n].score /\ config[n].score \in Nat
    BY <2>1, Sets DEF CarefulFit
  <2> QED
    BY <2>1, <2>3, <2>4
<1> QED
  BY <1>1, InitAccount, NextAccount, PTL DEF Spec
-----------------------------------------------------------------------------
(***************************************************************************)
(* The figures                                                             *)
(*                                                                         *)
(* The same account for free.  Jobs differ in what they ask for, so that   *)
(* the amount of several is a sum; it is taken as the number of units that *)
(* the jobs hold, each a pair of a job and a number, as a number of        *)
(* elements needs no induction.                                            *)
(***************************************************************************)

\* What a job keeps of a node's figures, or will when it is parsed.
Dues ==
  [j \in Jobs |->
     IF request[j].pc \in {"executing", "releasing", "returning"} THEN request[j].held
     ELSE IF request[j].pc \in {"sent", "parsing"} THEN AtLeastZero(request[j].need)
     ELSE 0]

Units(due, js)  == UNION {{j} \X (1..due[j]) : j \in js}
Amount(due, js) == Cardinality(Units(due, js))

\* Only finitely many units are held, and a job holds some in its handler only.
UnitsAreFinite == IsFiniteSet(Units(Dues, Jobs))

HeldInside ==
  \A j \in Jobs : request[j].pc \notin {"executing", "releasing", "returning"} =>
                    request[j].held = 0

FreeIsCounted == \A n \in up : free[n] + Amount(Dues, InFree(n)) = config[n].free

Covered(n, f, known) == f + Amount(Dues, Active(n) \cap known) <= config[n].free

DraftsCovered ==
  \A n \in Nodes : beat[n].pc = "figures" => Covered(n, beat[n].free, beat[n].saw)

BeatsCovered == \A b \in beats : Covered(b.from, b.free, b.saw)

EntriesCovered ==
  \A m \in Masters : \A n \in Seen(m) :
    \/ view[m][n].free < 0
    \/ view[m][n].raised
    \/ Covered(n, view[m][n].free, view[m][n].knows)

CarefulActive(n) == {j \in Active(n) : ~request[j].careless}

CarefulCovered == \A n \in Nodes : Amount(Dues, CarefulActive(n)) <= config[n].free

PromisesCovered ==
  UnitsAreFinite /\ DraftsCovered /\ BeatsCovered /\ EntriesCovered /\ CarefulCovered

Figures == HeldInside /\ FreeIsCounted /\ PromisesCovered

-----------------------------------------------------------------------------
(***************************************************************************)
(* Amounts                                                                 *)
(***************************************************************************)

\* No jobs hold nothing.
LEMMA AmountOfNone == \A due : Amount(due, {}) = 0
<1> TAKE due
<1>1. Units(due, {}) = {}
  BY DEF Units
<1> QED
  BY <1>1, FS_EmptySet DEF Amount

\* Fewer jobs that hold less hold finitely many units, and no more.
LEMMA AmountIsMonotone ==
  ASSUME NEW due \in [Jobs -> Nat], NEW less \in [Jobs -> Nat],
         IsFiniteSet(Units(due, Jobs)),
         NEW S \in SUBSET Jobs, NEW T \in SUBSET S,
         \A j \in T : less[j] <= due[j]
  PROVE  /\ IsFiniteSet(Units(less, T))
         /\ Amount(due, S) \in Nat
         /\ Amount(less, T) \in Nat
         /\ Amount(less, T) <= Amount(due, S)
<1>1. Units(due, S) \subseteq Units(due, Jobs)
  BY DEF Units
<1>2. Units(less, T) \subseteq Units(due, S)
  <2> SUFFICES ASSUME NEW j \in T, NEW u \in {j} \X (1..less[j])
               PROVE  u \in {j} \X (1..due[j])
    BY DEF Units
  <2>1. less[j] \in Nat /\ due[j] \in Nat /\ less[j] <= due[j]
    OBVIOUS
  <2>2. 1..less[j] \subseteq 1..due[j]
    BY <2>1
  <2> QED
    BY <2>2
<1>3. IsFiniteSet(Units(due, S)) /\ IsFiniteSet(Units(less, T))
  BY <1>1, <1>2, FS_Subset
<1> QED
  BY <1>2, <1>3, FS_Subset, FS_CardinalityType DEF Amount

\* Jobs that hold the same amounts hold the same amount together.
LEMMA SameAmount ==
  ASSUME NEW due, NEW other, NEW S, \A j \in S : due[j] = other[j]
  PROVE  Amount(due, S) = Amount(other, S)
<1>1. Units(due, S) = Units(other, S)
  BY DEF Units
<1> QED
  BY <1>1 DEF Amount

\* What one job holds.
LEMMA UnitsOfOne ==
  ASSUME NEW j, NEW d \in Nat
  PROVE  IsFiniteSet({j} \X (1..d)) /\ Cardinality({j} \X (1..d)) = d
<1> DEFINE f == [i \in 1..d |-> <<j, i>>]
           T == {j} \X (1..d)
<1>1. IsFiniteSet(1..d) /\ Cardinality(1..d) = d
  BY FS_Interval
<1>2. f \in Bijection(1..d, T)
  <2>1. f \in [1..d -> T]
    OBVIOUS
  <2>2. \A i, k \in 1..d : f[i] = f[k] => i = k
    OBVIOUS
  <2>3. \A t \in T : \E i \in 1..d : f[i] = t
    OBVIOUS
  <2> QED
    BY <2>1, <2>2, <2>3 DEF Bijection, Injection, Surjection, IsInjective
<1>3. ExistsBijection(1..d, T)
  BY <1>2 DEF ExistsBijection
<1> QED
  BY <1>1, <1>3, FS_Bijection

\* One job more holds what that job holds more.
LEMMA AmountOfOneMore ==
  ASSUME NEW due \in [Jobs -> Nat], IsFiniteSet(Units(due, Jobs)),
         NEW S \in SUBSET Jobs, NEW j \in Jobs, j \notin S
  PROVE  Amount(due, S \cup {j}) = Amount(due, S) + due[j]
<1> DEFINE one == {j} \X (1..due[j])
<1>1. Units(due, S \cup {j}) = Units(due, S) \cup one
  BY DEF Units
<1>2. Units(due, S) \cap one = {}
  BY DEF Units
<1>3. IsFiniteSet(one) /\ Cardinality(one) = due[j]
  BY UnitsOfOne
<1>4. IsFiniteSet(Units(due, S))
  <2>1. Units(due, S) \subseteq Units(due, Jobs)
    BY DEF Units
  <2> QED
    BY <2>1, FS_Subset
<1> HIDE DEF one
<1>5. Cardinality(Units(due, S) \cup one)
        = Cardinality(Units(due, S)) + Cardinality(one) - Cardinality({})
  BY <1>2, <1>3, <1>4, FS_Union
<1>6. Cardinality(Units(due, S)) \in Nat /\ due[j] \in Nat /\ Cardinality({}) = 0
  BY <1>4, FS_CardinalityType, FS_EmptySet
<1>7. Cardinality(Units(due, S) \cup one) = Cardinality(Units(due, S)) + due[j]
  BY <1>3, <1>5, <1>6
<1> QED
  BY <1>1, <1>7 DEF Amount

\* When one job comes to hold another amount, the units stay finite.
LEMMA FiniteOfOneMore ==
  ASSUME NEW due \in [Jobs -> Nat], NEW other \in [Jobs -> Nat], NEW j \in Jobs,
         IsFiniteSet(Units(due, Jobs)),
         \A k \in Jobs \ {j} : other[k] = due[k]
  PROVE  IsFiniteSet(Units(other, Jobs))
<1> DEFINE one == {j} \X (1..other[j])
<1>1. IsFiniteSet(one)
  BY UnitsOfOne
<1>2. Units(other, Jobs) \subseteq Units(due, Jobs) \cup one
  BY DEF Units
<1> HIDE DEF one
<1>3. IsFiniteSet(Units(due, Jobs) \cup one)
  BY <1>1, FS_Union
<1> QED
  BY <1>2, <1>3, FS_Subset

-----------------------------------------------------------------------------
(***************************************************************************)
(* Steps after which no more is promised                                   *)
(***************************************************************************)

\* What jobs hold are natural numbers.
LEMMA DuesAreNaturals ==
  ASSUME TypeOK
  PROVE  Dues \in [Jobs -> Nat]
<1> SUFFICES ASSUME NEW j \in Jobs
             PROVE  request[j].held \in Nat /\ AtLeastZero(request[j].need) \in Nat
  BY DEF Dues
<1>1. request[j] \in Request
  BY DEF TypeOK
<1>2. request[j].need \in Int
  BY <1>1, NodePoolAssumption DEF Request
<1> QED
  BY <1>1, <1>2 DEF Request, AtLeastZero

\* The same after a step.
LEMMA DuesStayNaturals ==
  ASSUME TypeOK'
  PROVE  Dues' \in [Jobs -> Nat]
<1> SUFFICES ASSUME NEW j \in Jobs
             PROVE  request'[j].held \in Nat /\ AtLeastZero(request'[j].need) \in Nat
  BY DEF Dues, AtLeastZero
<1>1. request'[j] \in Request
  BY DEF TypeOK
<1>2. request'[j].need \in Int
  BY <1>1, NodePoolAssumption DEF Request
<1> QED
  BY <1>1, <1>2 DEF Request, AtLeastZero

\* The sets of jobs the figures are about.
LEMMA FigureSets ==
  ASSUME TypeOK
  PROVE  /\ \A n : /\ Active(n) = At(n, {"sent", "parsing", "executing", "releasing", "returning"})
                   /\ Active(n) \subseteq Jobs
                   /\ InFree(n) \subseteq Held(n)
                   /\ Held(n) \subseteq Active(n)
                   /\ CarefulActive(n) \subseteq Active(n)
         /\ \A n \in Nodes : config[n].free \in Nat
<1>1. \A n \in Nodes : config[n].free \in Nat
  BY NodePoolAssumption DEF TypeOK
<1> QED
  BY <1>1 DEF Active, InScore, InFree, Held, CarefulActive, At

\* A promise is kept when no job it did not know of comes to be served, and no
\* job holds more.
LEMMA CoveredKept ==
  ASSUME TypeOK, TypeOK', UnitsAreFinite, config' = config,
         NEW n \in Nodes, NEW f \in Int, NEW known, NEW fewer, Covered(n, f, known),
         Active(n)' \cap fewer \subseteq Active(n) \cap known,
         \A j \in Active(n)' \cap fewer : Dues'[j] <= Dues[j]
  PROVE  f + Amount(Dues', Active(n)' \cap fewer) <= config'[n].free
<1>1. Dues \in [Jobs -> Nat] /\ Dues' \in [Jobs -> Nat]
  BY DuesAreNaturals, DuesStayNaturals
<1>2. Active(n) \cap known \in SUBSET Jobs
  BY FigureSets
<1>3. /\ Amount(Dues, Active(n) \cap known) \in Nat
      /\ Amount(Dues', Active(n)' \cap fewer) \in Nat
      /\ Amount(Dues', Active(n)' \cap fewer) <= Amount(Dues, Active(n) \cap known)
  BY <1>1, <1>2, AmountIsMonotone DEF UnitsAreFinite
<1>4. config[n].free \in Nat
  BY FigureSets
<1> QED
  BY <1>3, <1>4 DEF Covered

\* No job comes to a node, none comes to hold more, and none becomes careful.
Shrinks ==
  /\ config' = config
  /\ \A n : Active(n)' \subseteq Active(n)
  /\ \A n : CarefulActive(n)' \subseteq CarefulActive(n)
  /\ \A j \in Jobs : Dues'[j] <= Dues[j]

\* Then promises that were covered, or know of less, are.
LEMMA ShrinkKeeps ==
  ASSUME TypeOK, TypeOK', Figures, Shrinks,
         \A n \in Nodes : beat'[n].pc = "figures" =>
           \E known : beat'[n].saw \subseteq known /\ Covered(n, beat'[n].free, known),
         \A b \in beats' : \E known : b.saw \subseteq known /\ Covered(b.from, b.free, known),
         \A m \in Masters : \A n \in Seen(m)' :
           \/ view'[m][n].free < 0
           \/ view'[m][n].raised
           \/ \E known : view'[m][n].knows \subseteq known /\ Covered(n, view'[m][n].free, known)
  PROVE  PromisesCovered'
<1> USE DEF Figures, PromisesCovered
<1> DEFINE Still(n, f, known) == f + Amount(Dues', Active(n)' \cap known) <= config'[n].free
<1>0. Dues \in [Jobs -> Nat] /\ Dues' \in [Jobs -> Nat]
  BY DuesAreNaturals, DuesStayNaturals
<1>1. UnitsAreFinite'
  <2>1. IsFiniteSet(Units(Dues', Jobs))
    BY <1>0, AmountIsMonotone DEF UnitsAreFinite, Shrinks
  <2> QED
    BY <2>1 DEF UnitsAreFinite, Units
<1>2. ASSUME NEW n \in Nodes, NEW f \in Int, NEW known, NEW fewer \in SUBSET known,
             Covered(n, f, known)
      PROVE  Still(n, f, fewer)
  <2>1. /\ Active(n)' \cap fewer \subseteq Active(n) \cap known
        /\ \A j \in Active(n)' \cap fewer : Dues'[j] <= Dues[j]
    BY FigureSets DEF Shrinks
  <2> QED
    BY <1>2, <2>1, CoveredKept DEF Shrinks
<1> HIDE DEF Still
<1>6. DraftsCovered'
  <2>1. ASSUME NEW n \in Nodes, beat'[n].pc = "figures"
        PROVE  Still(n, beat'[n].free, beat'[n].saw)
    <3>1. beat'[n].free \in Int
      BY DEF TypeOK, Draft
    <3>2. PICK known : beat'[n].saw \subseteq known /\ Covered(n, beat'[n].free, known)
      BY <2>1
    <3> QED
      BY <1>2, <3>1, <3>2
  <2> QED
    BY <2>1 DEF DraftsCovered, Covered, Amount, Units, Still
<1>3. BeatsCovered'
  <2>1. ASSUME NEW b \in beats' PROVE Still(b.from, b.free, b.saw)
    <3>1. b.from \in Nodes /\ b.free \in Int
      BY DEF TypeOK, Beat
    <3>2. PICK known : b.saw \subseteq known /\ Covered(b.from, b.free, known)
      OBVIOUS
    <3> QED
      BY <1>2, <3>1, <3>2
  <2> QED
    BY <2>1 DEF BeatsCovered, Covered, Amount, Units, Still
<1>4. EntriesCovered'
  <2>1. ASSUME NEW m \in Masters, NEW n \in Seen(m)'
        PROVE  \/ view'[m][n].free < 0
               \/ view'[m][n].raised
               \/ Still(n, view'[m][n].free, view'[m][n].knows)
    <3>1. n \in Nodes /\ view'[m][n].free \in Int
      BY DEF TypeOK, Entry
    <3>2. CASE \E known : /\ view'[m][n].knows \subseteq known
                          /\ Covered(n, view'[m][n].free, known)
      BY <1>2, <3>1, <3>2
    <3> QED
      BY <3>2
  <2> QED
    BY <2>1 DEF EntriesCovered, Covered, Amount, Units, Still
<1>5. CarefulCovered'
  <2> SUFFICES ASSUME NEW n \in Nodes
               PROVE  Amount(Dues', CarefulActive(n)') <= config'[n].free
    BY DEF CarefulCovered, Amount, Units
  <2>1. CarefulActive(n) \in SUBSET Jobs /\ CarefulActive(n)' \in SUBSET CarefulActive(n)
    BY FigureSets DEF Shrinks
  <2>2. \A j \in CarefulActive(n)' : Dues'[j] <= Dues[j]
    BY <2>1 DEF Shrinks
  <2>3. /\ Amount(Dues, CarefulActive(n)) \in Nat
        /\ Amount(Dues', CarefulActive(n)') \in Nat
        /\ Amount(Dues', CarefulActive(n)') <= Amount(Dues, CarefulActive(n))
    BY <1>0, <2>1, <2>2, AmountIsMonotone DEF UnitsAreFinite
  <2>4. Amount(Dues, CarefulActive(n)) <= config[n].free /\ config[n].free \in Nat
    BY FigureSets DEF CarefulCovered
  <2> QED
    BY <2>3, <2>4 DEF Shrinks
<1> QED
  BY <1>1, <1>3, <1>4, <1>5, <1>6

\* Promises nobody touches; a draft may come that promises no figures.
LEMMA PromisesStand ==
  ASSUME TypeOK, TypeOK', Figures, Shrinks, UNCHANGED <<beats, view>>,
         \A n \in Nodes : beat'[n] = beat[n] \/ beat'[n].pc # "figures"
  PROVE  PromisesCovered'
<1>1. \A b \in beats' : \E known : b.saw \subseteq known /\ Covered(b.from, b.free, known)
  BY DEF Figures, PromisesCovered, BeatsCovered
<1>2. \A m \in Masters : \A n \in Seen(m)' :
           \/ view'[m][n].free < 0
           \/ view'[m][n].raised
           \/ \E known : view'[m][n].knows \subseteq known /\ Covered(n, view'[m][n].free, known)
  BY DEF Figures, PromisesCovered, EntriesCovered, Seen
<1>3. \A n \in Nodes : beat'[n].pc = "figures" =>
        \E known : beat'[n].saw \subseteq known /\ Covered(n, beat'[n].free, known)
  BY DEF Figures, PromisesCovered, DraftsCovered
<1> QED
  BY <1>1, <1>2, <1>3, ShrinkKeeps

\* A node's figures add up while they and the jobs they are about stay.
LEMMA CountedStays ==
  ASSUME FreeIsCounted, config' = config, up' \subseteq up,
         \A n \in up' : /\ free'[n] = free[n]
                        /\ InFree(n)' = InFree(n)
                        /\ \A j \in InFree(n) : Dues'[j] = Dues[j]
  PROVE  FreeIsCounted'
<1> SUFFICES ASSUME NEW n \in up' PROVE free'[n] + Amount(Dues', InFree(n)') = config'[n].free
  BY DEF FreeIsCounted, Amount, Units
<1>1. Amount(Dues', InFree(n)') = Amount(Dues, InFree(n))
  BY SameAmount
<1> QED
  BY <1>1 DEF FreeIsCounted

\* Requests that do not move hold what they held.
LEMMA NobodyPays ==
  ASSUME TypeOK, UNCHANGED <<request, config>>
  PROVE  /\ Shrinks
         /\ Dues' = Dues
         /\ \A n : InFree(n)' = InFree(n)
         /\ HeldInside <=> HeldInside'
<1>1. Dues' = Dues
  BY DEF Dues
<1>2. \A j \in Jobs : Dues[j] \in Nat
  BY DuesAreNaturals
<1>3. \A n : /\ Active(n)' = Active(n)
             /\ InFree(n)' = InFree(n)
             /\ CarefulActive(n)' = CarefulActive(n)
  BY DEF Active, InScore, InFree, CarefulActive, At
<1> QED
  BY <1>1, <1>2, <1>3 DEF Shrinks, HeldInside

-----------------------------------------------------------------------------
(***************************************************************************)
(* The steps                                                               *)
(***************************************************************************)

\* A node starts to put a heartbeat together.
LEMMA LoadScorePays ==
  ASSUME IInv, Figures, TypeOK', NEW n \in Nodes, LoadScore(n)
  PROVE  Figures'
<1>1. /\ UNCHANGED <<request, config, up, free, beats, view>> /\ TypeOK
      /\ \A k \in Nodes : beat'[k] = beat[k] \/ beat'[k].pc # "figures"
  BY DEF LoadScore, IInv, TypeOK
<1>2. Shrinks /\ Dues' = Dues /\ HeldInside' /\ \A k : InFree(k)' = InFree(k)
  BY <1>1, NobodyPays DEF Figures
<1>3. PromisesCovered'
  BY <1>1, <1>2, PromisesStand
<1>4. FreeIsCounted'
  BY <1>1, <1>2, CountedStays DEF Figures
<1> QED
  BY <1>2, <1>3, <1>4 DEF Figures

\* The figures of a node are covered by the jobs it has counted.
LEMMA NodeIsCovered ==
  ASSUME TypeOK, Figures, NEW n \in up
  PROVE  Covered(n, free[n], InFree(n))
<1>1. n \in Nodes
  BY DEF TypeOK
<1>2. Active(n) \cap InFree(n) = InFree(n)
  BY FigureSets
<1>3. free[n] + Amount(Dues, InFree(n)) = config[n].free /\ config[n].free \in Nat
  BY <1>1, FigureSets DEF Figures, FreeIsCounted
<1>4. free[n] + Amount(Dues, InFree(n)) <= config[n].free
  <2>1. \A c \in Nat : c <= c
    OBVIOUS
  <2> QED
    BY <1>3, <2>1
<1> QED
  BY <1>2, <1>4 DEF Covered

\* A node starts a heartbeat with its figures.
LEMMA LoadFiguresPays ==
  ASSUME IInv, Figures, TypeOK', NEW n \in Nodes, LoadFigures(n)
  PROVE  Figures'
<1>1. UNCHANGED <<request, config, up, free, beats, view>> /\ TypeOK /\ n \in up
  BY DEF LoadFigures, IInv
<1>2. Shrinks /\ Dues' = Dues /\ HeldInside' /\ \A k : InFree(k)' = InFree(k)
  BY <1>1, NobodyPays DEF Figures
<1>3. /\ beat'[n].free = free[n] /\ beat'[n].saw = InFree(n)
      /\ \A k \in Nodes \ {n} : beat'[k] = beat[k]
  BY DEF LoadFigures, IInv, TypeOK
<1>4. \A k \in Nodes : beat'[k].pc = "figures" =>
        \E known : beat'[k].saw \subseteq known /\ Covered(k, beat'[k].free, known)
  <2>1. Covered(n, beat'[n].free, beat'[n].saw)
    BY <1>1, <1>3, NodeIsCovered
  <2> QED
    BY <1>3, <2>1 DEF Figures, PromisesCovered, DraftsCovered
<1>5. \A b \in beats' : \E known : b.saw \subseteq known /\ Covered(b.from, b.free, known)
  BY <1>1 DEF Figures, PromisesCovered, BeatsCovered
<1>6. \A m \in Masters : \A k \in Seen(m)' :
           \/ view'[m][k].free < 0
           \/ view'[m][k].raised
           \/ \E known : view'[m][k].knows \subseteq known /\ Covered(k, view'[m][k].free, known)
  BY <1>1 DEF Figures, PromisesCovered, EntriesCovered, Seen
<1>7. PromisesCovered'
  BY <1>1, <1>2, <1>4, <1>5, <1>6, ShrinkKeeps
<1>8. FreeIsCounted'
  BY <1>1, <1>2, CountedStays DEF Figures
<1> QED
  BY <1>2, <1>7, <1>8 DEF Figures

\* The figures a heartbeat says are what the jobs it names have left.
LEMMA SendBeatPays ==
  ASSUME IInv, Figures, TypeOK', NEW n \in Nodes, NEW ms \in SUBSET Serving, SendBeat(n, ms)
  PROVE  Figures'
<1>1. UNCHANGED <<request, config, up, free, view>> /\ TypeOK /\ n \in up
  BY DEF SendBeat, IInv
<1>2. Shrinks /\ Dues' = Dues /\ HeldInside' /\ \A k : InFree(k)' = InFree(k)
  BY <1>1, NobodyPays DEF Figures
<1>3. Covered(n, free[n], InFree(n))
  BY <1>1, NodeIsCovered
<1>4. \A b \in beats' : \E known : b.saw \subseteq known /\ Covered(b.from, b.free, known)
  <2> TAKE b \in beats'
  <2>1. CASE b \in beats
    BY <2>1 DEF Figures, PromisesCovered, BeatsCovered
  <2>2. CASE b \notin beats
    <3>1. /\ b.from = n
          /\ b.free = IF beat[n].pc = "figures" THEN beat[n].free ELSE free[n]
          /\ b.saw = beat[n].saw \cap InFree(n)
      BY <2>2 DEF SendBeat
    <3>2. CASE beat[n].pc = "figures"
      <4>1. Covered(n, beat[n].free, beat[n].saw)
        BY <3>2 DEF Figures, PromisesCovered, DraftsCovered
      <4> QED
        BY <3>1, <3>2, <4>1
    <3>3. CASE beat[n].pc # "figures"
      BY <1>3, <3>1, <3>3
    <3> QED
      BY <3>2, <3>3
  <2> QED
    BY <2>1, <2>2
<1>5. \A m \in Masters : \A k \in Seen(m)' :
           \/ view'[m][k].free < 0
           \/ view'[m][k].raised
           \/ \E known : view'[m][k].knows \subseteq known /\ Covered(k, view'[m][k].free, known)
  BY <1>1 DEF Figures, PromisesCovered, EntriesCovered, Seen
<1>8. \A k \in Nodes : beat'[k].pc = "figures" =>
        \E known : beat'[k].saw \subseteq known /\ Covered(k, beat'[k].free, known)
  <2> SUFFICES ASSUME NEW k \in Nodes, beat'[k].pc = "figures"
               PROVE  Covered(k, beat'[k].free, beat'[k].saw)
    OBVIOUS
  <2>1. k # n /\ beat'[k] = beat[k]
    BY <1>1 DEF SendBeat, NoBeat, TypeOK
  <2> QED
    BY <2>1 DEF Figures, PromisesCovered, DraftsCovered
<1>6. PromisesCovered'
  BY <1>1, <1>2, <1>4, <1>5, <1>8, ShrinkKeeps
<1>7. FreeIsCounted'
  BY <1>1, <1>2, CountedStays DEF Figures
<1> QED
  BY <1>2, <1>6, <1>7 DEF Figures

\* A master's entry becomes the heartbeat's, is dropped, or stays.
LEMMA MasterHearsPays ==
  ASSUME IInv, Figures, TypeOK', UNCHANGED <<request, config, up, free, beat>>,
         beats' \subseteq beats,
         \A m \in Masters : \A n \in Seen(m)' :
           \/ n \in Seen(m) /\ view'[m][n] = view[m][n]
           \/ \E b \in beats : /\ b.from = n
                               /\ view'[m][n].free = b.free
                               /\ view'[m][n].knows = b.saw
  PROVE  Figures'
<1>1. TypeOK
  BY DEF IInv
<1>2. Shrinks /\ Dues' = Dues /\ HeldInside' /\ \A k : InFree(k)' = InFree(k)
  BY <1>1, NobodyPays DEF Figures
<1>3. \A b \in beats' : \E known : b.saw \subseteq known /\ Covered(b.from, b.free, known)
  BY DEF Figures, PromisesCovered, BeatsCovered
<1>4. ASSUME NEW m \in Masters, NEW n \in Seen(m)'
      PROVE  \/ view'[m][n].free < 0
             \/ view'[m][n].raised
             \/ \E known : view'[m][n].knows \subseteq known /\ Covered(n, view'[m][n].free, known)
  <2>1. CASE n \in Seen(m) /\ view'[m][n] = view[m][n]
    BY <2>1 DEF Figures, PromisesCovered, EntriesCovered
  <2>2. CASE \E b \in beats : /\ b.from = n
                              /\ view'[m][n].free = b.free
                              /\ view'[m][n].knows = b.saw
    BY <2>2 DEF Figures, PromisesCovered, BeatsCovered
  <2> QED
    BY <2>1, <2>2
<1>7. \A n \in Nodes : beat'[n].pc = "figures" =>
        \E known : beat'[n].saw \subseteq known /\ Covered(n, beat'[n].free, known)
  BY DEF Figures, PromisesCovered, DraftsCovered
<1>5. PromisesCovered'
  BY <1>1, <1>2, <1>3, <1>4, <1>7, ShrinkKeeps
<1>6. FreeIsCounted'
  BY <1>2, CountedStays DEF Figures
<1> QED
  BY <1>2, <1>5, <1>6 DEF Figures

\* The master takes a heartbeat.
LEMMA TakeBeatPays ==
  ASSUME IInv, Figures, TypeOK', NEW b \in beats, TakeBeat(b)
  PROVE  Figures'
<1>1. UNCHANGED <<request, config, up, free, beat>> /\ beats' \subseteq beats
  BY DEF TakeBeat
<1>2. ASSUME NEW m \in Masters, NEW n \in Seen(m)'
      PROVE  \/ n \in Seen(m) /\ view'[m][n] = view[m][n]
             \/ b.from = n /\ view'[m][n].free = b.free /\ view'[m][n].knows = b.saw
  BY DEF TakeBeat, Seen, IInv, TypeOK
<1> QED
  BY <1>1, <1>2, MasterHearsPays

\* A master drops a node, and with it what it promised.
LEMMA EvictPays ==
  ASSUME IInv, Figures, TypeOK', NEW m \in Masters, NEW n \in Nodes, Evict(m, n)
  PROVE  Figures'
<1>1. UNCHANGED <<request, config, up, free, beat>> /\ beats' \subseteq beats
  BY DEF Evict
<1>2. \A q \in Masters : \A k \in Seen(q)' : k \in Seen(q) /\ view'[q][k] = view[q][k]
  BY DEF Evict, Without, Seen, IInv, TypeOK
<1> QED
  BY <1>1, <1>2, MasterHearsPays

\* A node comes back whole, and idle.
LEMMA RestartPays ==
  ASSUME IInv, Figures, TypeOK', NEW n \in Nodes, Restart(n)
  PROVE  Figures'
<1>1. /\ UNCHANGED <<request, config, beat, beats, view>> /\ TypeOK
      /\ up' = up \cup {n} /\ n \notin up
      /\ free' = [free EXCEPT ![n] = config[n].free]
  BY DEF Restart, IInv
<1>2. Shrinks /\ Dues' = Dues /\ HeldInside' /\ \A k : InFree(k)' = InFree(k)
  BY <1>1, NobodyPays DEF Figures
<1>3. PromisesCovered'
  BY <1>1, <1>2, PromisesStand
<1>4. ASSUME NEW k \in up' PROVE free'[k] + Amount(Dues, InFree(k)) = config[k].free
  <2>1. CASE k = n
    <3>1. InFree(n) = {}
      BY <1>1, FigureSets DEF IInv, DownIsIdle
    <3>2. Amount(Dues, InFree(n)) = 0
      BY <3>1, AmountOfNone
    <3>3. free'[n] = config[n].free /\ config[n].free \in Nat
      BY <1>1, FigureSets DEF TypeOK
    <3> QED
      BY <2>1, <3>2, <3>3
  <2>2. CASE k # n
    BY <1>1, <2>2 DEF TypeOK, Figures, FreeIsCounted
  <2> QED
    BY <2>1, <2>2
<1>5. FreeIsCounted'
  BY <1>1, <1>2, <1>4 DEF FreeIsCounted, Amount, Units
<1> QED
  BY <1>2, <1>3, <1>5 DEF Figures

Served == {"sent", "parsing", "executing", "releasing", "returning"}

\* One job moves within its node or away from it, and does not come to hold more.
LEMMA OneJobShrinks ==
  ASSUME TypeOK, NEW j \in Jobs, config' = config,
         \A k \in Jobs \ {j} : request'[k] = request[k],
         \/ request'[j].pc \notin Served
         \/ /\ request[j].pc \in Served
            /\ request'[j].node = request[j].node
            /\ request'[j].careless = request[j].careless,
         Dues'[j] <= Dues[j]
  PROVE  Shrinks /\ \A k \in Jobs \ {j} : Dues'[k] = Dues[k]
<1>1. \A k \in Jobs \ {j} : Dues'[k] = Dues[k] /\ Dues[k] \in Nat
  BY DuesAreNaturals DEF Dues
<1>2. \A n : Active(n) = At(n, Served) /\ Active(n)' = At(n, Served)'
  BY DEF Active, InScore, InFree, At, Served
<1>3. \A n : At(n, Served)' \subseteq At(n, Served)
  BY DEF At
<1>4. \A n : CarefulActive(n)' \subseteq CarefulActive(n)
  BY <1>2, <1>3 DEF CarefulActive, At
<1>5. \A k \in Jobs : Dues'[k] <= Dues[k]
  BY <1>1
<1> QED
  BY <1>1, <1>2, <1>3, <1>4, <1>5 DEF Shrinks

\* A job that no node has holds nothing.
LEMMA OutsidePays ==
  ASSUME IInv, Figures, TypeOK', NEW j \in Jobs,
         \A k \in Jobs \ {j} : request'[k] = request[k],
         request'[j].pc \in {"scheduling", "failed"},
         request'[j].held = request[j].held,
         request[j].pc \in {"new", "scheduling", "lost", "sent"},
         UNCHANGED <<config, up, free, beat, beats>>,
         \A m \in Masters : \A n \in Seen(m)' : n \in Seen(m) /\ view'[m][n] = view[m][n]
  PROVE  Figures'
<1>1. TypeOK
  BY DEF IInv
<1>2. Dues'[j] <= Dues[j]
  <2>1. Dues'[j] = 0 /\ Dues[j] \in Nat
    BY <1>1, DuesAreNaturals DEF Dues
  <2> QED
    BY <2>1
<1>3. Shrinks /\ \A k \in Jobs \ {j} : Dues'[k] = Dues[k]
  BY <1>1, <1>2, OneJobShrinks DEF Served
<1>4. \A b \in beats' : \E known : b.saw \subseteq known /\ Covered(b.from, b.free, known)
  BY DEF Figures, PromisesCovered, BeatsCovered
<1>5. \A m \in Masters : \A n \in Seen(m)' :
           \/ view'[m][n].free < 0
           \/ view'[m][n].raised
           \/ \E known : view'[m][n].knows \subseteq known /\ Covered(n, view'[m][n].free, known)
  BY DEF Figures, PromisesCovered, EntriesCovered
<1>10. \A n \in Nodes : beat'[n].pc = "figures" =>
         \E known : beat'[n].saw \subseteq known /\ Covered(n, beat'[n].free, known)
  BY DEF Figures, PromisesCovered, DraftsCovered
<1>6. PromisesCovered'
  BY <1>1, <1>3, <1>4, <1>5, <1>10, ShrinkKeeps
<1>7. \A n : InFree(n)' = InFree(n) /\ j \notin InFree(n) /\ InFree(n) \subseteq Jobs
  BY DEF InFree, At
<1>8. FreeIsCounted'
  BY <1>3, <1>7, CountedStays DEF Figures
<1>9. HeldInside'
  BY DEF Figures, HeldInside
<1> QED
  BY <1>6, <1>8, <1>9 DEF Figures

\* A job comes to a master.
LEMMA SubmitPays ==
  ASSUME IInv, Figures, TypeOK', NEW j \in Jobs, Submit(j)
  PROVE  Figures'
<1>1. /\ \A k \in Jobs \ {j} : request'[k] = request[k]
      /\ request'[j].pc = "scheduling" /\ request'[j].held = request[j].held
      /\ request[j].pc = "new"
      /\ UNCHANGED <<config, up, free, beat, beats, view>>
  BY DEF Submit, IInv, TypeOK, Request
<1> QED
  BY <1>1, OutsidePays DEF Seen

\* No node has room.
LEMMA ReserveNonePays ==
  ASSUME IInv, Figures, TypeOK', NEW j \in Jobs, ReserveNone(j)
  PROVE  Figures'
<1>1. /\ \A k \in Jobs \ {j} : request'[k] = request[k]
      /\ request'[j].pc \in {"scheduling", "failed"}
      /\ request'[j].held = request[j].held
      /\ request[j].pc = "scheduling"
      /\ UNCHANGED <<config, up, free, beat, beats, view>>
  BY RetryMoves DEF ReserveNone, Retry, IInv, TypeOK, Request
<1> QED
  BY <1>1, OutsidePays DEF Seen

\* The node died, or the connection failed, before the payload was read.
LEMMA ForwardFailsPays ==
  ASSUME IInv, Figures, TypeOK', NEW j \in Jobs, ForwardFails(j)
  PROVE  Figures'
<1>1. /\ \A k \in Jobs \ {j} : request'[k] = request[k]
      /\ request'[j].pc \in {"scheduling", "failed"}
      /\ request'[j].held = request[j].held
      /\ request[j].pc \in {"lost", "sent"}
      /\ UNCHANGED <<config, up, free, beat, beats>>
  BY RetryMoves DEF ForwardFails, Retry, IInv, TypeOK, Request
<1>2. \A m \in Masters : \A n \in Seen(m)' : n \in Seen(m) /\ view'[m][n] = view[m][n]
  <2>1. DOMAIN view = Masters /\ request[j].master \in Masters
    BY DEF IInv, TypeOK, Request
  <2>2. view' = [view EXCEPT ![request[j].master] = Without(request[j].master, request[j].node)]
    BY DEF ForwardFails, Erase
  <2> QED
    BY <2>1, <2>2 DEF Without, Seen
<1> QED
  BY <1>1, <1>2, OutsidePays

\* A connection breaks, and no job holds more or less.
LEMMA ForwardBreaksPays ==
  ASSUME IInv, Figures, TypeOK', NEW j \in Jobs, NEW k \in Jobs, ForwardBreaks(j, k)
  PROVE  Figures'
<1>1. TypeOK
  BY DEF IInv
<1>2. /\ UNCHANGED <<config, up, free, beat, beats>>
      /\ \A m \in Masters : \A n \in Seen(m)' : n \in Seen(m) /\ view'[m][n] = view[m][n]
  BY <1>1, BreaksMoves
<1>3. \A n : /\ Active(n)' = Active(n)
             /\ InFree(n)' = InFree(n) /\ InFree(n) \subseteq Jobs
             /\ CarefulActive(n)' = CarefulActive(n)
  BY <1>1, BreaksMoves DEF Active, InScore, InFree, CarefulActive, At
<1>4. \A i \in Jobs : Dues'[i] = Dues[i] /\ Dues[i] \in Nat
  <2> TAKE i \in Jobs
  <2>1. \/ /\ request'[i].pc = request[i].pc
           /\ request'[i].need = request[i].need
           /\ request'[i].held = request[i].held
        \/ request[i].pc = "new" /\ request'[i].pc = "scheduling"
    BY <1>1, BreaksMoves
  <2>2. Dues'[i] = Dues[i]
    BY <2>1 DEF Dues, AtLeastZero
  <2> QED
    BY <1>1, <2>2, DuesAreNaturals
<1>5. Shrinks
  BY <1>2, <1>3, <1>4 DEF Shrinks
<1>6. PromisesCovered'
  <2>1. \A n \in Nodes : beat'[n].pc = "figures" =>
          \E known : beat'[n].saw \subseteq known /\ Covered(n, beat'[n].free, known)
    BY <1>2 DEF Figures, PromisesCovered, DraftsCovered
  <2>2. \A b \in beats' : \E known : b.saw \subseteq known /\ Covered(b.from, b.free, known)
    BY <1>2 DEF Figures, PromisesCovered, BeatsCovered
  <2>3. \A m \in Masters : \A n \in Seen(m)' :
             \/ view'[m][n].free < 0
             \/ view'[m][n].raised
             \/ \E known : view'[m][n].knows \subseteq known /\ Covered(n, view'[m][n].free, known)
    BY <1>2 DEF Figures, PromisesCovered, EntriesCovered
  <2> QED
    BY <1>1, <1>5, <2>1, <2>2, <2>3, ShrinkKeeps
<1>7. FreeIsCounted'
  BY <1>2, <1>3, <1>4, CountedStays DEF Figures
<1>8. HeldInside'
  <2> SUFFICES ASSUME NEW i \in Jobs,
                      request'[i].pc \notin {"executing", "releasing", "returning"}
               PROVE  request'[i].held = 0
    BY DEF HeldInside
  <2>1. \/ request'[i].pc = request[i].pc /\ request'[i].held = request[i].held
        \/ request'[i].held = 0
    BY <1>1, BreaksMoves
  <2> QED
    BY <2>1 DEF Figures, HeldInside
<1> QED
  BY <1>6, <1>7, <1>8 DEF Figures

\* The handler goes on, and the figures are not touched.
LEMMA GoesOnPays ==
  ASSUME IInv, Figures, TypeOK', NEW j \in Jobs, CountScore(j) \/ Execute(j) \/ ReleaseScore(j)
  PROVE  Figures'
<1>1. /\ \A k \in Jobs \ {j} : request'[k] = request[k]
      /\ request'[j].node = request[j].node
      /\ request'[j].careless = request[j].careless
      /\ request'[j].held = request[j].held
      /\ request'[j].need = request[j].need
      /\ \/ request[j].pc = "sent" /\ request'[j].pc = "parsing"
         \/ /\ request[j].pc \in {"executing", "releasing"}
            /\ request'[j].pc \in {"releasing", "returning"}
      /\ UNCHANGED <<config, up, free, beat, beats, view>>
      /\ TypeOK
  BY DEF CountScore, Execute, ReleaseScore, Goto, IInv, TypeOK, Request
<1>2. Dues'[j] = Dues[j] /\ Dues[j] \in Nat
  BY <1>1, DuesAreNaturals DEF Dues
<1>3. Shrinks /\ \A k \in Jobs : Dues'[k] = Dues[k]
  BY <1>1, <1>2, OneJobShrinks DEF Served
<1>4. PromisesCovered'
  BY <1>1, <1>3, PromisesStand
<1>5. \A n : InFree(n)' = InFree(n) /\ InFree(n) \subseteq Jobs
  BY <1>1 DEF InFree, At
<1>6. FreeIsCounted'
  BY <1>1, <1>3, <1>5, CountedStays DEF Figures
<1>7. HeldInside'
  BY <1>1 DEF Figures, HeldInside
<1> QED
  BY <1>4, <1>6, <1>7 DEF Figures

\* A job comes into the figures with what it takes off them: nothing if parsing
\* its payload threw.
LEMMA ComesInPays ==
  ASSUME IInv, Figures, TypeOK', NEW j \in Jobs, CountFree(j) \/ ParseThrows(j)
  PROVE  Figures'
<1>1. /\ \A k \in Jobs \ {j} : request'[k] = request[k]
      /\ request'[j].node = request[j].node
      /\ request'[j].careless = request[j].careless
      /\ request[j].pc = "parsing" /\ request'[j].pc \in {"executing", "releasing"}
      /\ UNCHANGED <<config, up, beat, beats, view>>
      /\ TypeOK
  BY DEF CountFree, ParseThrows, Goto, IInv, TypeOK, Request
<1> DEFINE d == request'[j].held
<1>2. /\ d \in {0, AtLeastZero(request[j].need)}
      /\ free' = [free EXCEPT ![request[j].node] = @ - d]
  <2>1. CASE CountFree(j)
    BY <2>1, <1>1 DEF CountFree, TypeOK, Request
  <2>2. CASE ParseThrows(j)
    <3>1. d = 0
      BY <1>1, <2>2 DEF ParseThrows, Goto, Figures, HeldInside, TypeOK, Request
    <3>2. \A n \in Nodes : free[n] - 0 = free[n]
      BY <1>1 DEF TypeOK
    <3> QED
      BY <1>1, <2>2, <3>1, <3>2 DEF ParseThrows, TypeOK
  <2> QED
    BY <2>1, <2>2
<1>3. Dues'[j] = d /\ Dues[j] = AtLeastZero(request[j].need) /\ Dues[j] \in Nat
  BY <1>1, DuesAreNaturals DEF Dues
<1> HIDE DEF d
<1>4. Dues'[j] <= Dues[j] /\ d \in Nat
  BY <1>2, <1>3
<1>5. Shrinks /\ \A k \in Jobs \ {j} : Dues'[k] = Dues[k]
  BY <1>1, <1>4, OneJobShrinks DEF Served
<1>6. PromisesCovered'
  BY <1>1, <1>5, PromisesStand
<1>7. FreeIsCounted'
  <2> SUFFICES ASSUME NEW n \in up PROVE free'[n] + Amount(Dues', InFree(n)') = config[n].free
    BY <1>1 DEF FreeIsCounted, Amount, Units
  <2>1. n \in Nodes /\ free[n] \in Int /\ free[n] + Amount(Dues, InFree(n)) = config[n].free
    BY <1>1 DEF TypeOK, Figures, FreeIsCounted
  <2>2. InFree(n) \subseteq Jobs /\ j \notin InFree(n)
    BY <1>1 DEF InFree, At
  <2>3. Amount(Dues', InFree(n)) = Amount(Dues, InFree(n))
    BY <1>5, <2>2, SameAmount
  <2>4. CASE n = request[j].node
    <3>1. InFree(n)' = InFree(n) \cup {j}
      BY <1>1, <2>4 DEF InFree, At
    <3>2. Dues' \in [Jobs -> Nat] /\ IsFiniteSet(Units(Dues', Jobs))
      BY <1>6, DuesStayNaturals DEF PromisesCovered, UnitsAreFinite, Units
    <3>3. Amount(Dues', InFree(n)') = Amount(Dues', InFree(n)) + d
      BY <1>3, <2>2, <3>1, <3>2, AmountOfOneMore
    <3>4. Amount(Dues', InFree(n)) \in Nat
      BY <2>2, <3>2, AmountIsMonotone
    <3>5. free'[n] = free[n] - d
      BY <1>1, <1>2, <2>1, <2>4 DEF TypeOK
    <3> QED
      BY <1>4, <2>1, <2>3, <3>3, <3>4, <3>5
  <2>5. CASE n # request[j].node
    <3>1. InFree(n)' = InFree(n)
      BY <1>1, <2>5 DEF InFree, At
    <3>2. free'[n] = free[n]
      BY <1>1, <1>2, <2>1, <2>5 DEF TypeOK
    <3> QED
      BY <2>1, <2>3, <3>1, <3>2
  <2> QED
    BY <2>4, <2>5
<1>8. HeldInside'
  BY <1>1 DEF Figures, HeldInside
<1> QED
  BY <1>6, <1>7, <1>8 DEF Figures

\* What is forgotten leaves promises that know of less.
LEMMA ForgettingPays ==
  ASSUME TypeOK, TypeOK', Figures, Shrinks, NEW js,
         \A n \in Nodes : beat'[n] = NoBeat \/ beat'[n] = ForgetInBeat(js)[n],
         beats' = ForgetInBeats(js), view' = ForgetInView(js)
  PROVE  PromisesCovered'
<1>1. ASSUME NEW b \in beats'
      PROVE  \E known : b.saw \subseteq known /\ Covered(b.from, b.free, known)
  <2>1. PICK a \in beats : b = [a EXCEPT !.saw = @ \ js]
    BY DEF ForgetInBeats
  <2>2. b.from = a.from /\ b.free = a.free /\ b.saw = a.saw \ js
    BY <2>1 DEF TypeOK, Beat
  <2> QED
    BY <2>2 DEF Figures, PromisesCovered, BeatsCovered
<1>2. ASSUME NEW m \in Masters, NEW n \in Seen(m)'
      PROVE  \/ view'[m][n].free < 0
             \/ view'[m][n].raised
             \/ \E known : view'[m][n].knows \subseteq known /\ Covered(n, view'[m][n].free, known)
  <2>1. n \in Seen(m) /\ view[m][n] \in Entry
    BY DEF ForgetInView, Seen, TypeOK
  <2>2. view'[m][n] = [view[m][n] EXCEPT !.knows = @ \ js]
    BY <2>1 DEF ForgetInView
  <2>3. /\ view'[m][n].free = view[m][n].free
        /\ view'[m][n].raised = view[m][n].raised
        /\ view'[m][n].knows = view[m][n].knows \ js
    BY <2>1, <2>2 DEF Entry
  <2> QED
    BY <2>1, <2>3 DEF Figures, PromisesCovered, EntriesCovered
<1>3. ASSUME NEW n \in Nodes, beat'[n].pc = "figures"
      PROVE  \E known : beat'[n].saw \subseteq known /\ Covered(n, beat'[n].free, known)
  <2>1. beat'[n] = [beat[n] EXCEPT !.saw = @ \ js]
    BY <1>3 DEF NoBeat, ForgetInBeat
  <2>2. /\ beat[n].pc = "figures" /\ beat'[n].free = beat[n].free
        /\ beat'[n].saw = beat[n].saw \ js
    BY <1>3, <2>1 DEF TypeOK, Draft
  <2> QED
    BY <2>2 DEF Figures, PromisesCovered, DraftsCovered
<1> QED
  BY <1>1, <1>2, <1>3, ShrinkKeeps

\* A job gives back what it held.
LEMMA ReleaseFreePays ==
  ASSUME IInv, Figures, TypeOK', NEW j \in Jobs, ReleaseFree(j)
  PROVE  Figures'
<1>1. /\ \A k \in Jobs \ {j} : request'[k] = request[k]
      /\ request[j].pc = "returning" /\ request'[j].pc = "done" /\ request'[j].held = 0
      /\ UNCHANGED <<config, up>>
      /\ free' = [free EXCEPT ![request[j].node] = @ + request[j].held]
      /\ beat' = ForgetInBeat({j}) /\ beats' = ForgetInBeats({j}) /\ view' = ForgetInView({j})
      /\ TypeOK
  BY DEF ReleaseFree, Over, IInv, TypeOK, Request
<1>2. Dues'[j] = 0 /\ Dues[j] = request[j].held /\ Dues[j] \in Nat
  BY <1>1, DuesAreNaturals DEF Dues
<1>3. Shrinks /\ \A k \in Jobs \ {j} : Dues'[k] = Dues[k]
  BY <1>1, <1>2, OneJobShrinks DEF Served
<1>4. PromisesCovered'
  BY <1>1, <1>3, ForgettingPays
<1>5. FreeIsCounted'
  <2> SUFFICES ASSUME NEW n \in up PROVE free'[n] + Amount(Dues', InFree(n)') = config[n].free
    BY <1>1 DEF FreeIsCounted, Amount, Units
  <2>1. n \in Nodes /\ free[n] \in Int /\ free[n] + Amount(Dues, InFree(n)) = config[n].free
    BY <1>1 DEF TypeOK, Figures, FreeIsCounted
  <2>2. InFree(n)' = InFree(n) \ {j} /\ InFree(n) \subseteq Jobs
    BY <1>1 DEF InFree, At
  <2>3. Amount(Dues', InFree(n)') = Amount(Dues, InFree(n)')
    BY <1>3, <2>2, SameAmount
  <2>4. CASE n = request[j].node
    <3>1. InFree(n) = InFree(n)' \cup {j} /\ j \notin InFree(n)' /\ InFree(n)' \in SUBSET Jobs
      BY <1>1, <2>2, <2>4 DEF InFree, At
    <3>2. Dues \in [Jobs -> Nat] /\ IsFiniteSet(Units(Dues, Jobs))
      BY <1>1, DuesAreNaturals DEF Figures, PromisesCovered, UnitsAreFinite
    <3>3. Amount(Dues, InFree(n)) = Amount(Dues, InFree(n)') + Dues[j]
      BY <3>1, <3>2, AmountOfOneMore
    <3>4. Amount(Dues, InFree(n)') \in Nat
      BY <3>1, <3>2, AmountIsMonotone
    <3>5. free'[n] = free[n] + Dues[j]
      BY <1>1, <1>2, <2>1, <2>4 DEF TypeOK
    <3> QED
      BY <1>2, <2>1, <2>3, <3>3, <3>4, <3>5
  <2>5. CASE n # request[j].node
    <3>1. InFree(n)' = InFree(n)
      BY <1>1, <2>2, <2>5 DEF InFree, At
    <3>2. free'[n] = free[n]
      BY <1>1, <2>1, <2>5 DEF TypeOK
    <3> QED
      BY <2>1, <2>3, <3>1, <3>2
  <2> QED
    BY <2>4, <2>5
<1>6. HeldInside'
  BY <1>1 DEF Figures, HeldInside
<1> QED
  BY <1>4, <1>5, <1>6 DEF Figures

\* A node dies, and its jobs hold nothing more.
LEMMA CrashPays ==
  ASSUME IInv, Figures, TypeOK', NEW n \in Nodes, NEW reset \in SUBSET At(n, {"sent"}),
         Crash(n, reset)
  PROVE  Figures'
<1> DEFINE left == {j \in Jobs : request[j].abandoned}
           lost == (reset \cup At(n, {"parsing", "executing"})) \ left
           over == At(n, {"releasing", "returning"}) \cup (Active(n) \cap left)
           js == lost \cup over
<1>1. /\ \A k \in Jobs : k \in js => request'[k].pc \in {"lost", "done"} /\ request'[k].held = 0
      /\ \A k \in Jobs \ js : request'[k] = request[k]
  <2>1. request' = [k \in Jobs |->
          IF k \in lost THEN [request[k] EXCEPT !.pc = "lost", !.held = 0]
          ELSE IF k \in over THEN Over(request[k]) ELSE request[k]]
    BY DEF Crash
  <2>2. \A k \in Jobs : /\ [request[k] EXCEPT !.pc = "lost", !.held = 0].pc = "lost"
                        /\ [request[k] EXCEPT !.pc = "lost", !.held = 0].held = 0
                        /\ Over(request[k]).pc = "done"
                        /\ Over(request[k]).held = 0
    BY DEF IInv, TypeOK, Request, Over
  <2> HIDE DEF lost, over
  <2> QED
    BY <2>1, <2>2
<1>2. /\ UNCHANGED <<config, free>> /\ up' = up \ {n} /\ TypeOK
      /\ \A k \in Nodes : beat'[k] = NoBeat \/ beat'[k] = ForgetInBeat(js)[k]
      /\ beats' = ForgetInBeats(js) /\ view' = ForgetInView(js)
  BY DEF Crash, IInv, ForgetInBeat
<1>3. \A k : k # n => InFree(k) \cap js = {}
  BY DEF Active, InScore, InFree, At
<1> HIDE DEF js
<1>4. \A k \in Jobs : IF k \in js THEN Dues'[k] = 0 ELSE Dues'[k] = Dues[k]
  BY <1>1 DEF Dues
<1>5. \A k, pcs : "lost" \notin pcs /\ "done" \notin pcs => At(k, pcs)' = At(k, pcs) \ js
  BY <1>1 DEF At
<1>6. Shrinks
  <2>1. \A k \in Jobs : Dues[k] \in Nat
    BY <1>2, DuesAreNaturals
  <2>2. \A k \in Jobs : Dues'[k] <= Dues[k]
    BY <1>4, <2>1
  <2>3. \A k : Active(k)' = Active(k) \ js
    BY <1>5 DEF Active, InScore, InFree
  <2>4. \A k : CarefulActive(k)' \subseteq CarefulActive(k)
    BY <1>1, <1>2, <2>3, FigureSets DEF CarefulActive
  <2> QED
    BY <1>2, <2>2, <2>3, <2>4 DEF Shrinks
<1>7. PromisesCovered'
  BY <1>2, <1>6, ForgettingPays
<1>8. FreeIsCounted'
  <2>1. \A k : InFree(k)' = InFree(k) \ js /\ InFree(k) \subseteq Jobs
    BY <1>5 DEF InFree, At
  <2>2. \A k \in up' : /\ free'[k] = free[k]
                       /\ InFree(k)' = InFree(k)
                       /\ \A j \in InFree(k) : Dues'[j] = Dues[j]
    BY <1>2, <1>3, <1>4, <2>1
  <2> QED
    BY <1>2, <2>2, CountedStays DEF Figures
<1>9. HeldInside'
  BY <1>1 DEF Figures, HeldInside
<1> QED
  BY <1>7, <1>8, <1>9 DEF Figures

\* A reservation on an entry whose figures say what the node is left with is
\* covered by them.
LEMMA ReservePays ==
  ASSUME IInv, Figures, TypeOK', NEW j \in Jobs, NEW n \in Nodes, Reserve(j, n)
  PROVE  Figures'
<1> USE DEF Figures, PromisesCovered
<1>0. PICK m \in Masters : m = request[j].master
  BY DEF IInv, TypeOK, Request
<1> DEFINE e == view[m][n]
           new == view'[m][n]
           d == AtLeastZero(request[j].need)
<1>1. /\ \A k \in Jobs \ {j} : request'[k] = request[k]
      /\ request[j].pc = "scheduling" /\ request'[j].pc = "sent" /\ request'[j].node = n
      /\ request'[j].need = request[j].need /\ request'[j].held = request[j].held
      /\ ~request'[j].careless => ~(e.free < 0) /\ ~e.raised /\ Active(n) \subseteq e.knows
      /\ UNCHANGED <<config, up, free, beat, beats>>
      /\ TypeOK
  <2>1. request' = [request EXCEPT ![j].pc = "sent", ![j].node = n, ![j].careless = Careless(e, n)]
    BY <1>0 DEF Reserve
  <2>2. request[j] \in Request /\ request \in [Jobs -> Request]
    BY DEF IInv, TypeOK
  <2>3. request'[j].careless = Careless(e, n)
    BY <2>1, <2>2 DEF Request
  <2> QED
    BY <2>1, <2>2, <2>3 DEF Reserve, Request, Careless, IInv
<1>2. /\ n \in Seen(m) /\ e \in Entry /\ e.free \in Int
      /\ e.free < 0 \/ e.free >= request[j].need
      /\ request[j].need \in Int
      /\ d \in Nat
      /\ request[j].need >= 0 => d = request[j].need
      /\ request[j].need < 0 => d = 0
  <2>1. n \in Seen(m) /\ (e.free < 0 \/ e.free >= request[j].need)
    BY <1>0 DEF Reserve, Candidates, Fits
  <2>2. request[j].need \in Int
    BY <1>1, NodePoolAssumption DEF TypeOK, Request
  <2> QED
    BY <1>1, <2>1, <2>2 DEF TypeOK, Entry, AtLeastZero
<1>3. /\ \A q \in Masters : \A k \in Seen(q)' :
           ~(q = m /\ k = n) => k \in Seen(q) /\ view'[q][k] = view[q][k]
      /\ new.knows = e.knows \cup {j}
      /\ e.free < 0 => new.free = e.free
      /\ e.raised \/ request[j].need < 0 => new.raised
      /\ e.free >= 0 /\ request[j].need >= 0 => new.free = e.free - d
  <2>1. view' = [view EXCEPT ![m][n] = Reserved(e, j)]
    BY <1>0, <1>2 DEF Reserve
  <2>2. new = Reserved(e, j)
    BY <1>1, <1>2, <2>1 DEF TypeOK
  <2>3. \A q \in Masters : \A k \in Seen(q)' :
           ~(q = m /\ k = n) => k \in Seen(q) /\ view'[q][k] = view[q][k]
    BY <1>1, <1>2, <2>1 DEF Seen, TypeOK
  <2>4. e.free >= 0 /\ request[j].need >= 0 => AtLeastZero(e.free - request[j].need) = e.free - d
    BY <1>2 DEF AtLeastZero
  <2> HIDE DEF e, new, d
  <2>5. /\ new.knows = e.knows \cup {j}
        /\ new.free = IF e.free >= 0 THEN AtLeastZero(e.free - request[j].need) ELSE e.free
        /\ e.raised \/ request[j].need < 0 => new.raised
    BY <2>2 DEF Reserved
  <2>6. e.free < 0 => ~(e.free >= 0)
    BY <1>2
  <2> QED
    BY <2>3, <2>4, <2>5, <2>6
<1> HIDE DEF e, new, d
<1>4. \A k : /\ Active(k)' = Active(k) \cup (IF k = n THEN {j} ELSE {})
             /\ j \notin Active(k)
             /\ j \notin Held(k)
             /\ InFree(k)' = InFree(k)
             /\ \A q : j \notin Known(q, k)
             /\ InFree(k) \subseteq Jobs \ {j}
             /\ Active(k) \subseteq Jobs \ {j}
  BY <1>1 DEF Active, InScore, InFree, Held, Known, At
<1>5. /\ Dues \in [Jobs -> Nat] /\ Dues' \in [Jobs -> Nat]
      /\ Dues'[j] = d
      /\ \A k \in Jobs \ {j} : Dues'[k] = Dues[k] /\ Dues'[k] <= Dues[k]
  <2>1. Dues \in [Jobs -> Nat] /\ Dues' \in [Jobs -> Nat]
    BY <1>1, DuesAreNaturals, DuesStayNaturals
  <2>2. Dues'[j] = d /\ \A k \in Jobs \ {j} : Dues'[k] = Dues[k]
    BY <1>1 DEF Dues, d, AtLeastZero
  <2> QED
    BY <2>1, <2>2
<1>6. /\ IsFiniteSet(Units(Dues', Jobs)) /\ UnitsAreFinite'
  <2>1. IsFiniteSet(Units(Dues', Jobs))
    BY <1>5, FiniteOfOneMore DEF UnitsAreFinite
  <2> QED
    BY <2>1 DEF UnitsAreFinite, Units
<1>7. HeldInside'
  BY <1>1 DEF HeldInside
<1>8. FreeIsCounted'
  BY <1>1, <1>4, <1>5, CountedStays
<1> DEFINE Still(k, f, known) == f + Amount(Dues', Active(k)' \cap known) <= config'[k].free
<1>9. ASSUME NEW k \in Nodes, NEW f \in Int, NEW known, j \notin known, Covered(k, f, known)
      PROVE  Still(k, f, known)
  <2>1. /\ Active(k)' \cap known \subseteq Active(k) \cap known
        /\ \A i \in Active(k)' \cap known : Dues'[i] <= Dues[i]
    BY <1>4, <1>5, <1>9
  <2> QED
    BY <1>1, <1>9, <2>1, CoveredKept
<1>10. \A S \in SUBSET (Jobs \ {j}) : /\ Amount(Dues', S) = Amount(Dues, S)
                                      /\ Amount(Dues', S) \in Nat
                                      /\ Amount(Dues', S \cup {j}) = Amount(Dues, S) + d
  <2> TAKE S \in SUBSET (Jobs \ {j})
  <2>1. Amount(Dues', S) = Amount(Dues, S)
    BY <1>5, SameAmount
  <2>2. Amount(Dues', S) \in Nat
    BY <1>5, <1>6, AmountIsMonotone
  <2>3. Amount(Dues', S \cup {j}) = Amount(Dues', S) + Dues'[j]
    BY <1>5, <1>6, AmountOfOneMore
  <2> QED
    BY <1>5, <2>1, <2>2, <2>3
<1>14. DraftsCovered'
  <2>1. ASSUME NEW k \in Nodes, beat[k].pc = "figures" PROVE Still(k, beat[k].free, beat[k].saw)
    <3>1. beat[k].free \in Int
      BY <1>1 DEF TypeOK, Draft
    <3>2. j \notin beat[k].saw /\ Covered(k, beat[k].free, beat[k].saw)
      BY <1>4, <2>1 DEF IInv, BeatsFit, DraftsCovered
    <3> QED
      BY <1>9, <3>1, <3>2
  <2> QED
    BY <1>1, <2>1 DEF DraftsCovered, Covered, Amount, Units
<1>11. BeatsCovered'
  <2>1. ASSUME NEW b \in beats PROVE Still(b.from, b.free, b.saw)
    <3>1. b.from \in Nodes /\ b.free \in Int
      BY <1>1 DEF TypeOK, Beat
    <3>2. j \notin b.saw /\ Covered(b.from, b.free, b.saw)
      BY <1>4 DEF IInv, BeatsFit, BeatsCovered
    <3> QED
      BY <1>9, <3>1, <3>2
  <2> QED
    BY <1>1, <2>1 DEF BeatsCovered, Covered, Amount, Units
<1>12. EntriesCovered'
  <2>1. ASSUME NEW q \in Masters, NEW k \in Seen(q)'
        PROVE  \/ view'[q][k].free < 0
               \/ view'[q][k].raised
               \/ Still(k, view'[q][k].free, view'[q][k].knows)
    <3>1. CASE q = m /\ k = n
      <4>1. CASE e.free < 0
        BY <1>3, <3>1, <4>1 DEF new
      <4>2. CASE e.raised \/ request[j].need < 0
        BY <1>3, <3>1, <4>2 DEF new
      <4>3. CASE ~(e.free < 0) /\ ~e.raised /\ ~(request[j].need < 0)
        <5>1. new.free = e.free - d /\ new.knows = e.knows \cup {j}
          BY <1>2, <1>3, <4>3
        <5>2. e.free + Amount(Dues, Active(n) \cap e.knows) <= config[n].free
          BY <1>2, <4>3 DEF EntriesCovered, Covered, e
        <5>3. Active(n)' \cap (e.knows \cup {j}) = (Active(n) \cap e.knows) \cup {j}
          BY <1>4
        <5>4. Active(n) \cap e.knows \in SUBSET (Jobs \ {j})
          BY <1>4
        <5>5. Amount(Dues', Active(n)' \cap new.knows) = Amount(Dues, Active(n) \cap e.knows) + d
              /\ Amount(Dues, Active(n) \cap e.knows) \in Nat
          BY <1>10, <5>1, <5>3, <5>4
        <5>6. config[n].free \in Nat /\ config' = config
          BY <1>1, FigureSets
        <5>7. new.free + Amount(Dues', Active(n)' \cap new.knows) <= config'[n].free
          BY <1>2, <5>1, <5>2, <5>5, <5>6
        <5> QED
          BY <3>1, <5>7 DEF new
      <4> QED
        BY <4>1, <4>2, <4>3
    <3>2. CASE ~(q = m /\ k = n)
      <4>1. k \in Seen(q) /\ view'[q][k] = view[q][k]
        BY <1>3, <3>2
      <4>2. k \in Nodes /\ view[q][k].free \in Int
        BY <1>1, <4>1 DEF TypeOK, Entry
      <4>3. j \notin view[q][k].knows
        BY <1>4, <4>1 DEF IInv, EntriesFit
      <4> QED
        BY <1>9, <4>1, <4>2, <4>3 DEF EntriesCovered
    <3> QED
      BY <3>1, <3>2
  <2> HIDE DEF Still
  <2> QED
    BY <2>1 DEF EntriesCovered, Covered, Amount, Units, Still
<1>13. CarefulCovered'
  <2> SUFFICES ASSUME NEW k \in Nodes
               PROVE  Amount(Dues', CarefulActive(k)') <= config'[k].free
    BY DEF CarefulCovered, Amount, Units
  <2>0. config[k].free \in Nat /\ config' = config /\ CarefulActive(k) \subseteq Active(k)
    BY <1>1, FigureSets
  <2>1. CASE CarefulActive(k)' \subseteq CarefulActive(k)
    <3>1. CarefulActive(k) \in SUBSET Jobs /\ \A i \in CarefulActive(k)' : Dues'[i] <= Dues[i]
      BY <1>4, <1>5, <2>0, <2>1
    <3>2. /\ Amount(Dues, CarefulActive(k)) \in Nat /\ Amount(Dues', CarefulActive(k)') \in Nat
          /\ Amount(Dues', CarefulActive(k)') <= Amount(Dues, CarefulActive(k))
      BY <1>5, <2>1, <3>1, AmountIsMonotone DEF UnitsAreFinite
    <3> QED
      BY <2>0, <3>2 DEF CarefulCovered
  <2>2. CASE k = n /\ ~request'[j].careless
    <3>1. ~(e.free < 0) /\ ~e.raised /\ Active(n) \subseteq e.knows
      BY <1>1, <2>2
    <3>2. e.free + Amount(Dues, Active(n) \cap e.knows) <= config[n].free
      BY <1>2, <3>1 DEF EntriesCovered, Covered, e
    <3>3. Active(n) \cap e.knows = Active(n) /\ Active(n) \in SUBSET (Jobs \ {j})
      BY <1>4, <3>1
    <3>4. /\ Amount(Dues', Active(n) \cup {j}) = Amount(Dues, Active(n)) + d
          /\ Amount(Dues, Active(n)) \in Nat
      BY <1>10, <3>3
    <3>5. d <= e.free
      BY <1>2, <3>1
    <3>6. CarefulActive(n)' \subseteq Active(n) \cup {j} /\ Active(n) \cup {j} \in SUBSET Jobs
      BY <1>4 DEF CarefulActive
    <3>7. /\ Amount(Dues', CarefulActive(n)') \in Nat
          /\ Amount(Dues', CarefulActive(n)') <= Amount(Dues', Active(n) \cup {j})
      <4>1. \A i \in CarefulActive(n)' : Dues'[i] <= Dues'[i]
        BY <1>5, <3>6
      <4> QED
        BY <1>5, <1>6, <3>6, <4>1, AmountIsMonotone
    <3>8. Amount(Dues, Active(n)) + d <= config[n].free
      <4>1. e.free + Amount(Dues, Active(n)) <= config[n].free
        BY <3>2, <3>3
      <4>2. e.free \in Int /\ d \in Nat /\ config[n].free \in Nat
        BY <1>2, <2>0, <2>2
      <4> QED
        BY <3>4, <3>5, <4>1, <4>2
    <3> QED
      BY <1>2, <2>0, <2>2, <3>4, <3>7, <3>8
  <2>3. CarefulActive(k)' \subseteq CarefulActive(k) \/ (k = n /\ ~request'[j].careless)
    <3> SUFFICES ASSUME NEW i \in CarefulActive(k)', i \notin CarefulActive(k)
                 PROVE  k = n /\ ~request'[j].careless
      OBVIOUS
    <3>1. i = j
      BY <1>1, <1>4 DEF CarefulActive
    <3> QED
      BY <1>4, <3>1 DEF CarefulActive
  <2> QED
    BY <2>1, <2>2, <2>3
<1> QED
  BY <1>6, <1>7, <1>8, <1>11, <1>12, <1>13, <1>14

\* The start holds nothing.
LEMMA InitFigures == Init => Figures
<1> SUFFICES ASSUME Init PROVE Figures
  OBVIOUS
<1>1. TypeOK
  BY InitTypes
<1>2. \A j \in Jobs : request[j].pc = "new" /\ request[j].held = 0
  BY DEF Init, NewRequest
<1>3. \A j \in Jobs : Dues[j] = 0
  BY <1>2 DEF Dues
<1>4. Units(Dues, Jobs) = {}
  BY <1>3 DEF Units
<1>5. UnitsAreFinite
  BY <1>4, FS_EmptySet DEF UnitsAreFinite
<1>6. \A n : InFree(n) = {} /\ CarefulActive(n) = {}
  BY <1>2 DEF InFree, CarefulActive, Active, InScore, At
<1>7. \A n \in Nodes : config[n].free \in Nat /\ free[n] = config[n].free
  BY <1>1, FigureSets DEF Init
<1>8. FreeIsCounted
  <2> SUFFICES ASSUME NEW n \in up PROVE free[n] + Amount(Dues, InFree(n)) = config[n].free
    BY DEF FreeIsCounted
  <2>1. Amount(Dues, InFree(n)) = 0
    BY <1>6, AmountOfNone
  <2>2. n \in Nodes
    BY <1>1 DEF TypeOK
  <2> QED
    BY <1>7, <2>1, <2>2
<1>9. DraftsCovered /\ BeatsCovered /\ EntriesCovered
  BY DEF Init, DraftsCovered, NoBeat, BeatsCovered, EntriesCovered, Seen
<1>10. CarefulCovered
  <2> SUFFICES ASSUME NEW n \in Nodes PROVE Amount(Dues, CarefulActive(n)) <= config[n].free
    BY DEF CarefulCovered
  <2>1. Amount(Dues, CarefulActive(n)) = 0
    BY <1>6, AmountOfNone
  <2> QED
    BY <1>7, <2>1
<1> QED
  BY <1>2, <1>5, <1>8, <1>9, <1>10 DEF Figures, PromisesCovered, HeldInside

\* Every step keeps the account of the figures.
LEMMA NextFigures == IInv /\ Figures /\ [Next]_vars => Figures'
<1> SUFFICES ASSUME IInv, Figures, [Next]_vars PROVE Figures'
  OBVIOUS
<1>1. TypeOK'
  BY NextTypes DEF IInv
<1>2. ASSUME NEW n \in Nodes, BeatStep(n) PROVE Figures'
  BY <1>1, <1>2, LoadScorePays, LoadFiguresPays, SendBeatPays DEF BeatStep
<1>3. ASSUME NEW b \in beats, TakeBeat(b) PROVE Figures'
  BY <1>1, <1>3, TakeBeatPays
<1>4. ASSUME NEW n \in Nodes, NEW m \in Masters, Evict(m, n) PROVE Figures'
  BY <1>1, <1>4, EvictPays
<1>5. ASSUME NEW n \in Nodes, NEW reset \in SUBSET At(n, {"sent"}), Crash(n, reset) PROVE Figures'
  BY <1>1, <1>5, CrashPays
<1>6. ASSUME NEW n \in Nodes, Restart(n) PROVE Figures'
  BY <1>1, <1>6, RestartPays
<1>7. ASSUME NEW j \in Jobs, Submit(j) PROVE Figures'
  BY <1>1, <1>7, SubmitPays
<1>8. ASSUME NEW j \in Jobs, MasterStep(j) PROVE Figures'
  BY <1>1, <1>8, ReservePays, ReserveNonePays, ForwardFailsPays DEF MasterStep
<1>11. ASSUME NEW j \in Jobs, Breaks(j) PROVE Figures'
  BY <1>1, <1>11, ForwardBreaksPays DEF Breaks
<1>9. ASSUME NEW j \in Jobs, HandlerStep(j) PROVE Figures'
  BY <1>1, <1>9, GoesOnPays, ComesInPays, ReleaseFreePays DEF HandlerStep
<1>10. CASE UNCHANGED vars
  <2>1. UNCHANGED <<request, config, up, free, beat, beats, view>>
    BY <1>10 DEF vars
  <2>2. \A m \in Masters : \A n \in Seen(m)' : n \in Seen(m) /\ view'[m][n] = view[m][n]
    BY <2>1 DEF Seen
  <2> QED
    BY <1>1, <2>1, <2>2, MasterHearsPays
<1> QED
  BY <1>2, <1>3, <1>4, <1>5, <1>6, <1>7, <1>8, <1>9, <1>10, <1>11 DEF Next

-----------------------------------------------------------------------------
\* Every number of jobs and nodes, whatever the jobs ask for: both accounts.
THEOREM Accounts == Spec => [](IInv /\ Figures)
<1>1. Init => IInv /\ Figures
  BY InitAccount, InitFigures
<1>2. IInv /\ Figures /\ [Next]_vars => IInv' /\ Figures'
  BY NextAccount, NextFigures
<1> QED
  BY <1>1, <1>2, PTL DEF Spec

\* No node's figures are overdrawn but through a job sent carelessly: with an
\* entry that is negative, was raised by a negative requirement, or did not
\* know of all the node was to serve.
THEOREM FreeOverdrawnOnlyCarelessly == Spec => []FreeHasCause
<1>1. IInv /\ Figures => FreeHasCause
  <2> SUFFICES ASSUME IInv, Figures, NEW n \in up, \A j \in Active(n) : ~request[j].careless
               PROVE  ~(free[n] < 0)
    BY DEF FreeHasCause
  <2>1. TypeOK
    BY DEF IInv
  <2>2. n \in Nodes /\ free[n] \in Int /\ free[n] + Amount(Dues, InFree(n)) = config[n].free
    BY <2>1 DEF TypeOK, Figures, FreeIsCounted
  <2>3. InFree(n) \subseteq CarefulActive(n) /\ CarefulActive(n) \in SUBSET Jobs
    BY <2>1, FigureSets DEF CarefulActive
  <2>4. Dues \in [Jobs -> Nat] /\ \A j \in InFree(n) : Dues[j] <= Dues[j]
    BY <2>1, <2>3, DuesAreNaturals
  <2>5. /\ Amount(Dues, InFree(n)) \in Nat /\ Amount(Dues, CarefulActive(n)) \in Nat
        /\ Amount(Dues, InFree(n)) <= Amount(Dues, CarefulActive(n))
    BY <2>3, <2>4, AmountIsMonotone DEF Figures, PromisesCovered, UnitsAreFinite
  <2>6. Amount(Dues, CarefulActive(n)) <= config[n].free /\ config[n].free \in Nat
    BY <2>1, <2>2, FigureSets DEF Figures, PromisesCovered, CarefulCovered
  <2> QED
    BY <2>2, <2>5, <2>6
<1> QED
  BY <1>1, Accounts, PTL

\* A node that serves nothing has its configured score and figures, whatever
\* way its jobs ended, and however many were served, refused or lost.
THEOREM IdleNodesAreWhole == Spec => []IdleNodeIsWhole
<1>1. IInv /\ Figures => IdleNodeIsWhole
  <2> SUFFICES ASSUME IInv, Figures, NEW n \in up, Active(n) \subseteq At(n, {"sent"})
               PROVE  score[n] = config[n].score /\ free[n] = config[n].free
    BY DEF IdleNodeIsWhole
  <2>1. n \in Nodes /\ score[n] \in Int /\ free[n] \in Int
    BY DEF IInv, TypeOK
  <2>2. InScore(n) = {} /\ InFree(n) = {}
    BY DEF Active, InScore, InFree, At
  <2>3. Cost(InScore(n)) = 0 /\ Amount(Dues, InFree(n)) = 0
    BY <2>2, CostOfNone, AmountOfNone
  <2>4. score[n] + 0 = config[n].score
    BY <2>3 DEF IInv, ScoreIsCounted
  <2>5. free[n] + 0 = config[n].free
    BY <2>3 DEF Figures, FreeIsCounted
  <2> QED
    BY <2>1, <2>4, <2>5
<1> QED
  BY <1>1, Accounts, PTL
=============================================================================
