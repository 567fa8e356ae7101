--------------------------- MODULE JobsLogProofs ---------------------------
(***************************************************************************)
(* Facts about the jobs_log table and the statements on it, for a log of   *)
(* any length: the proofs about the two masters rest on them.              *)
(***************************************************************************)
EXTENDS JobsLog, TLAPS, WellFoundedInduction

\* What COALESCE(MAX(...)) needs (master.cpp:241-260): a set of naturals has
\* a least element, and a bounded one a greatest.
LEMMA MinOfNaturals ==
  ASSUME NEW T \in SUBSET Nat, T # {}
  PROVE  \E t \in T : \A u \in T : t <= u
<1> DEFINE R == OpToRel(<, Nat)
<1>1. PICK t \in T : \A u \in T : ~(<<u, t>> \in R)
  <2> HIDE DEF R
  <2>1. IsWellFoundedOn(R, Nat)
    BY NatLessThanWellFounded DEF R
  <2> QED BY <2>1, WFMin
<1>2. \A u \in T : ~(u < t)
  BY <1>1 DEF OpToRel
<1> QED
  BY <1>2

\* The maximum of a bounded, non-empty set of integers is a member of it and
\* above the others: MAX(submission_id) is some row's id.
LEMMA MaxOfBounded ==
  ASSUME NEW S \in SUBSET Nat, S # {}, NEW b \in Nat, \A s \in S : s < b
  PROVE  /\ Max(S) \in S
         /\ \A s \in S : s <= Max(S)
<1> DEFINE T == {b - s : s \in S}
<1>1. T \in SUBSET Nat /\ T # {}
  <2>1. \A s \in S : b - s \in Nat
    OBVIOUS
  <2>2. T \in SUBSET Nat
    BY <2>1
  <2>3. PICK s \in S : TRUE
    OBVIOUS
  <2>4. b - s \in T
    OBVIOUS
  <2> QED BY <2>2, <2>4
<1>2. PICK t \in T : \A u \in T : t <= u
  BY <1>1, MinOfNaturals
<1>3. PICK m \in S : \A s \in S : s <= m
  BY <1>2
<1> QED
  BY <1>3 DEF Max

-----------------------------------------------------------------------------
(***************************************************************************)
(* What the statements on the log keep                                     *)
(***************************************************************************)

\* An UPDATE changes the status columns of rows and nothing else.
LEMMA UpdatedKeepsRows ==
  ASSUME NEW log \in Seq(Row), NEW sid \in Nat, NEW forwarding \in Forwardings,
         NEW response \in Responses, NEW delivery \in Deliveries
  PROVE  LET new == Updated(log, sid, forwarding, response, delivery)
         IN  /\ new \in Seq(Row)
             /\ Len(new) = Len(log)
             /\ DOMAIN new = DOMAIN log
             /\ \A i \in DOMAIN log :
                  /\ new[i].sid = log[i].sid
                  /\ new[i].receipt = log[i].receipt
                  /\ new[i].job = log[i].job
                  /\ new[i].response \in {log[i].response, response}
                  /\ log[i].sid # sid => new[i] = log[i]
                  /\ log[i].sid = sid => /\ new[i].forwarding = forwarding
                                         /\ new[i].response = response
                                         /\ new[i].delivery = delivery
<1> DEFINE new == Updated(log, sid, forwarding, response, delivery)
           After(row) == [row EXCEPT !.forwarding = forwarding,
                                     !.response = response,
                                     !.delivery = delivery]
<1>1. \A row \in Row : /\ After(row) \in Row
                       /\ After(row).sid = row.sid
                       /\ After(row).receipt = row.receipt
                       /\ After(row).job = row.job
                       /\ After(row).forwarding = forwarding
                       /\ After(row).response = response
                       /\ After(row).delivery = delivery
  BY DEF Row
<1>2. /\ DOMAIN log = 1..Len(log)
      /\ Len(log) \in Nat
      /\ \A i \in DOMAIN log : log[i] \in Row
  OBVIOUS
<1>3. new = [i \in 1..Len(log) |-> IF log[i].sid = sid THEN After(log[i]) ELSE log[i]]
  BY <1>2 DEF Updated
<1> HIDE DEF new, After
<1>4. \A i \in DOMAIN log : log[i].sid # sid => new[i] = log[i]
  BY <1>2, <1>3
<1>5. \A i \in DOMAIN log : log[i].sid = sid => new[i] = After(log[i])
  BY <1>2, <1>3
<1>6. \A i \in DOMAIN log : new[i] \in Row
  <2> TAKE i \in DOMAIN log
  <2>1. log[i] \in Row /\ After(log[i]) \in Row
    BY <1>1, <1>2
  <2> QED
    BY <1>4, <1>5, <2>1
<1>7. new \in Seq(Row) /\ Len(new) = Len(log) /\ DOMAIN new = DOMAIN log
  BY <1>2, <1>3, <1>6
<1>8. \A i \in DOMAIN log : /\ new[i].sid = log[i].sid
                            /\ new[i].receipt = log[i].receipt
                            /\ new[i].job = log[i].job
                            /\ new[i].response \in {log[i].response, response}
                            /\ log[i].sid # sid => new[i] = log[i]
                            /\ log[i].sid = sid => /\ new[i].forwarding = forwarding
                                                   /\ new[i].response = response
                                                   /\ new[i].delivery = delivery
  <2> SUFFICES ASSUME NEW i \in DOMAIN log
               PROVE  /\ new[i].sid = log[i].sid
                      /\ new[i].receipt = log[i].receipt
                      /\ new[i].job = log[i].job
                      /\ new[i].response \in {log[i].response, response}
                      /\ log[i].sid # sid => new[i] = log[i]
                      /\ log[i].sid = sid => /\ new[i].forwarding = forwarding
                                             /\ new[i].response = response
                                             /\ new[i].delivery = delivery
    OBVIOUS
  <2>1. log[i] \in Row
    BY <1>2
  <2>2. CASE log[i].sid = sid
    <3>1. new[i] = After(log[i])
      BY <1>5, <2>2
    <3> QED
      BY <1>1, <2>1, <2>2, <3>1
  <2>3. CASE log[i].sid # sid
    <3>1. new[i] = log[i]
      BY <1>4, <2>3
    <3> QED
      BY <2>3, <3>1
  <2> QED
    BY <2>2, <2>3
<1> QED
  BY <1>7, <1>8 DEF new

\* An INSERT adds one row behind the others.
LEMMA AppendKeepsRows ==
  ASSUME NEW log \in Seq(Row), NEW row \in Row
  PROVE  LET new == Append(log, row)
         IN  /\ new \in Seq(Row)
             /\ Len(new) = Len(log) + 1
             /\ DOMAIN new = DOMAIN log \cup {Len(log) + 1}
             /\ Len(log) + 1 \notin DOMAIN log
             /\ \A i \in DOMAIN log : new[i] = log[i]
             /\ new[Len(log) + 1] = row
OBVIOUS

\* submission_id is an INTEGER column.
LEMMA SidsAreNaturals ==
  ASSUME NEW log \in Seq(Row)
  PROVE  SidsOf(log) \subseteq Nat
<1>1. \A i \in DOMAIN log : log[i] \in Row
  OBVIOUS
<1>2. \A row \in Row : row.sid \in Nat
  BY DEF Row
<1> QED
  BY <1>1, <1>2 DEF SidsOf

\* A process that starts on a log hands out ids above all of the log's.
LEMMA NextSubmissionIsFresh ==
  ASSUME NEW log \in Seq(Row), NEW b \in Nat,
         \A i \in DOMAIN log : log[i].sid < b
  PROVE  /\ NextSubmission(log) \in Nat
         /\ \A i \in DOMAIN log : log[i].sid < NextSubmission(log)
<1>1. CASE log = <<>>
  BY <1>1 DEF NextSubmission
<1>2. CASE log # <<>>
  <2>1. \A i \in DOMAIN log : log[i].sid \in Nat
    BY SidsAreNaturals DEF SidsOf
  <2>2. SidsOf(log) \in SUBSET Nat /\ \A s \in SidsOf(log) : s < b
    BY <2>1 DEF SidsOf
  <2>3. 1 \in DOMAIN log
    BY <1>2
  <2>4. SidsOf(log) # {}
    BY <2>3 DEF SidsOf
  <2>5. /\ Max(SidsOf(log)) \in SidsOf(log)
        /\ \A s \in SidsOf(log) : s <= Max(SidsOf(log))
    BY <2>2, <2>4, MaxOfBounded
  <2>6. NextSubmission(log) = Max(SidsOf(log)) + 1
    BY <1>2 DEF NextSubmission
  <2>7. \A i \in DOMAIN log : log[i].sid \in SidsOf(log)
    BY DEF SidsOf
  <2> QED
    BY <2>1, <2>2, <2>5, <2>6, <2>7
<1> QED
  BY <1>1, <1>2

\* A compute node's text is a response, and it is not PENDING.
LEMMA ComputedIsOutcome ==
  ASSUME NEW response \in Computed
  PROVE  response \in Responses /\ response # Pending
<1>1. response.kind \in {"OUTPUT", "ERROR"} /\ response.run \in Runs
  BY RunsAssumption DEF Computed
<1>2. response = [kind |-> response.kind, run |-> response.run]
  BY DEF Computed
<1> QED
  BY <1>1, <1>2 DEF Responses, Kinds, Pending

\* A receipt id is a natural number.
LEMMA NextReceiptType ==
  ASSUME NEW log \in Seq(Row)
  PROVE  NextReceipt(log) \in Nat
BY DEF NextReceipt
=============================================================================
