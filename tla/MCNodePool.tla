----------------------------- MODULE MCNodePool -----------------------------
(***************************************************************************)
(* A small instance of NodePool; jobs and nodes are numbers.  Of the       *)
(* initial states four are explored: two jobs of one master on a node with *)
(* room for one, and a death of the node or a call that breaks while its   *)
(* handler goes on; the same without failures where only the figures are   *)
(* short; a negative requirement beside one that is too large; two masters *)
(* with a job each, short of the score alone.                              *)
(*                                                                         *)
(* With one attempt per job a broken call is not repeated: to the node the *)
(* second job is what the repeat of the first would be.                    *)
(***************************************************************************)
EXTENDS NodePool

SomeNeeds == {-1, 0, 1, 2}
Narrow == [score |-> 20, free |-> 2]
Wide   == [score |-> 40, free |-> 1]
Bare   == [score |-> 20, free |-> 0]
SomeConfigs == {Narrow, Wide, Bare}

Starts(masters, needs, node, used) ==
  /\ failures = used
  /\ \A n \in Nodes : config[n] = node
  /\ \A j \in Jobs : request[j].master = masters[j] /\ request[j].need = needs[j]

MCInit ==
  /\ Init
  /\ \/ Starts(<<"primary", "primary">>, <<1, 1>>, Narrow, 0)
     \/ Starts(<<"primary", "primary">>, <<1, 1>>, Wide, MaxFailures)
     \/ Starts(<<"primary", "primary">>, <<-1, 2>>, Wide, MaxFailures)
     \/ Starts(<<"primary", "backup">>, <<0, 0>>, Bare, MaxFailures)

MCSpec == MCInit /\ [][Next]_vars /\ Fairness
=============================================================================
