--------------------------- MODULE MCShardingScan ---------------------------
(***************************************************************************)
(* Three replicas; several orders of three views (one pod, two pods, all), *)
(* a list with a repeated peer and the empty list.                         *)
(***************************************************************************)
EXTENDS ShardingScan

MCPods == {"p1", "p2", "p3"}
MCAddresses == {"a1", "a2", "a3"}

\* a1: p1 wins with its second virtual node, then p3, then p2.
\* a2: every hash of p1 is 0; p3 wins, then p2.
\* a3: p1 and p3 tie, before p2.
MCHash ==
  [x \in MCAddresses \X MCPods \X (0 .. 1) |->
     CASE x[1] = "a1" /\ x[2] = "p1" -> <<0, 6>>[x[3] + 1]
       [] x[1] = "a1" /\ x[2] = "p2" -> <<3, 1>>[x[3] + 1]
       [] x[1] = "a1" /\ x[2] = "p3" -> <<2, 4>>[x[3] + 1]
       [] x[1] = "a2" /\ x[2] = "p1" -> 0
       [] x[1] = "a2" /\ x[2] = "p2" -> <<5, 3>>[x[3] + 1]
       [] x[1] = "a2" /\ x[2] = "p3" -> <<7, 1>>[x[3] + 1]
       [] x[1] = "a3" /\ x[2] = "p1" -> <<1, 5>>[x[3] + 1]
       [] x[1] = "a3" /\ x[2] = "p2" -> <<4, 0>>[x[3] + 1]
       [] x[1] = "a3" /\ x[2] = "p3" -> <<5, 2>>[x[3] + 1]]

MCPeerLists ==
  {<< >>, <<"p1">>, <<"p1", "p2">>, <<"p2", "p1", "p2">>, <<"p1", "p2", "p3">>,
   <<"p2", "p3", "p1">>, <<"p3", "p2", "p1">>}
=============================================================================
