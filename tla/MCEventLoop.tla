---------------------------- MODULE MCEventLoop -----------------------------
(***************************************************************************)
(* Replica "p1" of two.  "a1" is always its own; "a2" belongs to "p2" when *)
(* that pod is among the peers.                                            *)
(***************************************************************************)
EXTENDS EventLoop

MCPods == {"p1", "p2"}
MCHash ==
  [x \in Addresses \X MCPods \X VNodes |->
     CASE x[1] = "a1" -> IF x[2] = "p1" THEN 2 ELSE 1
       [] x[1] = "a2" -> IF x[2] = "p1" THEN 3 ELSE 4]
=============================================================================
