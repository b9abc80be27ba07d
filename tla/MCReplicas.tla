----------------------------- MODULE MCReplicas -----------------------------
(***************************************************************************)
(* Two replicas: the first wins "a1", the second "a2".                     *)
(***************************************************************************)
EXTENDS Replicas

MCPods == {"p1", "p2"}
MCAddresses == {"a1", "a2"}
MCHash ==
  [x \in MCAddresses \X MCPods \X VNodes |->
     CASE x[1] = "a1" -> IF x[2] = "p1" THEN 2 ELSE 1
       [] x[1] = "a2" -> IF x[2] = "p1" THEN 3 ELSE 4]
=============================================================================
