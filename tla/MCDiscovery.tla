---------------------------- MODULE MCDiscovery -----------------------------
(***************************************************************************)
(* Replica "p1" of two, which owns "a1" and shares out "a2" to "p2".  Two  *)
(* slices of one Service that may list the same endpoint, whose address    *)
(* depends on the Service's annotations, and two StaticTargets that may    *)
(* name either address.                                                    *)
(***************************************************************************)
EXTENDS Discovery

MCPods == {"p1", "p2"}
MCHash ==
  [x \in Addresses \X MCPods \X VNodes |->
     CASE x[1] = "a1" -> IF x[2] = "p1" THEN 2 ELSE 1
       [] x[1] = "a2" -> IF x[2] = "p1" THEN 3 ELSE 4]
MCAddress == [x \in Endpoints \X Routes |-> IF x[2] = DefaultRoute THEN "a1" ELSE "a2"]
MCServiceOf == [k \in SliceKeys |-> "svc"]
=============================================================================
