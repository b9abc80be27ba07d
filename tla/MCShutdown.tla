----------------------------- MODULE MCShutdown -----------------------------
(***************************************************************************)
(* One target that comes and goes, two goroutines that send events (an     *)
(* informer's handler, and WatchPeers itself, which informerGroup waits    *)
(* for) and two workers.                                                   *)
(***************************************************************************)
EXTENDS Shutdown
=============================================================================
