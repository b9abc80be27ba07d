-------------------------- MODULE DeferredDeletion --------------------------
(***************************************************************************)
(* What the event loop (main.go:158-198) and the MetricsCleaner promise    *)
(* together about the marks for deletion: the loop handles an event in one *)
(* step, a scrape takes all marks in one step, and only a removal makes a  *)
(* mark.  EventLoop is built on this view; MetricsCleaner implements it    *)
(* with halves of events and overlapping scrapes.                          *)
(***************************************************************************)
CONSTANT Targets      \* target addresses

VARIABLES
  scheduled,   \* targets that have, or are being given or denied, a scheduler
  marked       \* targets whose series the next scrape is to delete

vars == <<scheduled, marked>>

Init == scheduled = {} /\ marked = {}

\* An add event: the deletion is aborted whether or not a scheduler starts.
HandleAdd(t) ==
  /\ scheduled' = scheduled \cup {t}
  /\ marked' = marked \ {t}

\* A removal event: the mark comes with the end of the scheduler.
HandleRemoval(t) ==
  /\ t \in scheduled
  /\ scheduled' = scheduled \ {t}
  /\ marked' = marked \cup {t}

\* A scrape takes the marks that are there.
Scrape ==
  /\ marked' = {}
  /\ UNCHANGED scheduled

Next == (\E t \in Targets : HandleAdd(t) \/ HandleRemoval(t)) \/ Scrape

Spec == Init /\ [][Next]_vars

\* No scheduled target is ever marked.
Unmarked == scheduled \cap marked = {}
=============================================================================
