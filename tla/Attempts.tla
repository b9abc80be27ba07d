------------------------------ MODULE Attempts ------------------------------
(***************************************************************************)
(* What schedulers, queue, workers and dispatcher promise together about   *)
(* the attempts to probe a target (worker.go, dispatcher.go): each attempt *)
(* is settled once.  It is refused, which is counted, or begins in a free  *)
(* slot of the pool and ends there, which is counted too, and so is its    *)
(* failure; only SIGTERM takes an attempt away uncounted.  How an attempt  *)
(* gets its slot, its token and its verdict is left to Pipeline.           *)
(***************************************************************************)
EXTENDS Naturals

CONSTANTS
  Targets,   \* target addresses
  Slots,     \* places for probes under way
  Free       \* no target

VARIABLES
  open,      \* open[t]: attempts that are neither refused nor begun
  refused,   \* targets whose last attempt found no room and is not counted yet
  slot,      \* slot[s]: the target of the probe under way, or Free
  failing,   \* slots whose probe has ended with an error that is not counted yet
  dropped,   \* dropped[t]: attempts that found no room
  begun,     \* begun[t]: attempts that became probes
  ended,     \* ended[t]: probes that came to an end
  failed,    \* failed[t]: those of them with an error
  stopping   \* SIGTERM was received

counts == <<dropped, begun, ended, failed>>
vars == <<open, refused, slot, failing, counts, stopping>>

Zero == [t \in Targets |-> 0]

Init ==
  /\ open = Zero
  /\ refused = {}
  /\ slot = [s \in Slots |-> Free]
  /\ failing = {}
  /\ dropped = Zero /\ begun = Zero /\ ended = Zero /\ failed = Zero
  /\ stopping = FALSE

Due(t) ==
  /\ open' = [open EXCEPT ![t] = @ + 1]
  /\ UNCHANGED <<refused, slot, failing, counts, stopping>>

\* An attempt leaves the open ones.
Closes(t) ==
  /\ open[t] > 0
  /\ open' = [open EXCEPT ![t] = @ - 1]

\* Nothing is refused for want of room once the process stops.
Refuse(t) ==
  /\ ~stopping
  /\ Closes(t)
  /\ t \notin refused
  /\ refused' = refused \cup {t}
  /\ UNCHANGED <<slot, failing, counts, stopping>>

\* What was refused is counted, later perhaps.
Drop(t) ==
  /\ t \in refused
  /\ refused' = refused \ {t}
  /\ dropped' = [dropped EXCEPT ![t] = @ + 1]
  /\ UNCHANGED <<open, slot, failing, begun, ended, failed, stopping>>

Abandon(t) ==
  /\ stopping
  /\ Closes(t)
  /\ UNCHANGED <<refused, slot, failing, counts, stopping>>

Begin(t, s) ==
  /\ Closes(t)
  /\ slot[s] = Free
  /\ slot' = [slot EXCEPT ![s] = t]
  /\ begun' = [begun EXCEPT ![t] = @ + 1]
  /\ UNCHANGED <<refused, failing, dropped, ended, failed, stopping>>

\* The probe in slot s is over, with an error or without.
End(t, s) ==
  /\ slot[s] = t /\ s \notin failing
  /\ ended' = [ended EXCEPT ![t] = @ + 1]
  /\ \/ slot' = [slot EXCEPT ![s] = Free] /\ UNCHANGED failing
     \/ failing' = failing \cup {s} /\ UNCHANGED slot
  /\ UNCHANGED <<open, refused, dropped, begun, failed, stopping>>

Fail(t, s) ==
  /\ slot[s] = t /\ s \in failing
  /\ failing' = failing \ {s}
  /\ slot' = [slot EXCEPT ![s] = Free]
  /\ failed' = [failed EXCEPT ![t] = @ + 1]
  /\ UNCHANGED <<open, refused, dropped, begun, ended, stopping>>

Stop ==
  /\ ~stopping
  /\ stopping' = TRUE
  /\ UNCHANGED <<open, refused, slot, failing, counts>>

Next ==
  \/ \E t \in Targets : Due(t) \/ Refuse(t) \/ Drop(t) \/ Abandon(t)
  \/ \E t \in Targets, s \in Slots : Begin(t, s) \/ End(t, s) \/ Fail(t, s)
  \/ Stop

Spec == Init /\ [][Next]_vars
=============================================================================
