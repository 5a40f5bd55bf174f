------------------------------ MODULE EventPool ------------------------------
(***************************************************************************)
(* What a state machine promises about the events sent to it               *)
(* (state_executor.go:442-466, executor_common.go:161-178).  Events arrive *)
(* numbered in order.  The oldest waiting event is dispatched; it is       *)
(* consumed, or dropped, or held back because an active state defers it.   *)
(* Whenever the configuration changes some held events return to the pool, *)
(* where they come before whatever arrived after them.  The numbers are    *)
(* shared with the events a machine schedules for itself, so steps skip    *)
(* some.                                                                   *)
(***************************************************************************)
EXTENDS Integers

VARIABLES waiting,   \* the events in the queue
          held,      \* the events an active state defers
          next       \* every number below this one has been handed out

poolVars == <<waiting, held, next>>

Init == waiting = {} /\ held = {} /\ next = 1

Arrive ==
    /\ waiting' = waiting \cup {next}
    /\ next' = next + 1
    /\ UNCHANGED held

\* The events in `recalled` are no longer deferred.
Recall(kept, recalled) ==
    /\ recalled \subseteq kept
    /\ held' = kept \ recalled
    /\ next' \in Nat /\ next' >= next

\* The oldest waiting event is dispatched, and ends up held or gone.
Dispatch(e) ==
    /\ e \in waiting /\ \A f \in waiting : e <= f
    /\ \E kept \in {held, held \cup {e}} : \E recalled \in SUBSET kept :
          /\ Recall(kept, recalled)
          /\ waiting' = (waiting \ {e}) \cup recalled

\* Any other step of the machine.
Internal ==
    \E recalled \in SUBSET held :
        /\ Recall(held, recalled)
        /\ waiting' = waiting \cup recalled

Next == Arrive \/ Internal \/ \E e \in waiting : Dispatch(e)

Spec == Init /\ [][Next]_poolVars
=============================================================================
