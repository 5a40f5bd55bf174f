----------------------------- MODULE EventQueue -----------------------------
(***************************************************************************)
(* The event queue of a state machine (executor_common.go): a heap ordered *)
(* by timestamp, then completion events before the others, then by ID.     *)
(* The heap's layout is not observable, so the queue is the set of its     *)
(* events and Pop names the one the heap would return.                     *)
(*                                                                         *)
(* An event is a record [id, kind, what, time].  kind "completion" and     *)
(* "timer" are the two uses of EventTime (a transition with and without a  *)
(* trigger) and what is the transition; kind "signal" is EventAccept and   *)
(* "call" is EventCall, and what names the signal or the operation.        *)
(***************************************************************************)
EXTENDS Integers, FiniteSets

IsCompletionEvent(e) == e.kind = "completion"

\* The events of the pool: those that arrived from outside the machine, as
\* opposed to the ones it scheduled for itself.
IsPoolEvent(e) == e.kind \in {"signal", "call"}

Less(e, f) ==
    \/ e.time < f.time
    \/ /\ e.time = f.time
       /\ IsCompletionEvent(e) /\ ~IsCompletionEvent(f)
    \/ /\ e.time = f.time
       /\ IsCompletionEvent(e) <=> IsCompletionEvent(f)
       /\ e.id < f.id

Peek(q) == CHOOSE e \in q : \A f \in q \ {e} : Less(e, f)

Pop(q) == q \ {Peek(q)}

Withdraw_Nothing(q, transitions) == q

\* Drop every pending event of the given transitions.
Withdraw(q, transitions) ==
    {e \in q : IsPoolEvent(e) \/ e.what \notin transitions}
=============================================================================
