------------------------------ MODULE Debouncer ------------------------------
(***************************************************************************)
(* The debouncer (internal/core/model/debounce.go): one timer per key,     *)
(* restarted by every trigger, whose expiry starts a goroutine that        *)
(* forgets the key's timer and then does the work.                         *)
(*                                                                         *)
(* Stopping a timer that has expired does nothing, and a goroutine waiting *)
(* for the lock forgets whatever timer its key has by then.  So besides    *)
(* the timer the map holds (`entry`) a key may have timers nobody can stop *)
(* any more: `armed` of them still run, `fired` wait for the lock.         *)
(***************************************************************************)
EXTENDS Integers

NoTimer == [entry |-> "none", armed |-> 0, fired |-> 0]

One(condition) == IF condition THEN 1 ELSE 0

Quiet(d, k) == d[k] = NoTimer

Trigger(d, k) ==
    [d EXCEPT ![k] = [entry |-> "armed", armed |-> @.armed,
                      fired |-> @.fired + One(@.entry = "fired")]]

\* The window of a running timer elapses.
Armed(d, k) == d[k].entry = "armed" \/ d[k].armed > 0
Expired(d, k) ==
    IF d[k].entry = "armed" THEN [d EXCEPT ![k].entry = "fired"]
    ELSE [d EXCEPT ![k].armed = @ - 1, ![k].fired = @ + 1]

\* A goroutine takes the lock and forgets the key's timer, its own or not.
Due(d, k) == d[k].entry = "fired" \/ d[k].fired > 0

Forget(d, k) ==
    [d EXCEPT ![k] = [entry |-> "none",
                      armed |-> @.armed + One(@.entry = "armed"),
                      fired |-> @.fired + One(@.entry = "fired") - 1]]
=============================================================================
