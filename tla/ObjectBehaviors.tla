--------------------------- MODULE ObjectBehaviors ---------------------------
(***************************************************************************)
(* Objects that exhibit state machines, the messages in flight between     *)
(* them, and what drives them: the drain that runs every behavior when     *)
(* objects are materialized (classifier_behavior.go), a run to completion  *)
(* (state_executor.go), and the debugger's step and advance                *)
(* (repl/meta.go).  One goroutine drives all machines, so a call runs to   *)
(* its end before the next begins; it is split into the phases of its loop *)
(* because a budget, an error or another machine's turn falls between two. *)
(* A behavior is one object's execution of one machine it exhibits; the    *)
(* behaviors of an object share its features.                              *)
(***************************************************************************)
EXTENDS StateDispatch

CONSTANTS
    Anyone,          \* the destination of a message any object may take
    Casts,           \* [exhibits: object -> its behaviors in declaration order,
                     \*  machines: behavior -> its machine, data, calls] to start from
    Features,        \* the attributes that are features of the exhibiting object
    MaxStateEvents,  \* the context's event budget
    MaxDoSteps,      \* the context's do action budget
    MaxTime,         \* no clock reaches this time
    Delays,          \* the durations the debugger advances by
    Looping          \* the machines that loop without end

\* No behavior belongs to two objects.
ASSUME CastAssumption ==
    /\ \A c \in Casts :
          /\ \A b \in DOMAIN c.machines : c.machines[b] \in Machines
          /\ None \notin DOMAIN c.machines
          /\ \A o \in DOMAIN c.exhibits : c.exhibits[o] \in Seq(DOMAIN c.machines)
          /\ \A b \in DOMAIN c.machines :
                \E o \in DOMAIN c.exhibits :
                    {p \in DOMAIN c.exhibits : b \in ToSet(c.exhibits[p])} = {o}
          /\ c.data \in [Vars -> BOOLEAN]
          /\ c.calls \in Nat
    /\ Features \subseteq Vars
    /\ MaxStateEvents \in Nat /\ MaxDoSteps \in Nat /\ Delays \subseteq Nat

VARIABLES
    cast,       \* the member of Casts this behavior plays
    machines,   \* behavior -> its state machine
    bus,        \* the messages in flight, oldest first
    attached,   \* the attached behaviors, in order
    pending,    \* attached behaviors not run yet, in order
    starting,   \* behaviors the call in progress has yet to attach, in order
    session,    \* the debugger's clock, per behavior
    call,       \* the call in progress, if any
    calls,      \* calls left to make (bounds the model)
    taken,      \* the transitions the last step took
    left        \* behavior -> state -> what was active below it when last left

vars == <<cast, machines, bus, attached, pending, starting, session, call, calls, taken, left>>

Executions == DOMAIN machines

\* The object that exhibits b.
Self(b) == CHOOSE o \in DOMAIN cast.exhibits : b \in ToSet(cast.exhibits[o])

\* `kept` is how many behaviors were attached when a drain began.
Calls ==
    [driver : {"none", "drain", "run", "step", "advance"}, obj : Executions \cup {None},
     phase : {"none", "start", "next", "round", "poll", "deliver", "event", "driver", "forget"},
     atCurrentTime : BOOLEAN, ran : 0..MaxDoSteps, events : 0..(MaxStateEvents + 1),
     doSteps : 0..(2 * MaxDoSteps), rounds : 0..MaxStateEvents, deadline : 0..MaxTime,
     kept : 0..Cardinality(Executions), result : {"none", "ok", "drained", "budget"}]

NoCall == [driver |-> "none", obj |-> None, phase |-> "none", atCurrentTime |-> FALSE,
           ran |-> 0, events |-> 0, doSteps |-> 0, rounds |-> 0, deadline |-> 0, kept |-> 0,
           result |-> "none"]

Init ==
    /\ cast \in Casts
    /\ machines = [b \in DOMAIN cast.machines |-> NewMachine(cast.machines[b], cast.data)]
    /\ bus = <<>> /\ attached = <<>> /\ pending = <<>> /\ starting = <<>>
    /\ session = [b \in DOMAIN cast.machines |-> 0]
    /\ call = NoCall /\ calls = cast.calls /\ taken = <<>>
    /\ left = [b \in DOMAIN cast.machines |-> [s \in ToSet(Graph.States[cast.machines[b]]) |-> {}]]

\* reaches and acceptableMessage, for messages routed to no port.
Acceptable(b, msg) == msg.to \in {Anyone, Self(b)} /\ AcceptsSignal(machines[b], msg.signal)

FirstAcceptable_Oldest(b) == IF bus # <<>> /\ Acceptable(b, Head(bus)) THEN 1 ELSE 0

FirstAcceptable(b) == SelectInSeq(bus, LAMBDA msg : Acceptable(b, msg))
HasPendingSignal(b) == FirstAcceptable(b) # 0

HasPendingWork(b) ==
    machines[b].eventQueue # {} \/ machines[b].doActions # <<>> \/ HasPendingSignal(b)

OpenBelow(m, s) == {x \in DOMAIN m.open : m.open[x] > 0 /\ NestedIn(x, s)}

\* A machine between two steps.
Flushed(n) == [n EXCEPT !.out = <<>>, !.taken = <<>>, !.exited = {}]

\* What a step that leaves one machine as n shows another of the same object.
Shown(m, n) ==
    [m EXCEPT !.stateData = [v \in Vars |-> IF v \in Features THEN n.stateData[v] ELSE @[v]]]

\* Behavior b's machine becomes n and the messages it sent join those in flight.
Commit(b, n, inFlight) ==
    /\ machines' = [x \in Executions |-> IF x = b THEN Flushed(n)
                                         ELSE IF Self(x) = Self(b) THEN Shown(machines[x], n)
                                         ELSE machines[x]]
    /\ bus' = inFlight \o n.out
    /\ taken' = n.taken
    /\ left' = [left EXCEPT ![b] = [s \in DOMAIN @ |->
                   IF s \in n.exited THEN OpenBelow(machines[b], s) ELSE @[s]]]

Unmoved == UNCHANGED <<machines, bus, left>> /\ taken' = <<>>

---------------------------------------------------------------------------
(* Calls and their ends.                                                   *)

NewCall(driver, b, phase, hold) ==
    [NoCall EXCEPT !.driver = driver, !.obj = b, !.phase = phase, !.atCurrentTime = hold]

Idle == call.driver = "none"
CanCall == Idle /\ calls > 0 /\ calls' = calls - 1

\* The drain goes on to the next behavior, or undoes its start; any other call is
\* over.
Return(result) ==
    call' = IF call.driver # "drain" THEN [NoCall EXCEPT !.result = result]
            ELSE [call EXCEPT !.obj = None, !.phase = IF result = "ok" THEN "next" ELSE "forget"]

InRun == call.driver \in {"run", "drain"}

\* One iteration of the caller's loop is over, counting `events` more.  The run
\* and the advance repeat while the machine runs; a step is one iteration.
Again(n, events) ==
    IF call.driver = "step" \/ n.state # "running" THEN Return("ok")
    ELSE call' = [call EXCEPT !.phase = IF InRun THEN "round" ELSE "driver",
                              !.events = @ + events]

Resumed(m) == IF m.state = "suspended" THEN [m EXCEPT !.state = "running"] ELSE m

---------------------------------------------------------------------------
(* The environment.                                                        *)

\* startClassifierBehaviorsOf: objects are materialized together.
Materialize(objects) ==
    /\ CanCall
    /\ \A o \in ToSet(objects) : \A b \in ToSet(cast.exhibits[o]) : machines[b].state = "ready"
    /\ starting' = Flatten([i \in DOMAIN objects |-> cast.exhibits[objects[i]]])
    /\ call' = [NewCall("drain", None, "start", TRUE) EXCEPT !.kept = Len(attached)]
    /\ Unmoved /\ UNCHANGED <<cast, attached, pending, session>>

Names(b, kind) ==
    {On(t).name : t \in {x \in UNION {ToSet(Graph.Transitions[s]) : s \in ToSet(Graph.States[machines[b].of])} :
                            On(x).kind = kind}}

\* SendSignal, InvokeOperation, and a message posted for the object.
SendTo(b) ==
    /\ CanCall /\ b \in ToSet(attached) /\ machines[b].state \in {"running", "suspended"}
    /\ \/ \E name \in Names(b, "signal") : Commit(b, EnqueueSignal(machines[b], name), bus)
       \/ \E name \in Names(b, "call")   : Commit(b, InvokeOperation(machines[b], name), bus)
       \/ \E name \in Names(b, "signal") :
             Commit(b, machines[b], Append(bus, [signal |-> name, to |-> Self(b)]))
    /\ UNCHANGED <<cast, attached, pending, starting, session>> /\ call' = NoCall

RunToCompletion(b) ==
    /\ CanCall /\ b \in ToSet(attached) /\ machines[b].state \in {"running", "suspended"}
    /\ Commit(b, Resumed(machines[b]), bus)
    /\ call' = NewCall("run", b, "round", FALSE)
    /\ UNCHANGED <<cast, attached, pending, starting, session>>

\* debugExhibitedMachine: the debugger is at the first machine an object exhibits.
Debuggable(b) == b \in ToSet(attached) /\ b = Head(cast.exhibits[Self(b)])

\* stepState: resume when there is something to do or to watch.
StepState(b) ==
    LET m == machines[b]
        n == IF HasPendingWork(b) \/ Watched(m) # {} THEN Resumed(m) ELSE m
    IN  /\ CanCall /\ Debuggable(b) /\ n.state = "running"
        /\ Commit(b, n, bus)
        /\ call' = NewCall("step", b, "driver", FALSE)
        /\ UNCHANGED <<cast, attached, pending, starting, session>>

\* advanceBy.
AdvanceBy(b, d) ==
    LET n == Resumed(machines[b])
    IN  /\ CanCall /\ Debuggable(b) /\ n.state = "running"
        /\ Commit(b, n, bus)
        /\ call' = [NewCall("advance", b, "driver", FALSE) EXCEPT !.deadline = session[b] + d]
        /\ UNCHANGED <<cast, attached, pending, starting, session>>

---------------------------------------------------------------------------
(* The phases of a call.                                                   *)

\* startBehaviorsOf: every behavior of every object is initialized and attached
\* before any of them runs, so what an entry behavior sends is in flight by then;
\* one the object already runs is passed over.
StartBehavior ==
    LET b == Head(starting)
    IN  /\ call.phase = "start" /\ UNCHANGED <<cast, calls, session>>
        /\ IF starting = <<>>
           THEN Unmoved /\ call' = [call EXCEPT !.phase = "next"]
                /\ UNCHANGED <<attached, pending, starting>>
           ELSE /\ starting' = Tail(starting) /\ UNCHANGED call
                /\ IF machines[b].state # "ready"
                   THEN Unmoved /\ UNCHANGED <<attached, pending>>
                   ELSE /\ Commit(b, Initialize(machines[b]), bus)
                        /\ attached' = Append(attached, b) /\ pending' = Append(pending, b)

\* forgetBehaviorsFrom and abandonInstancesSince: a start that failed leaves none
\* of the behaviors it attached, nor messages to their objects.
ForgetBehaviors ==
    LET dropped == ToSet(KeepAt(attached, DOMAIN attached \ 1..call.kept))
    IN  /\ call.phase = "forget" /\ UNCHANGED <<cast, machines, starting, session, calls, left>>
        /\ attached' = KeepAt(attached, 1..call.kept)
        /\ pending' = Keep(pending, ToSet(pending) \ dropped)
        /\ bus' = Keep(bus, {msg \in ToSet(bus) : msg.to \notin {Self(b) : b \in dropped}})
        /\ call' = [NoCall EXCEPT !.result = "budget"] /\ taken' = <<>>

InPhase(phase) == call.phase = phase /\ UNCHANGED <<cast, attached, starting, calls>>

\* drainObjectBehaviors and nextRunnableBehavior.
Runnable(b) ==
    /\ machines[b].state # "completed"
    /\ HasDueEvent(machines[b], TRUE) \/ HasPendingSignal(b)

StartRun(b) ==
    /\ Commit(b, Resumed(machines[b]), bus)
    /\ call' = IF machines[b].state = "completed" THEN [call EXCEPT !.rounds = @ + 1]
               ELSE [call EXCEPT !.obj = b, !.phase = "round", !.rounds = @ + 1,
                                 !.events = 0, !.doSteps = 0]

NextBehavior ==
    LET b == First(attached, {x \in ToSet(attached) : Runnable(x)})
    IN  /\ InPhase("next") /\ UNCHANGED session
        /\ IF call.rounds >= MaxStateEvents
           THEN Unmoved /\ UNCHANGED pending /\ Return("budget")
           ELSE IF pending # <<>> THEN StartRun(Head(pending)) /\ pending' = Tail(pending)
           ELSE IF b # None THEN StartRun(b) /\ UNCHANGED pending
           ELSE Unmoved /\ UNCHANGED pending /\ call' = [NoCall EXCEPT !.result = "drained"]

\* runDoRound; the run counts what it ran against its budget.
DoRound ==
    LET m == machines[call.obj]
        ran == Len(m.doActions)
    IN  /\ InPhase("round") /\ UNCHANGED <<pending, session>>
        /\ Commit(call.obj, RunDoRound(m), bus)
        /\ IF InRun /\ call.doSteps + ran >= MaxDoSteps THEN Return("budget")
           ELSE call' = [call EXCEPT !.phase = "poll", !.ran = ran, !.doSteps = @ + ran]

AfterPoll_Free(polled) ==
    /\ Commit(call.obj, polled.m, bus)
    /\ IF ~polled.fired THEN call' = [call EXCEPT !.phase = "deliver"] ELSE Again(polled.m, 0)

\* pollChangeEvents; a transition taken counts as one event of the run.
AfterPoll(polled) ==
    /\ Commit(call.obj, polled.m, bus)
    /\ IF ~polled.fired THEN call' = [call EXCEPT !.phase = "deliver"]
       ELSE IF InRun /\ call.events >= MaxStateEvents THEN Return("budget")
       ELSE Again(polled.m, 1)

Poll ==
    /\ InPhase("poll") /\ UNCHANGED <<pending, session>>
    /\ AfterPoll(PollChangeEvents(machines[call.obj]))

\* hasDueEvent and deliverPendingSignal: a message is taken off the bus only
\* when no event is due; with neither, the machine has quiesced.
Deliver ==
    LET b == call.obj
        m == machines[b]
        i == FirstAcceptable(b)
        exhausted == InRun /\ call.events >= MaxStateEvents
        Proceed == IF exhausted THEN Return("budget") ELSE call' = [call EXCEPT !.phase = "event"]
    IN  /\ InPhase("deliver") /\ UNCHANGED <<pending, session>>
        /\ IF HasDueEvent(m, call.atCurrentTime) THEN Unmoved /\ Proceed
           ELSE IF i # 0 THEN Commit(b, EnqueueSignal(m, bus[i].signal), RemoveAt(bus, i)) /\ Proceed
           ELSE IF call.ran > 0 THEN Unmoved /\ Again(m, 0)
           ELSE Commit(b, [m EXCEPT !.state = "suspended"], bus) /\ Return("ok")

\* processNextEvent.
AfterEvent(n) ==
    /\ Commit(call.obj, n, bus)
    /\ session' = IF call.driver # "step" \/ n.currentTime < session[call.obj] THEN session
                  ELSE [session EXCEPT ![call.obj] = n.currentTime]
    /\ Again(n, 1)

ProcessNextEvent ==
    /\ InPhase("event") /\ UNCHANGED pending
    /\ AfterEvent(ProcessQueuedEvent(machines[call.obj]))

\* The end of advanceBy: the debugger's clock moves to the deadline.
EndAdvance(n) ==
    /\ Commit(call.obj, n, bus)
    /\ session' = [session EXCEPT ![call.obj] =
                      IF n.currentTime > call.deadline THEN n.currentTime ELSE call.deadline]
    /\ Return("ok")

\* The debugger's own turn, before it has the machine take a step: poll, then an
\* event within the deadline or a message, else do behaviors, else nothing.
DriveFrom(b, polled) ==
    LET m == polled.m
        stepping == call.driver = "step"
        ready == IF m.eventQueue = {} THEN HasPendingSignal(b)
                 ELSE stepping \/ Peek(m.eventQueue).time <= call.deadline
        ran == Len(m.doActions)
        Move(n) == Commit(b, n, bus) /\ UNCHANGED session
    IN  IF polled.fired
        THEN Move(m) /\ IF stepping THEN Return("ok") ELSE call' = [call EXCEPT !.events = @ + 1]
        ELSE IF ready THEN Move(m) /\ call' = [call EXCEPT !.phase = "round"]
        ELSE IF ran > 0
        THEN Move(RunDoRound(m))
             /\ IF stepping THEN Return("ok") ELSE call' = [call EXCEPT !.doSteps = @ + ran]
        ELSE IF stepping THEN Move([m EXCEPT !.state = "suspended"]) /\ Return("ok")
        ELSE EndAdvance(m)

Driver ==
    LET m == machines[call.obj]
        spent == call.driver = "advance"
                 /\ (call.events >= MaxStateEvents \/ call.doSteps >= MaxDoSteps)
    IN  /\ InPhase("driver") /\ UNCHANGED pending
        /\ IF spent \/ m.state # "running" THEN EndAdvance(m)
           ELSE DriveFrom(call.obj, PollChangeEvents(m))

Progress == \/ StartBehavior \/ ForgetBehaviors \/ NextBehavior
            \/ DoRound \/ Poll \/ Deliver \/ ProcessNextEvent \/ Driver

Orders ==
    LET objects == DOMAIN cast.exhibits
    IN  {order \in UNION {[1..n -> objects] : n \in 1..Cardinality(objects)} : IsInjective(order)}

Request ==
    \/ \E order \in Orders : Materialize(order)
    \/ \E b \in Executions : \/ SendTo(b)
                          \/ RunToCompletion(b)
                          \/ StepState(b)
                          \/ \E d \in Delays : AdvanceBy(b, d)

Next == Progress \/ Request

Spec == Init /\ [][Next]_vars

\* A call in progress is computed to its end; nobody has to make the next one.
\* Only Progress is possible while a call is in progress, and each of its steps
\* changes the call or shortens what it has yet to attach: fairness of this action
\* is that of Progress, and whether it is enabled can be told without computing
\* the step.
Turn == ~Idle /\ call' \in Calls
FairSpec == Spec /\ WF_call(Turn)

---------------------------------------------------------------------------
(* Properties.                                                             *)

\* The variables have their types.
TypeOK ==
    /\ \A b \in Executions :
          LET m == machines[b]
          IN  /\ m.state \in {"ready", "running", "suspended", "completed"}
              /\ \A s \in ToSet(ActiveStates(m)) : s \in DOMAIN m.open
              /\ \A r \in ActiveRegions(m) : RegionContains(r, m.regionStates[r])
              /\ \A e \in m.eventQueue \cup ToSet(m.deferred) :
                    e.id \in 1..(m.nextEventID - 1) /\ e.time \in Int
              /\ \A e \in ToSet(m.deferred) : IsPoolEvent(e)
              /\ m.stateData \in [Vars -> BOOLEAN]
              /\ m.firingChange = None /\ m.changeRearmed = {} /\ m.out = <<>>
    /\ ToSet(pending) \subseteq ToSet(attached) /\ ToSet(attached) \subseteq Executions
    /\ ToSet(starting) \subseteq Executions
    /\ call \in Calls

\* Every state of the active configuration has been entered once more than it
\* was left, and every other state as often: no state is left twice, entered
\* twice or dropped, whichever of the ways of moving took it there.
EntriesMatchConfiguration ==
    \A b \in Executions : \A s \in DOMAIN machines[b].open :
        machines[b].open[s] = IF InActiveConfiguration(machines[b], s) THEN 1 ELSE 0

\* A do behavior is running only in a state that is active: leaving a state, by
\* whatever transition, abandons the rest of its do behavior.
DoBehaviorsBelongToActiveStates ==
    \A b \in Executions : \A i \in DOMAIN machines[b].doActions :
        InActiveConfiguration(machines[b], machines[b].doActions[i].state)

\* A timer counts as running exactly while its one event is queued, and only
\* while the state it belongs to is active: leaving a state destroys its timers,
\* and staying in it does not start them again.
TimersMatchQueue ==
    \A b \in Executions :
        LET m == machines[b]
            timers == {e \in m.eventQueue : e.kind = "timer"}
        IN  /\ {e.what : e \in timers} = m.timerScheduled
            /\ Cardinality(timers) = Cardinality(m.timerScheduled)
            /\ \A t \in m.timerScheduled : InActiveConfiguration(m, Source(t))

\* An event is held back only while an active state defers it: every change of
\* the configuration, by an event or by a change condition, lets go of the
\* events the new one no longer defers.
HeldEventsStillDeferred ==
    \A b \in Executions : \A e \in ToSet(machines[b].deferred) : DefersEvent(machines[b], e)

\* An event queued for a time that has passed is the timer of a negative duration:
\* dispatching any other event never moves a machine's clock backwards.
PastEventsAreNegativeTimers ==
    \A b \in Executions : \A e \in machines[b].eventQueue :
        e.time < machines[b].currentTime => RunsBack(e)

\* The events sent to a machine keep their order, through deferral and recall,
\* across the timers and completions they share the queue with, and none of them
\* disappears but by being dispatched (EventPool).  A negative timer takes the
\* clock back below the events that wait by then, and those sent at the earlier
\* time overtake them: a machine that has one keeps the order while every event
\* waiting is one of the present.
PoolIDs(events) == {e.id : e \in {x \in events : IsPoolEvent(x)}}
Pool(b) == INSTANCE EventPool WITH waiting <- PoolIDs(machines[b].eventQueue),
                                   held    <- PoolIDs(ToSet(machines[b].deferred)),
                                   next    <- machines[b].nextEventID
HasNegativeTimer(m) ==
    \E s \in ToSet(Graph.States[m.of]) : \E t \in ToSet(Graph.Transitions[s]) : Recedes(t)
KeepsArrivalOrder ==
    /\ \A b \in Executions : Pool(b)!Init
    /\ [][\A b \in Executions :
             (HasNegativeTimer(machines[b]) => WaitingNow(machines[b]))
             => [Pool(b)!Next]_(Pool(b)!poolVars)]_vars

\* With these messages in flight, machine m of behavior b has no event due, no do
\* behavior running and no message to take; and, quiescent, nothing at all that it
\* could do without time advancing.
OutOfWork(b, m, messages) ==
    /\ ~HasDueEvent(m, TRUE) /\ m.doActions = <<>>
    /\ \A i \in DOMAIN messages :
          messages[i].to \in {Anyone, Self(b)} => ~AcceptsSignal(m, messages[i].signal)
Quiescent(b, m, messages) == OutOfWork(b, m, messages) /\ ~PollChangeEvents(m).fired

\* A machine that a run or the debugger parks has quiesced; a run to completion
\* leaves it no event at all.
ParkedMachinesAreQuiescent ==
    [][\A b \in Executions :
          machines[b].state = "running" /\ machines'[b].state = "suspended" =>
             /\ Quiescent(b, machines'[b], bus')
             /\ call.driver = "run" => machines'[b].eventQueue = {}]_vars

\* Of the transitions one event or one poll enables, no two leave states one of
\* which contains the other: the innermost wins and a state is left once.
ConflictsAreResolved ==
    \A i, j \in DOMAIN taken :
        i < j => /\ Source(taken[i]) # Source(taken[j])
                 /\ ~NestedIn(Source(taken[i]), Source(taken[j]))
                 /\ ~NestedIn(Source(taken[j]), Source(taken[i]))

\* A transition into a deep history restores exactly the states that were active in
\* its owner when the owner was last left, however it was left and whatever happened
\* since.  A shallow history restores those the owner itself keeps, which are its
\* child or, when it has regions, the chain down to the innermost state of each; and
\* regions nested in these start afresh.
RestoredShallow(owner, was) ==
    IF Graph.CompositeStates[owner] = <<>> THEN {s \in was : Graph.ParentState[s] = owner}
    ELSE {s \in was : EnclosingRegion(s) \in ToSet(Graph.CompositeStates[owner])}
StartsARegion(s, active) ==
    \E r \in Regions : /\ Graph.RegionOwner[r] \in active
                       /\ s \in ToSet(UpTo(Graph.RegionInitials[r], Graph.RegionOwner[r]))

\* A drain waits for no timer: no clock moves forward, and one moves back only to
\* the time of a negative timer that was queued.  When the drain ends well none of
\* its machines has an event, a message or a do behavior left, whatever the others
\* sent after it was last run, nor a change condition to act on, unless another
\* machine of the same object may have made it true.
Solitary(b) == \A x \in Executions : x # b => Self(x) # Self(b)
DrainSettlesWithoutWaiting ==
    [][call.driver = "drain" =>
          /\ \A b \in Executions :
                \/ machines'[b].currentTime = machines[b].currentTime
                \/ /\ machines'[b].currentTime < machines[b].currentTime
                   /\ \E e \in machines[b].eventQueue :
                         RunsBack(e) /\ machines'[b].currentTime = e.time
          /\ call'.result = "drained" =>
                \A b \in ToSet(attached) : machines'[b].state = "suspended" =>
                    /\ OutOfWork(b, machines'[b], bus')
                    /\ Solitary(b) => Quiescent(b, machines'[b], bus')]_vars

\* Only a machine built to loop runs into a budget: a change condition that
\* stays true, a guard that fails or a message nobody takes spins nothing.
OnlyLoopsExhaustTheBudget ==
    call.result = "budget" => \E b \in Executions : machines[b].of \in Looping

\* Every call returns, however the machines loop: the budgets see to it.
CallsReturn == ~Idle ~> Idle

\* A completion transition is taken only once its state's do behavior is over.
CompletionWaitsForDoBehavior ==
    [][\A b \in Executions : \A i \in DOMAIN taken' :
          On(taken'[i]).kind = "none" /\ Source(taken'[i]) \in DOMAIN machines[b].open =>
             ~HasRunningDoAction(machines[b], Source(taken'[i]))]_vars

\* A message in flight that a machine accepts is due now: the step that finds it
\* dispatches it before time moves on.
SignalsComeBeforeTime ==
    [][\A b \in Executions :
          machines'[b].currentTime > machines[b].currentTime => ~HasPendingSignal(b)]_vars
=============================================================================
