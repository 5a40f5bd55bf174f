---------------------------- MODULE StateDispatch ----------------------------
(***************************************************************************)
(* What one step of a state machine does (state_executor.go,               *)
(* state_change_trigger.go): a round of the do behaviors, a poll of the    *)
(* change conditions, the delivery of a message and the dispatch of one    *)
(* event.                                                                  *)
(***************************************************************************)
EXTENDS RegionTransition

\* triggerMatches and matchesEvent: by kind and by name.
MatchesEvent(t, e) == On(t).kind = e.kind /\ On(t).name = e.what

\* defersEvent: a composite's deferral holds while any substate is active.
DefersEvent(m, e) == \E s \in Configuration(m) : <<e.kind, e.what>> \in Graph.Deferred[s]

StillHeld(m) == {i \in DOMAIN m.deferred : DefersEvent(m, m.deferred[i])}
Recalled(m) == {m.deferred[i] : i \in DOMAIN m.deferred \ StillHeld(m)}

RecallDeferredEvents_OldTime(m) ==
    [m EXCEPT !.deferred = KeepAt(@, StillHeld(m)), !.eventQueue = @ \cup Recalled(m)]

RecallDeferredEvents_AsNew(m) ==
    FoldLeft(LAMBDA n, e : Push(n, e.kind, e.what, n.currentTime),
             [m EXCEPT !.deferred = KeepAt(@, StillHeld(m))],
             KeepAt(m.deferred, DOMAIN m.deferred \ StillHeld(m)))

\* recallDeferredEvents: a recalled event keeps its ID but not its timestamp.
RecallDeferredEvents(m) ==
    [m EXCEPT !.deferred = KeepAt(@, StillHeld(m)),
              !.eventQueue = @ \cup {[e EXCEPT !.time = m.currentTime] : e \in Recalled(m)}]

Outgoing(m) == UNION {ToSet(Graph.Transitions[s]) : s \in Configuration(m)}

\* Walking outwards from leaf, the first eligible transition of the first state
\* that has one.
Offered(leaf, eligible) ==
    LET source == First(ParentChain[leaf],
                        {s \in Ancestry(leaf) : ToSet(Graph.Transitions[s]) \cap eligible # {}})
    IN  IF source = None THEN None ELSE First(Graph.Transitions[source], eligible)

\* selectCandidates: what each active leaf is offered; a transition several
\* leaves select is taken once.
SelectCandidates(m, eligible) ==
    LET leaves == ActiveLeaves(m)
        offers == [i \in DOMAIN leaves |->
                      [leaf |-> leaves[i], trans |-> Offered(leaves[i], eligible)]]
    IN  KeepAt(offers, {i \in DOMAIN offers :
                           /\ offers[i].trans # None
                           /\ \A j \in DOMAIN offers : j < i => offers[j].trans # offers[i].trans})

LosesToNestedTransition_Never(candidates, c) == FALSE

\* losesToNestedTransition.
LosesToNestedTransition(candidates, c) ==
    \E other \in ToSet(candidates) : NestedIn(Source(other.trans), Source(c.trans))

\* The candidates no nested one was selected with.
Winners(candidates) ==
    KeepAt(candidates, {i \in DOMAIN candidates : ~LosesToNestedTransition(candidates, candidates[i])})

\* A candidate is passed over when firing the ones before it ended the machine
\* or left its leaf.
PassedOver(m, c) == m.state = "completed" \/ ~IsActive(m, c.leaf)

FireCandidate(acc, c) ==
    IF PassedOver(acc.m, c) THEN acc
    ELSE [m |-> FireFrom(acc.m, Source(c.trans), c.trans), consumed |-> TRUE]
Firings == INSTANCE LeftFold WITH Op <- FireCandidate

\* broadcastEvent: the candidates are selected before any of them fires.
BroadcastEvent(m, e) ==
    Firings!Over([m |-> m, consumed |-> FALSE],
        Winners(SelectCandidates(m, {t \in Outgoing(m) : MatchesEvent(t, e) /\ PassesGuard(m, t)})))

\* An event nobody consumed is held back while an active state defers it.
HoldBack(result, e) ==
    IF ~result.consumed /\ DefersEvent(result.m, e)
    THEN [result.m EXCEPT !.deferred = Append(@, e)] ELSE result.m

\* A time or completion event of a state already left is stale.
Expired(m, e) == [m EXCEPT !.timerScheduled = @ \ {e.what}]
FireUnlessStale(m, e) ==
    IF InActiveConfiguration(m, Source(e.what)) THEN FireFrom(m, Source(e.what), e.what) ELSE m

\* dispatchEvent.
DispatchEvent(m, e) ==
    IF IsPoolEvent(e) THEN HoldBack(BroadcastEvent(m, e), e) ELSE FireUnlessStale(Expired(m, e), e)

\* processNextEvent, for a queue that is not empty.
ProcessQueuedEvent(m) ==
    LET e == Peek(m.eventQueue)
    IN  RecallDeferredEvents(
            DispatchEvent([m EXCEPT !.eventQueue = Pop(@), !.currentTime = e.time], e))

\* The change triggers the active configuration watches.
Watched(m) == {t \in Outgoing(m) : On(t).kind = "when"}

\* observeChangeConditions: a false condition re-arms its trigger.
Observe(m) ==
    [m EXCEPT !.changeFired = {t \in @ : t \in Watched(m) => Holds(m, On(t).holds)},
              !.changeRearmed = {}]

Risen_WhileTrue(m) == {t \in Watched(m) : Holds(m, On(t).holds) /\ PassesGuard(m, t)}

\* The triggers whose condition and guard are true and that are not latched.
Risen(m) == {t \in Watched(m) \ m.changeFired : Holds(m, On(t).holds) /\ PassesGuard(m, t)}

Latched(m, t) == [m EXCEPT !.changeFired = @ \cup {t}, !.firingChange = t]
FireLatched(m, t) == [FireFrom(Latched(m, t), Source(t), t) EXCEPT !.firingChange = None]

\* Take the candidates in turn; a guard is read again just before.
TakeRise(acc, c) ==
    IF PassedOver(acc.m, c) THEN acc
    ELSE IF ~PassesGuard(acc.m, c.trans) THEN [acc EXCEPT !.blocked = @ \cup {c.trans}]
    ELSE [acc EXCEPT !.fired = TRUE, !.m = FireLatched(@, c.trans)]
Rises == INSTANCE LeftFold WITH Op <- TakeRise

TakeRises(m, candidates) ==
    Rises!Over([m |-> m, fired |-> FALSE, blocked |-> {}], Winners(candidates))

RecallIfFired_Never(polled) == polled

RecallIfFired(polled) ==
    IF polled.fired THEN [polled EXCEPT !.m = RecallDeferredEvents(@)] ELSE polled

ConsumeRises_KeepsArmed(polled, risen) ==
    [polled EXCEPT !.m.changeFired = @ \cup (risen \ (polled.blocked \cup polled.m.changeRearmed))]

Consumed(m, risen) == [m EXCEPT !.changeFired = @ \cup risen, !.changeRearmed = {}]

\* consumeRise: a rise is consumed, whether or not its transition was the one
\* taken, unless its guard blocked it or a state entry armed it anew.
ConsumeRises(polled, risen) ==
    [polled EXCEPT !.m = Consumed(@, risen \ (polled.blocked \cup @.changeRearmed))]

\* pollChangeEvents: conditions and guards are read once, against the
\* configuration the poll started in.
PollChangeEvents(m) ==
    ConsumeRises(RecallIfFired(TakeRises(Observe(m), SelectCandidates(m, Risen(m)))), Risen(m))

\* runDoRound: every running do behavior advances by one action, in entry order;
\* a state whose behavior ends is scheduled for completion.
EndDoAction(m, a) == ScheduleCompletionTransitions(m, a.state)
DoEnds == INSTANCE LeftFold WITH Op <- EndDoAction

RunDoRound(m) ==
    LET ran == ExecuteBehaviors(m, [i \in DOMAIN m.doActions |-> Head(m.doActions[i].pending)])
        advanced == [i \in DOMAIN m.doActions |-> [m.doActions[i] EXCEPT !.pending = Tail(@)]]
        over == {i \in DOMAIN advanced : advanced[i].pending = <<>>}
    IN  DoEnds!Over([ran EXCEPT !.doActions = KeepAt(advanced, DOMAIN advanced \ over)],
                    KeepAt(advanced, over))

\* acceptsSignal: a transition out of the configuration is triggered by it.
AcceptsSignal(m, signal) ==
    \E t \in Outgoing(m) : On(t).kind = "signal" /\ On(t).name = signal

\* An event that may be queued for a time that has passed.
RunsBack(e) == e.kind = "timer" /\ Recedes(e.what)

\* Every event waiting is one of the present.
WaitingNow(m) == \A e \in m.eventQueue : IsPoolEvent(e) => e.time = m.currentTime

HasDueEvent_AnyTime(m, atCurrentTime) == m.eventQueue # {}

HasDueEvent(m, atCurrentTime) ==
    m.eventQueue # {} /\ (atCurrentTime => Peek(m.eventQueue).time <= m.currentTime)

EnqueueSignal(m, signal) == Push(m, "signal", signal, m.currentTime)
InvokeOperation(m, operation) == Push(m, "call", operation, m.currentTime)
=============================================================================
