---------------------------- MODULE StateExecutor ----------------------------
(***************************************************************************)
(* One state machine's execution (state_executor.go,                       *)
(* state_region_transition.go, state_change_trigger.go).  A machine is a   *)
(* record m; every operator below is one function of the code, from the    *)
(* machine before the call to the machine after it.                        *)
(*   of             the machine (a key of Graph.States)                    *)
(*   state          "ready", "running", "suspended" or "completed"         *)
(*   simpleState    the active state of a machine without active regions   *)
(*   regionStates   active region -> its active state                      *)
(*   eventQueue     the pending events (EventQueue)                        *)
(*   deferred       the held events, in arrival order                      *)
(*   timerScheduled transitions whose timer is running                     *)
(*   changeFired    change triggers latched on a condition still true      *)
(*   firingChange   the change trigger being taken, None otherwise         *)
(*   changeRearmed  change triggers a state entry armed during this poll   *)
(*   history        state -> the configuration it was last left in, if any *)
(*   doActions      the running do behaviors, in entry order               *)
(*   stateData, currentTime, nextEventID                                   *)
(* and, for the step being computed, `out` (messages sent), `taken` (the   *)
(* transitions whose effect ran) and `exited` (the states left).  `open`   *)
(* counts the entries of a state minus its exits; the code has no such     *)
(* counter, and nothing below reads it.                                    *)
(***************************************************************************)
EXTENDS StateGraph, EventQueue, TLC

CONSTANT Vars     \* the machines' attributes, all Boolean

\* A behavior assigns an attribute or sends a message.
ASSUME BehaviorAssumption ==
    \A b \in Behaviors : b.do = "assign" => b.var \in Vars /\ b.val \in BOOLEAN

Unrecorded == [child |-> None, regions |-> <<>>]

\* newStateExecutor: the machine before initialize.
NewMachine(k, data) ==
    LET states == ToSet(Graph.States[k])
    IN  [of |-> k, state |-> "ready", simpleState |-> None, regionStates |-> <<>>,
         eventQueue |-> {}, deferred |-> <<>>, timerScheduled |-> {},
         changeFired |-> {}, firingChange |-> None, changeRearmed |-> {},
         history |-> <<>>, doActions |-> <<>>,
         stateData |-> data, currentTime |-> 0, nextEventID |-> 1,
         out |-> <<>>, taken |-> <<>>, exited |-> {}, open |-> [s \in states |-> 0]]

Holds(m, condition) == \A c \in condition : m.stateData[c[1]] = c[2]

PassesGuard(m, t) == Holds(m, Graph.Transition[t].guard)

\* executeBehavior, over a sequence of behaviors.  What assignOuter writes to a
\* feature of the object, its other machines read once the step is over.
Perform(m, b) == IF b.do = "assign" THEN [m EXCEPT !.stateData[b.var] = b.val]
                 ELSE [m EXCEPT !.out = Append(@, [signal |-> b.signal, to |-> b.to])]
Performs == INSTANCE LeftFold WITH Op <- Perform
ExecuteBehaviors(m, behaviors) == Performs!Over(m, behaviors)

RunEffect(m, t) ==
    ExecuteBehaviors([m EXCEPT !.taken = Append(@, t)], Graph.Transition[t].effect)

---------------------------------------------------------------------------
(* The active configuration.                                               *)

ActiveRegions(m) == DOMAIN m.regionStates

NestedRegions(k) ==
    Flatten([i \in DOMAIN Graph.States[k] |-> Graph.CompositeStates[Graph.States[k][i]]])

OrderedActiveRegions(m) == Keep(Graph.TopRegions[m.of] \o NestedRegions(m.of), ActiveRegions(m))

OrderedRegionStates(m) ==
    LET regions == OrderedActiveRegions(m) IN [i \in DOMAIN regions |-> m.regionStates[regions[i]]]

ActiveStates(m) == IF ActiveRegions(m) # {} THEN OrderedRegionStates(m)
                   ELSE IF m.simpleState # None THEN <<m.simpleState>> ELSE <<>>

EnclosesActiveRegion(m, s) == ToSet(Graph.CompositeStates[s]) \cap ActiveRegions(m) # {}

\* A stable sort: each state goes after the ones that do not come after it.
InsertByPath(sorted, s) ==
    LET After(x) == LessPath(RegionPath[s], RegionPath[x])
    IN  Keep(sorted, {x \in ToSet(sorted) : ~After(x)}) \o <<s>>
            \o Keep(sorted, {x \in ToSet(sorted) : After(x)})
Sorts == INSTANCE LeftFold WITH Op <- InsertByPath

ActiveLeaves(m) ==
    Sorts!Over(<<>>, Keep(ActiveStates(m),
                          {s \in ToSet(ActiveStates(m)) : ~EnclosesActiveRegion(m, s)}))

IsActive(m, s) == s = m.simpleState \/ \E r \in ActiveRegions(m) : m.regionStates[r] = s

Configuration(m) == UNION {Ancestry(s) : s \in ToSet(ActiveStates(m))}

InActiveConfiguration(m, s) == s \in Configuration(m)

\* activeRegionOf: the innermost active region s is declared in.
ActiveRegionOf(m, s) ==
    LET a == First(ParentChain[s], {x \in Ancestry(s) : Graph.RegionOf[x] \in ActiveRegions(m)})
    IN  IF a = None THEN None ELSE Graph.RegionOf[a]

\* activeCompositeOwner: the deepest state owning an active region, the first
\* declared among equally deep ones.
ActiveCompositeOwner(m) ==
    LET owners == {s \in ToSet(Graph.States[m.of]) : EnclosesActiveRegion(m, s)}
    IN  First(Graph.States[m.of],
              {s \in owners : \A o \in owners : Len(ParentChain[o]) <= Len(ParentChain[s])})

\* A walk over the machine meets each state and each region a few times.
MaxCalls(m) == [i \in 1..(3 * Len(Graph.States[m.of])) |-> i]

\* activeLeavesBelow, with the states it still has to look below.
LeavesOf(m, below) == [m |-> m, todo |-> below, leaves |-> <<>>]

NextLeaf(acc, level) ==
    LET s == Head(acc.todo)
        inner == Keep(Graph.CompositeStates[s],
                      {r \in ActiveRegions(acc.m) : acc.m.regionStates[r] # s})
    IN  IF acc.todo = <<>> THEN acc
        ELSE IF Graph.CompositeStates[s] = <<>>
        THEN [acc EXCEPT !.todo = Tail(@), !.leaves = Append(@, s)]
        ELSE [acc EXCEPT !.todo = [i \in DOMAIN inner |-> acc.m.regionStates[inner[i]]] \o Tail(@)]
Leaves == INSTANCE LeftFold WITH Op <- NextLeaf

ActiveLeavesBelow(m, s) == Leaves!Over(LeavesOf(m, <<s>>), MaxCalls(m)).leaves

WithRegion(m, r, s) == [m EXCEPT !.regionStates = Put(@, r, s)]
WithoutRegion(m, r) == [m EXCEPT !.regionStates = Restrict(@, DOMAIN @ \ {r})]

---------------------------------------------------------------------------
(* Do behaviors and scheduling.                                            *)

StopDoAction(m, s) ==
    [m EXCEPT !.doActions = KeepAt(@, {i \in DOMAIN @ : @[i].state # s})]

StartDoAction(m, s) ==
    IF Graph.Do[s] = <<>> THEN m
    ELSE [StopDoAction(m, s) EXCEPT !.doActions = Append(@, [state |-> s, pending |-> Graph.Do[s]])]

HasRunningDoAction(m, s) == \E i \in DOMAIN m.doActions : m.doActions[i].state = s

Push(m, kind, what, time) ==
    [m EXCEPT !.eventQueue = @ \cup {[id |-> m.nextEventID, kind |-> kind, what |-> what, time |-> time]},
              !.nextEventID = @ + 1]

\* A completion transition is queued each time its state is scheduled with the
\* guard true; one whose do behavior still runs is scheduled when that ends.
QueueCompletion(m, t) == Push(m, "completion", t, m.currentTime)
Completions == INSTANCE LeftFold WITH Op <- QueueCompletion

ScheduleCompletionTransitions(m, s) ==
    IF HasRunningDoAction(m, s) THEN m
    ELSE Completions!Over(m, Keep(Graph.Transitions[s],
             {t \in ToSet(Graph.Transitions[s]) : On(t).kind = "none" /\ PassesGuard(m, t)}))

\* A relative duration counts from now, whatever its sign; an absolute time that
\* has passed is due now.
DueTime(m, on) == IF on.kind = "after" THEN m.currentTime + on.delay
                  ELSE IF on.delay > m.currentTime THEN on.delay ELSE m.currentTime

StartTimer(m, t) ==
    [Push(m, "timer", t, DueTime(m, On(t))) EXCEPT !.timerScheduled = @ \cup {t}]
Timers == INSTANCE LeftFold WITH Op <- StartTimer

ScheduleTimeTransitions(m, s) ==
    Timers!Over(m, Keep(Graph.Transitions[s], TimeTriggered(s) \ m.timerScheduled))
TimersAround == INSTANCE LeftFold WITH Op <- ScheduleTimeTransitions

ScheduleFromLeaf(m, leaf) ==
    TimersAround!Over(ScheduleCompletionTransitions(m, leaf), ParentChain[leaf])
LeafSchedules == INSTANCE LeftFold WITH Op <- ScheduleFromLeaf

ScheduleLeaves(m, leaves) == LeafSchedules!Over(m, leaves)

\* scheduleTransitionEvents.
ScheduleActive(m) == ScheduleLeaves(m, ActiveLeaves(m))

---------------------------------------------------------------------------
(* Leaving and entering states.                                            *)

HistoryOf(m, s) == IF s \in DOMAIN m.history THEN m.history[s] ELSE Unrecorded

Record(m, s, record) == [m EXCEPT !.history = Put(@, s, record)]


RecordRegion(m, r, s) ==
    LET owner == Graph.RegionOwner[r]
    IN  IF owner = None THEN m
        ELSE Record(m, owner, [HistoryOf(m, owner) EXCEPT !.regions = Put(@, r, s)])

ForgetRegion(m, r) ==
    LET owner == Graph.RegionOwner[r]
    IN  IF owner \notin DOMAIN m.history THEN m
        ELSE Record(m, owner, [m.history[owner] EXCEPT !.regions = Restrict(@, DOMAIN @ \ {r})])

RecordActive(m, r) == RecordRegion(m, r, m.regionStates[r])
Records == INSTANCE LeftFold WITH Op <- RecordActive

RecordChild(m, s) ==
    LET parent == Graph.ParentState[s]
    IN  IF parent = None THEN m ELSE Record(m, parent, [HistoryOf(m, parent) EXCEPT !.child = s])

\* exitState and enterStateInto call themselves for the states below.  The calls
\* still to make are a stack, and a step makes the first: a call [to, of, at]
\* enters, exits, or ends the entry or exit of, the state `of`, or makes `at`
\* the active state of the region `of`, None to clear it.
Call(to, of) == [to |-> to, of |-> of, at |-> None]
CallEach(to, states) == [i \in DOMAIN states |-> Call(to, states[i])]
PutIn(r, s) == [to |-> "put", of |-> r, at |-> s]

OwnActiveRegions(m, s) == Keep(Graph.CompositeStates[s], ActiveRegions(m))

\* exitState withdraws the state's timers, records its configuration, leaves its
\* active regions in declaration order, stops its do behavior, then runs its
\* exit behaviors.
BeginExit(m, s) ==
    LET untimed == [m EXCEPT !.timerScheduled = @ \ ToSet(Graph.Transitions[s]),
                             !.eventQueue = Withdraw(@, TimeTriggered(s))]
    IN  RecordChild(Records!Over(untimed, OwnActiveRegions(m, s)), s)

EndExit(m, s) ==
    [ExecuteBehaviors(StopDoAction(m, s), Graph.Exit[s])
        EXCEPT !.simpleState = None, !.open[s] = @ - 1, !.exited = @ \cup {s}]

ExitRegionCalls(m, s) ==
    LET own == OwnActiveRegions(m, s)
    IN  Flatten([i \in DOMAIN own |->
                    <<PutIn(own[i], None)>> \o CallEach("exit", UpTo(m.regionStates[own[i]], s))])

MakeExitCall(m, c, rest) ==
    CASE c.to = "exit" -> [m |-> BeginExit(m, c.of),
                           todo |-> ExitRegionCalls(m, c.of) \o <<Call("end", c.of)>> \o rest]
      [] c.to = "put"  -> [m |-> WithoutRegion(m, c.of), todo |-> rest]
      [] c.to = "end"  -> [m |-> EndExit(m, c.of), todo |-> rest]

NextExit(acc, i) ==
    IF acc.todo = <<>> THEN acc ELSE MakeExitCall(acc.m, Head(acc.todo), Tail(acc.todo))
Exits == INSTANCE LeftFold WITH Op <- NextExit

ExitAll(m, leaving) ==
    Exits!Over([m |-> m, todo |-> CallEach("exit", leaving)], MaxCalls(m)).m

ExitState(m, s) == ExitAll(m, <<s>>)

ExitStates_OneByOne(m, leaving) == ExitAll(m, leaving)

\* exitStates: a state in a region another leaving state owns is left with it.
ExitStates(m, leaving) ==
    ExitAll(m, Keep(leaving, {s \in ToSet(leaving) : Graph.RegionOf[s] # None =>
                                  Graph.RegionOwner[Graph.RegionOf[s]] \notin ToSet(leaving)}))

\* enterStateInto re-arms the state's change triggers, runs its entry behaviors,
\* enters its regions and starts its do behavior; enterRegionsInto starts each
\* region in the state branches names, in its initial state otherwise.
BeginEntry(m, s) ==
    LET fresh == ToSet(Graph.Transitions[s]) \ {m.firingChange}
        armed == [m EXCEPT !.changeFired = @ \ fresh, !.open[s] = @ + 1,
                           !.changeRearmed = IF m.firingChange = None THEN @ ELSE @ \cup fresh]
        entered == ExecuteBehaviors(armed, Graph.Entry[s])
    IN  IF Graph.CompositeStates[s] # <<>> THEN [entered EXCEPT !.simpleState = None]
        ELSE IF ActiveRegions(entered) = {} THEN [entered EXCEPT !.simpleState = s]
        ELSE entered

EnterRegionCalls(container, regions, branches) ==
    LET Starting(r) == IF r \in DOMAIN branches THEN branches[r] ELSE Graph.RegionInitials[r]
    IN  Flatten([i \in DOMAIN regions |->
            <<PutIn(regions[i], Starting(regions[i]))>>
                \o CallEach("enter", DescendantChain(container, Starting(regions[i])))])

MakeEntryCall(m, c, rest, branches) ==
    CASE c.to = "enter" -> [m |-> BeginEntry(m, c.of), branches |-> branches,
                            todo |-> EnterRegionCalls(c.of, Graph.CompositeStates[c.of], branches)
                                         \o <<Call("end", c.of)>> \o rest]
      [] c.to = "put"   -> [m |-> WithRegion(m, c.of, c.at), branches |-> branches, todo |-> rest]
      [] c.to = "end"   -> [m |-> StartDoAction(m, c.of), branches |-> branches, todo |-> rest]

NextEntry(acc, i) ==
    IF acc.todo = <<>> THEN acc
    ELSE MakeEntryCall(acc.m, Head(acc.todo), Tail(acc.todo), acc.branches)
Entries == INSTANCE LeftFold WITH Op <- NextEntry

Enter(m, todo, branches) ==
    Entries!Over([m |-> m, todo |-> todo, branches |-> branches], MaxCalls(m)).m

EnterAll(m, states, branches) == Enter(m, CallEach("enter", states), branches)

EnterRegions(m, container, regions, branches) ==
    Enter(m, EnterRegionCalls(container, regions, branches), branches)

\* initialize.
Initialize(m) ==
    LET first == Graph.Initial[m.of]
    IN  IF first # None
        THEN ScheduleActive(EnterAll([m EXCEPT !.state = "running", !.simpleState = first],
                                     Reverse(ParentChain[first]), <<>>))
        ELSE ScheduleActive(EnterRegions([m EXCEPT !.state = "running"], None,
                                         Graph.TopRegions[m.of], <<>>))

---------------------------------------------------------------------------
(* Firing a transition that moves the whole configuration.                 *)

\* pseudostateTarget: follow the first branch whose guard holds.
Route(acc, level) ==
    LET branch == First(Graph.Transitions[acc.at],
                        {t \in ToSet(Graph.Transitions[acc.at]) : PassesGuard(acc.m, t)})
    IN  IF acc.at \in StateSet THEN acc ELSE [acc EXCEPT !.at = Graph.Transition[branch].target]
Routes == INSTANCE LeftFold WITH Op <- Route

Target(m, n) == Routes!Over([m |-> m, at |-> n], Levels).at

Finish(m, target) == IF target \in Graph.Final THEN [m EXCEPT !.state = "completed"] ELSE m

\* The target is the single active state unless entering it filled in regions.
Settle(m, target) ==
    IF Graph.CompositeStates[target] # <<>> THEN m
    ELSE [m EXCEPT !.simpleState = target, !.regionStates = <<>>]

\* What a transition from current to target does not leave: their common
\* ancestor, or the parent of a composite source that contains the target.
Boundary(t, current, target) ==
    IF LeavesAround(t, target) THEN Graph.ParentState[Source(t)]
    ELSE IF current = None THEN None ELSE LCA(current, target)

Travel(m, t, current, boundary, target, branches) ==
    Finish(ScheduleActive(Settle(EnterAll(RunEffect(ExitStates(m, UpTo(current, boundary)), t),
                                          Reverse(UpTo(target, boundary)), branches),
                                 target)), target)

CurrentState(m) == IF m.simpleState # None THEN m.simpleState ELSE ActiveCompositeOwner(m)

\* transitionToInto.
TransitionInto(m, t, target, branches) ==
    Travel(m, t, CurrentState(m), Boundary(t, CurrentState(m), target), target, branches)

\* exitToward: leave the configuration up to, but not including, stop.
ExitIfActive(m, s) == IF IsActive(m, s) THEN ExitState(m, s) ELSE m
ActiveExits == INSTANCE LeftFold WITH Op <- ExitIfActive

ExitToward(m, stop) ==
    LET ExitSimple(n) == [ExitAll(n, UpTo(n.simpleState, stop)) EXCEPT !.simpleState = None]
    IN  ExitSimple([ActiveExits!Over(m, OrderedRegionStates(m)) EXCEPT !.regionStates = <<>>])

\* The regions a fork's branches start, each with its branch.
Branches(fork) ==
    LET targets == {Graph.Transition[b].target : b \in ToSet(Graph.Transitions[fork])}
    IN  [r \in {Graph.RegionOf[s] : s \in targets} |->
            CHOOSE s \in targets : Graph.RegionOf[s] = r]

\* fireForkTransition: every branch starts its region, the owner's others start
\* at their initial states.
EnterBranches(acc, s) ==
    IF IsActive(acc.m, s) THEN acc
    ELSE [acc EXCEPT !.m = EnterAll(@, <<s>>, IF s = acc.owner THEN acc.into ELSE <<>>)]
BranchEntries == INSTANCE LeftFold WITH Op <- EnterBranches

ForkInto(m, t, into, owner) ==
    ScheduleActive(BranchEntries!Over(
        [m |-> RunEffect(ExitToward(m, owner), t), into |-> into, owner |-> owner],
        Reverse(ParentChain[owner])).m)

Fork(m, t, fork) ==
    ForkInto(m, t, Branches(fork),
             Graph.RegionOwner[CHOOSE r \in DOMAIN Branches(fork) : Graph.RegionOwner[r] # None])

\* fireJoinTransition: nothing until every source is active; the state owning
\* the last source's region is then left and the target entered.
Join(m, t, join) ==
    LET sources == JoinSources(m.of, join)
        inRegions == Keep(sources, {s \in ToSet(sources) : Graph.RegionOf[s] # None})
        owner == IF inRegions = <<>> THEN None ELSE Graph.RegionOwner[Graph.RegionOf[Last(inRegions)]]
    IN  IF \E s \in ToSet(sources) : ~IsActive(m, s) THEN m
        ELSE TransitionInto([ExitAll(m, sources) EXCEPT !.regionStates = <<>>, !.simpleState = owner],
                            t, Target(m, join), <<>>)

\* deepestRecorded: the state to enter, and the region branches below it.
Deeper(acc, level) ==
    LET record == HistoryOf(acc.m, acc.at)
    IN  IF record.child = None \/ record.regions # <<>> THEN acc ELSE [acc EXCEPT !.at = record.child]
Descents == INSTANCE LeftFold WITH Op <- Deeper

DeepestRecorded(m, s) == Descents!Over([m |-> m, at |-> s], Levels).at

AddRecorded(acc, level) ==
    LET s == Head(acc.todo)
        regions == HistoryOf(acc.m, s).regions
        deepest == [r \in DOMAIN regions |-> DeepestRecorded(acc.m, regions[r])]
        inner == Keep(Graph.CompositeStates[s], DOMAIN regions)
    IN  IF acc.todo = <<>> THEN acc
        ELSE [acc EXCEPT !.branches = PutAll(@, deepest),
                         !.todo = [i \in DOMAIN inner |-> deepest[inner[i]]] \o Tail(@)]
Recordings == INSTANCE LeftFold WITH Op <- AddRecorded

RecordedBranches(m, s) ==
    Recordings!Over([m |-> m, todo |-> <<s>>, branches |-> <<>>], MaxCalls(m)).branches

\* fireHistoryTransition.
History(m, t, hist) ==
    LET owner == Graph.PseudostateOwner[hist]
        record == HistoryOf(m, owner)
        deep == Graph.PseudostateKind[hist] = "deepHistory"
    IN  TransitionInto(m, t,
            IF record = Unrecorded THEN Target(m, hist)
            ELSE IF deep THEN DeepestRecorded(m, owner)
            ELSE IF record.regions # <<>> THEN owner ELSE record.child,
            IF deep THEN RecordedBranches(m, DeepestRecorded(m, owner)) ELSE record.regions)

\* fireTransition.
FireTransition(m, t) ==
    LET n == Graph.Transition[t].target
        kind == IF n \in Pseudostates THEN Graph.PseudostateKind[n] ELSE "state"
    IN  CASE ~PassesGuard(m, t) -> m
          [] kind = "fork"      -> Fork(m, t, n)
          [] kind = "join"      -> Join(m, t, n)
          [] IsHistory(n)       -> History(m, t, n)
          [] OTHER              -> TransitionInto(m, t, Target(m, n), <<>>)
=============================================================================
