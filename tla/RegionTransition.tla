-------------------------- MODULE RegionTransition --------------------------
(***************************************************************************)
(* Transitions out of a state in an active orthogonal region               *)
(* (state_region_transition.go): one inside the region moves that region,  *)
(* one into a concurrent region moves both, one to the outside leaves the  *)
(* whole set.                                                              *)
(***************************************************************************)
EXTENDS StateExecutor

\* regionUnder: the region of s, one of its own, that leads to target.
RegionUnder(s, target) ==
    LET child == First(ParentChain[target], {x \in Ancestry(target) : Graph.ParentState[x] = s})
    IN  IF child = None THEN None ELSE Graph.RegionOf[child]

\* innermostActiveRegion: down through the states on the path that stay active.
Inward(acc, level) ==
    LET inner == RegionUnder(acc.m.regionStates[acc.at], acc.target)
    IN  IF \/ acc.at \notin ActiveRegions(acc.m)
           \/ acc.m.regionStates[acc.at] = acc.target
           \/ inner = None
        THEN acc ELSE [acc EXCEPT !.at = inner]
Inwards == INSTANCE LeftFold WITH Op <- Inward

InnermostActiveRegion(m, r, target) ==
    Inwards!Over([m |-> m, at |-> r, target |-> target], Levels).at

\* exitRegionTo: leave the region's active state up to stop, None to leave the
\* region with nothing to restore.
ExitRegionTo(m, r, stop) ==
    LET dropped == WithoutRegion(m, r)
        leaving == UpTo(m.regionStates[r], stop)
    IN  IF r \notin ActiveRegions(m) THEN m
        ELSE ExitAll(IF stop = None THEN ForgetRegion(dropped, r) ELSE dropped,
                     Keep(leaving, {s \in ToSet(leaving) : RegionContains(r, s)}))

\* scheduleFromEntered.
ScheduleFromEntered(m, s) == ScheduleLeaves(m, ActiveLeavesBelow(m, s))

\* moveBetweenRegions: what `into` keeps active is not left, nor is the state
\* owning the regions.
Kept(into, boundary) ==
    IF boundary # None /\ RegionContains(into, boundary) THEN boundary ELSE Graph.RegionOwner[into]

\* The deepest state on the path to target that region r itself declares.
BranchIn(r, target) ==
    LET path == BranchesTo(None, target) IN IF r \in DOMAIN path THEN path[r] ELSE target

LeaveBoth(m, from, into, keep) ==
    ExitRegionTo(IF from = into THEN m ELSE ExitRegionTo(m, from, None), into, keep)

MoveKeeping(m, from, into, t, target, keep, plan) ==
    ScheduleFromEntered(
        EnterAll(WithRegion(RunEffect(LeaveBoth(m, from, into, keep), t), into, BranchIn(into, target)),
                 DescendantChain(keep, plan.enter), plan.branches),
        BranchIn(into, target))

MoveBetweenRegions(m, from, into, t, target) ==
    LET active == IF into \in ActiveRegions(m) THEN m.regionStates[into] ELSE None
        MoveWithin(keep) == MoveKeeping(m, from, into, t, target, keep, EntryPlan(keep, target))
    IN  MoveWithin(Kept(into, Boundary(t, active, target)))

\* Outside every region the target is the single active state.
Place(m, target) ==
    LET into == PutAll(m.regionStates, BranchesTo(None, target))
    IN  [m EXCEPT !.regionStates = into, !.simpleState = IF into = <<>> THEN target ELSE @]

\* enterOutside: enter the target once the region set is torn down.
EnterOutside(m, lca, target) ==
    LET Follow(plan) ==
            Finish(ScheduleFromEntered(
                       Place(EnterAll(m, DescendantChain(lca, plan.enter), plan.branches), target),
                       plan.enter), target)
    IN  Follow(EntryPlan(lca, target))

\* leaveTopRegions: every region of the machine is left.
LeaveTopRegion(m, r) ==
    IF r \in ActiveRegions(m) THEN ExitStates(WithoutRegion(m, r), ParentChain[m.regionStates[r]])
    ELSE m
TopExits == INSTANCE LeftFold WITH Op <- LeaveTopRegion

LeaveTopRegions(m, t, target) ==
    EnterOutside(RunEffect([TopExits!Over(m, Graph.TopRegions[m.of])
                               EXCEPT !.regionStates = <<>>, !.simpleState = None], t),
                 None, target)

\* leaveRegion: the owner and its ancestors below the common ancestor are left,
\* each one's own region recorded and cleared first.
LeaveFromRegion(m, s) ==
    LET r == EnclosingRegion(s)
        within == r \in ActiveRegions(m) /\ s \in Ancestry(m.regionStates[r])
    IN  ExitState(IF within THEN WithoutRegion(RecordActive(m, r), r) ELSE m, s)
RegionExits == INSTANCE LeftFold WITH Op <- LeaveFromRegion

LeaveRegion(m, r, t, target) ==
    LET owner == Graph.RegionOwner[r]
    IN  IF owner = None THEN LeaveTopRegions(m, t, target)
        ELSE EnterOutside(RunEffect(RegionExits!Over(m, UpTo(owner, LCA(owner, target))), t),
                          LCA(owner, target), target)

\* fireTransitionInRegion.
LeaveOrMove(m, r, t, target, sides) ==
    IF sides[2] = None THEN LeaveRegion(m, r, t, target)
    ELSE MoveBetweenRegions(m, sides[1],
             IF sides[1] = sides[2] THEN r ELSE InnermostActiveRegion(m, sides[2], target), t, target)

FireInside(m, r, t, target) ==
    LeaveOrMove(m, r, t, target,
                IF RegionContains(r, target) THEN <<r, r>> ELSE ConcurrentRegionsFor(r, target))

FireTransitionInRegion(m, r, t) ==
    IF IsSynchronizationTarget(Graph.Transition[t].target) THEN FireTransition(m, t)
    ELSE IF ~PassesGuard(m, t) THEN m
    ELSE FireInside(m, r, t, Target(m, Graph.Transition[t].target))

\* fireFrom: the source is the active leaf or a composite state enclosing it.
FireFrom(m, source, t) ==
    IF ActiveRegionOf(m, source) = None THEN FireTransition(m, t)
    ELSE FireTransitionInRegion(m, ActiveRegionOf(m, source), t)
=============================================================================
