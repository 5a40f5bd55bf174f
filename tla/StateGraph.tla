----------------------------- MODULE StateGraph -----------------------------
(***************************************************************************)
(* The lowered graph a state machine is executed over, and the questions   *)
(* the executor asks of it alone (state_executor.go,                       *)
(* state_region_transition.go).  Graph is a record whose fields carry the  *)
(* names of lower.StateGraph:                                              *)
(*   States           per machine, every state in declaration order        *)
(*   ParentState      the enclosing state, None for an outermost one       *)
(*   CompositeStates  the orthogonal regions a state owns, in order        *)
(*   RegionOf         the region declaring a state, None outside regions   *)
(*   RegionOwner      the state owning a region, None for a machine's own  *)
(*   RegionInitials   the initial state of a region                        *)
(*   Initial          per machine, its initial state or None               *)
(*   TopRegions       per machine, its own regions in order                *)
(*   Transitions      per state or pseudostate, its outgoing transitions   *)
(*   Transition       a transition's source, target, trigger `on`, guard   *)
(*                    and effect                                           *)
(*   PseudostateKind, PseudostateOwner                                     *)
(*   Deferred         per state, the <<kind, name>> triggers it defers     *)
(*   Entry, Do, Exit  per state, its behaviors                             *)
(*   Final            the final states                                     *)
(* A guard or condition is a set of <<variable, value>> pairs that must    *)
(* all hold, {} for none.  Several machines may share one Graph.           *)
(***************************************************************************)
EXTENDS Integers, Sequences, SequencesExt

CONSTANTS Graph,    \* the lowered graph
          None,     \* no state, no region
          MaxLevels \* no state is nested deeper, no path of pseudostates longer

---------------------------------------------------------------------------
(* Sequences.  A loop of the code is an instance of LeftFold, and one that *)
(* goes on until it finds something is bounded by Levels.                  *)

Concat(a, b) == a \o b
Concats == INSTANCE LeftFold WITH Op <- Concat
Flatten(seqs) == Concats!Over(<<>>, seqs)

AppendIf(acc, x) == IF x.wanted THEN Append(acc, x.elem) ELSE acc
Appends == INSTANCE LeftFold WITH Op <- AppendIf

\* The elements at the positions `at`, and those that are members of S.
KeepAt(seq, at) ==
    Appends!Over(<<>>, [i \in DOMAIN seq |-> [elem |-> seq[i], wanted |-> i \in at]])
Keep(seq, S) == KeepAt(seq, {i \in DOMAIN seq : seq[i] \in S})

\* The first member of S in a sequence, None when there is none.
First(seq, S) == LET own == Keep(seq, S) IN IF own = <<>> THEN None ELSE Head(own)

\* Assigning to an entry of a map, and to every entry another map has.
Put(f, x, v) == [y \in DOMAIN f \cup {x} |-> IF y = x THEN v ELSE f[y]]
PutAll(f, g) == [y \in DOMAIN f \cup DOMAIN g |-> IF y \in DOMAIN g THEN g[y] ELSE f[y]]

---------------------------------------------------------------------------
(* States and their ancestors.                                             *)

StateSet == UNION {ToSet(Graph.States[k]) : k \in DOMAIN Graph.States}

Pseudostates == DOMAIN Graph.PseudostateKind

Levels == [i \in 1..MaxLevels |-> i]

\* getParentChain: the state and its ancestors, innermost first.
WithParent(chain, level) ==
    LET p == Graph.ParentState[Last(chain)] IN IF p = None THEN chain ELSE Append(chain, p)
Parents == INSTANCE LeftFold WITH Op <- WithParent
ParentChain == [s \in StateSet |-> Parents!Over(<<s>>, Levels)]

Ancestry(s) == IF s = None THEN {} ELSE ToSet(ParentChain[s])

\* getLCA: the first ancestor of s2 that is an ancestor of s1.
LCA(s1, s2) == First(ParentChain[s2], Ancestry(s1))

\* The states from s outwards, stopping before stop.
UpTo(s, stop) ==
    IF s = None THEN <<>>
    ELSE IF stop \in Ancestry(s) THEN Keep(ParentChain[s], Ancestry(s) \ Ancestry(stop))
    ELSE ParentChain[s]

\* descendantChain: from the child of ancestor down to leaf; leaf alone when
\* ancestor does not enclose it, the whole chain when ancestor is None.
DescendantChain(ancestor, leaf) ==
    IF ancestor = None \/ ancestor \in Ancestry(leaf)
    THEN Reverse(UpTo(leaf, ancestor))
    ELSE <<leaf>>

NestedIn(s, composite) == s # composite /\ composite \in Ancestry(s)

Encloses(source, target) == source = target \/ NestedIn(target, source)

\* regionContains: s is declared in the region or nested below a state that is.
RegionContains(r, s) == \E a \in Ancestry(s) : Graph.RegionOf[a] = r

\* enclosingRegion: the region of s or of its nearest ancestor that has one.
EnclosingRegion(s) ==
    LET a == First(ParentChain[s], {x \in Ancestry(s) : Graph.RegionOf[x] # None})
    IN  IF a = None THEN None ELSE Graph.RegionOf[a]

\* The machine whose own regions hold r.
MachineOf(r) == CHOOSE k \in DOMAIN Graph.TopRegions : r \in ToSet(Graph.TopRegions[k])

\* The regions concurrent with r, itself included.
RegionSet(r) ==
    IF Graph.RegionOwner[r] # None THEN Graph.CompositeStates[Graph.RegionOwner[r]]
    ELSE Graph.TopRegions[MachineOf(r)]

\* siblingRegionContaining: another region of the set of r that contains s.
SiblingContaining(r, s) ==
    First(RegionSet(r), {x \in ToSet(RegionSet(r)) : x # r /\ RegionContains(x, s)})

\* The region and the ones around it, innermost first.
WithRegionAround(chain, level) ==
    LET owner == Graph.RegionOwner[Last(chain)]
    IN  IF owner = None THEN chain
        ELSE IF EnclosingRegion(owner) = None THEN chain ELSE Append(chain, EnclosingRegion(owner))
RegionsAround == INSTANCE LeftFold WITH Op <- WithRegionAround

\* concurrentRegionsFor: the level at which target lies in a region concurrent
\* with r: <<the region to leave, the region holding target>>.
ConcurrentRegionsFor(r, target) ==
    LET around == RegionsAround!Over(<<r>>, Levels)
        from == First(around, {x \in ToSet(around) : SiblingContaining(x, target) # None})
    IN  IF from = None THEN <<None, None>> ELSE <<from, SiblingContaining(from, target)>>

\* branchesTo: for every region on the path from `from` down to target, the
\* deepest state of the path inside it.
WithBranch(acc, s) ==
    LET r == IF Graph.RegionOf[s] # None THEN Graph.RegionOf[s] ELSE acc.region
    IN  [region   |-> r,
         branches |-> IF r = None THEN acc.branches ELSE Put(acc.branches, r, s)]
PathBranches == INSTANCE LeftFold WITH Op <- WithBranch
BranchesTo(from, target) ==
    PathBranches!Over([region |-> None, branches |-> <<>>], DescendantChain(from, target)).branches

\* entryPlan: the state to enter below lca to reach target, with the branches
\* that lead the rest of the way.
EntryPlan(lca, target) ==
    LET path == DescendantChain(lca, target)
        owners == {s \in ToSet(path) :
                      \E x \in Ancestry(target) :
                          /\ Graph.ParentState[x] = s /\ Graph.RegionOf[x] # None
                          /\ Graph.RegionOwner[Graph.RegionOf[x]] = s}
        owner == First(path, owners)
    IN  IF owner = None THEN [enter |-> target, branches |-> <<>>]
        ELSE [enter |-> owner, branches |-> BranchesTo(owner, target)]

\* regionPath: the declaration index of every region from the machine to s.
RegionPath[s \in StateSet] ==
    LET Index(r) == SelectInSeq(RegionSet(r), LAMBDA x : x = r)
        own == IF Graph.RegionOf[s] = None THEN <<>> ELSE <<Index(Graph.RegionOf[s])>>
    IN  IF Graph.ParentState[s] = None THEN own
        ELSE RegionPath[Graph.ParentState[s]] \o own

LessPath(a, b) ==
    \E i \in 1..(Len(a) + 1) :
        /\ \A j \in 1..(i - 1) : j <= Len(b) /\ a[j] = b[j]
        /\ i <= Len(b)
        /\ i <= Len(a) => a[i] < b[i]

IsHistory(n) == n \in Pseudostates
                /\ Graph.PseudostateKind[n] \in {"shallowHistory", "deepHistory"}

\* isSynchronizationTarget: the pseudostates that replace the configuration.
IsSynchronizationTarget(n) ==
    n \in Pseudostates
    /\ Graph.PseudostateKind[n] \in {"fork", "join", "shallowHistory", "deepHistory"}

\* joinSources: the states with a transition into the join, in declaration order.
JoinSources(machine, join) ==
    Keep(Graph.States[machine],
         {s \in StateSet : \E t \in ToSet(Graph.Transitions[s]) : Graph.Transition[t].target = join})

Source(t) == Graph.Transition[t].source

On(t) == Graph.Transition[t].on

\* `source` is a state that is the target or contains it: an external transition.
LeavesAround(t, target) == Source(t) \in StateSet /\ Encloses(Source(t), target)

TimeTriggered(s) ==
    {t \in ToSet(Graph.Transitions[s]) : On(t).kind \in {"after", "at"}}

\* A duration is any number: the timer of a negative one is past when it starts.
Recedes(t) == On(t).kind = "after" /\ On(t).delay < 0

---------------------------------------------------------------------------
(* What is assumed of a graph: its fields have their types, and it has     *)
(* none of the shapes the executor refuses with an error.                  *)

Machines == DOMAIN Graph.States
Regions == DOMAIN Graph.RegionOwner
Transitions == DOMAIN Graph.Transition
Behaviors ==
    UNION {ToSet(Graph.Entry[s]) \cup ToSet(Graph.Do[s]) \cup ToSet(Graph.Exit[s]) : s \in StateSet}
        \cup UNION {ToSet(Graph.Transition[t].effect) : t \in Transitions}

StatesAreTyped ==
    /\ None \notin StateSet \cup Regions \cup Transitions
    /\ Graph.States \in [Machines -> Seq(StateSet)]
    /\ Graph.Initial \in [Machines -> StateSet \cup {None}]
    /\ Graph.ParentState \in [StateSet -> StateSet \cup {None}]
    /\ Graph.Entry \in [StateSet -> Seq(Behaviors)]
    /\ Graph.Do \in [StateSet -> Seq(Behaviors)]
    /\ Graph.Exit \in [StateSet -> Seq(Behaviors)]

\* A region without an owner is one of a machine's own.
RegionsAreTyped ==
    /\ Graph.RegionOf \in [StateSet -> Regions \cup {None}]
    /\ Graph.CompositeStates \in [StateSet -> Seq(Regions)]
    /\ Graph.TopRegions \in [Machines -> Seq(Regions)]
    /\ Graph.RegionOwner \in [Regions -> StateSet \cup {None}]
    /\ Graph.RegionInitials \in [Regions -> StateSet]
    /\ \A r \in Regions : Graph.RegionOwner[r] = None =>
           \E k \in Machines : r \in ToSet(Graph.TopRegions[k])

TransitionsAreTyped ==
    /\ Graph.Transitions \in [StateSet \cup Pseudostates -> Seq(Transitions)]
    /\ \A n \in StateSet \cup Pseudostates : \A t \in ToSet(Graph.Transitions[n]) : Source(t) = n
    /\ \A t \in Transitions :
           /\ Graph.Transition[t].target \in StateSet \cup Pseudostates
           /\ Graph.Transition[t].effect \in Seq(Behaviors)
           /\ On(t).kind \in {"after", "at"} => On(t).delay \in Int

\* A history belongs to a state; a fork's branches lead into regions a state
\* owns; any other pseudostate, and a fork on the way out of one, has a branch
\* that no guard closes; and no path of branches comes back to where it was.
PseudostatesAreRouted ==
    /\ StateSet \cap Pseudostates = {}
    /\ \A n \in Pseudostates : IsHistory(n) => Graph.PseudostateOwner[n] \in StateSet
    /\ \A n \in Pseudostates : Graph.PseudostateKind[n] = "fork" =>
           LET targets == {Graph.Transition[t].target : t \in ToSet(Graph.Transitions[n])}
           IN  /\ \A s \in targets : s \in StateSet /\ Graph.RegionOf[s] # None
               /\ \E s \in targets : Graph.RegionOwner[Graph.RegionOf[s]] # None
    /\ \A n \in Pseudostates :
           (\/ Graph.PseudostateKind[n] # "fork"
            \/ \E t \in Transitions : Source(t) \in Pseudostates /\ Graph.Transition[t].target = n)
           => \E t \in ToSet(Graph.Transitions[n]) : Graph.Transition[t].guard = {}
    /\ \E rank \in [Pseudostates -> 1..MaxLevels] :
           \A n \in Pseudostates : \A t \in ToSet(Graph.Transitions[n]) :
               Graph.Transition[t].target \in Pseudostates =>
                   rank[Graph.Transition[t].target] < rank[n]

\* Every chain of parents ends within the bound.
NestingIsBounded ==
    MaxLevels \in Nat /\ \A s \in StateSet : Graph.ParentState[Last(ParentChain[s])] = None

ASSUME GraphAssumption ==
    /\ StatesAreTyped /\ RegionsAreTyped /\ TransitionsAreTyped
    /\ PseudostatesAreRouted /\ NestingIsBounded
=============================================================================
