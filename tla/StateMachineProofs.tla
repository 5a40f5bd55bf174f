------------------------- MODULE StateMachineProofs -------------------------
(***************************************************************************)
(* What the operators of one state machine do to it, for every lowered     *)
(* graph: each keeps the machine well formed, and, but for arrivals,       *)
(* dispatches and recalls, leaves alone the events that were sent to it.   *)
(***************************************************************************)
EXTENDS StateDispatch, SequenceTheorems, FiniteSetTheorems, TLAPS

---------------------------------------------------------------------------
(* Loops.                                                                  *)

\* A set of numbers that has 0 and, with every number below n, the next one,
\* has all of them.
LEMMA Climb ==
    ASSUME NEW n \in Nat, NEW S, 0 \in S, \A i \in 1..n : i - 1 \in S => i \in S
    PROVE  \A i \in 0..n : i \in S
<1> SUFFICES ASSUME NEW k \in 0..n, k \notin S PROVE FALSE
  OBVIOUS
<1> DEFINE T == {i \in 0..k : i \notin S}
           f == [i \in T |-> i - 1]
<1>1. IsFiniteSet(T) /\ IsFiniteSet(T \ {k})
  <2>1. IsFiniteSet(0..k)
    BY FS_Interval
  <2>2. T \subseteq 0..k /\ T \ {k} \subseteq 0..k
    OBVIOUS
  <2> QED BY <2>1, <2>2, FS_Subset
<1>2. k \in T
  OBVIOUS
<1>3. f \in [T -> T \ {k}]
  <2> SUFFICES ASSUME NEW i \in T PROVE i - 1 \in T \ {k}
    OBVIOUS
  <2>1. i \in 1..n
    OBVIOUS
  <2> QED BY <2>1
<1>4. \A i, j \in T : f[i] = f[j] => i = j
  OBVIOUS
<1>5. f \in Injection(T, T \ {k})
  BY <1>3, <1>4 DEF Injection, IsInjective
<1>6. Cardinality(T) <= Cardinality(T \ {k})
  BY <1>1, <1>5, FS_Injection
<1>7. Cardinality(T \ {k}) = Cardinality(T) - 1 /\ Cardinality(T) \in Nat
  BY <1>1, <1>2, FS_RemoveElement, FS_CardinalityType
<1> QED BY <1>6, <1>7

\* So the induction that loops rest on holds of every loop of the model.
LEMMA LoopsInduct ==
    /\ Concats!Induction /\ Appends!Induction /\ Parents!Induction /\ RegionsAround!Induction
    /\ PathBranches!Induction /\ Performs!Induction /\ Sorts!Induction /\ Leaves!Induction
    /\ Completions!Induction /\ Timers!Induction /\ TimersAround!Induction /\ LeafSchedules!Induction
    /\ Records!Induction /\ Exits!Induction /\ Entries!Induction /\ Routes!Induction
    /\ ActiveExits!Induction /\ BranchEntries!Induction /\ Descents!Induction /\ Recordings!Induction
    /\ Inwards!Induction /\ TopExits!Induction /\ RegionExits!Induction /\ Firings!Induction
    /\ Rises!Induction /\ DoEnds!Induction
<1> \A n \in Nat : \A S \in SUBSET (0..n) :
        0 \in S /\ (\A i \in 1..n : i - 1 \in S => i \in S) => n \in S
  BY Climb
<1> QED
  BY DEF Concats!Induction, Appends!Induction, Parents!Induction, RegionsAround!Induction,
       PathBranches!Induction, Performs!Induction, Sorts!Induction, Leaves!Induction,
       Completions!Induction, Timers!Induction, TimersAround!Induction,
       LeafSchedules!Induction, Records!Induction, Exits!Induction, Entries!Induction,
       Routes!Induction, ActiveExits!Induction, BranchEntries!Induction,
       Descents!Induction, Recordings!Induction, Inwards!Induction, TopExits!Induction,
       RegionExits!Induction, Firings!Induction, Rises!Induction, DoEnds!Induction

---------------------------------------------------------------------------
(* Sequences.                                                              *)

\* p lists the members of `at` up to k in increasing order, and kept the
\* elements of seq at those positions.
Selects(p, kept, seq, at, k) ==
    /\ p \in [1..Len(kept) -> (1..k) \cap at]
    /\ \A i, j \in 1..Len(kept) : i < j => p[i] < p[j]
    /\ \A i \in 1..Len(kept) : kept[i] = seq[p[i]]
    /\ \A x \in (1..k) \cap at : \E i \in 1..Len(kept) : p[i] = x

\* A loop body that appends some elements appends exactly the wanted ones.
LEMMA AppendIfWanted ==
    ASSUME NEW s, NEW e, NEW b \in BOOLEAN
    PROVE  AppendIf(s, [elem |-> e, wanted |-> b]) = IF b THEN Append(s, e) ELSE s
BY DEF AppendIf

\* KeepAt keeps the elements at the given positions, in order.
LEMMA KeepAtSelects ==
    ASSUME NEW T, NEW seq \in Seq(T), NEW at
    PROVE  /\ KeepAt(seq, at) \in Seq(T)
           /\ \E p : Selects(p, KeepAt(seq, at), seq, at, Len(seq))
<1> DEFINE marked == [i \in DOMAIN seq |-> [elem |-> seq[i], wanted |-> i \in at]]
           V == [k \in 0..Len(seq) |-> {s \in Seq(T) : \E p : Selects(p, s, seq, at, k)}]
<1>0. Len(seq) \in Nat /\ DOMAIN seq = 1..Len(seq) /\ Len(marked) = Len(seq)
  <2>1. DOMAIN seq = 1..Len(seq) /\ Len(seq) \in Nat
    BY LenProperties
  <2>2. Len(marked) = Len(seq)
    BY <2>1
  <2> QED BY <2>1, <2>2
<1>1. <<>> \in V[0]
  <2> DEFINE p == [i \in 1..0 |-> i]
  <2>1. Selects(p, <<>>, seq, at, 0)
    BY DEF Selects
  <2> HIDE DEF p
  <2> QED BY <1>0, <2>1
<1>2. ASSUME NEW k \in 1..Len(seq), NEW s \in V[k - 1]
      PROVE  AppendIf(s, marked[k]) \in V[k]
  <2>1. PICK p : Selects(p, s, seq, at, k - 1)
    BY <1>0
  <2>2. s \in Seq(T) /\ Len(s) \in Nat
    BY <1>0, LenProperties
  <2>3. AppendIf(s, marked[k]) = IF k \in at THEN Append(s, seq[k]) ELSE s
    <3> DEFINE b == k \in at
    <3>1. marked[k] = [elem |-> seq[k], wanted |-> b] /\ b \in BOOLEAN
      BY <1>0
    <3> HIDE DEF marked, b
    <3>2. AppendIf(s, marked[k]) = IF b THEN Append(s, seq[k]) ELSE s
      BY <3>1, AppendIfWanted
    <3> QED BY <3>2 DEF b
  <2>4. CASE k \notin at
    <3>1. AppendIf(s, marked[k]) = s
      BY <2>3, <2>4
    <3>2. Selects(p, s, seq, at, k)
      <4>1. (1..k) \cap at = (1..(k - 1)) \cap at
        BY <1>0, <2>4
      <4> QED BY <2>1, <4>1 DEF Selects
    <3> QED BY <1>0, <2>2, <3>1, <3>2
  <2>5. CASE k \in at
    <3> DEFINE u == Append(s, seq[k])
               q == [i \in 1..Len(u) |-> IF i = Len(u) THEN k ELSE p[i]]
    <3>1. seq[k] \in T
      BY <1>0, ElementOfSeq
    <3>2. /\ u \in Seq(T) /\ Len(u) = Len(s) + 1
          /\ \A i \in 1..Len(s) : u[i] = s[i]
          /\ u[Len(s) + 1] = seq[k]
      BY <2>2, <3>1, AppendProperties
    <3> HIDE DEF u
    <3>3. q \in [1..Len(u) -> (1..k) \cap at]
      <4> SUFFICES ASSUME NEW i \in 1..Len(u) PROVE q[i] \in (1..k) \cap at
        OBVIOUS
      <4>1. CASE i = Len(u)
        BY <1>0, <2>5, <4>1
      <4>2. CASE i # Len(u)
        <5>1. i \in 1..Len(s)
          BY <2>2, <3>2, <4>2
        <5>2. p[i] \in (1..(k - 1)) \cap at
          BY <2>1, <5>1 DEF Selects
        <5>3. q[i] = p[i]
          BY <4>2
        <5> HIDE DEF q
        <5> QED BY <1>0, <5>2, <5>3
      <4> QED BY <4>1, <4>2
    <3>4. ASSUME NEW i \in 1..Len(u), NEW j \in 1..Len(u), i < j PROVE q[i] < q[j]
      <4>1. i \in 1..Len(s) /\ q[i] = p[i] /\ p[i] \in 1..(k - 1)
        <5>1. i \in 1..Len(s) /\ i # Len(u)
          BY <2>2, <3>2, <3>4
        <5>2. q[i] = p[i]
          BY <5>1
        <5>3. p[i] \in (1..(k - 1)) \cap at
          BY <2>1, <5>1 DEF Selects
        <5> QED BY <5>1, <5>2, <5>3
      <4>2. CASE j = Len(u)
        BY <1>0, <4>1, <4>2
      <4>3. CASE j # Len(u)
        <5>1. j \in 1..Len(s) /\ q[j] = p[j]
          BY <2>2, <3>2, <4>3
        <5> QED BY <2>1, <3>4, <4>1, <5>1 DEF Selects
      <4> QED BY <4>2, <4>3
    <3>5. ASSUME NEW i \in 1..Len(u) PROVE u[i] = seq[q[i]]
      <4>1. CASE i = Len(u)
        BY <2>2, <3>2, <4>1
      <4>2. CASE i # Len(u)
        <5>1. i \in 1..Len(s)
          BY <2>2, <3>2, <4>2
        <5> QED BY <2>1, <3>2, <4>2, <5>1 DEF Selects
      <4> QED BY <4>1, <4>2
    <3>6. ASSUME NEW x \in (1..k) \cap at PROVE \E i \in 1..Len(u) : q[i] = x
      <4>1. CASE x = k
        <5>1. Len(u) \in 1..Len(u) /\ q[Len(u)] = x
          BY <2>2, <3>2, <4>1
        <5> QED BY <5>1
      <4>2. CASE x # k
        <5>1. x \in (1..(k - 1)) \cap at
          BY <1>0, <4>2
        <5>2. PICK i \in 1..Len(s) : p[i] = x
          BY <2>1, <5>1 DEF Selects
        <5>3. i \in 1..Len(u) /\ i # Len(u)
          BY <2>2, <3>2
        <5> QED BY <5>2, <5>3
      <4> QED BY <4>1, <4>2
    <3>7. Selects(q, u, seq, at, k)
      BY <3>3, <3>4, <3>5, <3>6 DEF Selects
    <3> HIDE DEF q
    <3>8. AppendIf(s, marked[k]) = u
      BY <2>3, <2>5 DEF u
    <3> QED BY <1>0, <3>2, <3>7, <3>8
  <2> QED BY <2>4, <2>5
<1> HIDE DEF marked, V
<1>3. Appends!Over(<<>>, marked) \in V[Len(marked)]
  BY <1>0, <1>1, <1>2, LoopsInduct, Appends!LoopSteps
<1>4. KeepAt(seq, at) = Appends!Over(<<>>, marked)
  BY DEF KeepAt, marked
<1>5. KeepAt(seq, at) \in V[Len(seq)]
  BY <1>0, <1>3, <1>4
<1> QED BY <1>0, <1>5 DEF V

\* Keep keeps the elements that are members of S.
LEMMA KeepKeeps ==
    ASSUME NEW T, NEW seq \in Seq(T), NEW S
    PROVE  /\ Keep(seq, S) \in Seq(T)
           /\ ToSet(Keep(seq, S)) = ToSet(seq) \cap S
<1> DEFINE at == {i \in DOMAIN seq : seq[i] \in S}
           kept == KeepAt(seq, at)
<1>1. kept \in Seq(T) /\ \E p : Selects(p, kept, seq, at, Len(seq))
  BY KeepAtSelects
<1>2. Keep(seq, S) = kept
  BY DEF Keep
<1>3. DOMAIN seq = 1..Len(seq) /\ Len(seq) \in Nat
  BY LenProperties
<1> HIDE DEF kept
<1>4. PICK p : Selects(p, kept, seq, at, Len(seq))
  BY <1>1
<1>5. DOMAIN kept = 1..Len(kept)
  BY <1>1, LenProperties
<1>6. ASSUME NEW x \in ToSet(kept) PROVE x \in ToSet(seq) \cap S
  BY <1>3, <1>4, <1>5 DEF Selects, ToSet
<1>7. ASSUME NEW x \in ToSet(seq) \cap S PROVE x \in ToSet(kept)
  <2>1. PICK i \in 1..Len(seq) : x = seq[i]
    BY <1>3 DEF ToSet
  <2>2. i \in (1..Len(seq)) \cap at
    BY <1>3, <2>1
  <2>3. PICK j \in 1..Len(kept) : p[j] = i
    BY <1>4, <2>2 DEF Selects
  <2> QED BY <1>4, <1>5, <2>1, <2>3 DEF Selects, ToSet
<1> QED BY <1>1, <1>2, <1>6, <1>7

Optional(S) == S \cup {None}

\* First finds a member, if there is one.
LEMMA FirstFinds ==
    ASSUME NEW T, NEW seq \in Seq(T), NEW S, None \notin T
    PROVE  /\ First(seq, S) \in Optional(T)
           /\ First(seq, S) # None => First(seq, S) \in ToSet(seq) \cap S
           /\ First(seq, S) = None => ToSet(seq) \cap S = {}
<1> DEFINE own == Keep(seq, S)
<1>1. own \in Seq(T) /\ ToSet(own) = ToSet(seq) \cap S
  BY KeepKeeps
<1>2. First(seq, S) = IF own = <<>> THEN None ELSE Head(own)
  BY DEF First
<1> HIDE DEF own
<1>3. CASE own = <<>>
  <2>1. ToSet(own) = {}
    BY <1>3 DEF ToSet
  <2> QED BY <1>1, <1>2, <1>3, <2>1 DEF Optional
<1>4. CASE own # <<>>
  <2>1. Head(own) = own[1] /\ 1 \in DOMAIN own /\ own[1] \in T
    BY <1>1, <1>4, HeadTailProperties, LenProperties, ElementOfSeq, EmptySeq
  <2>2. Head(own) \in ToSet(own)
    BY <2>1 DEF ToSet
  <2> QED BY <1>1, <1>2, <1>4, <2>1, <2>2 DEF Optional
<1> QED BY <1>3, <1>4

\* Concatenating sequences of sequences.
LEMMA FlattenTyped ==
    ASSUME NEW T, NEW seqs, Len(seqs) \in Nat, \A i \in 1..Len(seqs) : seqs[i] \in Seq(T)
    PROVE  Flatten(seqs) \in Seq(T)
<1>1. <<>> \in Seq(T)
  BY EmptySeq
<1>2. \A v \in Seq(T) : \A i \in 1..Len(seqs) : Concat(v, seqs[i]) \in Seq(T)
  BY ConcatProperties DEF Concat
<1> QED BY <1>1, <1>2, LoopsInduct, Concats!LoopKeeps DEF Flatten


\* Reversing a sequence keeps its elements.
LEMMA ReverseTyped ==
    ASSUME NEW T, NEW seq \in Seq(T)
    PROVE  Reverse(seq) \in Seq(T)
<1>1. Len(seq) \in Nat /\ DOMAIN seq = 1..Len(seq) /\ \A i \in 1..Len(seq) : seq[i] \in T
  BY LenProperties, ElementOfSeq
<1>2. \A i \in 1..Len(seq) : seq[(Len(seq) - i) + 1] \in T
  BY <1>1
<1> QED BY <1>1, <1>2, IsASeq DEF Reverse

---------------------------------------------------------------------------
(* Machines.                                                               *)

\* Functions from some of A to B.
Assignments(A, B) == UNION {[D -> B] : D \in SUBSET A}

Kinds == {"completion", "timer", "signal", "call"}
Triggers == {On(t).name : t \in Transitions} \cup {b.signal : b \in Behaviors}
Events ==
    {e \in [id : Nat, kind : Kinds, what : Triggers \cup Transitions, time : Int] :
        ~IsPoolEvent(e) => e.what \in Transitions}
Mail == {[signal |-> b.signal, to |-> b.to] : b \in Behaviors}
DoActions == [state : StateSet, pending : Seq(Behaviors) \ {<<>>}]
Configurations == Assignments(Regions, StateSet)
Recorded == [child : Optional(StateSet), regions : Configurations]
Statuses == {"ready", "running", "suspended", "completed"}

MachineRecords ==
    [of : Machines, state : Statuses, simpleState : Optional(StateSet),
     regionStates : Configurations, eventQueue : SUBSET Events, deferred : Seq(Events),
     timerScheduled : SUBSET Transitions, changeFired : SUBSET Transitions,
     firingChange : Optional(Transitions), changeRearmed : SUBSET Transitions,
     history : Assignments(StateSet, Recorded), doActions : Seq(DoActions),
     stateData : [Vars -> BOOLEAN], currentTime : Int, nextEventID : Nat,
     out : Seq(Mail), taken : Seq(Transitions), exited : SUBSET StateSet,
     open : Assignments(StateSet, Int)]

\* No transition has a negative duration.
NothingRecedes == \A t \in Transitions : ~Recedes(t)

\* The times of a queue at time `now`: only the timer of a negative duration lies in
\* the past, and where there is none the events of the pool are due now.  Being
\* finite, the queue has a first time, of which being bounded is all that is kept.
Bounded(q) == \E b \in Int : \A e \in q : b <= e.time
Timely(q, now) ==
    /\ \A e \in q : e.time >= now \/ RunsBack(e)
    /\ NothingRecedes => \A e \in q : IsPoolEvent(e) => e.time = now
    /\ Bounded(q)

\* The events of a queue and a deferral list: their times are right, only those of
\* the pool are held, and no two have one number, all of which have been handed out.
Sound(m) ==
    /\ Timely(m.eventQueue, m.currentTime)
    /\ \A e \in m.eventQueue : e.id < m.nextEventID
    /\ \A e, f \in m.eventQueue : e.id = f.id => e = f
    /\ \A i \in 1..Len(m.deferred) :
          /\ m.deferred[i].id < m.nextEventID /\ IsPoolEvent(m.deferred[i])
          /\ \A e \in m.eventQueue : e.id # m.deferred[i].id
    /\ \A i, j \in 1..Len(m.deferred) : m.deferred[i].id = m.deferred[j].id => i = j

Machine == {m \in MachineRecords : Sound(m)}

PoolOf(q) == {e \in q : IsPoolEvent(e)}

\* What a machine becomes by anything but an arrival, a dispatch or a recall.
Follows(m, n) ==
    /\ n.of = m.of /\ n.currentTime = m.currentTime
    /\ n.deferred = m.deferred /\ PoolOf(n.eventQueue) = PoolOf(m.eventQueue)
    /\ n.nextEventID >= m.nextEventID
    /\ \A e \in n.eventQueue : e \in m.eventQueue \/ e.id >= m.nextEventID
    /\ n.state \in {m.state, "completed"}

Quiet(m) == {n \in Machine : Follows(m, n) /\ n.taken = m.taken}

\* The same, with the effect of t run at most once.
Fires(m, t) == {n \in Machine : Follows(m, n) /\ n.taken \in {m.taken, Append(m.taken, t)}}

\* The fields of a machine have their types, and its events are sound.
LEMMA MachineHas ==
    ASSUME NEW m \in Machine
    PROVE  /\ m \in MachineRecords /\ Sound(m)
           /\ m.of \in Machines /\ m.state \in Statuses /\ m.simpleState \in Optional(StateSet)
           /\ m.regionStates \in Configurations /\ m.eventQueue \in SUBSET Events
           /\ m.deferred \in Seq(Events) /\ m.timerScheduled \in SUBSET Transitions
           /\ m.changeFired \in SUBSET Transitions /\ m.firingChange \in Optional(Transitions)
           /\ m.changeRearmed \in SUBSET Transitions
           /\ m.history \in Assignments(StateSet, Recorded) /\ m.doActions \in Seq(DoActions)
           /\ m.stateData \in [Vars -> BOOLEAN] /\ m.currentTime \in Int /\ m.nextEventID \in Nat
           /\ m.out \in Seq(Mail) /\ m.taken \in Seq(Transitions) /\ m.exited \in SUBSET StateSet
           /\ m.open \in Assignments(StateSet, Int)
           /\ Len(m.deferred) \in Nat /\ DOMAIN m.deferred = 1..Len(m.deferred)
           /\ Len(m.doActions) \in Nat /\ DOMAIN m.doActions = 1..Len(m.doActions)
<1>1. m \in MachineRecords /\ Sound(m)
  BY DEF Machine
<1>2. m.deferred \in Seq(Events) /\ m.doActions \in Seq(DoActions)
  BY <1>1 DEF MachineRecords
<1> QED BY <1>1, <1>2, LenProperties DEF MachineRecords

\* What is known of the events a machine has.
LEMMA EventsHave ==
    ASSUME NEW m \in Machine
    PROVE  /\ \A e \in m.eventQueue :
                 /\ e \in Events /\ e.id \in Nat /\ e.time \in Int
                 /\ e.id < m.nextEventID
                 /\ ~IsPoolEvent(e) => e.what \in Transitions
           /\ \A e, f \in m.eventQueue : e.id = f.id => e = f
           /\ \A i \in 1..Len(m.deferred) :
                 /\ m.deferred[i] \in Events /\ m.deferred[i].id \in Nat
                 /\ m.deferred[i].id < m.nextEventID /\ IsPoolEvent(m.deferred[i])
                 /\ \A e \in m.eventQueue : e.id # m.deferred[i].id
           /\ \A i, j \in 1..Len(m.deferred) : m.deferred[i].id = m.deferred[j].id => i = j
           /\ Timely(m.eventQueue, m.currentTime)
<1>1. Sound(m) /\ m.eventQueue \in SUBSET Events /\ m.deferred \in Seq(Events)
  BY MachineHas
<1>2. \A e \in Events : e.id \in Nat /\ e.time \in Int /\ (~IsPoolEvent(e) => e.what \in Transitions)
  BY DEF Events
<1>3. \A i \in 1..Len(m.deferred) : m.deferred[i] \in Events
  BY <1>1, ElementOfSeq
<1> QED BY <1>1, <1>2, <1>3 DEF Sound

\* The times of a queue that loses events, gets one, gets some of the present, or
\* loses the first of them to the clock.
LEMMA TimelySteps ==
    ASSUME NEW q \in SUBSET Events, NEW now \in Int, Timely(q, now)
    PROVE  /\ \A p \in SUBSET q : Timely(p, now)
           /\ \A e \in Events : /\ e.time >= now \/ RunsBack(e)
                                /\ IsPoolEvent(e) => e.time = now
                                => Timely(q \cup {e}, now)
           /\ \A p \in SUBSET Events : (\A e \in p : e.time = now) => Timely(q \cup p, now)
           /\ \A e \in q : (\A f \in q : e.time <= f.time) => Timely(q \ {e}, e.time)
<1>1. /\ \A e \in Events : e.time \in Int /\ (e.kind = "timer" => e.what \in Transitions)
      /\ \A e \in q : e \in Events
  BY DEF Events, IsPoolEvent
<1>2. PICK b \in Int : \A e \in q : b <= e.time
  BY DEF Timely, Bounded
<1>3. /\ \A e \in q : e.time >= now \/ RunsBack(e)
      /\ NothingRecedes => \A e \in q : IsPoolEvent(e) => e.time = now
  BY DEF Timely
<1>4. NothingRecedes => \A e \in Events : ~RunsBack(e)
  BY <1>1 DEF NothingRecedes, RunsBack
<1>5. ASSUME NEW p \in SUBSET q PROVE Timely(p, now)
  BY <1>2, <1>3 DEF Timely, Bounded
<1>6. ASSUME NEW e \in Events PROVE Bounded(q \cup {e})
  <2>1. CASE e.time <= b
    <3>1. \A f \in q \cup {e} : e.time <= f.time
      BY <1>1, <1>2, <2>1
    <3> QED BY <1>1, <3>1 DEF Bounded
  <2>2. CASE ~(e.time <= b)
    <3>1. \A f \in q \cup {e} : b <= f.time
      BY <1>1, <1>2, <2>2
    <3> QED BY <3>1 DEF Bounded
  <2> QED BY <2>1, <2>2
<1>7. ASSUME NEW e \in Events, e.time >= now \/ RunsBack(e), IsPoolEvent(e) => e.time = now
      PROVE  Timely(q \cup {e}, now)
  BY <1>3, <1>6, <1>7 DEF Timely
<1>8. ASSUME NEW p \in SUBSET Events, \A e \in p : e.time = now
      PROVE  Timely(q \cup p, now)
  <2>1. Bounded(q \cup p)
    <3>1. CASE now <= b
      <4>1. \A f \in q \cup p : now <= f.time
        BY <1>1, <1>2, <1>8, <3>1
      <4> QED BY <4>1 DEF Bounded
    <3>2. CASE ~(now <= b)
      <4>1. \A f \in q \cup p : b <= f.time
        BY <1>1, <1>2, <1>8, <3>2
      <4> QED BY <4>1 DEF Bounded
    <3> QED BY <3>1, <3>2
  <2>2. \A e \in q \cup p : e.time >= now \/ RunsBack(e)
    BY <1>3, <1>8
  <2>3. NothingRecedes => \A e \in q \cup p : IsPoolEvent(e) => e.time = now
    BY <1>3, <1>8
  <2> QED BY <2>1, <2>2, <2>3 DEF Timely
<1>9. ASSUME NEW e \in q, \A f \in q : e.time <= f.time
      PROVE  Timely(q \ {e}, e.time)
  <2>1. Bounded(q \ {e})
    BY <1>2 DEF Bounded
  <2>2. \A f \in q \ {e} : f.time >= e.time
    BY <1>1, <1>9
  <2>3. ASSUME NothingRecedes, NEW f \in q, IsPoolEvent(f) PROVE f.time = e.time
    <3>1. e.time >= now /\ f.time = now
      BY <1>1, <1>3, <1>4, <2>3
    <3>2. e.time <= f.time
      BY <1>9
    <3> QED BY <1>1, <3>1, <3>2
  <2> QED BY <2>1, <2>2, <2>3 DEF Timely
<1> QED BY <1>5, <1>7, <1>8, <1>9

\* An assignment's values are where they should be.
LEMMA AssignmentHas ==
    ASSUME NEW A, NEW B, NEW f \in Assignments(A, B)
    PROVE  /\ DOMAIN f \subseteq A /\ \A x \in DOMAIN f : f[x] \in B
           /\ f \in [DOMAIN f -> B]
BY DEF Assignments

\* A function from some of A to B is an assignment.
LEMMA AssignmentMade ==
    ASSUME NEW A, NEW B, NEW D, D \subseteq A, NEW f \in [D -> B]
    PROVE  f \in Assignments(A, B)
BY DEF Assignments

\* Adding, replacing, merging and dropping entries of a map.
LEMMA AssignmentOps ==
    ASSUME NEW A, NEW B, NEW f \in Assignments(A, B)
    PROVE  /\ \A x \in A : \A v \in B : Put(f, x, v) \in Assignments(A, B)
           /\ \A g \in Assignments(A, B) : PutAll(f, g) \in Assignments(A, B)
           /\ \A D : Restrict(f, DOMAIN f \ D) \in Assignments(A, B)
<1>0. DOMAIN f \subseteq A /\ \A x \in DOMAIN f : f[x] \in B
  BY AssignmentHas
<1>1. ASSUME NEW x \in A, NEW v \in B
      PROVE  Put(f, x, v) \in Assignments(A, B)
  <2>1. Put(f, x, v) \in [DOMAIN f \cup {x} -> B] /\ DOMAIN f \cup {x} \subseteq A
    BY <1>0 DEF Put
  <2> QED BY <2>1, AssignmentMade
<1>2. ASSUME NEW g \in Assignments(A, B)
      PROVE  PutAll(f, g) \in Assignments(A, B)
  <2>1. DOMAIN g \subseteq A /\ \A x \in DOMAIN g : g[x] \in B
    BY AssignmentHas
  <2>2. PutAll(f, g) \in [DOMAIN f \cup DOMAIN g -> B] /\ DOMAIN f \cup DOMAIN g \subseteq A
    BY <1>0, <2>1 DEF PutAll
  <2> QED BY <2>2, AssignmentMade
<1>3. ASSUME NEW D
      PROVE  Restrict(f, DOMAIN f \ D) \in Assignments(A, B)
  <2>1. Restrict(f, DOMAIN f \ D) \in [DOMAIN f \ D -> B] /\ DOMAIN f \ D \subseteq A
    BY <1>0 DEF Restrict
  <2> QED BY <2>1, AssignmentMade
<1> QED BY <1>1, <1>2, <1>3

\* A machine comes quietly from itself.
LEMMA QuietReflexive ==
    ASSUME NEW m \in Machine
    PROVE  m \in Quiet(m)
BY MachineHas DEF Quiet, Follows

\* What follows from what follows from m follows from m.
LEMMA FollowsTransitive ==
    ASSUME NEW m \in Machine, NEW n \in Machine, NEW k \in Machine, Follows(m, n), Follows(n, k)
    PROVE  Follows(m, k)
<1>1. m.nextEventID \in Nat /\ n.nextEventID \in Nat /\ k.nextEventID \in Nat
  BY MachineHas
<1>2. \A e \in k.eventQueue : e.id \in Nat
  BY EventsHave
<1>3. ASSUME NEW e \in k.eventQueue, e \notin m.eventQueue PROVE e.id >= m.nextEventID
  <2>1. e \in n.eventQueue => e.id >= m.nextEventID
    BY <1>3 DEF Follows
  <2>2. e \notin n.eventQueue => e.id >= n.nextEventID
    BY DEF Follows
  <2>3. n.nextEventID >= m.nextEventID
    BY DEF Follows
  <2> QED BY <1>1, <1>2, <2>1, <2>2, <2>3
<1>4. n.nextEventID >= m.nextEventID /\ k.nextEventID >= n.nextEventID
  BY DEF Follows
<1>5. k.nextEventID >= m.nextEventID
  BY <1>1, <1>4
<1> QED BY <1>3, <1>5 DEF Follows

\* Quiet changes compose.
LEMMA QuietTransitive ==
    ASSUME NEW m \in Machine, NEW n \in Quiet(m), NEW k \in Quiet(n)
    PROVE  k \in Quiet(m)
BY FollowsTransitive DEF Quiet

\* Changing nothing but where a machine is and what it remembers is quiet.
LEMMA TouchesNone ==
    ASSUME NEW m \in Machine, NEW n \in MachineRecords,
           n.of = m.of, n.state = m.state, n.eventQueue = m.eventQueue, n.deferred = m.deferred,
           n.currentTime = m.currentTime, n.nextEventID = m.nextEventID, n.taken = m.taken
    PROVE  n \in Quiet(m)
<1>1. Sound(m) /\ m.nextEventID \in Nat
  BY MachineHas
<1>2. Sound(n)
  BY <1>1 DEF Sound
<1> QED BY <1>1, <1>2 DEF Quiet, Follows, Machine

\* A behavior assigns an attribute or sends a message.
LEMMA PerformQuiet ==
    ASSUME NEW m \in Machine, NEW b \in Behaviors
    PROVE  Perform(m, b) \in Quiet(m)
<1>0. m \in MachineRecords
  BY MachineHas
<1>1. CASE b.do = "assign"
  <2> DEFINE data == [m.stateData EXCEPT ![b.var] = b.val]
             n == [m EXCEPT !.stateData = data]
  <2>1. data \in [Vars -> BOOLEAN]
    BY <1>1, BehaviorAssumption, MachineHas
  <2>2. Perform(m, b) = n
    BY <1>1 DEF Perform
  <2> HIDE DEF data
  <2>3. n \in MachineRecords
    BY <1>0, <2>1 DEF MachineRecords
  <2> QED BY <1>0, <2>2, <2>3, TouchesNone DEF MachineRecords
<1>2. CASE b.do # "assign"
  <2> DEFINE sent == Append(m.out, [signal |-> b.signal, to |-> b.to])
             n == [m EXCEPT !.out = sent]
  <2>1. sent \in Seq(Mail)
    <3>1. [signal |-> b.signal, to |-> b.to] \in Mail
      BY DEF Mail
    <3> QED BY <3>1, MachineHas, AppendProperties
  <2>2. Perform(m, b) = n
    BY <1>2 DEF Perform
  <2> HIDE DEF sent
  <2>3. n \in MachineRecords
    BY <1>0, <2>1 DEF MachineRecords
  <2> QED BY <1>0, <2>2, <2>3, TouchesNone DEF MachineRecords
<1> QED BY <1>1, <1>2

\* Executing behaviors is quiet.
LEMMA ExecuteQuiet ==
    ASSUME NEW m \in Machine, NEW behaviors \in Seq(Behaviors)
    PROVE  ExecuteBehaviors(m, behaviors) \in Quiet(m)
<1>1. m \in Quiet(m) /\ Len(behaviors) \in Nat
  BY QuietReflexive, LenProperties
<1>2. ASSUME NEW v \in Quiet(m), NEW i \in 1..Len(behaviors)
      PROVE  Perform(v, behaviors[i]) \in Quiet(m)
  <2>1. v \in Machine /\ behaviors[i] \in Behaviors
    BY ElementOfSeq, LenProperties DEF Quiet
  <2> QED BY <2>1, PerformQuiet, QuietTransitive
<1> QED BY <1>1, <1>2, LoopsInduct, Performs!LoopKeeps DEF ExecuteBehaviors

---------------------------------------------------------------------------
(* The graph.                                                              *)

\* The levels can be counted.
LEMMA LevelsTyped == Len(Levels) \in Nat
<1>1. MaxLevels \in Nat
  BY GraphAssumption DEF NestingIsBounded
<1> QED BY <1>1 DEF Levels

\* None is no state, region or transition.
LEMMA NoneIsNothing == None \notin StateSet /\ None \notin Regions /\ None \notin Transitions
BY GraphAssumption DEF StatesAreTyped

\* The elements of a sequence.
LEMMA ToSetTyped ==
    ASSUME NEW T, NEW seq \in Seq(T)
    PROVE  ToSet(seq) \subseteq T
BY LenProperties, ElementOfSeq DEF ToSet

\* The last element of a sequence.
LEMMA LastTyped ==
    ASSUME NEW T, NEW seq \in Seq(T) \ {<<>>}
    PROVE  Last(seq) \in T
<1>1. Len(seq) \in Nat /\ Len(seq) # 0
  BY EmptySeq, LenProperties
<1> QED BY <1>1, ElementOfSeq DEF Last

\* The first element of a sequence, and the others.
LEMMA HeadTyped ==
    ASSUME NEW T, NEW seq \in Seq(T), seq # <<>>
    PROVE  Head(seq) \in T /\ Tail(seq) \in Seq(T) /\ Head(seq) \in ToSet(seq)
           /\ Head(seq) = seq[1] /\ 1 \in 1..Len(seq)
<1>1. Head(seq) = seq[1] /\ Tail(seq) \in Seq(T) /\ 1 \in 1..Len(seq)
  BY HeadTailProperties, LenProperties, EmptySeq
<1>2. DOMAIN seq = 1..Len(seq)
  BY LenProperties
<1> QED BY <1>1, <1>2, ElementOfSeq DEF ToSet

\* A sequence of one element.
LEMMA SingleTyped ==
    ASSUME NEW T, NEW x \in T
    PROVE  <<x>> \in Seq(T) /\ <<x>> # <<>> /\ Len(<<x>>) = 1 /\ ToSet(<<x>>) = {x}
<1>1. <<x>> \in Seq(T) /\ <<x>> # <<>> /\ Len(<<x>>) = 1 /\ DOMAIN <<x>> = 1..1 /\ <<x>>[1] = x
  OBVIOUS
<1> QED BY <1>1 DEF ToSet

\* getParentChain: a chain of states that begins with the state.
LEMMA ChainTyped ==
    ASSUME NEW s \in StateSet
    PROVE  /\ ParentChain[s] \in Seq(StateSet) \ {<<>>}
           /\ s \in ToSet(ParentChain[s])
<1> DEFINE V == {c \in Seq(StateSet) \ {<<>>} : s \in ToSet(c)}
<1>1. <<s>> \in V
  BY SingleTyped
<1>2. ASSUME NEW c \in V, NEW i \in 1..Len(Levels)
      PROVE  WithParent(c, Levels[i]) \in V
  <2> DEFINE p == Graph.ParentState[Last(c)]
  <2>1. Last(c) \in StateSet
    BY LastTyped
  <2>2. p \in StateSet \cup {None}
    BY <2>1, GraphAssumption DEF StatesAreTyped
  <2>3. WithParent(c, Levels[i]) = IF p = None THEN c ELSE Append(c, p)
    BY DEF WithParent
  <2> HIDE DEF p
  <2>4. CASE p = None
    BY <2>3, <2>4
  <2>5. CASE p # None
    <3>1. c \in Seq(StateSet) /\ p \in StateSet
      BY <2>2, <2>5
    <3>2. /\ Append(c, p) \in Seq(StateSet) /\ Len(Append(c, p)) = Len(c) + 1
          /\ \A j \in 1..Len(c) : Append(c, p)[j] = c[j]
          /\ Len(c) \in Nat
      BY <3>1, AppendProperties, LenProperties
    <3>3. Append(c, p) # <<>>
      BY <3>2, EmptySeq
    <3>4. s \in ToSet(Append(c, p))
      <4>1. DOMAIN c = 1..Len(c) /\ DOMAIN Append(c, p) = 1..(Len(c) + 1)
        BY <3>1, <3>2, LenProperties
      <4>2. PICK j \in 1..Len(c) : c[j] = s
        BY <4>1 DEF ToSet
      <4>3. j \in 1..(Len(c) + 1) /\ Append(c, p)[j] = s
        BY <3>2, <4>2
      <4> QED BY <4>1, <4>3 DEF ToSet
    <3> QED BY <2>3, <2>5, <3>2, <3>3, <3>4
  <2> QED BY <2>4, <2>5
<1> HIDE DEF V
<1>3. Parents!Over(<<s>>, Levels) \in V
  BY <1>1, <1>2, LevelsTyped, LoopsInduct, Parents!LoopKeeps
<1> QED BY <1>3 DEF ParentChain, V

\* A state is one of its own ancestors.
LEMMA AncestryTyped ==
           /\ \A s \in Optional(StateSet) : Ancestry(s) \subseteq StateSet
           /\ \A s \in StateSet : Ancestry(s) = ToSet(ParentChain[s]) /\ s \in Ancestry(s)
<1>1. ASSUME NEW s \in StateSet PROVE Ancestry(s) = ToSet(ParentChain[s]) /\ s \in Ancestry(s)
                                      /\ Ancestry(s) \subseteq StateSet
  <2>1. s # None
    BY NoneIsNothing
  <2>2. ParentChain[s] \in Seq(StateSet) /\ s \in ToSet(ParentChain[s])
    BY ChainTyped
  <2> QED BY <2>1, <2>2, ToSetTyped DEF Ancestry
<1>2. Ancestry(None) = {}
  BY DEF Ancestry
<1> QED BY <1>1, <1>2 DEF Optional

\* getLCA finds a state or none.
LEMMA LCATyped ==
    ASSUME NEW s1, NEW s2 \in StateSet
    PROVE  LCA(s1, s2) \in Optional(StateSet)
BY ChainTyped, NoneIsNothing, FirstFinds DEF LCA

\* The way outwards is one through states.
LEMMA UpToTyped ==
    ASSUME NEW s \in Optional(StateSet), NEW stop
    PROVE  UpTo(s, stop) \in Seq(StateSet)
<1>1. CASE s = None
  BY <1>1, EmptySeq DEF UpTo
<1>2. CASE s # None
  <2>1. ParentChain[s] \in Seq(StateSet)
    BY <1>2, ChainTyped DEF Optional
  <2>2. Keep(ParentChain[s], Ancestry(s) \ Ancestry(stop)) \in Seq(StateSet)
    BY <2>1, KeepKeeps
  <2> QED BY <1>2, <2>1, <2>2 DEF UpTo
<1> QED BY <1>1, <1>2

\* descendantChain: the way down is one through states.
LEMMA DescendantChainTyped ==
    ASSUME NEW a, NEW leaf \in StateSet
    PROVE  DescendantChain(a, leaf) \in Seq(StateSet)
<1>1. UpTo(leaf, a) \in Seq(StateSet)
  BY UpToTyped DEF Optional
<1>2. Reverse(UpTo(leaf, a)) \in Seq(StateSet)
  BY <1>1, ReverseTyped
<1> QED BY <1>2, SingleTyped DEF DescendantChain

\* What the graph says of its states, regions and machines.
LEMMA RegionOfTyped ==
           /\ \A s \in StateSet : Graph.RegionOf[s] \in Optional(Regions)
           /\ \A s \in StateSet : Graph.ParentState[s] \in Optional(StateSet)
           /\ \A s \in StateSet : Graph.CompositeStates[s] \in Seq(Regions)
           /\ \A r \in Regions : Graph.RegionOwner[r] \in Optional(StateSet)
           /\ \A r \in Regions : Graph.RegionInitials[r] \in StateSet
           /\ \A k \in Machines : Graph.TopRegions[k] \in Seq(Regions)
           /\ \A k \in Machines : Graph.States[k] \in Seq(StateSet)
           /\ \A k \in Machines : Graph.Initial[k] \in Optional(StateSet)
           /\ \A s \in StateSet : Graph.Entry[s] \in Seq(Behaviors)
           /\ \A s \in StateSet : Graph.Do[s] \in Seq(Behaviors)
           /\ \A s \in StateSet : Graph.Exit[s] \in Seq(Behaviors)
BY GraphAssumption DEF StatesAreTyped, RegionsAreTyped, Optional

\* enclosingRegion finds a region or none.
LEMMA EnclosingRegionTyped ==
    ASSUME NEW s \in StateSet
    PROVE  EnclosingRegion(s) \in Optional(Regions)
<1> DEFINE S == {x \in Ancestry(s) : Graph.RegionOf[x] # None}
           a == First(ParentChain[s], S)
<1>1. a \in Optional(StateSet)
  BY ChainTyped, NoneIsNothing, FirstFinds
<1>2. EnclosingRegion(s) = IF a = None THEN None ELSE Graph.RegionOf[a]
  BY DEF EnclosingRegion
<1> QED BY <1>1, <1>2, RegionOfTyped DEF Optional

\* The regions concurrent with a region.
LEMMA RegionSetTyped ==
    ASSUME NEW r \in Regions
    PROVE  RegionSet(r) \in Seq(Regions)
<1>1. CASE Graph.RegionOwner[r] # None
  BY <1>1, RegionOfTyped DEF RegionSet, Optional
<1>2. CASE Graph.RegionOwner[r] = None
  <2>1. \E k \in Machines : r \in ToSet(Graph.TopRegions[k])
    BY <1>2, GraphAssumption DEF RegionsAreTyped
  <2>2. Machines = DOMAIN Graph.TopRegions
    BY GraphAssumption DEF RegionsAreTyped
  <2>3. MachineOf(r) \in Machines
    BY <2>1, <2>2 DEF MachineOf
  <2> QED BY <1>2, <2>3, RegionOfTyped DEF RegionSet
<1> QED BY <1>1, <1>2

\* siblingRegionContaining finds a region or none.
LEMMA SiblingTyped ==
    ASSUME NEW r \in Regions, NEW s
    PROVE  SiblingContaining(r, s) \in Optional(Regions)
BY RegionSetTyped, NoneIsNothing, FirstFinds DEF SiblingContaining

\* Both regions are there, or neither is.
LEMMA ConcurrentTyped ==
    ASSUME NEW r \in Regions, NEW target
    PROVE  \/ ConcurrentRegionsFor(r, target) = <<None, None>>
           \/ \E a, b \in Regions : ConcurrentRegionsFor(r, target) = <<a, b>>
<1> DEFINE V == Seq(Regions) \ {<<>>}
           around == RegionsAround!Over(<<r>>, Levels)
           S == {x \in ToSet(around) : SiblingContaining(x, target) # None}
           from == First(around, S)
<1>1. <<r>> \in V
  BY SingleTyped
<1>2. ASSUME NEW c \in V, NEW i \in 1..Len(Levels)
      PROVE  WithRegionAround(c, Levels[i]) \in V
  <2> DEFINE owner == Graph.RegionOwner[Last(c)]
             e == EnclosingRegion(owner)
  <2>1. WithRegionAround(c, Levels[i]) =
            IF owner = None THEN c ELSE IF e = None THEN c ELSE Append(c, e)
    BY DEF WithRegionAround
  <2>2. owner \in Optional(StateSet)
    BY LastTyped, RegionOfTyped
  <2>3. owner # None => e \in Optional(Regions)
    BY <2>2, EnclosingRegionTyped DEF Optional
  <2> HIDE DEF owner, e
  <2>4. CASE owner = None \/ e = None
    BY <2>1, <2>4
  <2>5. CASE owner # None /\ e # None
    <3>1. e \in Regions /\ c \in Seq(Regions)
      BY <2>3, <2>5 DEF Optional
    <3>2. Append(c, e) \in Seq(Regions) /\ Len(Append(c, e)) = Len(c) + 1 /\ Len(c) \in Nat
      BY <3>1, AppendProperties, LenProperties
    <3>3. Append(c, e) # <<>>
      BY <3>2, EmptySeq
    <3> QED BY <2>1, <2>5, <3>2, <3>3
  <2> QED BY <2>4, <2>5
<1> HIDE DEF V
<1>3. around \in V
  BY <1>1, <1>2, LevelsTyped, LoopsInduct, RegionsAround!LoopKeeps
<1>4. ConcurrentRegionsFor(r, target) =
          IF from = None THEN <<None, None>> ELSE <<from, SiblingContaining(from, target)>>
  BY DEF ConcurrentRegionsFor
<1>5. around \in Seq(Regions)
  BY <1>3 DEF V
<1> HIDE DEF around
<1>6. from \in Optional(Regions) /\ (from # None => from \in ToSet(around) \cap S)
  BY <1>5, NoneIsNothing, FirstFinds
<1>7. CASE from # None
  <2>1. from \in Regions /\ SiblingContaining(from, target) # None
    BY <1>6, <1>7 DEF Optional
  <2>2. SiblingContaining(from, target) \in Regions
    BY <2>1, SiblingTyped DEF Optional
  <2> QED BY <1>4, <1>7, <2>1, <2>2
<1> QED BY <1>4, <1>7

\* branchesTo: a state in every region on the path.
LEMMA BranchesTyped ==
    ASSUME NEW from, NEW target \in StateSet
    PROVE  BranchesTo(from, target) \in Configurations
<1> DEFINE V == [region : Optional(Regions), branches : Configurations]
           base == [region |-> None, branches |-> <<>>]
           path == DescendantChain(from, target)
<1>0. path \in Seq(StateSet)
  BY DescendantChainTyped
<1>1. base \in V
  <2>1. <<>> \in [{} -> StateSet]
    OBVIOUS
  <2>2. <<>> \in Configurations
    BY <2>1, AssignmentMade DEF Configurations
  <2> QED BY <2>2 DEF Optional
<1>2. ASSUME NEW acc \in V, NEW i \in 1..Len(path)
      PROVE  WithBranch(acc, path[i]) \in V
  <2> DEFINE s == path[i]
             r == IF Graph.RegionOf[s] # None THEN Graph.RegionOf[s] ELSE acc.region
             b == IF r = None THEN acc.branches ELSE Put(acc.branches, r, s)
  <2>1. s \in StateSet
    BY <1>0, ElementOfSeq, LenProperties
  <2>2. r \in Optional(Regions)
    BY <2>1, RegionOfTyped
  <2>3. b \in Configurations
    <3>1. r # None => r \in Regions
      BY <2>2 DEF Optional
    <3> HIDE DEF r, s
    <3> QED BY <2>1, <3>1, AssignmentOps DEF Configurations
  <2>4. WithBranch(acc, s) = [region |-> r, branches |-> b]
    BY DEF WithBranch
  <2> QED BY <2>2, <2>3, <2>4
<1>3. Len(path) \in Nat
  BY <1>0, LenProperties
<1> HIDE DEF V, base, path
<1>4. PathBranches!Over(base, path) \in V
  BY <1>1, <1>2, <1>3, LoopsInduct, PathBranches!LoopKeeps
<1> QED BY <1>4 DEF BranchesTo, V, base, path

\* entryPlan: a state to enter, and states for the regions below it.
LEMMA EntryPlanTyped ==
    ASSUME NEW lca, NEW target \in StateSet
    PROVE  /\ EntryPlan(lca, target).enter \in StateSet
           /\ EntryPlan(lca, target).branches \in Configurations
<1> DEFINE path == DescendantChain(lca, target)
           owners == {s \in ToSet(path) :
                         \E x \in Ancestry(target) :
                             /\ Graph.ParentState[x] = s /\ Graph.RegionOf[x] # None
                             /\ Graph.RegionOwner[Graph.RegionOf[x]] = s}
           owner == First(path, owners)
<1>1. path \in Seq(StateSet)
  BY DescendantChainTyped
<1>2. owner \in Optional(StateSet)
  BY <1>1, NoneIsNothing, FirstFinds
<1>3. EntryPlan(lca, target) = IF owner = None THEN [enter |-> target, branches |-> <<>>]
                               ELSE [enter |-> owner, branches |-> BranchesTo(owner, target)]
  BY DEF EntryPlan
<1> HIDE DEF owner
<1>4. <<>> \in Configurations
  <2>1. <<>> \in [{} -> StateSet]
    OBVIOUS
  <2> QED BY <2>1, AssignmentMade DEF Configurations
<1>5. BranchesTo(owner, target) \in Configurations
  BY BranchesTyped
<1> QED BY <1>2, <1>3, <1>4, <1>5 DEF Optional

---------------------------------------------------------------------------
(* The active configuration and what is scheduled for it.                  *)

\* A loop over positions makes a sequence.
LEMMA MappedTyped ==
    ASSUME NEW T, NEW U, NEW seq \in Seq(T), NEW f, f = [i \in DOMAIN seq |-> f[i]],
           \A i \in 1..Len(seq) : f[i] \in U
    PROVE  f \in Seq(U) /\ Len(f) = Len(seq) /\ Len(seq) \in Nat
<1>1. DOMAIN seq = 1..Len(seq) /\ Len(seq) \in Nat
  BY LenProperties
<1>2. f = [i \in 1..Len(seq) |-> f[i]]
  BY <1>1
<1>3. [i \in 1..Len(seq) |-> f[i]] \in Seq(U)
  BY <1>1, IsASeq
<1>4. Len([i \in 1..Len(seq) |-> f[i]]) = Len(seq)
  BY <1>1
<1> QED BY <1>1, <1>2, <1>3, <1>4

\* The transitions of a state or pseudostate have it as their source.
LEMMA TransitionsOf ==
    ASSUME NEW n \in StateSet \cup Pseudostates
    PROVE  /\ Graph.Transitions[n] \in Seq(Transitions)
           /\ ToSet(Graph.Transitions[n]) \subseteq Transitions
           /\ \A t \in ToSet(Graph.Transitions[n]) : Source(t) = n
<1>1. Graph.Transitions[n] \in Seq(Transitions)
  BY GraphAssumption DEF TransitionsAreTyped
<1> QED BY <1>1, ToSetTyped, GraphAssumption DEF TransitionsAreTyped

\* The active regions and states, in order.
LEMMA OrderedRegionsTyped ==
    ASSUME NEW m \in Machine
    PROVE  /\ OrderedActiveRegions(m) \in Seq(Regions)
           /\ ToSet(OrderedActiveRegions(m)) \subseteq ActiveRegions(m)
           /\ OrderedRegionStates(m) \in Seq(StateSet)
           /\ ActiveStates(m) \in Seq(StateSet)
<1>0. m.of \in Machines /\ m.regionStates \in Configurations /\ m.simpleState \in Optional(StateSet)
  BY MachineHas
<1> DEFINE states == Graph.States[m.of]
           inner == [i \in DOMAIN states |-> Graph.CompositeStates[states[i]]]
           all == Graph.TopRegions[m.of] \o NestedRegions(m.of)
           regions == OrderedActiveRegions(m)
           at == [i \in DOMAIN regions |-> m.regionStates[regions[i]]]
<1>1. states \in Seq(StateSet)
  BY <1>0, RegionOfTyped
<1>2. inner \in Seq(Seq(Regions)) /\ Len(inner) \in Nat
  <2>1. \A i \in 1..Len(states) : inner[i] \in Seq(Regions)
    <3>1. DOMAIN states = 1..Len(states) /\ \A i \in 1..Len(states) : states[i] \in StateSet
      BY <1>1, LenProperties, ElementOfSeq
    <3> QED BY <3>1, RegionOfTyped
  <2>2. inner = [i \in DOMAIN states |-> inner[i]]
    OBVIOUS
  <2> HIDE DEF inner, states
  <2>3. inner \in Seq(Seq(Regions)) /\ Len(inner) = Len(states) /\ Len(states) \in Nat
    BY <1>1, <2>1, <2>2, MappedTyped
  <2> QED BY <2>3
<1>3. NestedRegions(m.of) \in Seq(Regions)
  <2>1. NestedRegions(m.of) = Flatten(inner)
    BY DEF NestedRegions
  <2> HIDE DEF inner
  <2> QED BY <1>2, <2>1, FlattenTyped, ElementOfSeq
<1>4. all \in Seq(Regions)
  BY <1>0, <1>3, RegionOfTyped, ConcatProperties
<1>5. regions \in Seq(Regions) /\ ToSet(regions) \subseteq ActiveRegions(m)
  <2>1. regions = Keep(all, ActiveRegions(m))
    BY DEF OrderedActiveRegions
  <2> HIDE DEF regions, all
  <2> QED BY <1>4, <2>1, KeepKeeps
<1>6. at \in Seq(StateSet)
  <2> HIDE DEF regions
  <2>1. DOMAIN regions = 1..Len(regions)
    BY <1>5, LenProperties
  <2>2. \A i \in 1..Len(regions) : at[i] \in StateSet
    <3>1. \A i \in 1..Len(regions) : regions[i] \in ActiveRegions(m)
      BY <1>5, <2>1 DEF ToSet
    <3>2. \A r \in ActiveRegions(m) : m.regionStates[r] \in StateSet
      BY <1>0, AssignmentHas DEF ActiveRegions, Configurations
    <3> QED BY <2>1, <3>1, <3>2
  <2>3. at = [i \in DOMAIN regions |-> at[i]]
    OBVIOUS
  <2> HIDE DEF at
  <2> QED BY <1>5, <2>2, <2>3, MappedTyped
<1>7. OrderedRegionStates(m) = at
  BY DEF OrderedRegionStates
<1>8. ActiveStates(m) \in Seq(StateSet)
  <2>1. OrderedRegionStates(m) \in Seq(StateSet)
    BY <1>6, <1>7
  <2>2. m.simpleState # None => <<m.simpleState>> \in Seq(StateSet)
    BY <1>0, SingleTyped DEF Optional
  <2> QED BY <2>1, <2>2, EmptySeq DEF ActiveStates
<1> QED BY <1>5, <1>6, <1>7, <1>8

\* The active leaves are states.
LEMMA ActiveLeavesTyped ==
    ASSUME NEW m \in Machine
    PROVE  ActiveLeaves(m) \in Seq(StateSet)
<1> DEFINE S == {s \in ToSet(ActiveStates(m)) : ~EnclosesActiveRegion(m, s)}
           outer == Keep(ActiveStates(m), S)
<1>1. outer \in Seq(StateSet)
  BY OrderedRegionsTyped, KeepKeeps
<1>2. ASSUME NEW sorted \in Seq(StateSet), NEW i \in 1..Len(outer)
      PROVE  InsertByPath(sorted, outer[i]) \in Seq(StateSet)
  <2> DEFINE s == outer[i]
             before == Keep(sorted, {x \in ToSet(sorted) : ~LessPath(RegionPath[s], RegionPath[x])})
             after == Keep(sorted, {x \in ToSet(sorted) : LessPath(RegionPath[s], RegionPath[x])})
  <2>1. s \in StateSet
    BY <1>1, ElementOfSeq
  <2>2. before \in Seq(StateSet) /\ after \in Seq(StateSet) /\ <<s>> \in Seq(StateSet)
    BY <2>1, KeepKeeps, SingleTyped
  <2>3. InsertByPath(sorted, s) = before \o <<s>> \o after
    BY DEF InsertByPath
  <2> HIDE DEF before, after, s
  <2>4. before \o <<s>> \in Seq(StateSet)
    BY <2>2, ConcatProperties
  <2>5. (before \o <<s>>) \o after \in Seq(StateSet)
    BY <2>2, <2>4, ConcatProperties
  <2> QED BY <2>3, <2>5 DEF s
<1>3. Len(outer) \in Nat /\ <<>> \in Seq(StateSet)
  BY <1>1, LenProperties, EmptySeq
<1>4. ActiveLeaves(m) = Sorts!Over(<<>>, outer)
  BY DEF ActiveLeaves
<1> HIDE DEF outer
<1> QED BY <1>2, <1>3, <1>4, LoopsInduct, Sorts!LoopKeeps

\* The calls of an exit or entry can be counted.
LEMMA MaxCallsTyped ==
    ASSUME NEW m \in Machine
    PROVE  Len(MaxCalls(m)) \in Nat
<1>1. Graph.States[m.of] \in Seq(StateSet)
  BY MachineHas, RegionOfTyped
<1>2. Len(Graph.States[m.of]) \in Nat
  BY <1>1, LenProperties
<1> QED BY <1>2 DEF MaxCalls

\* The states in which a state's active regions are.
LEMMA InnerStatesTyped ==
    ASSUME NEW m \in Machine, NEW s \in StateSet, NEW S, S \subseteq ActiveRegions(m)
    PROVE  LET inner == Keep(Graph.CompositeStates[s], S)
           IN  [i \in DOMAIN inner |-> m.regionStates[inner[i]]] \in Seq(StateSet)
<1> DEFINE inner == Keep(Graph.CompositeStates[s], S)
           at == [i \in DOMAIN inner |-> m.regionStates[inner[i]]]
<1>1. Graph.CompositeStates[s] \in Seq(Regions)
  BY RegionOfTyped
<1>2. inner \in Seq(Regions) /\ ToSet(inner) \subseteq S
  BY <1>1, KeepKeeps
<1> HIDE DEF inner
<1>3. DOMAIN inner = 1..Len(inner)
  BY <1>2, LenProperties
<1>4. \A r \in ActiveRegions(m) : m.regionStates[r] \in StateSet
  BY MachineHas, AssignmentHas DEF ActiveRegions, Configurations
<1>5. \A i \in 1..Len(inner) : inner[i] \in ActiveRegions(m)
  BY <1>2, <1>3 DEF ToSet
<1>6. at = [i \in DOMAIN inner |-> at[i]] /\ \A i \in 1..Len(inner) : at[i] \in StateSet
  BY <1>3, <1>4, <1>5
<1> HIDE DEF at
<1>7. at \in Seq(StateSet)
  BY <1>2, <1>6, MappedTyped
<1> QED BY <1>7 DEF at, inner

\* The active leaves below a state are states.
LEMMA LeavesTyped ==
    ASSUME NEW m \in Machine, NEW s \in StateSet
    PROVE  ActiveLeavesBelow(m, s) \in Seq(StateSet)
<1> DEFINE V == [m : {m}, todo : Seq(StateSet), leaves : Seq(StateSet)]
           base == LeavesOf(m, <<s>>)
<1>1. base \in V
  BY SingleTyped, EmptySeq DEF LeavesOf
<1>2. ASSUME NEW acc \in V, NEW i \in 1..Len(MaxCalls(m))
      PROVE  NextLeaf(acc, MaxCalls(m)[i]) \in V
  <2> DEFINE h == Head(acc.todo)
             S == {r \in ActiveRegions(acc.m) : acc.m.regionStates[r] # h}
             inner == Keep(Graph.CompositeStates[h], S)
             at == [j \in DOMAIN inner |-> acc.m.regionStates[inner[j]]]
             found == [acc EXCEPT !.todo = Tail(@), !.leaves = Append(@, h)]
             deeper == [acc EXCEPT !.todo = at \o Tail(@)]
  <2>1. NextLeaf(acc, MaxCalls(m)[i]) = IF acc.todo = <<>> THEN acc
            ELSE IF Graph.CompositeStates[h] = <<>> THEN found ELSE deeper
    BY DEF NextLeaf
  <2>2. CASE acc.todo = <<>>
    BY <2>1, <2>2
  <2>3. CASE acc.todo # <<>>
    <3>1. h \in StateSet /\ Tail(acc.todo) \in Seq(StateSet)
      BY <2>3, HeadTyped
    <3>2. acc.m = m /\ S \subseteq ActiveRegions(m)
      OBVIOUS
    <3> HIDE DEF h, S
    <3>3. at \in Seq(StateSet)
      BY <3>1, <3>2, InnerStatesTyped
    <3> HIDE DEF at
    <3>4. at \o Tail(acc.todo) \in Seq(StateSet) /\ Append(acc.leaves, h) \in Seq(StateSet)
      BY <3>1, <3>3, ConcatProperties, AppendProperties
    <3>5. found \in V /\ deeper \in V
      BY <3>1, <3>4
    <3> QED BY <2>1, <3>5
  <2> QED BY <2>2, <2>3
<1> HIDE DEF V, base
<1>3. Leaves!Over(base, MaxCalls(m)) \in V
  BY <1>1, <1>2, MaxCallsTyped, LoopsInduct, Leaves!LoopKeeps
<1> QED BY <1>3 DEF ActiveLeavesBelow, V, base

\* The active region a state is in.
LEMMA ActiveRegionOfTyped ==
    ASSUME NEW m \in Machine, NEW s \in StateSet
    PROVE  /\ ActiveRegionOf(m, s) \in Optional(Regions)
           /\ ActiveRegionOf(m, s) # None => ActiveRegionOf(m, s) \in ActiveRegions(m)
<1> DEFINE S == {x \in Ancestry(s) : Graph.RegionOf[x] \in ActiveRegions(m)}
           a == First(ParentChain[s], S)
<1>1. a \in Optional(StateSet) /\ (a # None => a \in S)
  BY ChainTyped, NoneIsNothing, FirstFinds
<1>2. ActiveRegionOf(m, s) = IF a = None THEN None ELSE Graph.RegionOf[a]
  BY DEF ActiveRegionOf
<1>3. ActiveRegions(m) \subseteq Regions
  BY MachineHas, AssignmentHas DEF ActiveRegions, Configurations
<1> HIDE DEF a
<1> QED BY <1>1, <1>2, <1>3 DEF Optional

\* The state that owns the active regions.
LEMMA ActiveCompositeOwnerTyped ==
    ASSUME NEW m \in Machine
    PROVE  ActiveCompositeOwner(m) \in Optional(StateSet)
<1>1. Graph.States[m.of] \in Seq(StateSet)
  BY MachineHas, RegionOfTyped
<1> QED BY <1>1, NoneIsNothing, FirstFinds DEF ActiveCompositeOwner

\* Setting or clearing the state of a region is quiet.
LEMMA WithRegionQuiet ==
    ASSUME NEW m \in Machine
    PROVE  /\ \A r \in Regions : \A s \in StateSet : WithRegion(m, r, s) \in Quiet(m)
           /\ \A r : WithoutRegion(m, r) \in Quiet(m)
<1>0. m \in MachineRecords /\ m.regionStates \in Configurations
  BY MachineHas
<1>1. ASSUME NEW r \in Regions, NEW s \in StateSet
      PROVE  WithRegion(m, r, s) \in Quiet(m)
  <2> DEFINE c == Put(m.regionStates, r, s)
  <2>1. c \in Configurations
    BY <1>0, AssignmentOps DEF Configurations
  <2> HIDE DEF c
  <2>2. [m EXCEPT !.regionStates = c] \in MachineRecords
    BY <1>0, <2>1 DEF MachineRecords
  <2>3. [m EXCEPT !.regionStates = c] \in Quiet(m)
    BY <1>0, <2>2, TouchesNone DEF MachineRecords
  <2> QED BY <2>3 DEF WithRegion, c
<1>2. ASSUME NEW r
      PROVE  WithoutRegion(m, r) \in Quiet(m)
  <2> DEFINE c == Restrict(m.regionStates, DOMAIN m.regionStates \ {r})
  <2>1. c \in Configurations
    BY <1>0, AssignmentOps DEF Configurations
  <2> HIDE DEF c
  <2>2. [m EXCEPT !.regionStates = c] \in MachineRecords
    BY <1>0, <2>1 DEF MachineRecords
  <2>3. [m EXCEPT !.regionStates = c] \in Quiet(m)
    BY <1>0, <2>2, TouchesNone DEF MachineRecords
  <2> QED BY <2>3 DEF WithoutRegion, c
<1> QED BY <1>1, <1>2

\* Abandoning a do behavior is quiet.
LEMMA StopQuiet ==
    ASSUME NEW m \in Machine, NEW s
    PROVE  StopDoAction(m, s) \in Quiet(m)
<1> DEFINE at == {i \in DOMAIN m.doActions : m.doActions[i].state # s}
           kept == KeepAt(m.doActions, at)
<1>0. m \in MachineRecords
  BY MachineHas
<1>1. kept \in Seq(DoActions)
  BY MachineHas, KeepAtSelects
<1>2. StopDoAction(m, s) = [m EXCEPT !.doActions = kept]
  BY DEF StopDoAction
<1> HIDE DEF kept
<1>3. [m EXCEPT !.doActions = kept] \in MachineRecords
  BY <1>0, <1>1 DEF MachineRecords
<1> QED BY <1>0, <1>2, <1>3, TouchesNone DEF MachineRecords

\* Starting a do behavior is quiet.
LEMMA StartQuiet ==
    ASSUME NEW m \in Machine, NEW s \in StateSet
    PROVE  StartDoAction(m, s) \in Quiet(m)
<1>1. CASE Graph.Do[s] = <<>>
  BY <1>1, QuietReflexive DEF StartDoAction
<1>2. CASE Graph.Do[s] # <<>>
  <2> DEFINE n == StopDoAction(m, s)
             a == [state |-> s, pending |-> Graph.Do[s]]
             more == Append(n.doActions, a)
  <2>1. n \in Quiet(m) /\ n \in Machine
    BY StopQuiet DEF Quiet
  <2>2. StartDoAction(m, s) = [n EXCEPT !.doActions = more]
    BY <1>2 DEF StartDoAction
  <2>3. a \in DoActions
    BY <1>2, RegionOfTyped DEF DoActions
  <2> HIDE DEF n, a
  <2>4. n \in MachineRecords /\ more \in Seq(DoActions)
    BY <2>1, <2>3, MachineHas, AppendProperties
  <2> HIDE DEF more
  <2>5. [n EXCEPT !.doActions = more] \in MachineRecords
    BY <2>4 DEF MachineRecords
  <2>6. [n EXCEPT !.doActions = more] \in Quiet(n)
    BY <2>1, <2>4, <2>5, TouchesNone DEF MachineRecords
  <2> QED BY <2>1, <2>2, <2>6, QuietTransitive
<1> QED BY <1>1, <1>2

\* An event numbered with the next number keeps the queue sound.
LEMMA PushSound ==
    ASSUME NEW m \in Machine, NEW kind \in Kinds, NEW what \in Triggers \cup Transitions,
           NEW time \in Int, time >= m.currentTime \/ (kind = "timer" /\ Recedes(what)),
           kind \in {"signal", "call"} => time = m.currentTime,
           kind \notin {"signal", "call"} => what \in Transitions
    PROVE  Push(m, kind, what, time) \in Machine
<1> DEFINE e == [id |-> m.nextEventID, kind |-> kind, what |-> what, time |-> time]
           q == m.eventQueue \cup {e}
           n == [m EXCEPT !.eventQueue = q, !.nextEventID = @ + 1]
<1>0. m \in MachineRecords /\ Sound(m) /\ m.nextEventID \in Nat /\ m.eventQueue \in SUBSET Events
      /\ m.currentTime \in Int
  BY MachineHas
<1>1. e \in Events /\ e.id = m.nextEventID /\ e.time = time
      /\ (IsPoolEvent(e) => e.time = m.currentTime)
      /\ (e.time >= m.currentTime \/ RunsBack(e))
  BY <1>0 DEF Events, IsPoolEvent, RunsBack
<1>2. Push(m, kind, what, time) = n
  BY DEF Push
<1> HIDE DEF e
<1>3. q \in SUBSET Events
  BY <1>0, <1>1
<1>4. n \in MachineRecords /\ n.eventQueue = q /\ n.nextEventID = m.nextEventID + 1
      /\ n.deferred = m.deferred /\ n.currentTime = m.currentTime
  <2> DEFINE next == m.nextEventID + 1
  <2>1. next \in Nat /\ n = [m EXCEPT !.eventQueue = q, !.nextEventID = next]
    BY <1>0 DEF MachineRecords
  <2> HIDE DEF q, n, next
  <2>2. n \in MachineRecords /\ n.eventQueue = q /\ n.nextEventID = next
        /\ n.deferred = m.deferred /\ n.currentTime = m.currentTime
    BY <1>0, <1>3, <2>1 DEF MachineRecords
  <2> QED BY <2>2 DEF next
<1> HIDE DEF n
<1>5. \A f \in m.eventQueue : f.id \in Nat /\ f.id < m.nextEventID
  BY <1>0 DEF Events, Sound
<1>6. \A i \in 1..Len(m.deferred) : m.deferred[i].id \in Nat /\ m.deferred[i].id < m.nextEventID
  <2>1. \A i \in 1..Len(m.deferred) : m.deferred[i] \in Events
    BY MachineHas, ElementOfSeq
  <2> QED BY <1>0, <2>1 DEF Sound, Events
<1>7. Sound(n)
  <2>1. \A x \in q : x.id < n.nextEventID
    BY <1>0, <1>1, <1>4, <1>5 DEF Sound
  <2>5. Timely(q, n.currentTime)
    BY <1>0, <1>1, <1>4, TimelySteps DEF Sound
  <2>2. \A x, y \in q : x.id = y.id => x = y
    BY <1>0, <1>1, <1>5 DEF Sound
  <2>3. \A i \in 1..Len(n.deferred) :
            /\ n.deferred[i].id < n.nextEventID /\ IsPoolEvent(n.deferred[i])
            /\ \A x \in q : x.id # n.deferred[i].id
    BY <1>0, <1>1, <1>4, <1>6 DEF Sound
  <2>4. \A i, j \in 1..Len(n.deferred) : n.deferred[i].id = n.deferred[j].id => i = j
    BY <1>0, <1>4 DEF Sound
  <2> QED BY <1>4, <2>1, <2>2, <2>3, <2>4, <2>5 DEF Sound
<1> QED BY <1>2, <1>4, <1>7 DEF Machine

\* An event a machine schedules for itself is not one of the pool.
LEMMA PushQuiet ==
    ASSUME NEW m \in Machine, NEW kind \in {"completion", "timer"}, NEW t \in Transitions,
           NEW time \in Int, time >= m.currentTime \/ (kind = "timer" /\ Recedes(t))
    PROVE  Push(m, kind, t, time) \in Quiet(m)
<1> DEFINE e == [id |-> m.nextEventID, kind |-> kind, what |-> t, time |-> time]
           n == Push(m, kind, t, time)
<1>1. n \in Machine
  BY PushSound DEF Kinds
<1>2. ~IsPoolEvent(e)
  BY DEF IsPoolEvent
<1>3. m \in MachineRecords /\ m.nextEventID \in Nat
  BY MachineHas
<1>4. /\ n.eventQueue = m.eventQueue \cup {e} /\ n.nextEventID = m.nextEventID + 1
      /\ n.of = m.of /\ n.currentTime = m.currentTime /\ n.deferred = m.deferred
      /\ n.state = m.state /\ n.taken = m.taken
  <2> DEFINE q == m.eventQueue \cup {e}
             next == m.nextEventID + 1
  <2>1. n = [m EXCEPT !.eventQueue = q, !.nextEventID = next]
    BY <1>3 DEF Push, MachineRecords
  <2> HIDE DEF n, q, next
  <2>2. /\ n.eventQueue = q /\ n.nextEventID = next
        /\ n.of = m.of /\ n.currentTime = m.currentTime /\ n.deferred = m.deferred
        /\ n.state = m.state /\ n.taken = m.taken
    BY <1>3, <2>1 DEF MachineRecords
  <2> QED BY <2>2 DEF q, next
<1>8. e.id >= m.nextEventID
  BY <1>3
<1> HIDE DEF n, e
<1>5. PoolOf(n.eventQueue) = PoolOf(m.eventQueue)
  BY <1>2, <1>4 DEF PoolOf
<1>6. Follows(m, n)
  BY <1>3, <1>4, <1>5, <1>8 DEF Follows
<1>7. n \in Quiet(m)
  BY <1>1, <1>4, <1>6 DEF Quiet
<1> QED BY <1>7 DEF n

\* scheduleCompletionTransitions is quiet: what it queues is not of the pool.
LEMMA CompletionsQuiet ==
    ASSUME NEW m \in Machine, NEW s \in StateSet
    PROVE  ScheduleCompletionTransitions(m, s) \in Quiet(m)
<1> DEFINE S == {t \in ToSet(Graph.Transitions[s]) : On(t).kind = "none" /\ PassesGuard(m, t)}
           own == Keep(Graph.Transitions[s], S)
<1>1. own \in Seq(Transitions)
  BY TransitionsOf, KeepKeeps
<1>2. ScheduleCompletionTransitions(m, s) =
          IF HasRunningDoAction(m, s) THEN m ELSE Completions!Over(m, own)
  BY DEF ScheduleCompletionTransitions
<1>3. m \in Quiet(m) /\ Len(own) \in Nat
  BY <1>1, QuietReflexive, LenProperties
<1>4. ASSUME NEW v \in Quiet(m), NEW i \in 1..Len(own)
      PROVE  QueueCompletion(v, own[i]) \in Quiet(m)
  <2>1. v \in Machine /\ own[i] \in Transitions
    BY <1>1, ElementOfSeq DEF Quiet
  <2>2. v.currentTime \in Int
    BY <2>1, MachineHas
  <2>3. QueueCompletion(v, own[i]) \in Quiet(v)
    BY <2>1, <2>2, PushQuiet DEF QueueCompletion
  <2> QED BY <2>1, <2>3, QuietTransitive
<1> HIDE DEF own
<1>5. Completions!Over(m, own) \in Quiet(m)
  BY <1>3, <1>4, LoopsInduct, Completions!LoopKeeps
<1> QED BY <1>2, <1>3, <1>5

\* scheduleTimeTransitions is quiet: what it queues is due now or later, or is the
\* timer of a negative duration.
LEMMA TimersQuiet ==
    ASSUME NEW m \in Machine, NEW s \in StateSet
    PROVE  ScheduleTimeTransitions(m, s) \in Quiet(m)
<1> DEFINE own == Keep(Graph.Transitions[s], TimeTriggered(s) \ m.timerScheduled)
<1>1. /\ own \in Seq(Transitions)
      /\ ToSet(own) = ToSet(Graph.Transitions[s]) \cap (TimeTriggered(s) \ m.timerScheduled)
  BY TransitionsOf, KeepKeeps
<1>2. ScheduleTimeTransitions(m, s) = Timers!Over(m, own)
  BY DEF ScheduleTimeTransitions
<1>3. m \in Quiet(m) /\ Len(own) \in Nat /\ DOMAIN own = 1..Len(own)
  BY <1>1, QuietReflexive, LenProperties
<1>4. ASSUME NEW v \in Quiet(m), NEW i \in 1..Len(own)
      PROVE  StartTimer(v, own[i]) \in Quiet(m)
  <2> DEFINE t == own[i]
             time == DueTime(v, On(t))
             n == Push(v, "timer", t, time)
             timers == n.timerScheduled \cup {t}
             k == [n EXCEPT !.timerScheduled = timers]
  <2>1. v \in Machine /\ t \in Transitions /\ t \in TimeTriggered(s)
    <3>1. t \in ToSet(own)
      BY <1>3 DEF ToSet
    <3> QED BY <1>1, <3>1, ElementOfSeq DEF Quiet
  <2>2. v.currentTime \in Int
    BY <2>1, MachineHas
  <2>3. time \in Int /\ (time >= v.currentTime \/ Recedes(t))
    <3>1. On(t).kind \in {"after", "at"} /\ On(t).delay \in Int
      BY <2>1, GraphAssumption DEF TimeTriggered, TransitionsAreTyped
    <3> QED BY <2>2, <3>1 DEF DueTime, Recedes
  <2> HIDE DEF time, t
  <2>4. n \in Quiet(v) /\ n \in Machine
    BY <2>1, <2>3, PushQuiet DEF Quiet
  <2>5. StartTimer(v, t) = k
    BY DEF StartTimer, time
  <2> HIDE DEF n
  <2>6. n \in MachineRecords /\ timers \in SUBSET Transitions
    BY <2>1, <2>4, MachineHas
  <2> HIDE DEF timers
  <2>7. k \in MachineRecords
    BY <2>6 DEF MachineRecords
  <2>8. k \in Quiet(n)
    BY <2>4, <2>6, <2>7, TouchesNone DEF MachineRecords
  <2>9. k \in Quiet(v)
    BY <2>1, <2>4, <2>8, QuietTransitive
  <2> QED BY <2>5, <2>9, QuietTransitive DEF t
<1> HIDE DEF own
<1>5. Timers!Over(m, own) \in Quiet(m)
  BY <1>3, <1>4, LoopsInduct, Timers!LoopKeeps
<1> QED BY <1>2, <1>5

\* Scheduling what leaves some states is quiet.
LEMMA ScheduleQuiet ==
    ASSUME NEW m \in Machine, NEW leaves \in Seq(StateSet)
    PROVE  ScheduleLeaves(m, leaves) \in Quiet(m)
<1>1. ASSUME NEW v \in Machine, NEW leaf \in StateSet
      PROVE  ScheduleFromLeaf(v, leaf) \in Quiet(v)
  <2> DEFINE n == ScheduleCompletionTransitions(v, leaf)
             chain == ParentChain[leaf]
  <2>1. n \in Quiet(v) /\ n \in Machine /\ chain \in Seq(StateSet) /\ Len(chain) \in Nat
    BY CompletionsQuiet, ChainTyped, LenProperties DEF Quiet
  <2>2. ASSUME NEW k \in Quiet(v), NEW i \in 1..Len(chain)
        PROVE  ScheduleTimeTransitions(k, chain[i]) \in Quiet(v)
    <3>1. k \in Machine /\ chain[i] \in StateSet
      BY <2>1, ElementOfSeq DEF Quiet
    <3> QED BY <3>1, TimersQuiet, QuietTransitive
  <2>3. ScheduleFromLeaf(v, leaf) = TimersAround!Over(n, chain)
    BY DEF ScheduleFromLeaf
  <2> HIDE DEF n, chain
  <2> QED BY <2>1, <2>2, <2>3, LoopsInduct, TimersAround!LoopKeeps
<1>2. m \in Quiet(m) /\ Len(leaves) \in Nat
  BY QuietReflexive, LenProperties
<1>3. ASSUME NEW v \in Quiet(m), NEW i \in 1..Len(leaves)
      PROVE  ScheduleFromLeaf(v, leaves[i]) \in Quiet(m)
  <2>1. v \in Machine /\ leaves[i] \in StateSet
    BY ElementOfSeq DEF Quiet
  <2> QED BY <1>1, <2>1, QuietTransitive
<1> QED BY <1>2, <1>3, LoopsInduct, LeafSchedules!LoopKeeps DEF ScheduleLeaves

\* Scheduling what leaves the active states is quiet.
LEMMA ScheduleActiveQuiet ==
    ASSUME NEW m \in Machine
    PROVE  ScheduleActive(m) \in Quiet(m)
BY ActiveLeavesTyped, ScheduleQuiet DEF ScheduleActive

---------------------------------------------------------------------------
(* Leaving and entering states.                                            *)

\* No region need be active.
LEMMA EmptyConfiguration ==
    <<>> \in Configurations
<1>1. <<>> \in [{} -> StateSet]
  OBVIOUS
<1> QED BY <1>1, AssignmentMade DEF Configurations

\* Writing to the history is quiet, and leaves the configuration alone.
LEMMA HistoryOps ==
    ASSUME NEW m \in Machine
    PROVE  /\ \A s : HistoryOf(m, s) \in Recorded
           /\ \A s \in StateSet : \A record \in Recorded :
                 /\ Record(m, s, record) \in Quiet(m)
                 /\ Record(m, s, record).regionStates = m.regionStates
<1>0. m \in MachineRecords /\ m.history \in Assignments(StateSet, Recorded)
  BY MachineHas
<1>1. ASSUME NEW s PROVE HistoryOf(m, s) \in Recorded
  <2>1. Unrecorded \in Recorded
    BY EmptyConfiguration DEF Unrecorded, Recorded, Optional
  <2> QED BY <1>0, <2>1, AssignmentHas DEF HistoryOf
<1>2. ASSUME NEW s \in StateSet, NEW record \in Recorded
      PROVE  /\ Record(m, s, record) \in Quiet(m)
             /\ Record(m, s, record).regionStates = m.regionStates
  <2> DEFINE h == Put(m.history, s, record)
             n == [m EXCEPT !.history = h]
  <2>1. h \in Assignments(StateSet, Recorded)
    BY <1>0, AssignmentOps
  <2>2. Record(m, s, record) = n
    BY DEF Record
  <2> HIDE DEF h
  <2>3. n \in MachineRecords
    BY <1>0, <2>1 DEF MachineRecords
  <2>4. n \in Quiet(m)
    BY <1>0, <2>3, TouchesNone DEF MachineRecords
  <2>5. n.regionStates = m.regionStates
    BY <1>0 DEF MachineRecords
  <2> HIDE DEF n
  <2> QED BY <2>2, <2>4, <2>5
<1> QED BY <1>1, <1>2

\* Recording or forgetting the state of a region is quiet.
LEMMA RecordQuiet ==
    ASSUME NEW m \in Machine, NEW r \in Regions
    PROVE  /\ \A s \in StateSet : /\ RecordRegion(m, r, s) \in Quiet(m)
                                  /\ RecordRegion(m, r, s).regionStates = m.regionStates
           /\ ForgetRegion(m, r) \in Quiet(m)
<1> DEFINE owner == Graph.RegionOwner[r]
<1>0. owner \in Optional(StateSet) /\ m \in Quiet(m)
  BY RegionOfTyped, QuietReflexive
<1>1. ASSUME NEW s \in StateSet
      PROVE  /\ RecordRegion(m, r, s) \in Quiet(m)
             /\ RecordRegion(m, r, s).regionStates = m.regionStates
  <2> DEFINE old == HistoryOf(m, owner)
             regions == Put(old.regions, r, s)
             record == [old EXCEPT !.regions = regions]
  <2>1. RecordRegion(m, r, s) = IF owner = None THEN m ELSE Record(m, owner, record)
    BY DEF RecordRegion
  <2>2. old \in Recorded
    BY HistoryOps
  <2> HIDE DEF old
  <2>3. regions \in Configurations
    BY <2>2, AssignmentOps DEF Configurations, Recorded
  <2> HIDE DEF regions
  <2>4. record \in Recorded
    BY <2>2, <2>3 DEF Recorded
  <2> HIDE DEF record, owner
  <2> QED BY <1>0, <2>1, <2>4, HistoryOps DEF Optional
<1>2. ForgetRegion(m, r) \in Quiet(m)
  <2> DEFINE old == m.history[owner]
             regions == Restrict(old.regions, DOMAIN old.regions \ {r})
             record == [old EXCEPT !.regions = regions]
  <2>1. ForgetRegion(m, r) = IF owner \notin DOMAIN m.history THEN m ELSE Record(m, owner, record)
    BY DEF ForgetRegion
  <2>2. CASE owner \in DOMAIN m.history
    <3>1. old \in Recorded /\ owner \in StateSet
      BY <2>2, MachineHas, AssignmentHas
    <3> HIDE DEF old
    <3>2. regions \in Configurations
      BY <3>1, AssignmentOps DEF Configurations, Recorded
    <3> HIDE DEF regions
    <3>3. record \in Recorded
      BY <3>1, <3>2 DEF Recorded
    <3> HIDE DEF record, owner
    <3> QED BY <2>1, <2>2, <3>1, <3>3, HistoryOps
  <2> QED BY <1>0, <2>1, <2>2
<1> QED BY <1>1, <1>2

\* Recording the state an active region is in is quiet.
LEMMA RecordActiveQuiet ==
    ASSUME NEW m \in Machine, NEW r \in ActiveRegions(m)
    PROVE  RecordActive(m, r) \in Quiet(m) /\ RecordActive(m, r).regionStates = m.regionStates
<1>1. r \in Regions /\ m.regionStates[r] \in StateSet
  BY MachineHas, AssignmentHas DEF ActiveRegions, Configurations
<1> QED BY <1>1, RecordQuiet DEF RecordActive

\* Recording which child of its parent a state was is quiet.
LEMMA RecordChildQuiet ==
    ASSUME NEW m \in Machine, NEW s \in StateSet
    PROVE  RecordChild(m, s) \in Quiet(m)
<1> DEFINE parent == Graph.ParentState[s]
           old == HistoryOf(m, parent)
           record == [old EXCEPT !.child = s]
<1>1. RecordChild(m, s) = IF parent = None THEN m ELSE Record(m, parent, record)
  BY DEF RecordChild
<1>2. parent \in Optional(StateSet) /\ m \in Quiet(m) /\ old \in Recorded
  BY RegionOfTyped, QuietReflexive, HistoryOps
<1> HIDE DEF old
<1>3. record \in Recorded
  BY <1>2 DEF Recorded, Optional
<1> HIDE DEF record, parent
<1> QED BY <1>1, <1>2, <1>3, HistoryOps DEF Optional

\* The active regions a state owns.
LEMMA OwnRegionsTyped ==
    ASSUME NEW m, NEW s \in StateSet
    PROVE  /\ OwnActiveRegions(m, s) \in Seq(Regions)
           /\ ToSet(OwnActiveRegions(m, s)) \subseteq ActiveRegions(m)
           /\ Len(OwnActiveRegions(m, s)) \in Nat
           /\ \A i \in 1..Len(OwnActiveRegions(m, s)) : OwnActiveRegions(m, s)[i] \in ActiveRegions(m)
<1> DEFINE own == OwnActiveRegions(m, s)
<1>1. Graph.CompositeStates[s] \in Seq(Regions)
  BY RegionOfTyped
<1>2. own \in Seq(Regions) /\ ToSet(own) \subseteq ActiveRegions(m)
  BY <1>1, KeepKeeps DEF OwnActiveRegions
<1> HIDE DEF own
<1>3. Len(own) \in Nat /\ DOMAIN own = 1..Len(own)
  BY <1>2, LenProperties
<1>4. \A i \in 1..Len(own) : own[i] \in ActiveRegions(m)
  BY <1>2, <1>3 DEF ToSet
<1> QED BY <1>2, <1>3, <1>4 DEF own

\* Withdrawing the events of some transitions takes nothing from the pool.
LEMMA WithdrawQuiet ==
    ASSUME NEW m \in Machine, NEW T, NEW D
    PROVE  [m EXCEPT !.timerScheduled = @ \ T, !.eventQueue = Withdraw(@, D)] \in Quiet(m)
<1> DEFINE timers == m.timerScheduled \ T
           q == Withdraw(m.eventQueue, D)
           n == [m EXCEPT !.timerScheduled = timers, !.eventQueue = q]
<1>0. m \in MachineRecords /\ Sound(m) /\ m.nextEventID \in Nat
  BY MachineHas
<1>1. timers \in SUBSET Transitions /\ q \in SUBSET Events /\ q \subseteq m.eventQueue
  BY MachineHas DEF Withdraw
<1>2. PoolOf(q) = PoolOf(m.eventQueue)
  BY DEF Withdraw, PoolOf
<1>3. n = [m EXCEPT !.timerScheduled = @ \ T, !.eventQueue = Withdraw(@, D)]
  BY <1>0 DEF MachineRecords
<1> HIDE DEF timers, q
<1>4. /\ n \in MachineRecords /\ n.eventQueue = q /\ n.nextEventID = m.nextEventID
      /\ n.deferred = m.deferred /\ n.currentTime = m.currentTime
      /\ n.of = m.of /\ n.state = m.state /\ n.taken = m.taken
  BY <1>0, <1>1 DEF MachineRecords
<1> HIDE DEF n
<1>5. Sound(n)
  <2>1. m.eventQueue \in SUBSET Events /\ m.currentTime \in Int
    BY MachineHas
  <2>2. Timely(q, m.currentTime)
    BY <1>0, <1>1, <2>1, TimelySteps DEF Sound
  <2> QED BY <1>0, <1>1, <1>4, <2>2 DEF Sound
<1>6. Follows(m, n)
  BY <1>0, <1>1, <1>2, <1>4 DEF Follows
<1> QED BY <1>3, <1>4, <1>5, <1>6 DEF Quiet, Machine

\* exitState before its regions are left: it is quiet.
LEMMA BeginExitQuiet ==
    ASSUME NEW m \in Machine, NEW s \in StateSet
    PROVE  BeginExit(m, s) \in Quiet(m)
<1> DEFINE untimed == [m EXCEPT !.timerScheduled = @ \ ToSet(Graph.Transitions[s]),
                                !.eventQueue = Withdraw(@, TimeTriggered(s))]
           own == OwnActiveRegions(m, s)
           V == {v \in Quiet(m) : v.regionStates = m.regionStates}
           recorded == Records!Over(untimed, own)
<1>1. untimed \in V
  <2>1. untimed \in Quiet(m)
    BY WithdrawQuiet
  <2>2. m \in MachineRecords
    BY MachineHas
  <2>3. untimed.regionStates = m.regionStates
    BY <2>2 DEF MachineRecords
  <2> QED BY <2>1, <2>3
<1>2. Len(own) \in Nat /\ \A i \in 1..Len(own) : own[i] \in ActiveRegions(m)
  BY OwnRegionsTyped
<1>3. ASSUME NEW v \in V, NEW i \in 1..Len(own)
      PROVE  RecordActive(v, own[i]) \in V
  <2>1. v \in Machine /\ own[i] \in ActiveRegions(v)
    BY <1>2 DEF Quiet, ActiveRegions
  <2> HIDE DEF own
  <2>2. /\ RecordActive(v, own[i]) \in Quiet(v)
        /\ RecordActive(v, own[i]).regionStates = v.regionStates
    BY <2>1, RecordActiveQuiet
  <2> QED BY <2>1, <2>2, QuietTransitive
<1>4. BeginExit(m, s) = RecordChild(recorded, s)
  BY DEF BeginExit
<1> HIDE DEF untimed, own, V
<1>5. recorded \in V
  BY <1>1, <1>2, <1>3, LoopsInduct, Records!LoopKeeps
<1> HIDE DEF recorded
<1>6. recorded \in Quiet(m) /\ recorded \in Machine
  BY <1>5 DEF V, Quiet
<1> QED BY <1>4, <1>6, RecordChildQuiet, QuietTransitive

\* Counting an entry or an exit.
LEMMA CountsMove ==
    ASSUME NEW c \in Assignments(StateSet, Int), NEW s
    PROVE  /\ [c EXCEPT ![s] = @ - 1] \in Assignments(StateSet, Int)
           /\ [c EXCEPT ![s] = @ + 1] \in Assignments(StateSet, Int)
<1>1. DOMAIN c \subseteq StateSet /\ c \in [DOMAIN c -> Int]
  BY AssignmentHas
<1>2. [c EXCEPT ![s] = @ - 1] \in [DOMAIN c -> Int] /\ [c EXCEPT ![s] = @ + 1] \in [DOMAIN c -> Int]
  <2> DEFINE D == DOMAIN c
  <2>1. c \in [D -> Int]
    BY <1>1
  <2> HIDE DEF D
  <2>2. CASE s \in D
    <3>1. c[s] - 1 \in Int /\ c[s] + 1 \in Int
      BY <2>1, <2>2
    <3>2. [c EXCEPT ![s] = @ - 1] \in [D -> Int] /\ [c EXCEPT ![s] = @ + 1] \in [D -> Int]
      BY <2>1, <3>1
    <3> QED BY <3>2 DEF D
  <2>3. CASE s \notin D
    <3>1. [c EXCEPT ![s] = @ - 1] = c /\ [c EXCEPT ![s] = @ + 1] = c
      BY <2>1, <2>3
    <3> QED BY <1>1, <3>1
  <2> QED BY <2>2, <2>3
<1> QED BY <1>1, <1>2, AssignmentMade

\* exitState once its regions are left: the exit behavior and the withdrawal of its
\* timers are quiet.
LEMMA EndExitQuiet ==
    ASSUME NEW m \in Machine, NEW s \in StateSet
    PROVE  EndExit(m, s) \in Quiet(m)
<1> DEFINE stopped == StopDoAction(m, s)
           done == ExecuteBehaviors(stopped, Graph.Exit[s])
           counts == [done.open EXCEPT ![s] = @ - 1]
           left == done.exited \cup {s}
           n == [done EXCEPT !.simpleState = None, !.open = counts, !.exited = left]
<1>1. stopped \in Quiet(m) /\ stopped \in Machine
  BY StopQuiet DEF Quiet
<1>2. done \in Quiet(stopped) /\ done \in Machine /\ done \in Quiet(m)
  BY <1>1, RegionOfTyped, ExecuteQuiet, QuietTransitive DEF Quiet
<1>3. EndExit(m, s) = n
  <2>1. done \in MachineRecords
    BY <1>2, MachineHas
  <2> HIDE DEF done
  <2>2. n = [done EXCEPT !.simpleState = None, !.open[s] = @ - 1, !.exited = @ \cup {s}]
    BY <2>1 DEF MachineRecords
  <2> QED BY <2>2 DEF EndExit, done
<1> HIDE DEF done
<1>4. done \in MachineRecords /\ counts \in Assignments(StateSet, Int) /\ left \in SUBSET StateSet
  BY <1>2, MachineHas, CountsMove
<1> HIDE DEF counts, left
<1>5. n \in MachineRecords
  BY <1>4 DEF MachineRecords, Optional
<1>6. n \in Quiet(done)
  BY <1>2, <1>4, <1>5, TouchesNone DEF MachineRecords
<1> QED BY <1>2, <1>3, <1>6, QuietTransitive

ExitCalls ==
    [to : {"exit", "end"}, of : StateSet, at : {None}]
        \cup [to : {"put"}, of : Regions, at : Optional(StateSet)]
EntryCalls ==
    [to : {"enter", "end"}, of : StateSet, at : {None}]
        \cup [to : {"put"}, of : Regions, at : StateSet]

\* A call for each of some states.
LEMMA CallEachTyped ==
    ASSUME NEW states \in Seq(StateSet)
    PROVE  /\ CallEach("exit", states) \in Seq(ExitCalls)
           /\ CallEach("enter", states) \in Seq(EntryCalls)
<1>1. \A i \in 1..Len(states) : states[i] \in StateSet
  BY ElementOfSeq
<1>2. DOMAIN states = 1..Len(states)
  BY LenProperties
<1>3. ASSUME NEW to, NEW C, \A s \in StateSet : Call(to, s) \in C
      PROVE  CallEach(to, states) \in Seq(C)
  <2> DEFINE f == CallEach(to, states)
  <2>1. f = [i \in DOMAIN states |-> Call(to, states[i])]
    BY DEF CallEach
  <2> HIDE DEF f
  <2>2. f = [i \in DOMAIN states |-> f[i]] /\ \A i \in 1..Len(states) : f[i] \in C
    BY <1>1, <1>2, <1>3, <2>1
  <2> QED BY <2>2, MappedTyped DEF f
<1>4. \A s \in StateSet : Call("exit", s) \in ExitCalls /\ Call("enter", s) \in EntryCalls
  BY DEF Call, ExitCalls, EntryCalls
<1> QED BY <1>3, <1>4

\* The calls that leave the regions of a state.
LEMMA ExitRegionCallsTyped ==
    ASSUME NEW m \in Machine, NEW s \in StateSet
    PROVE  ExitRegionCalls(m, s) \in Seq(ExitCalls)
<1> DEFINE own == OwnActiveRegions(m, s)
           Calls(r) == <<PutIn(r, None)>> \o CallEach("exit", UpTo(m.regionStates[r], s))
           seqs == [i \in DOMAIN own |-> Calls(own[i])]
<1>1. own \in Seq(Regions) /\ \A i \in 1..Len(own) : own[i] \in ActiveRegions(m)
  BY OwnRegionsTyped
<1>2. ASSUME NEW r \in ActiveRegions(m) PROVE Calls(r) \in Seq(ExitCalls)
  <2>1. r \in Regions /\ m.regionStates[r] \in Optional(StateSet)
    BY MachineHas, AssignmentHas DEF ActiveRegions, Configurations, Optional
  <2>2. PutIn(r, None) \in ExitCalls
    BY <2>1 DEF PutIn, ExitCalls, Optional
  <2>3. <<PutIn(r, None)>> \in Seq(ExitCalls)
    BY <2>2, SingleTyped
  <2>4. CallEach("exit", UpTo(m.regionStates[r], s)) \in Seq(ExitCalls)
    BY <2>1, UpToTyped, CallEachTyped
  <2> QED BY <2>3, <2>4, ConcatProperties
<1>3. ExitRegionCalls(m, s) = Flatten(seqs)
  BY DEF ExitRegionCalls
<1> HIDE DEF own, Calls
<1>4. DOMAIN own = 1..Len(own) /\ Len(own) \in Nat
  BY <1>1, LenProperties
<1>5. seqs = [i \in DOMAIN own |-> seqs[i]] /\ \A i \in 1..Len(own) : seqs[i] \in Seq(ExitCalls)
  BY <1>1, <1>2, <1>4
<1> HIDE DEF seqs
<1>6. Len(seqs) = Len(own)
  BY <1>1, <1>5, MappedTyped
<1> QED BY <1>3, <1>4, <1>5, <1>6, FlattenTyped

\* Leaving states, with all that is below them, is quiet.
LEMMA ExitAllQuiet ==
    ASSUME NEW m \in Machine, NEW leaving \in Seq(StateSet)
    PROVE  ExitAll(m, leaving) \in Quiet(m)
<1> DEFINE V == [m : Quiet(m), todo : Seq(ExitCalls)]
           base == [m |-> m, todo |-> CallEach("exit", leaving)]
<1>1. base \in V
  BY QuietReflexive, CallEachTyped
<1>2. ASSUME NEW acc \in V, NEW i
      PROVE  NextExit(acc, i) \in V
  <2> DEFINE c == Head(acc.todo)
             rest == Tail(acc.todo)
  <2>1. NextExit(acc, i) = IF acc.todo = <<>> THEN acc ELSE MakeExitCall(acc.m, c, rest)
    BY DEF NextExit
  <2>2. CASE acc.todo # <<>>
    <3>1. c \in ExitCalls /\ rest \in Seq(ExitCalls)
      BY <2>2, HeadTyped
    <3>2. acc.m \in Quiet(m) /\ acc.m \in Machine
      BY DEF Quiet
    <3> HIDE DEF c, rest
    <3>3. ASSUME NEW n \in Quiet(acc.m), NEW todo \in Seq(ExitCalls)
          PROVE  [m |-> n, todo |-> todo] \in V
      BY <3>2, <3>3, QuietTransitive
    <3>4. CASE c.to = "exit"
      <4> DEFINE todo == ExitRegionCalls(acc.m, c.of) \o <<Call("end", c.of)>> \o rest
      <4>1. c.of \in StateSet
        BY <3>1, <3>4 DEF ExitCalls
      <4>2. Call("end", c.of) \in ExitCalls
        BY <4>1 DEF Call, ExitCalls
      <4>3. <<Call("end", c.of)>> \in Seq(ExitCalls) /\ ExitRegionCalls(acc.m, c.of) \in Seq(ExitCalls)
        BY <3>2, <4>1, <4>2, SingleTyped, ExitRegionCallsTyped
      <4>4. ExitRegionCalls(acc.m, c.of) \o <<Call("end", c.of)>> \in Seq(ExitCalls)
        BY <4>3, ConcatProperties
      <4>5. todo \in Seq(ExitCalls)
        BY <3>1, <4>4, ConcatProperties
      <4>6. MakeExitCall(acc.m, c, rest) = [m |-> BeginExit(acc.m, c.of), todo |-> todo]
        BY <3>4 DEF MakeExitCall
      <4>7. BeginExit(acc.m, c.of) \in Quiet(acc.m)
        BY <3>2, <4>1, BeginExitQuiet
      <4> HIDE DEF todo
      <4> QED BY <2>1, <2>2, <3>3, <4>5, <4>6, <4>7
    <3>5. CASE c.to = "put"
      <4>1. WithoutRegion(acc.m, c.of) \in Quiet(acc.m)
        BY <3>2, WithRegionQuiet
      <4>2. MakeExitCall(acc.m, c, rest) = [m |-> WithoutRegion(acc.m, c.of), todo |-> rest]
        BY <3>5 DEF MakeExitCall
      <4> QED BY <2>1, <2>2, <3>1, <3>3, <4>1, <4>2
    <3>6. CASE c.to = "end"
      <4>1. c.of \in StateSet
        BY <3>1, <3>6 DEF ExitCalls
      <4>2. EndExit(acc.m, c.of) \in Quiet(acc.m)
        BY <3>2, <4>1, EndExitQuiet
      <4>3. MakeExitCall(acc.m, c, rest) = [m |-> EndExit(acc.m, c.of), todo |-> rest]
        BY <3>6 DEF MakeExitCall
      <4> QED BY <2>1, <2>2, <3>1, <3>3, <4>2, <4>3
    <3>7. c.to \in {"exit", "put", "end"}
      BY <3>1 DEF ExitCalls
    <3> QED BY <3>4, <3>5, <3>6, <3>7
  <2> QED BY <2>1, <2>2
<1>3. ExitAll(m, leaving) = Exits!Over(base, MaxCalls(m)).m
  BY DEF ExitAll
<1> HIDE DEF base, V
<1>4. Exits!Over(base, MaxCalls(m)) \in V
  BY <1>1, <1>2, MaxCallsTyped, LoopsInduct, Exits!LoopKeeps
<1> QED BY <1>3, <1>4 DEF V

\* exitState is quiet.
LEMMA ExitStateQuiet ==
    ASSUME NEW m \in Machine, NEW s \in StateSet
    PROVE  ExitState(m, s) \in Quiet(m)
BY SingleTyped, ExitAllQuiet DEF ExitState

\* Leaving a configuration is quiet.
LEMMA ExitStatesQuiet ==
    ASSUME NEW m \in Machine, NEW leaving \in Seq(StateSet)
    PROVE  ExitStates(m, leaving) \in Quiet(m)
BY KeepKeeps, ExitAllQuiet DEF ExitStates

\* enterState before its regions are entered: it is quiet.
LEMMA BeginEntryQuiet ==
    ASSUME NEW m \in Machine, NEW s \in StateSet
    PROVE  BeginEntry(m, s) \in Quiet(m)
<1> DEFINE fresh == ToSet(Graph.Transitions[s]) \ {m.firingChange}
           latches == m.changeFired \ fresh
           counts == [m.open EXCEPT ![s] = @ + 1]
           rearmed == IF m.firingChange = None THEN m.changeRearmed ELSE m.changeRearmed \cup fresh
           armed == [m EXCEPT !.changeFired = latches, !.open = counts, !.changeRearmed = rearmed]
           entered == ExecuteBehaviors(armed, Graph.Entry[s])
<1>0. m \in MachineRecords
  BY MachineHas
<1>1. latches \in SUBSET Transitions /\ counts \in Assignments(StateSet, Int)
      /\ rearmed \in SUBSET Transitions
  BY MachineHas, CountsMove, TransitionsOf
<1>2. armed = [m EXCEPT !.changeFired = @ \ fresh, !.open[s] = @ + 1,
                        !.changeRearmed = IF m.firingChange = None THEN @ ELSE @ \cup fresh]
  <2> HIDE DEF fresh
  <2> QED BY <1>0 DEF MachineRecords
<1>3. BeginEntry(m, s) =
          IF Graph.CompositeStates[s] # <<>> THEN [entered EXCEPT !.simpleState = None]
          ELSE IF ActiveRegions(entered) = {} THEN [entered EXCEPT !.simpleState = s]
          ELSE entered
  <2> HIDE DEF armed
  <2> QED BY <1>2 DEF BeginEntry, fresh
<1> HIDE DEF latches, counts, rearmed
<1>4. armed \in MachineRecords
  BY <1>0, <1>1 DEF MachineRecords
<1>5. armed \in Quiet(m) /\ armed \in Machine
  BY <1>0, <1>4, TouchesNone DEF MachineRecords, Quiet
<1> HIDE DEF armed
<1>6. entered \in Quiet(m) /\ entered \in Machine
  BY <1>5, RegionOfTyped, ExecuteQuiet, QuietTransitive DEF Quiet
<1> HIDE DEF entered
<1>7. ASSUME NEW x \in Optional(StateSet)
      PROVE  [entered EXCEPT !.simpleState = x] \in Quiet(m)
  <2>1. entered \in MachineRecords
    BY <1>6, MachineHas
  <2>2. [entered EXCEPT !.simpleState = x] \in MachineRecords
    BY <2>1 DEF MachineRecords
  <2>3. [entered EXCEPT !.simpleState = x] \in Quiet(entered)
    BY <1>6, <2>1, <2>2, TouchesNone DEF MachineRecords
  <2> QED BY <1>6, <2>3, QuietTransitive
<1> QED BY <1>3, <1>6, <1>7 DEF Optional

\* The calls that enter the regions of a state.
LEMMA EnterRegionCallsTyped ==
    ASSUME NEW container, NEW regions \in Seq(Regions), NEW branches \in Configurations
    PROVE  EnterRegionCalls(container, regions, branches) \in Seq(EntryCalls)
<1> DEFINE Starting(r) == IF r \in DOMAIN branches THEN branches[r] ELSE Graph.RegionInitials[r]
           Calls(r) == <<PutIn(r, Starting(r))>>
                           \o CallEach("enter", DescendantChain(container, Starting(r)))
           seqs == [i \in DOMAIN regions |-> Calls(regions[i])]
<1>1. ASSUME NEW r \in Regions PROVE Calls(r) \in Seq(EntryCalls)
  <2>1. Starting(r) \in StateSet
    BY RegionOfTyped, AssignmentHas DEF Configurations
  <2> HIDE DEF Starting
  <2>2. PutIn(r, Starting(r)) \in EntryCalls
    BY <2>1 DEF PutIn, EntryCalls
  <2>3. <<PutIn(r, Starting(r))>> \in Seq(EntryCalls)
    BY <2>2, SingleTyped
  <2>4. CallEach("enter", DescendantChain(container, Starting(r))) \in Seq(EntryCalls)
    BY <2>1, DescendantChainTyped, CallEachTyped
  <2> QED BY <2>3, <2>4, ConcatProperties
<1>2. EnterRegionCalls(container, regions, branches) = Flatten(seqs)
  BY DEF EnterRegionCalls
<1> HIDE DEF Calls
<1>3. DOMAIN regions = 1..Len(regions) /\ Len(regions) \in Nat
      /\ \A i \in 1..Len(regions) : regions[i] \in Regions
  BY LenProperties, ElementOfSeq
<1>4. seqs = [i \in DOMAIN regions |-> seqs[i]]
      /\ \A i \in 1..Len(regions) : seqs[i] \in Seq(EntryCalls)
  BY <1>1, <1>3
<1> HIDE DEF seqs
<1>5. Len(seqs) = Len(regions)
  BY <1>4, MappedTyped
<1> QED BY <1>2, <1>3, <1>4, <1>5, FlattenTyped

\* Working off the calls of an entry is quiet.
LEMMA EnterQuiet ==
    ASSUME NEW m \in Machine, NEW todo \in Seq(EntryCalls), NEW branches \in Configurations
    PROVE  Enter(m, todo, branches) \in Quiet(m)
<1> DEFINE V == [m : Quiet(m), todo : Seq(EntryCalls), branches : {branches}]
           base == [m |-> m, todo |-> todo, branches |-> branches]
<1>1. base \in V
  BY QuietReflexive
<1>2. ASSUME NEW acc \in V, NEW i
      PROVE  NextEntry(acc, i) \in V
  <2> DEFINE c == Head(acc.todo)
             rest == Tail(acc.todo)
  <2>1. NextEntry(acc, i) = IF acc.todo = <<>> THEN acc
                            ELSE MakeEntryCall(acc.m, c, rest, branches)
    BY DEF NextEntry
  <2>2. CASE acc.todo # <<>>
    <3>1. c \in EntryCalls /\ rest \in Seq(EntryCalls)
      BY <2>2, HeadTyped
    <3>2. acc.m \in Quiet(m) /\ acc.m \in Machine
      BY DEF Quiet
    <3> HIDE DEF c, rest
    <3>3. ASSUME NEW n \in Quiet(acc.m), NEW next \in Seq(EntryCalls)
          PROVE  [m |-> n, branches |-> branches, todo |-> next] \in V
      BY <3>2, <3>3, QuietTransitive
    <3>4. CASE c.to = "enter"
      <4> DEFINE inner == EnterRegionCalls(c.of, Graph.CompositeStates[c.of], branches)
                 next == inner \o <<Call("end", c.of)>> \o rest
      <4>1. c.of \in StateSet
        BY <3>1, <3>4 DEF EntryCalls
      <4>2. Call("end", c.of) \in EntryCalls
        BY <4>1 DEF Call, EntryCalls
      <4>3. <<Call("end", c.of)>> \in Seq(EntryCalls) /\ inner \in Seq(EntryCalls)
        BY <4>1, <4>2, SingleTyped, RegionOfTyped, EnterRegionCallsTyped
      <4>4. inner \o <<Call("end", c.of)>> \in Seq(EntryCalls)
        BY <4>3, ConcatProperties
      <4>5. next \in Seq(EntryCalls)
        BY <3>1, <4>4, ConcatProperties
      <4>6. MakeEntryCall(acc.m, c, rest, branches) =
                [m |-> BeginEntry(acc.m, c.of), branches |-> branches, todo |-> next]
        BY <3>4 DEF MakeEntryCall
      <4>7. BeginEntry(acc.m, c.of) \in Quiet(acc.m)
        BY <3>2, <4>1, BeginEntryQuiet
      <4> HIDE DEF next
      <4> QED BY <2>1, <2>2, <3>3, <4>5, <4>6, <4>7
    <3>5. CASE c.to = "put"
      <4>1. c.of \in Regions /\ c.at \in StateSet
        BY <3>1, <3>5 DEF EntryCalls
      <4>2. WithRegion(acc.m, c.of, c.at) \in Quiet(acc.m)
        BY <3>2, <4>1, WithRegionQuiet
      <4>3. MakeEntryCall(acc.m, c, rest, branches) =
                [m |-> WithRegion(acc.m, c.of, c.at), branches |-> branches, todo |-> rest]
        BY <3>5 DEF MakeEntryCall
      <4> QED BY <2>1, <2>2, <3>1, <3>3, <4>2, <4>3
    <3>6. CASE c.to = "end"
      <4>1. c.of \in StateSet
        BY <3>1, <3>6 DEF EntryCalls
      <4>2. StartDoAction(acc.m, c.of) \in Quiet(acc.m)
        BY <3>2, <4>1, StartQuiet
      <4>3. MakeEntryCall(acc.m, c, rest, branches) =
                [m |-> StartDoAction(acc.m, c.of), branches |-> branches, todo |-> rest]
        BY <3>6 DEF MakeEntryCall
      <4> QED BY <2>1, <2>2, <3>1, <3>3, <4>2, <4>3
    <3>7. c.to \in {"enter", "put", "end"}
      BY <3>1 DEF EntryCalls
    <3> QED BY <3>4, <3>5, <3>6, <3>7
  <2> QED BY <2>1, <2>2
<1>3. Enter(m, todo, branches) = Entries!Over(base, MaxCalls(m)).m
  BY DEF Enter
<1> HIDE DEF base, V
<1>4. Entries!Over(base, MaxCalls(m)) \in V
  BY <1>1, <1>2, MaxCallsTyped, LoopsInduct, Entries!LoopKeeps
<1> QED BY <1>3, <1>4 DEF V

\* Entering states along a path is quiet.
LEMMA EnterAllQuiet ==
    ASSUME NEW m \in Machine, NEW states \in Seq(StateSet), NEW branches \in Configurations
    PROVE  EnterAll(m, states, branches) \in Quiet(m)
BY CallEachTyped, EnterQuiet DEF EnterAll

\* Entering regions is quiet.
LEMMA EnterRegionsQuiet ==
    ASSUME NEW m \in Machine, NEW container, NEW regions \in Seq(Regions), NEW branches \in Configurations
    PROVE  EnterRegions(m, container, regions, branches) \in Quiet(m)
BY EnterRegionCallsTyped, EnterQuiet DEF EnterRegions

---------------------------------------------------------------------------
(* Firing a transition that moves the whole configuration.                 *)

\* A machine that has fired t may do quiet things before and after.
LEMMA QuietFires ==
    ASSUME NEW m \in Machine, NEW t
    PROVE  /\ \A n \in Quiet(m) : n \in Fires(m, t)
           /\ \A n \in Quiet(m) : \A k \in Fires(n, t) : k \in Fires(m, t)
           /\ \A n \in Fires(m, t) : \A k \in Quiet(n) : k \in Fires(m, t)
BY FollowsTransitive DEF Quiet, Fires

\* The effect of a transition takes the transition and is otherwise quiet.
LEMMA EffectFires ==
    ASSUME NEW m \in Machine, NEW t \in Transitions
    PROVE  RunEffect(m, t) \in Fires(m, t)
<1> DEFINE more == Append(m.taken, t)
           n == [m EXCEPT !.taken = more]
           k == ExecuteBehaviors(n, Graph.Transition[t].effect)
<1>0. m \in MachineRecords /\ Sound(m) /\ more \in Seq(Transitions) /\ m.nextEventID \in Nat
  BY MachineHas, AppendProperties
<1>1. RunEffect(m, t) = k
  BY DEF RunEffect
<1> HIDE DEF more
<1>2. /\ n \in MachineRecords /\ n.eventQueue = m.eventQueue /\ n.nextEventID = m.nextEventID
      /\ n.deferred = m.deferred /\ n.currentTime = m.currentTime
      /\ n.of = m.of /\ n.state = m.state /\ n.taken = more
  BY <1>0 DEF MachineRecords
<1> HIDE DEF n
<1>3. n \in Machine /\ Follows(m, n)
  BY <1>0, <1>2 DEF Machine, Sound, Follows
<1>4. n \in Fires(m, t)
  BY <1>2, <1>3 DEF Fires, more
<1>5. Graph.Transition[t].effect \in Seq(Behaviors)
  BY GraphAssumption DEF TransitionsAreTyped
<1>6. k \in Quiet(n)
  BY <1>3, <1>5, ExecuteQuiet
<1> QED BY <1>1, <1>4, <1>6, QuietFires

\* Naming another configuration is quiet.
LEMMA PlaceQuiet ==
    ASSUME NEW m \in Machine
    PROVE  /\ \A c \in Configurations : [m EXCEPT !.regionStates = c] \in Quiet(m)
           /\ \A s \in Optional(StateSet) : [m EXCEPT !.simpleState = s] \in Quiet(m)
           /\ \A c \in Configurations : \A s \in Optional(StateSet) :
                 /\ [m EXCEPT !.regionStates = c, !.simpleState = s] \in Quiet(m)
                 /\ [m EXCEPT !.simpleState = s, !.regionStates = c] \in Quiet(m)
<1>0. m \in MachineRecords
  BY MachineHas
<1>1. ASSUME NEW c \in Configurations
      PROVE  [m EXCEPT !.regionStates = c] \in Quiet(m)
  <2>1. [m EXCEPT !.regionStates = c] \in MachineRecords
    BY <1>0 DEF MachineRecords
  <2> QED BY <1>0, <2>1, TouchesNone DEF MachineRecords
<1>2. ASSUME NEW s \in Optional(StateSet)
      PROVE  [m EXCEPT !.simpleState = s] \in Quiet(m)
  <2>1. [m EXCEPT !.simpleState = s] \in MachineRecords
    BY <1>0 DEF MachineRecords
  <2> QED BY <1>0, <2>1, TouchesNone DEF MachineRecords
<1>3. ASSUME NEW c \in Configurations, NEW s \in Optional(StateSet)
      PROVE  /\ [m EXCEPT !.regionStates = c, !.simpleState = s] \in Quiet(m)
             /\ [m EXCEPT !.simpleState = s, !.regionStates = c] \in Quiet(m)
  <2> DEFINE n == [m EXCEPT !.regionStates = c, !.simpleState = s]
  <2>1. n \in MachineRecords
    BY <1>0 DEF MachineRecords
  <2>2. n \in Quiet(m)
    BY <1>0, <2>1, TouchesNone DEF MachineRecords
  <2>3. [m EXCEPT !.simpleState = s, !.regionStates = c] = n
    BY <1>0 DEF MachineRecords
  <2> QED BY <2>2, <2>3
<1> QED BY <1>1, <1>2, <1>3

\* A final state completes the machine.
LEMMA FinishQuiet ==
    ASSUME NEW m \in Machine, NEW target
    PROVE  Finish(m, target) \in Quiet(m)
<1>0. m \in MachineRecords /\ Sound(m) /\ m.nextEventID \in Nat
  BY MachineHas
<1> DEFINE n == [m EXCEPT !.state = "completed"]
<1>1. /\ n \in MachineRecords /\ n.eventQueue = m.eventQueue /\ n.nextEventID = m.nextEventID
      /\ n.deferred = m.deferred /\ n.currentTime = m.currentTime
      /\ n.of = m.of /\ n.state = "completed" /\ n.taken = m.taken
  BY <1>0 DEF MachineRecords, Statuses
<1>2. Finish(m, target) = IF target \in Graph.Final THEN n ELSE m
  BY DEF Finish
<1> HIDE DEF n
<1>3. n \in Machine /\ Follows(m, n)
  BY <1>0, <1>1 DEF Machine, Sound, Follows
<1> QED BY <1>1, <1>2, <1>3, QuietReflexive DEF Quiet

\* What follows the entry of a target is quiet.
LEMMA SettleQuiet ==
    ASSUME NEW m \in Machine, NEW target \in StateSet
    PROVE  Settle(m, target) \in Quiet(m)
BY PlaceQuiet, EmptyConfiguration, QuietReflexive DEF Settle, Optional

\* getCurrentState finds a state or none.
LEMMA CurrentTyped ==
    ASSUME NEW m \in Machine
    PROVE  CurrentState(m) \in Optional(StateSet)
BY MachineHas, ActiveCompositeOwnerTyped DEF CurrentState

\* Leaving up to a boundary, the effect, and entering down to a target fire t once.
LEMMA TravelFires ==
    ASSUME NEW m \in Machine, NEW t \in Transitions, NEW current \in Optional(StateSet),
           NEW boundary, NEW target \in StateSet, NEW branches \in Configurations
    PROVE  Travel(m, t, current, boundary, target, branches) \in Fires(m, t)
<1> DEFINE a == ExitStates(m, UpTo(current, boundary))
           b == RunEffect(a, t)
           path == Reverse(UpTo(target, boundary))
           c == EnterAll(b, path, branches)
           d == Settle(c, target)
           e == ScheduleActive(d)
           f == Finish(e, target)
<1>1. a \in Quiet(m) /\ a \in Machine
  BY UpToTyped, ExitStatesQuiet DEF Quiet
<1> HIDE DEF a
<1>2. b \in Fires(a, t) /\ b \in Fires(m, t) /\ b \in Machine
  BY <1>1, EffectFires, QuietFires DEF Fires
<1> HIDE DEF b
<1>3. path \in Seq(StateSet)
  BY UpToTyped, ReverseTyped DEF Optional
<1> HIDE DEF path
<1>4. c \in Quiet(b) /\ c \in Machine
  BY <1>2, <1>3, EnterAllQuiet DEF Quiet
<1> HIDE DEF c
<1>5. d \in Quiet(b) /\ d \in Machine
  BY <1>2, <1>4, SettleQuiet, QuietTransitive DEF Quiet
<1> HIDE DEF d
<1>6. e \in Quiet(b) /\ e \in Machine
  BY <1>2, <1>5, ScheduleActiveQuiet, QuietTransitive DEF Quiet
<1> HIDE DEF e
<1>7. f \in Quiet(b)
  BY <1>2, <1>6, FinishQuiet, QuietTransitive
<1>8. Travel(m, t, current, boundary, target, branches) = f
  BY DEF Travel, f, e, d, c, path, b, a
<1> QED BY <1>2, <1>7, <1>8, QuietFires

\* A transition into a state fires t once.
LEMMA TransitionIntoFires ==
    ASSUME NEW m \in Machine, NEW t \in Transitions, NEW target \in StateSet,
           NEW branches \in Configurations
    PROVE  TransitionInto(m, t, target, branches) \in Fires(m, t)
BY CurrentTyped, TravelFires DEF TransitionInto

\* No guard closes every branch of a pseudostate that is not a fork.
LEMMA BranchTaken ==
    ASSUME NEW m, NEW n \in Pseudostates,
           \E t \in ToSet(Graph.Transitions[n]) : Graph.Transition[t].guard = {}
    PROVE  LET open == {t \in ToSet(Graph.Transitions[n]) : PassesGuard(m, t)}
               branch == First(Graph.Transitions[n], open)
           IN  branch \in Transitions /\ branch \in ToSet(Graph.Transitions[n])
<1> DEFINE open == {t \in ToSet(Graph.Transitions[n]) : PassesGuard(m, t)}
           branch == First(Graph.Transitions[n], open)
<1>1. Graph.Transitions[n] \in Seq(Transitions)
  BY TransitionsOf
<1>2. PICK t \in ToSet(Graph.Transitions[n]) : Graph.Transition[t].guard = {}
  OBVIOUS
<1>3. t \in open
  BY <1>2 DEF PassesGuard, Holds
<1> HIDE DEF open
<1>4. /\ branch \in Optional(Transitions)
      /\ branch # None => branch \in ToSet(Graph.Transitions[n]) \cap open
      /\ branch = None => ToSet(Graph.Transitions[n]) \cap open = {}
  BY <1>1, NoneIsNothing, FirstFinds
<1>5. branch # None
  BY <1>2, <1>3, <1>4
<1> HIDE DEF branch
<1>6. branch \in Transitions /\ branch \in ToSet(Graph.Transitions[n])
  BY <1>4, <1>5 DEF Optional
<1> QED BY <1>6 DEF branch, open

\* A path of pseudostates that passes no fork ends in a state.
LEMMA TargetTyped ==
    ASSUME NEW m, NEW n \in StateSet \cup Pseudostates,
           n \in Pseudostates => Graph.PseudostateKind[n] # "fork"
    PROVE  Target(m, n) \in StateSet
<1>1. PICK rank \in [Pseudostates -> 1..MaxLevels] :
          \A x \in Pseudostates : \A t \in ToSet(Graph.Transitions[x]) :
              Graph.Transition[t].target \in Pseudostates =>
                  rank[Graph.Transition[t].target] < rank[x]
  BY GraphAssumption DEF PseudostatesAreRouted
<1> DEFINE Open(x) == \E t \in ToSet(Graph.Transitions[x]) : Graph.Transition[t].guard = {}
           At(i) == StateSet \cup {x \in Pseudostates : Open(x) /\ rank[x] <= MaxLevels - i}
           V == [i \in 0..MaxLevels |-> [m : {m}, at : At(i)]]
           base == [m |-> m, at |-> n]
<1>2. MaxLevels \in Nat /\ Len(Levels) = MaxLevels
  BY GraphAssumption DEF NestingIsBounded, Levels
<1>3. StateSet \cap Pseudostates = {}
  BY GraphAssumption DEF PseudostatesAreRouted
<1>4. \A x \in Pseudostates :
          (\/ Graph.PseudostateKind[x] # "fork"
           \/ \E t \in Transitions : Source(t) \in Pseudostates /\ Graph.Transition[t].target = x)
          => Open(x)
  BY GraphAssumption DEF PseudostatesAreRouted
<1>11. \A i \in 0..MaxLevels : V[i] = [m : {m}, at : At(i)]
  <2> HIDE DEF At
  <2> QED OBVIOUS
<1> HIDE DEF Open
<1>5. base \in V[0]
  <2>1. n \in At(0)
    BY <1>1, <1>2, <1>4
  <2> HIDE DEF At, V
  <2>2. 0 \in 0..MaxLevels
    BY <1>2
  <2>3. V[0] = [m : {m}, at : At(0)]
    BY <1>11, <2>2
  <2> QED BY <2>1, <2>3
<1>6. ASSUME NEW i \in 1..MaxLevels, NEW acc \in V[i - 1]
      PROVE  Route(acc, Levels[i]) \in V[i]
  <2> DEFINE open == {t \in ToSet(Graph.Transitions[acc.at]) : PassesGuard(m, t)}
             branch == First(Graph.Transitions[acc.at], open)
             next == Graph.Transition[branch].target
  <2>0. /\ acc \in [m : {m}, at : At(i - 1)]
        /\ \A k \in [m : {m}, at : At(i)] : k \in V[i]
    <3>1. i \in 0..MaxLevels /\ i - 1 \in 0..MaxLevels
      BY <1>2
    <3> HIDE DEF At, V
    <3> QED BY <1>11, <3>1
  <2>1. acc.m = m /\ acc.at \in At(i - 1)
    <3> HIDE DEF At
    <3> QED BY <2>0
  <2>2. Route(acc, Levels[i]) = IF acc.at \in StateSet THEN acc ELSE [acc EXCEPT !.at = next]
    BY <2>1 DEF Route
  <2>3. CASE acc.at \in StateSet
    <3>1. acc.at \in At(i)
      BY <2>3
    <3> HIDE DEF At
    <3>2. acc \in [m : {m}, at : At(i)]
      BY <2>0, <3>1
    <3> QED BY <2>0, <2>2, <2>3, <3>2
  <2>4. CASE acc.at \notin StateSet
    <3>1. acc.at \in Pseudostates /\ Open(acc.at) /\ rank[acc.at] <= MaxLevels - (i - 1)
      BY <2>1, <2>4
    <3>2. branch \in Transitions /\ branch \in ToSet(Graph.Transitions[acc.at])
      BY <3>1, BranchTaken DEF Open
    <3> HIDE DEF branch
    <3>3. next \in StateSet \cup Pseudostates
      BY <3>2, GraphAssumption DEF TransitionsAreTyped
    <3>4. CASE next \in Pseudostates
      <4>1. Source(branch) \in Pseudostates
        BY <3>1, <3>2, TransitionsOf
      <4>2. Open(next)
        BY <1>4, <3>2, <3>4, <4>1
      <4>3. rank[next] < rank[acc.at]
        BY <1>1, <3>1, <3>2, <3>4
      <4>4. rank[next] <= MaxLevels - i
        <5>1. rank[next] \in Int /\ rank[acc.at] \in Int
          BY <1>1, <3>1, <3>4
        <5> QED BY <1>2, <3>1, <4>3, <5>1
      <4>5. next \in At(i)
        BY <3>4, <4>2, <4>4
      <4> HIDE DEF next, At
      <4>6. [acc EXCEPT !.at = next] \in [m : {m}, at : At(i)]
        BY <2>0, <4>5
      <4> QED BY <2>0, <2>2, <2>4, <4>6
    <3>5. CASE next \in StateSet
      <4>1. next \in At(i)
        BY <3>5
      <4> HIDE DEF next, At
      <4>2. [acc EXCEPT !.at = next] \in [m : {m}, at : At(i)]
        BY <2>0, <4>1
      <4> QED BY <2>0, <2>2, <2>4, <4>2
    <3> QED BY <3>3, <3>4, <3>5
  <2> QED BY <2>3, <2>4
<1>7. Routes!Over(base, Levels) \in V[MaxLevels]
  <2> HIDE DEF V, base
  <2> QED BY <1>2, <1>5, <1>6, LoopsInduct, Routes!LoopSteps
<1>8. V[MaxLevels] = [m : {m}, at : At(MaxLevels)]
  <2> HIDE DEF At, V
  <2>1. MaxLevels \in 0..MaxLevels
    BY <1>2
  <2> QED BY <1>11, <2>1
<1>9. At(MaxLevels) \subseteq StateSet
  <2> SUFFICES ASSUME NEW x \in Pseudostates, rank[x] <= MaxLevels - MaxLevels PROVE FALSE
    OBVIOUS
  <2>1. rank[x] \in 1..MaxLevels
    BY <1>1
  <2> QED BY <1>2, <2>1
<1>10. Target(m, n) = Routes!Over(base, Levels).at
  BY DEF Target
<1> HIDE DEF V, base, At
<1> QED BY <1>7, <1>8, <1>9, <1>10

\* Leaving what is active up to a state is quiet.
LEMMA ExitTowardQuiet ==
    ASSUME NEW m \in Machine, NEW stop
    PROVE  ExitToward(m, stop) \in Quiet(m)
<1> DEFINE active == OrderedRegionStates(m)
           a == ActiveExits!Over(m, active)
           b == [a EXCEPT !.regionStates = <<>>]
           c == ExitAll(b, UpTo(b.simpleState, stop))
           d == [c EXCEPT !.simpleState = None]
<1>1. active \in Seq(StateSet) /\ Len(active) \in Nat
  BY OrderedRegionsTyped, LenProperties
<1>2. ASSUME NEW v \in Quiet(m), NEW i \in 1..Len(active)
      PROVE  ExitIfActive(v, active[i]) \in Quiet(m)
  <2>1. v \in Machine /\ active[i] \in StateSet
    BY <1>1, ElementOfSeq DEF Quiet
  <2> HIDE DEF active
  <2> QED BY <2>1, ExitStateQuiet, QuietTransitive DEF ExitIfActive
<1>0. ExitToward(m, stop) = d
  BY DEF ExitToward
<1> HIDE DEF active
<1>3. a \in Quiet(m) /\ a \in Machine
  <2>1. a \in Quiet(m)
    BY <1>1, <1>2, QuietReflexive, LoopsInduct, ActiveExits!LoopKeeps
  <2> QED BY <2>1 DEF Quiet
<1> HIDE DEF a
<1>4. b \in Quiet(m) /\ b \in Machine
  BY <1>3, PlaceQuiet, EmptyConfiguration, QuietTransitive DEF Quiet
<1> HIDE DEF b
<1>5. b.simpleState \in Optional(StateSet)
  BY <1>4, MachineHas
<1>6. c \in Quiet(m) /\ c \in Machine
  BY <1>4, <1>5, UpToTyped, ExitAllQuiet, QuietTransitive DEF Quiet
<1> HIDE DEF c
<1>7. d \in Quiet(m)
  BY <1>6, PlaceQuiet, QuietTransitive DEF Optional
<1> QED BY <1>0, <1>7

\* Entering the branches of a fork fires t once.
LEMMA ForkIntoFires ==
    ASSUME NEW m \in Machine, NEW t \in Transitions, NEW into \in Configurations, NEW owner \in StateSet
    PROVE  ForkInto(m, t, into, owner) \in Fires(m, t)
<1> DEFINE a == ExitToward(m, owner)
           b == RunEffect(a, t)
           path == Reverse(ParentChain[owner])
           base == [m |-> b, into |-> into, owner |-> owner]
           V == [m : Quiet(b), into : {into}, owner : {owner}]
           c == BranchEntries!Over(base, path)
<1>1. a \in Quiet(m) /\ a \in Machine
  BY ExitTowardQuiet DEF Quiet
<1> HIDE DEF a
<1>2. b \in Fires(m, t) /\ b \in Machine
  BY <1>1, EffectFires, QuietFires DEF Fires
<1>3. ForkInto(m, t, into, owner) = ScheduleActive(c.m)
  BY DEF ForkInto, a
<1> HIDE DEF b
<1>4. path \in Seq(StateSet) /\ Len(path) \in Nat
  BY ChainTyped, ReverseTyped, LenProperties
<1>5. base \in V
  BY <1>2, QuietReflexive
<1>6. ASSUME NEW acc \in V, NEW i \in 1..Len(path)
      PROVE  EnterBranches(acc, path[i]) \in V
  <2> DEFINE s == path[i]
             branches == IF s = owner THEN into ELSE <<>>
             n == EnterAll(acc.m, <<s>>, branches)
  <2>1. EnterBranches(acc, s) = IF IsActive(acc.m, s) THEN acc ELSE [acc EXCEPT !.m = n]
    BY DEF EnterBranches
  <2>2. s \in StateSet /\ branches \in Configurations /\ acc.m \in Machine
    BY <1>4, ElementOfSeq, EmptyConfiguration DEF Quiet
  <2> HIDE DEF s, branches
  <2>3. n \in Quiet(b)
    BY <1>2, <2>2, SingleTyped, EnterAllQuiet, QuietTransitive
  <2> HIDE DEF n
  <2>4. [acc EXCEPT !.m = n] \in V
    BY <2>3
  <2> QED BY <2>1, <2>4 DEF s
<1> HIDE DEF V, base, path
<1>7. c \in V
  BY <1>4, <1>5, <1>6, LoopsInduct, BranchEntries!LoopKeeps
<1> HIDE DEF c
<1>8. c.m \in Quiet(b) /\ c.m \in Machine
  BY <1>7 DEF V, Quiet
<1> QED BY <1>2, <1>3, <1>8, ScheduleActiveQuiet, QuietTransitive, QuietFires

\* A transition into a fork fires t once.
LEMMA ForkFires ==
    ASSUME NEW m \in Machine, NEW t \in Transitions, NEW fork \in Pseudostates,
           Graph.PseudostateKind[fork] = "fork"
    PROVE  Fork(m, t, fork) \in Fires(m, t)
<1> DEFINE targets == {Graph.Transition[b].target : b \in ToSet(Graph.Transitions[fork])}
           into == Branches(fork)
           r == CHOOSE x \in DOMAIN into : Graph.RegionOwner[x] # None
           owner == Graph.RegionOwner[r]
<1>1. /\ \A s \in targets : s \in StateSet /\ Graph.RegionOf[s] # None
      /\ \E s \in targets : Graph.RegionOwner[Graph.RegionOf[s]] # None
  BY GraphAssumption DEF PseudostatesAreRouted
<1>2. into = [x \in {Graph.RegionOf[s] : s \in targets} |-> CHOOSE s \in targets : Graph.RegionOf[s] = x]
  BY DEF Branches
<1> HIDE DEF targets
<1>3. {Graph.RegionOf[s] : s \in targets} \subseteq Regions
  BY <1>1, RegionOfTyped DEF Optional
<1> HIDE DEF into
<1>4. into \in Configurations
  <2>1. \A x \in {Graph.RegionOf[s] : s \in targets} :
            (CHOOSE s \in targets : Graph.RegionOf[s] = x) \in StateSet
    BY <1>1
  <2>2. into \in [{Graph.RegionOf[s] : s \in targets} -> StateSet]
    BY <1>2, <2>1
  <2> QED BY <1>3, <2>2, AssignmentMade DEF Configurations
<1>5. r \in DOMAIN into /\ owner # None /\ DOMAIN into \subseteq Regions
  <2>1. DOMAIN into = {Graph.RegionOf[s] : s \in targets}
    BY <1>2
  <2>2. \E x \in DOMAIN into : Graph.RegionOwner[x] # None
    BY <1>1, <2>1
  <2> QED BY <1>3, <2>1, <2>2
<1>6. Fork(m, t, fork) = ForkInto(m, t, into, owner)
  BY DEF Fork, into
<1> HIDE DEF r
<1>7. owner \in StateSet
  BY <1>5, RegionOfTyped DEF Optional
<1> QED BY <1>4, <1>6, <1>7, ForkIntoFires

\* A transition into a join fires t at most once.
LEMMA JoinFires ==
    ASSUME NEW m \in Machine, NEW t \in Transitions, NEW join \in Pseudostates,
           Graph.PseudostateKind[join] = "join"
    PROVE  Join(m, t, join) \in Fires(m, t)
<1> DEFINE sources == JoinSources(m.of, join)
           inRegions == Keep(sources, {s \in ToSet(sources) : Graph.RegionOf[s] # None})
           owner == IF inRegions = <<>> THEN None ELSE Graph.RegionOwner[Graph.RegionOf[Last(inRegions)]]
           a == ExitAll(m, sources)
           b == [a EXCEPT !.regionStates = <<>>, !.simpleState = owner]
<1>1. sources \in Seq(StateSet)
  <2>1. Graph.States[m.of] \in Seq(StateSet)
    BY MachineHas, RegionOfTyped
  <2> QED BY <2>1, KeepKeeps DEF JoinSources
<1>0. Join(m, t, join) = IF \E s \in ToSet(sources) : ~IsActive(m, s) THEN m
                         ELSE TransitionInto(b, t, Target(m, join), <<>>)
  BY DEF Join
<1> HIDE DEF sources
<1>2. owner \in Optional(StateSet)
  <2>1. CASE inRegions # <<>>
    <3>1. inRegions \in Seq(StateSet) /\ ToSet(inRegions) \subseteq {s \in ToSet(sources) : Graph.RegionOf[s] # None}
      BY <1>1, KeepKeeps
    <3> HIDE DEF inRegions
    <3>2. Last(inRegions) \in StateSet /\ Last(inRegions) \in ToSet(inRegions)
      <4>1. DOMAIN inRegions = 1..Len(inRegions) /\ Len(inRegions) \in Nat /\ Len(inRegions) # 0
        BY <2>1, <3>1, LenProperties, EmptySeq
      <4> QED BY <2>1, <3>1, <4>1, LastTyped DEF Last, ToSet
    <3>3. Graph.RegionOf[Last(inRegions)] \in Regions
      BY <3>1, <3>2, RegionOfTyped DEF Optional
    <3> QED BY <2>1, <3>3, RegionOfTyped
  <2>2. CASE inRegions = <<>>
    BY <2>2 DEF Optional
  <2> QED BY <2>1, <2>2
<1> HIDE DEF owner
<1>3. a \in Quiet(m) /\ a \in Machine
  BY <1>1, ExitAllQuiet DEF Quiet
<1> HIDE DEF a
<1>4. b \in Quiet(m) /\ b \in Machine
  <2>1. b \in Quiet(a)
    BY <1>2, <1>3, PlaceQuiet, EmptyConfiguration
  <2> HIDE DEF b
  <2> QED BY <1>3, <2>1, QuietTransitive DEF Quiet
<1> HIDE DEF b
<1>5. Target(m, join) \in StateSet
  BY TargetTyped
<1>6. TransitionInto(b, t, Target(m, join), <<>>) \in Fires(m, t)
  BY <1>4, <1>5, EmptyConfiguration, TransitionIntoFires, QuietFires
<1> QED BY <1>0, <1>6, QuietReflexive, QuietFires

\* The deepest state a history has on record.
LEMMA DeepestTyped ==
    ASSUME NEW m \in Machine, NEW s \in StateSet
    PROVE  DeepestRecorded(m, s) \in StateSet
<1> DEFINE V == [m : {m}, at : StateSet]
           base == [m |-> m, at |-> s]
<1>1. base \in V
  OBVIOUS
<1>2. ASSUME NEW acc \in V, NEW i \in 1..Len(Levels)
      PROVE  Deeper(acc, Levels[i]) \in V
  <2> DEFINE record == HistoryOf(acc.m, acc.at)
  <2>1. Deeper(acc, Levels[i]) = IF record.child = None \/ record.regions # <<>> THEN acc
                                 ELSE [acc EXCEPT !.at = record.child]
    BY DEF Deeper
  <2>2. record \in Recorded
    BY HistoryOps
  <2> HIDE DEF record
  <2>3. record.child \in Optional(StateSet)
    BY <2>2 DEF Recorded
  <2>4. CASE record.child # None
    <3>1. [acc EXCEPT !.at = record.child] \in V
      BY <2>3, <2>4 DEF Optional
    <3> QED BY <2>1, <3>1
  <2> QED BY <2>1, <2>4
<1> HIDE DEF V, base
<1>3. Descents!Over(base, Levels) \in V
  BY <1>1, <1>2, LevelsTyped, LoopsInduct, Descents!LoopKeeps
<1> QED BY <1>3 DEF DeepestRecorded, V, base

\* The states a history has on record for regions.
LEMMA RecordedTyped ==
    ASSUME NEW m \in Machine, NEW s \in StateSet
    PROVE  RecordedBranches(m, s) \in Configurations
<1> DEFINE V == [m : {m}, todo : Seq(StateSet), branches : Configurations]
           base == [m |-> m, todo |-> <<s>>, branches |-> <<>>]
<1>1. base \in V
  BY SingleTyped, EmptyConfiguration
<1>2. ASSUME NEW acc \in V, NEW i
      PROVE  AddRecorded(acc, i) \in V
  <2> DEFINE h == Head(acc.todo)
             regions == HistoryOf(acc.m, h).regions
             deepest == [r \in DOMAIN regions |-> DeepestRecorded(acc.m, regions[r])]
             inner == Keep(Graph.CompositeStates[h], DOMAIN regions)
             at == [j \in DOMAIN inner |-> deepest[inner[j]]]
             branches == PutAll(acc.branches, deepest)
             todo == at \o Tail(acc.todo)
             n == [acc EXCEPT !.branches = branches, !.todo = todo]
  <2>1. AddRecorded(acc, i) = IF acc.todo = <<>> THEN acc ELSE n
    BY DEF AddRecorded
  <2>2. CASE acc.todo # <<>>
    <3>1. h \in StateSet /\ Tail(acc.todo) \in Seq(StateSet)
      BY <2>2, HeadTyped
    <3>2. acc.m = m
      OBVIOUS
    <3> HIDE DEF h
    <3>3. regions \in Configurations
      BY <3>2, HistoryOps DEF Recorded
    <3> HIDE DEF regions
    <3>4. deepest \in Configurations /\ DOMAIN deepest = DOMAIN regions
          /\ \A r \in DOMAIN regions : deepest[r] \in StateSet
      <4>1. DOMAIN regions \subseteq Regions /\ \A r \in DOMAIN regions : regions[r] \in StateSet
        BY <3>3, AssignmentHas DEF Configurations
      <4>2. \A r \in DOMAIN regions : DeepestRecorded(acc.m, regions[r]) \in StateSet
        BY <3>2, <4>1, DeepestTyped
      <4>3. deepest \in [DOMAIN regions -> StateSet]
        BY <4>2
      <4> HIDE DEF deepest
      <4> QED BY <4>1, <4>3, AssignmentMade DEF Configurations
    <3> HIDE DEF deepest
    <3>5. branches \in Configurations
      BY <3>4, AssignmentOps DEF Configurations
    <3>6. inner \in Seq(Regions) /\ ToSet(inner) \subseteq DOMAIN regions
      BY <3>1, RegionOfTyped, KeepKeeps
    <3> HIDE DEF inner
    <3>7. at \in Seq(StateSet)
      <4>1. DOMAIN inner = 1..Len(inner)
        BY <3>6, LenProperties
      <4>2. \A j \in 1..Len(inner) : inner[j] \in DOMAIN regions
        BY <3>6, <4>1 DEF ToSet
      <4>3. at = [j \in DOMAIN inner |-> at[j]] /\ \A j \in 1..Len(inner) : at[j] \in StateSet
        BY <3>4, <4>1, <4>2
      <4> HIDE DEF at
      <4> QED BY <3>6, <4>3, MappedTyped
    <3> HIDE DEF at
    <3>8. todo \in Seq(StateSet)
      BY <3>1, <3>7, ConcatProperties
    <3> HIDE DEF branches, todo
    <3>9. n \in V
      BY <3>5, <3>8
    <3> QED BY <2>1, <2>2, <3>9
  <2> QED BY <2>1, <2>2
<1> HIDE DEF V, base
<1>3. Recordings!Over(base, MaxCalls(m)) \in V
  BY <1>1, <1>2, MaxCallsTyped, LoopsInduct, Recordings!LoopKeeps
<1> QED BY <1>3 DEF RecordedBranches, V, base

\* A transition into a history fires t at most once.
LEMMA HistoryFires ==
    ASSUME NEW m \in Machine, NEW t \in Transitions, NEW hist \in Pseudostates, IsHistory(hist)
    PROVE  History(m, t, hist) \in Fires(m, t)
<1> DEFINE owner == Graph.PseudostateOwner[hist]
           record == HistoryOf(m, owner)
           deep == Graph.PseudostateKind[hist] = "deepHistory"
           target == IF record = Unrecorded THEN Target(m, hist)
                     ELSE IF deep THEN DeepestRecorded(m, owner)
                     ELSE IF record.regions # <<>> THEN owner ELSE record.child
           branches == IF deep THEN RecordedBranches(m, DeepestRecorded(m, owner)) ELSE record.regions
<1>1. History(m, t, hist) = TransitionInto(m, t, target, branches)
  BY DEF History
<1>2. owner \in StateSet
  BY GraphAssumption DEF PseudostatesAreRouted
<1>3. record \in Recorded
  BY HistoryOps
<1>4. record # Unrecorded /\ record.regions = <<>> => record.child \in StateSet
  <2> HIDE DEF record
  <2>1. record = [child |-> record.child, regions |-> record.regions]
        /\ record.child \in Optional(StateSet)
    BY <1>3 DEF Recorded
  <2> QED BY <2>1 DEF Unrecorded, Optional
<1>5. Target(m, hist) \in StateSet
  BY TargetTyped DEF IsHistory
<1>6. DeepestRecorded(m, owner) \in StateSet
  BY <1>2, DeepestTyped
<1>7. target \in StateSet
  <2> HIDE DEF record, owner, deep
  <2> QED BY <1>2, <1>4, <1>5, <1>6
<1>8. branches \in Configurations
  <2> HIDE DEF record, owner, deep
  <2> QED BY <1>3, <1>6, RecordedTyped DEF Recorded
<1> HIDE DEF target, branches
<1> QED BY <1>1, <1>7, <1>8, TransitionIntoFires

\* Firing a transition runs its effect at most once and touches no event that
\* was sent to the machine.
LEMMA FireTransitionFires ==
    ASSUME NEW m \in Machine, NEW t \in Transitions
    PROVE  FireTransition(m, t) \in Fires(m, t)
<1> DEFINE n == Graph.Transition[t].target
           kind == IF n \in Pseudostates THEN Graph.PseudostateKind[n] ELSE "state"
<1>0. n \in StateSet \cup Pseudostates
  BY GraphAssumption DEF TransitionsAreTyped
<1>1. FireTransition(m, t) = CASE ~PassesGuard(m, t) -> m
                               [] kind = "fork"      -> Fork(m, t, n)
                               [] kind = "join"      -> Join(m, t, n)
                               [] IsHistory(n)       -> History(m, t, n)
                               [] OTHER              -> TransitionInto(m, t, Target(m, n), <<>>)
  BY DEF FireTransition
<1> HIDE DEF n
<1>2. m \in Fires(m, t)
  BY QuietReflexive, QuietFires
<1>3. kind = "fork" => Fork(m, t, n) \in Fires(m, t)
  BY ForkFires
<1>4. kind = "join" => Join(m, t, n) \in Fires(m, t)
  BY JoinFires
<1>5. IsHistory(n) => History(m, t, n) \in Fires(m, t)
  BY HistoryFires DEF IsHistory
<1>6. kind # "fork" => TransitionInto(m, t, Target(m, n), <<>>) \in Fires(m, t)
  BY <1>0, TargetTyped, EmptyConfiguration, TransitionIntoFires
<1> DEFINE F == FireTransition(m, t)
<1>7. \/ F = m
      \/ kind = "fork" /\ F = Fork(m, t, n)
      \/ kind = "join" /\ F = Join(m, t, n)
      \/ IsHistory(n) /\ F = History(m, t, n)
      \/ kind # "fork" /\ F = TransitionInto(m, t, Target(m, n), <<>>)
  <2> HIDE DEF kind
  <2>1. CASE ~PassesGuard(m, t) /\ kind = "fork"
    BY <1>1, <2>1
  <2> QED BY <1>1
<1> HIDE DEF kind, F
<1>8. F \in Fires(m, t)
  BY <1>2, <1>3, <1>4, <1>5, <1>6, <1>7
<1> QED BY <1>8 DEF F

---------------------------------------------------------------------------
(* Firing a transition out of an active region.                            *)

\* The region under a state is a region, or there is none.
LEMMA RegionUnderTyped ==
    ASSUME NEW s, NEW target \in StateSet
    PROVE  RegionUnder(s, target) \in Optional(Regions)
<1> DEFINE S == {x \in Ancestry(target) : Graph.ParentState[x] = s}
           child == First(ParentChain[target], S)
<1>1. child \in Optional(StateSet)
  BY ChainTyped, NoneIsNothing, FirstFinds
<1>2. RegionUnder(s, target) = IF child = None THEN None ELSE Graph.RegionOf[child]
  BY DEF RegionUnder
<1> HIDE DEF child
<1> QED BY <1>1, <1>2, RegionOfTyped DEF Optional

\* The walk inwards stays in regions.
LEMMA InnermostTyped ==
    ASSUME NEW m, NEW r \in Regions, NEW target \in StateSet
    PROVE  InnermostActiveRegion(m, r, target) \in Regions
<1> DEFINE V == [m : {m}, at : Regions, target : {target}]
           base == [m |-> m, at |-> r, target |-> target]
<1>1. base \in V
  OBVIOUS
<1>2. ASSUME NEW acc \in V, NEW i \in 1..Len(Levels)
      PROVE  Inward(acc, Levels[i]) \in V
  <2> DEFINE inner == RegionUnder(acc.m.regionStates[acc.at], acc.target)
  <2>1. Inward(acc, Levels[i]) \in {acc, [acc EXCEPT !.at = inner]}
        /\ (inner = None => Inward(acc, Levels[i]) = acc)
    BY DEF Inward
  <2>2. inner \in Optional(Regions)
    BY RegionUnderTyped
  <2> HIDE DEF inner
  <2>3. inner # None => [acc EXCEPT !.at = inner] \in V
    BY <2>2 DEF Optional
  <2> QED BY <2>1, <2>3
<1> HIDE DEF V, base
<1>3. Inwards!Over(base, Levels) \in V
  BY <1>1, <1>2, LevelsTyped, LoopsInduct, Inwards!LoopKeeps
<1> QED BY <1>3 DEF InnermostActiveRegion, V, base

\* Leaving a region's active state is quiet.
LEMMA ExitRegionToQuiet ==
    ASSUME NEW m \in Machine, NEW r \in Regions, NEW stop
    PROVE  ExitRegionTo(m, r, stop) \in Quiet(m)
<1> DEFINE dropped == WithoutRegion(m, r)
           leaving == UpTo(m.regionStates[r], stop)
           kept == Keep(leaving, {s \in ToSet(leaving) : RegionContains(r, s)})
           a == IF stop = None THEN ForgetRegion(dropped, r) ELSE dropped
<1>1. ExitRegionTo(m, r, stop) = IF r \notin ActiveRegions(m) THEN m ELSE ExitAll(a, kept)
  BY DEF ExitRegionTo
<1>2. CASE r \in ActiveRegions(m)
  <2>1. m.regionStates[r] \in StateSet
    BY <1>2, MachineHas, AssignmentHas DEF Configurations, ActiveRegions
  <2>2. leaving \in Seq(StateSet)
    BY <2>1, UpToTyped DEF Optional
  <2> HIDE DEF leaving
  <2>3. kept \in Seq(StateSet)
    BY <2>2, KeepKeeps
  <2> HIDE DEF kept
  <2>4. dropped \in Quiet(m) /\ dropped \in Machine
    BY WithRegionQuiet DEF Quiet
  <2> HIDE DEF dropped
  <2>5. a \in Quiet(m) /\ a \in Machine
    BY <2>4, RecordQuiet, QuietTransitive DEF Quiet
  <2> HIDE DEF a
  <2> QED BY <1>1, <1>2, <2>3, <2>5, ExitAllQuiet, QuietTransitive
<1> QED BY <1>1, <1>2, QuietReflexive

\* Scheduling from the states just entered is quiet.
LEMMA ScheduleFromEnteredQuiet ==
    ASSUME NEW m \in Machine, NEW s \in StateSet
    PROVE  ScheduleFromEntered(m, s) \in Quiet(m)
BY LeavesTyped, ScheduleQuiet DEF ScheduleFromEntered

\* A region's branch towards a target is a state.
LEMMA BranchInTyped ==
    ASSUME NEW r, NEW target \in StateSet
    PROVE  BranchIn(r, target) \in StateSet
<1> DEFINE path == BranchesTo(None, target)
<1>1. path \in Configurations
  BY BranchesTyped
<1>2. BranchIn(r, target) = IF r \in DOMAIN path THEN path[r] ELSE target
  BY DEF BranchIn
<1> HIDE DEF path
<1> QED BY <1>1, <1>2, AssignmentHas DEF Configurations

\* A move between regions, whatever it keeps, fires its transition.
LEMMA MoveKeepingFires ==
    ASSUME NEW m \in Machine, NEW from \in Regions, NEW into \in Regions, NEW t \in Transitions,
           NEW target \in StateSet, NEW keep, NEW plan,
           plan.enter \in StateSet, plan.branches \in Configurations
    PROVE  MoveKeeping(m, from, into, t, target, keep, plan) \in Fires(m, t)
<1> DEFINE a0 == IF from = into THEN m ELSE ExitRegionTo(m, from, None)
           a == ExitRegionTo(a0, into, keep)
           b == RunEffect(a, t)
           branch == BranchIn(into, target)
           c == WithRegion(b, into, branch)
           path == DescendantChain(keep, plan.enter)
           d == EnterAll(c, path, plan.branches)
           e == ScheduleFromEntered(d, branch)
<1>0. MoveKeeping(m, from, into, t, target, keep, plan) = e
  BY DEF MoveKeeping, LeaveBoth
<1>1. a0 \in Quiet(m) /\ a0 \in Machine
  BY ExitRegionToQuiet, QuietReflexive DEF Quiet
<1> HIDE DEF a0
<1>2. a \in Quiet(m) /\ a \in Machine
  BY <1>1, ExitRegionToQuiet, QuietTransitive DEF Quiet
<1> HIDE DEF a
<1>3. b \in Fires(m, t) /\ b \in Machine
  BY <1>2, EffectFires, QuietFires DEF Fires
<1> HIDE DEF b
<1>4. branch \in StateSet /\ path \in Seq(StateSet)
  BY BranchInTyped, DescendantChainTyped
<1> HIDE DEF branch, path
<1>5. c \in Quiet(b) /\ c \in Machine
  BY <1>3, <1>4, WithRegionQuiet DEF Quiet
<1> HIDE DEF c
<1>6. d \in Quiet(b) /\ d \in Machine
  BY <1>3, <1>4, <1>5, EnterAllQuiet, QuietTransitive DEF Quiet
<1> HIDE DEF d
<1>7. e \in Quiet(b)
  BY <1>3, <1>4, <1>6, ScheduleFromEnteredQuiet, QuietTransitive
<1> HIDE DEF e
<1> QED BY <1>0, <1>3, <1>7, QuietFires

\* A transition inside a region, or into a concurrent one.
LEMMA MoveFires ==
    ASSUME NEW m \in Machine, NEW from \in Regions, NEW into \in Regions, NEW t \in Transitions,
           NEW target \in StateSet
    PROVE  MoveBetweenRegions(m, from, into, t, target) \in Fires(m, t)
<1> DEFINE active == IF into \in ActiveRegions(m) THEN m.regionStates[into] ELSE None
           keep == Kept(into, Boundary(t, active, target))
           plan == EntryPlan(keep, target)
<1>1. MoveBetweenRegions(m, from, into, t, target) = MoveKeeping(m, from, into, t, target, keep, plan)
  BY DEF MoveBetweenRegions
<1> HIDE DEF keep
<1>2. plan.enter \in StateSet /\ plan.branches \in Configurations
  BY EntryPlanTyped
<1> HIDE DEF plan
<1> QED BY <1>1, <1>2, MoveKeepingFires

\* Entering a target outside the regions that were left is quiet.
LEMMA EnterOutsideQuiet ==
    ASSUME NEW m \in Machine, NEW lca, NEW target \in StateSet
    PROVE  EnterOutside(m, lca, target) \in Quiet(m)
<1> DEFINE plan == EntryPlan(lca, target)
           path == DescendantChain(lca, plan.enter)
           a == EnterAll(m, path, plan.branches)
           into == PutAll(a.regionStates, BranchesTo(None, target))
           simple == IF into = <<>> THEN target ELSE a.simpleState
           b == [a EXCEPT !.regionStates = into, !.simpleState = simple]
           c == ScheduleFromEntered(b, plan.enter)
           d == Finish(c, target)
<1>0. EnterOutside(m, lca, target) = d
  <2>1. Place(a, target) = b
    BY DEF Place
  <2> HIDE DEF b, a
  <2> QED BY <2>1 DEF EnterOutside, a
<1>1. plan.enter \in StateSet /\ plan.branches \in Configurations
  BY EntryPlanTyped
<1> HIDE DEF plan
<1>2. path \in Seq(StateSet)
  BY <1>1, DescendantChainTyped
<1> HIDE DEF path
<1>3. a \in Quiet(m) /\ a \in Machine
  BY <1>1, <1>2, EnterAllQuiet DEF Quiet
<1> HIDE DEF a
<1>4. into \in Configurations
  BY <1>3, MachineHas, BranchesTyped, AssignmentOps DEF Configurations
<1>5. simple \in Optional(StateSet)
  BY <1>3, MachineHas DEF Optional
<1> HIDE DEF into, simple
<1>6. b \in Quiet(m) /\ b \in Machine
  <2>1. b \in Quiet(a)
    BY <1>3, <1>4, <1>5, PlaceQuiet
  <2> HIDE DEF b
  <2> QED BY <1>3, <2>1, QuietTransitive DEF Quiet
<1> HIDE DEF b
<1>7. c \in Quiet(m) /\ c \in Machine
  BY <1>1, <1>6, ScheduleFromEnteredQuiet, QuietTransitive DEF Quiet
<1> HIDE DEF c
<1>8. d \in Quiet(m)
  BY <1>7, FinishQuiet, QuietTransitive
<1> HIDE DEF d
<1> QED BY <1>0, <1>8

\* A transition out of a machine's own regions.
LEMMA LeaveTopFires ==
    ASSUME NEW m \in Machine, NEW t \in Transitions, NEW target \in StateSet
    PROVE  LeaveTopRegions(m, t, target) \in Fires(m, t)
<1> DEFINE regions == Graph.TopRegions[m.of]
           a == TopExits!Over(m, regions)
           b == [a EXCEPT !.regionStates = <<>>, !.simpleState = None]
           c == RunEffect(b, t)
           d == EnterOutside(c, None, target)
<1>0. LeaveTopRegions(m, t, target) = d
  BY DEF LeaveTopRegions
<1>1. regions \in Seq(Regions) /\ Len(regions) \in Nat
  <2>1. regions \in Seq(Regions)
    BY MachineHas, RegionOfTyped
  <2> QED BY <2>1, LenProperties
<1> HIDE DEF regions
<1>2. ASSUME NEW v \in Quiet(m), NEW i \in 1..Len(regions)
      PROVE  LeaveTopRegion(v, regions[i]) \in Quiet(m)
  <2> DEFINE r == regions[i]
             n == WithoutRegion(v, r)
             chain == ParentChain[v.regionStates[r]]
             k == ExitStates(n, chain)
  <2>1. v \in Machine
    BY DEF Quiet
  <2>2. LeaveTopRegion(v, r) = IF r \in ActiveRegions(v) THEN k ELSE v
    BY DEF LeaveTopRegion
  <2>3. CASE r \in ActiveRegions(v)
    <3>1. v.regionStates[r] \in StateSet
      BY <2>1, <2>3, MachineHas, AssignmentHas DEF Configurations, ActiveRegions
    <3>2. chain \in Seq(StateSet)
      BY <3>1, ChainTyped
    <3> HIDE DEF chain
    <3>3. n \in Quiet(m) /\ n \in Machine
      BY <2>1, WithRegionQuiet, QuietTransitive DEF Quiet
    <3> HIDE DEF n
    <3>4. k \in Quiet(m)
      BY <3>2, <3>3, ExitStatesQuiet, QuietTransitive
    <3> HIDE DEF k
    <3> QED BY <2>2, <2>3, <3>4
  <2> QED BY <2>2, <2>3
<1>3. a \in Quiet(m) /\ a \in Machine
  <2>1. a \in Quiet(m)
    BY <1>1, <1>2, QuietReflexive, LoopsInduct, TopExits!LoopKeeps
  <2> QED BY <2>1 DEF Quiet
<1> HIDE DEF a
<1>4. b \in Quiet(m) /\ b \in Machine
  <2>1. b \in Quiet(a)
    BY <1>3, PlaceQuiet, EmptyConfiguration DEF Optional
  <2> HIDE DEF b
  <2> QED BY <1>3, <2>1, QuietTransitive DEF Quiet
<1> HIDE DEF b
<1>5. c \in Fires(m, t) /\ c \in Machine
  BY <1>4, EffectFires, QuietFires DEF Fires
<1> HIDE DEF c
<1>6. d \in Quiet(c)
  BY <1>5, EnterOutsideQuiet
<1> HIDE DEF d
<1> QED BY <1>0, <1>5, <1>6, QuietFires

\* A transition out of the regions a state owns.
LEMMA LeaveFires ==
    ASSUME NEW m \in Machine, NEW r \in Regions, NEW t \in Transitions, NEW target \in StateSet
    PROVE  LeaveRegion(m, r, t, target) \in Fires(m, t)
<1> DEFINE owner == Graph.RegionOwner[r]
           lca == LCA(owner, target)
           path == UpTo(owner, lca)
           a == RegionExits!Over(m, path)
           b == RunEffect(a, t)
           c == EnterOutside(b, lca, target)
<1>0. LeaveRegion(m, r, t, target) = IF owner = None THEN LeaveTopRegions(m, t, target) ELSE c
  BY DEF LeaveRegion
<1>1. path \in Seq(StateSet) /\ Len(path) \in Nat
  <2>1. path \in Seq(StateSet)
    BY RegionOfTyped, UpToTyped
  <2> QED BY <2>1, LenProperties
<1> HIDE DEF path
<1>2. ASSUME NEW v \in Quiet(m), NEW i \in 1..Len(path)
      PROVE  LeaveFromRegion(v, path[i]) \in Quiet(m)
  <2> DEFINE s == path[i]
             e == EnclosingRegion(s)
             within == e \in ActiveRegions(v) /\ s \in Ancestry(v.regionStates[e])
             n == IF within THEN WithoutRegion(RecordActive(v, e), e) ELSE v
  <2>1. v \in Machine /\ s \in StateSet
    BY <1>1, ElementOfSeq DEF Quiet
  <2>2. LeaveFromRegion(v, s) = ExitState(n, s)
    BY DEF LeaveFromRegion
  <2> HIDE DEF s
  <2>3. n \in Quiet(m) /\ n \in Machine
    <3>1. CASE e \in ActiveRegions(v)
      <4> DEFINE k == RecordActive(v, e)
      <4>1. k \in Quiet(v) /\ k \in Machine
        BY <2>1, <3>1, RecordActiveQuiet DEF Quiet
      <4> HIDE DEF k
      <4>2. WithoutRegion(k, e) \in Quiet(k)
        BY <4>1, WithRegionQuiet
      <4>3. WithoutRegion(k, e) \in Quiet(m)
        BY <4>1, <4>2, QuietTransitive
      <4> QED BY <2>1, <4>3 DEF k, Quiet
    <3>2. CASE e \notin ActiveRegions(v)
      BY <2>1, <3>2
    <3> QED BY <3>1, <3>2
  <2> HIDE DEF n
  <2>4. ExitState(n, s) \in Quiet(m)
    BY <2>1, <2>3, ExitStateQuiet, QuietTransitive
  <2> QED BY <2>2, <2>4 DEF s
<1>3. a \in Quiet(m) /\ a \in Machine
  <2>1. a \in Quiet(m)
    BY <1>1, <1>2, QuietReflexive, LoopsInduct, RegionExits!LoopKeeps
  <2> QED BY <2>1 DEF Quiet
<1> HIDE DEF a
<1>4. b \in Fires(m, t) /\ b \in Machine
  BY <1>3, EffectFires, QuietFires DEF Fires
<1> HIDE DEF b
<1>5. c \in Quiet(b)
  BY <1>4, EnterOutsideQuiet
<1> HIDE DEF c
<1>6. c \in Fires(m, t)
  BY <1>4, <1>5, QuietFires
<1> QED BY <1>0, <1>6, LeaveTopFires

\* A transition from a state in an active region to any state.
LEMMA FireInsideFires ==
    ASSUME NEW m \in Machine, NEW r \in Regions, NEW t \in Transitions, NEW target \in StateSet
    PROVE  FireInside(m, r, t, target) \in Fires(m, t)
<1> DEFINE sides == IF RegionContains(r, target) THEN <<r, r>> ELSE ConcurrentRegionsFor(r, target)
           inner == IF sides[1] = sides[2] THEN r ELSE InnermostActiveRegion(m, sides[2], target)
<1>1. FireInside(m, r, t, target) =
          IF sides[2] = None THEN LeaveRegion(m, r, t, target)
          ELSE MoveBetweenRegions(m, sides[1], inner, t, target)
  BY DEF FireInside, LeaveOrMove
<1>2. sides = <<None, None>> \/ \E a, b \in Regions : sides = <<a, b>>
  BY ConcurrentTyped
<1> HIDE DEF sides
<1>3. sides[2] # None => sides[1] \in Regions /\ sides[2] \in Regions
  BY <1>2
<1>4. sides[2] # None => inner \in Regions
  BY <1>3, InnermostTyped
<1> HIDE DEF inner
<1> QED BY <1>1, <1>3, <1>4, LeaveFires, MoveFires

\* Firing a transition, wherever its source is, runs its effect at most once
\* and touches no event that was sent to the machine.
LEMMA FireFromFires ==
    ASSUME NEW m \in Machine, NEW source \in StateSet, NEW t \in Transitions
    PROVE  FireFrom(m, source, t) \in Fires(m, t)
<1> DEFINE r == ActiveRegionOf(m, source)
           n == Graph.Transition[t].target
<1>0. n \in StateSet \cup Pseudostates
  BY GraphAssumption DEF TransitionsAreTyped
<1>1. FireFrom(m, source, t) = IF r = None THEN FireTransition(m, t)
          ELSE IF IsSynchronizationTarget(n) THEN FireTransition(m, t)
          ELSE IF ~PassesGuard(m, t) THEN m
          ELSE FireInside(m, r, t, Target(m, n))
  BY DEF FireFrom, FireTransitionInRegion
<1>2. r \in Optional(Regions)
  BY ActiveRegionOfTyped
<1>3. ~IsSynchronizationTarget(n) => Target(m, n) \in StateSet
  BY <1>0, TargetTyped DEF IsSynchronizationTarget
<1> HIDE DEF r, n
<1>4. r # None /\ ~IsSynchronizationTarget(n) => FireInside(m, r, t, Target(m, n)) \in Fires(m, t)
  BY <1>2, <1>3, FireInsideFires DEF Optional
<1>5. m \in Fires(m, t)
  BY QuietReflexive, QuietFires
<1> QED BY <1>1, <1>4, <1>5, FireTransitionFires

---------------------------------------------------------------------------
(* The head of the queue.                                                  *)

\* A set of numbers that is not empty has a least one.
LEMMA LeastNatural ==
    ASSUME NEW S, S \subseteq Nat, S # {}
    PROVE  \E n \in S : \A k \in S : n <= k
<1> SUFFICES ASSUME \A n \in S : \E k \in S : k < n PROVE FALSE
  <2>1. \A n, k \in S : ~(n <= k) => k < n
    OBVIOUS
  <2> QED BY <2>1
<1>1. PICK n \in S : TRUE
  OBVIOUS
<1> DEFINE T == {k \in Nat : \A j \in 0..k : j \notin S}
<1>2. 0 \in T
  <2>1. \A k \in Nat : ~(k < 0)
    OBVIOUS
  <2>2. 0 \notin S
    BY <2>1
  <2> QED BY <2>2
<1>3. ASSUME NEW i \in 1..n, i - 1 \in T PROVE i \in T
  <2>1. n \in Nat /\ i \in Nat
    BY <1>1
  <2>2. \A j \in 0..(i - 1) : j \notin S
    BY <1>3
  <2>3. i \notin S
    <3> SUFFICES ASSUME i \in S PROVE FALSE
      OBVIOUS
    <3>1. PICK k \in S : k < i
      OBVIOUS
    <3>2. k \in 0..(i - 1)
      BY <2>1, <3>1
    <3> QED BY <2>2, <3>2
  <2>4. \A j \in 0..i : j \in 0..(i - 1) \/ j = i
    BY <2>1
  <2> QED BY <2>1, <2>2, <2>3, <2>4
<1> HIDE DEF T
<1>4. n \in Nat
  BY <1>1
<1>5. \A i \in 0..n : i \in T
  BY <1>2, <1>3, <1>4, Climb
<1>6. n \in T
  BY <1>4, <1>5
<1> QED BY <1>1, <1>4, <1>6 DEF T

\* A set of integers that is not empty and has a lower bound has a least one.
LEMMA LeastInteger ==
    ASSUME NEW S, S \subseteq Int, S # {}, NEW b \in Int, \A k \in S : b <= k
    PROVE  \E n \in S : \A k \in S : n <= k
<1> DEFINE T == {k - b : k \in S}
<1>1. T \subseteq Nat /\ T # {}
  <2>1. \A k \in S : k - b \in Nat
    <3> SUFFICES ASSUME NEW k \in S PROVE k - b \in Nat
      OBVIOUS
    <3>1. k \in Int /\ b <= k
      OBVIOUS
    <3> QED BY <3>1
  <2> QED BY <2>1
<1>2. PICK x \in T : \A y \in T : x <= y
  <2> HIDE DEF T
  <2> QED BY <1>1, LeastNatural
<1>3. PICK n \in S : x = n - b
  BY <1>2
<1>4. ASSUME NEW k \in S PROVE n <= k
  <2>1. k - b \in T /\ n \in Int /\ k \in Int
    BY <1>3
  <2>2. x <= k - b
    BY <1>2, <2>1
  <2> QED BY <1>3, <2>1, <2>2
<1> QED BY <1>4

\* Peek is the first event: of the earliest ones a completion if there is one,
\* and of those the one with the lowest number.
LEMMA PeekIsFirst ==
    ASSUME NEW m \in Machine, m.eventQueue # {}
    PROVE  /\ Peek(m.eventQueue) \in m.eventQueue
           /\ \A f \in m.eventQueue \ {Peek(m.eventQueue)} : Less(Peek(m.eventQueue), f)
<1> DEFINE q == m.eventQueue
<1>1. /\ \A e \in q : e.id \in Nat /\ e.time \in Int
      /\ \A e, f \in q : e.id = f.id => e = f
      /\ \E b \in Int : \A e \in q : b <= e.time
  BY EventsHave DEF Timely, Bounded
<1>2. q # {}
  OBVIOUS
<1>3. Peek(m.eventQueue) = CHOOSE e \in q : \A f \in q \ {e} : Less(e, f)
  BY DEF Peek
<1> HIDE DEF q
<1> DEFINE times == {e.time : e \in q}
<1>4. PICK t \in times : \A k \in times : t <= k
  <2>1. times \subseteq Int /\ times # {}
    BY <1>1, <1>2
  <2>2. PICK b \in Int : \A k \in times : b <= k
    BY <1>1
  <2> HIDE DEF times
  <2> QED BY <2>1, <2>2, LeastInteger
<1> DEFINE early == {e \in q : e.time = t}
           done == {e \in early : IsCompletionEvent(e)}
           best == IF done # {} THEN done ELSE early
           ids == {e.id : e \in best}
<1>5. best \subseteq early /\ best # {}
  BY <1>4
<1>6. PICK i \in ids : \A k \in ids : i <= k
  <2>1. ids \subseteq Nat /\ ids # {}
    BY <1>1, <1>5
  <2> HIDE DEF ids
  <2> QED BY <2>1, LeastNatural
<1>7. PICK e \in best : e.id = i
  BY <1>6
<1>8. e \in q /\ e.time = t
  BY <1>5, <1>7
<1>9. ASSUME NEW f \in q \ {e} PROVE Less(e, f)
  <2>1. f.time \in Int /\ e.time \in Int /\ f.id \in Nat /\ e.id \in Nat /\ f.id # e.id
    BY <1>1, <1>8
  <2>2. e.time <= f.time
    BY <1>4, <1>8
  <2>3. CASE e.time < f.time
    BY <2>3 DEF Less
  <2>4. CASE e.time = f.time
    <3>1. f \in early
      BY <1>8, <2>4
    <3>2. CASE f \in best
      <4>1. e.id <= f.id
        BY <1>6, <1>7, <3>2
      <4>2. e.id < f.id
        BY <2>1, <4>1
      <4>3. IsCompletionEvent(e) <=> IsCompletionEvent(f)
        BY <1>7, <3>2
      <4> QED BY <2>4, <4>2, <4>3 DEF Less
    <3>3. CASE f \notin best
      <4>1. IsCompletionEvent(e) /\ ~IsCompletionEvent(f)
        BY <1>7, <3>1, <3>3
      <4> QED BY <2>4, <4>1 DEF Less
    <3> QED BY <3>2, <3>3
  <2> QED BY <2>1, <2>2, <2>3, <2>4
<1>10. \E x \in q : \A f \in q \ {x} : Less(x, f)
  BY <1>8, <1>9
<1> HIDE DEF best, early
<1> QED BY <1>3, <1>10 DEF q

\* The head of the queue is due first.  It is not in the past unless it is the timer of
\* a negative duration, and if it was sent to the machine it is the oldest of those
\* sent, when all of them are due at one time.
LEMMA PeekIsDue ==
    ASSUME NEW m \in Machine, m.eventQueue # {}
    PROVE  LET e == Peek(m.eventQueue)
           IN  /\ e \in m.eventQueue /\ e \in Events
               /\ e.time >= m.currentTime \/ RunsBack(e)
               /\ \A f \in m.eventQueue : e.time <= f.time
               /\ IsPoolEvent(e) /\ WaitingNow(m) => \A f \in PoolOf(m.eventQueue) : e.id <= f.id
<1> DEFINE q == m.eventQueue
           e == Peek(q)
<1>1. e \in q /\ \A f \in q \ {e} : Less(e, f)
  BY PeekIsFirst
<1>2. /\ \A f \in q : f \in Events /\ f.id \in Nat /\ f.time \in Int
      /\ \A f \in q : f.time >= m.currentTime \/ RunsBack(f)
      /\ WaitingNow(m) => \A f \in q : IsPoolEvent(f) => f.time = m.currentTime
  BY EventsHave DEF Timely, WaitingNow
<1> HIDE DEF q, e
<1>3. ASSUME NEW f \in q PROVE e.time <= f.time
  <2>1. CASE f = e
    BY <1>2, <2>1
  <2>2. CASE f # e
    BY <1>1, <1>2, <2>2 DEF Less
  <2> QED BY <2>1, <2>2
<1>4. ASSUME IsPoolEvent(e), WaitingNow(m), NEW f \in PoolOf(q) PROVE e.id <= f.id
  <2>1. f \in q /\ IsPoolEvent(f)
    BY DEF PoolOf
  <2>2. f.time = e.time /\ ~IsCompletionEvent(f) /\ ~IsCompletionEvent(e)
    BY <1>1, <1>2, <1>4, <2>1 DEF IsPoolEvent, IsCompletionEvent
  <2>3. CASE f = e
    BY <1>2, <2>1, <2>3
  <2>4. CASE f # e
    <3>1. Less(e, f)
      BY <1>1, <2>1, <2>4
    <3>2. e.id < f.id
      BY <1>1, <1>2, <2>1, <2>2, <3>1 DEF Less
    <3> QED BY <1>1, <1>2, <2>1, <3>2
  <2> QED BY <2>3, <2>4
<1>5. e \in Events /\ (e.time >= m.currentTime \/ RunsBack(e))
  BY <1>1, <1>2
<1> QED BY <1>1, <1>3, <1>4, <1>5 DEF q, e

---------------------------------------------------------------------------
(* The transitions one event or one poll takes.                            *)

Candidates == [leaf : StateSet, trans : Transitions]

\* Neither source is, or contains, the other.
Apart(t, u) ==
    /\ Source(t) # Source(u)
    /\ ~NestedIn(Source(t), Source(u)) /\ ~NestedIn(Source(u), Source(t))

Clear(cs) == \A i, j \in DOMAIN cs : i # j => Apart(cs[i].trans, cs[j].trans)

Resolved(ts) == \A i, j \in DOMAIN ts : i < j => Apart(ts[i], ts[j])

\* The transitions ts were taken, in order, from the first k candidates.
Picked(ts, cs, k) ==
    \E p \in [1..Len(ts) -> 1..k] :
        /\ \A i, j \in 1..Len(ts) : i < j => p[i] < p[j]
        /\ \A i \in 1..Len(ts) : ts[i] = cs[p[i]].trans

\* What is active, and what leaves it, is part of the graph.
LEMMA ConfigurationTyped ==
    ASSUME NEW m \in Machine
    PROVE  /\ Configuration(m) \subseteq StateSet
           /\ \A t \in Outgoing(m) : t \in Transitions /\ Source(t) \in Configuration(m)
<1>1. ToSet(ActiveStates(m)) \subseteq StateSet
  BY OrderedRegionsTyped, ToSetTyped
<1>2. Configuration(m) \subseteq StateSet
  BY <1>1, AncestryTyped DEF Configuration, Optional
<1>3. \A s \in Configuration(m) : \A t \in ToSet(Graph.Transitions[s]) :
          t \in Transitions /\ Source(t) = s
  BY <1>2, TransitionsOf
<1> QED BY <1>2, <1>3 DEF Outgoing

\* A leaf is offered the first eligible transition of some state.
LEMMA OfferedFirst ==
    ASSUME NEW leaf \in StateSet, NEW eligible
    PROVE  LET t == Offered(leaf, eligible)
           IN  /\ t \in Optional(Transitions)
               /\ t # None => /\ t \in eligible /\ t \in Transitions /\ Source(t) \in StateSet
                              /\ t = First(Graph.Transitions[Source(t)], eligible)
<1> DEFINE S == {s \in Ancestry(leaf) : ToSet(Graph.Transitions[s]) \cap eligible # {}}
           source == First(ParentChain[leaf], S)
           t == First(Graph.Transitions[source], eligible)
<1>1. Offered(leaf, eligible) = IF source = None THEN None ELSE t
  BY DEF Offered
<1>2. source \in Optional(StateSet)
  BY ChainTyped, NoneIsNothing, FirstFinds
<1> HIDE DEF source
<1>3. CASE source # None
  <2>1. source \in StateSet
    BY <1>2, <1>3 DEF Optional
  <2>2. /\ Graph.Transitions[source] \in Seq(Transitions)
        /\ \A x \in ToSet(Graph.Transitions[source]) : Source(x) = source
    BY <2>1, TransitionsOf
  <2>3. /\ t \in Optional(Transitions)
        /\ t # None => t \in ToSet(Graph.Transitions[source]) \cap eligible
    BY <2>2, NoneIsNothing, FirstFinds
  <2>4. t # None => Source(t) = source
    BY <2>2, <2>3
  <2> QED BY <1>1, <1>3, <2>1, <2>3, <2>4 DEF Optional
<1> QED BY <1>1, <1>3 DEF Optional

\* No two candidates have the same source: each is the first eligible
\* transition of its source, and none is taken twice.
LEMMA CandidatesDistinct ==
    ASSUME NEW m \in Machine, NEW eligible
    PROVE  LET cs == SelectCandidates(m, eligible)
           IN  /\ cs \in Seq(Candidates)
               /\ \A i \in 1..Len(cs) : cs[i].trans \in eligible /\ Source(cs[i].trans) \in StateSet
               /\ \A i, j \in 1..Len(cs) : i # j => Source(cs[i].trans) # Source(cs[j].trans)
<1> DEFINE leaves == ActiveLeaves(m)
           offers == [i \in DOMAIN leaves |->
                         [leaf |-> leaves[i], trans |-> Offered(leaves[i], eligible)]]
           at == {i \in DOMAIN offers :
                     /\ offers[i].trans # None
                     /\ \A j \in DOMAIN offers : j < i => offers[j].trans # offers[i].trans}
           cs == KeepAt(offers, at)
           U == [leaf : StateSet, trans : Optional(Transitions)]
<1>1. leaves \in Seq(StateSet) /\ DOMAIN leaves = 1..Len(leaves) /\ Len(leaves) \in Nat
      /\ \A i \in 1..Len(leaves) : leaves[i] \in StateSet
  BY ActiveLeavesTyped, LenProperties, ElementOfSeq
<1>2. SelectCandidates(m, eligible) = cs
  BY DEF SelectCandidates
<1> HIDE DEF leaves
<1>3. \A i \in 1..Len(leaves) :
          LET t == offers[i].trans
          IN  /\ offers[i] \in U /\ t \in Optional(Transitions)
              /\ t # None => /\ t \in eligible /\ t \in Transitions /\ Source(t) \in StateSet
                             /\ t = First(Graph.Transitions[Source(t)], eligible)
  BY <1>1, OfferedFirst
<1>4. offers \in Seq(U) /\ DOMAIN offers = 1..Len(leaves) /\ Len(offers) = Len(leaves)
  <2>1. offers = [i \in DOMAIN leaves |-> offers[i]] /\ \A i \in 1..Len(leaves) : offers[i] \in U
    BY <1>1, <1>3
  <2>2. DOMAIN offers = 1..Len(leaves)
    BY <1>1
  <2> HIDE DEF offers, U
  <2> QED BY <1>1, <2>1, <2>2, MappedTyped
<1> HIDE DEF offers
<1>5. cs \in Seq(U) /\ \E p : Selects(p, cs, offers, at, Len(offers))
  <2> HIDE DEF U, at
  <2> QED BY <1>4, KeepAtSelects
<1> HIDE DEF cs
<1>6. PICK p : Selects(p, cs, offers, at, Len(offers))
  BY <1>5
<1>7. Len(cs) \in Nat /\ DOMAIN cs = 1..Len(cs)
  BY <1>5, LenProperties
<1>8. ASSUME NEW i \in 1..Len(cs)
      PROVE  /\ p[i] \in 1..Len(leaves) /\ p[i] \in at /\ cs[i] = offers[p[i]]
             /\ cs[i].trans # None
  <2>1. p[i] \in (1..Len(offers)) \cap at /\ cs[i] = offers[p[i]]
    BY <1>6 DEF Selects
  <2> QED BY <1>4, <2>1
<1>9. ASSUME NEW i \in 1..Len(cs)
      PROVE  /\ cs[i] \in Candidates /\ cs[i].trans \in eligible /\ Source(cs[i].trans) \in StateSet
             /\ cs[i].trans = First(Graph.Transitions[Source(cs[i].trans)], eligible)
  BY <1>3, <1>8 DEF Candidates
<1>10. ASSUME NEW i \in 1..Len(cs), NEW j \in 1..Len(cs), i < j
       PROVE  Source(cs[i].trans) # Source(cs[j].trans)
  <2>1. p[i] < p[j]
    BY <1>6, <1>10 DEF Selects
  <2>2. offers[p[i]].trans # offers[p[j]].trans
    BY <1>4, <1>8, <2>1
  <2>3. cs[i].trans # cs[j].trans
    BY <1>8, <2>2
  <2> QED BY <1>9, <2>3
<1>11. ASSUME NEW i \in 1..Len(cs), NEW j \in 1..Len(cs), i # j
       PROVE  Source(cs[i].trans) # Source(cs[j].trans)
  <2>1. i < j \/ j < i
    BY <1>7, <1>11
  <2> QED BY <1>10, <2>1
<1>12. cs \in Seq(Candidates)
  <2>1. cs = [i \in 1..Len(cs) |-> cs[i]]
    BY <1>5, LenProperties
  <2>2. [i \in 1..Len(cs) |-> cs[i]] \in Seq(Candidates)
    BY <1>7, <1>9, IsASeq
  <2> QED BY <2>1, <2>2
<1>13. \A i \in 1..Len(cs) : cs[i].trans \in eligible /\ Source(cs[i].trans) \in StateSet
  BY <1>9
<1> QED BY <1>2, <1>11, <1>12, <1>13

\* Of the candidates that no nested one was selected with, no two are in
\* conflict.
LEMMA WinnersResolved ==
    ASSUME NEW m \in Machine, NEW eligible
    PROVE  LET w == Winners(SelectCandidates(m, eligible))
           IN  /\ w \in Seq(Candidates) /\ Len(w) \in Nat /\ DOMAIN w = 1..Len(w)
               /\ \A i \in 1..Len(w) : w[i].trans \in eligible /\ Source(w[i].trans) \in StateSet
               /\ Clear(w)
<1> DEFINE cs == SelectCandidates(m, eligible)
           at == {i \in DOMAIN cs : ~LosesToNestedTransition(cs, cs[i])}
           w == KeepAt(cs, at)
<1>1. /\ cs \in Seq(Candidates)
      /\ \A i \in 1..Len(cs) : cs[i].trans \in eligible /\ Source(cs[i].trans) \in StateSet
      /\ \A i, j \in 1..Len(cs) : i # j => Source(cs[i].trans) # Source(cs[j].trans)
  BY CandidatesDistinct
<1>2. Winners(cs) = w
  BY DEF Winners
<1> HIDE DEF cs
<1>3. DOMAIN cs = 1..Len(cs) /\ Len(cs) \in Nat
  BY <1>1, LenProperties
<1>4. w \in Seq(Candidates) /\ \E p : Selects(p, w, cs, at, Len(cs))
  <2> HIDE DEF at
  <2> QED BY <1>1, KeepAtSelects
<1> HIDE DEF w
<1>5. PICK p : Selects(p, w, cs, at, Len(cs))
  BY <1>4
<1>6. Len(w) \in Nat /\ DOMAIN w = 1..Len(w)
  BY <1>4, LenProperties
<1>7. ASSUME NEW i \in 1..Len(w)
      PROVE  p[i] \in 1..Len(cs) /\ p[i] \in at /\ w[i] = cs[p[i]]
  BY <1>5 DEF Selects
<1>8. ASSUME NEW i \in 1..Len(w), NEW j \in 1..Len(w), i # j
      PROVE  Source(w[i].trans) # Source(w[j].trans) /\ ~NestedIn(Source(w[j].trans), Source(w[i].trans))
  <2>1. p[i] # p[j]
    <3>1. i < j \/ j < i
      BY <1>6, <1>8
    <3>2. p[i] \in Int /\ p[j] \in Int
      BY <1>7
    <3>3. p[i] < p[j] \/ p[j] < p[i]
      BY <1>5, <3>1 DEF Selects
    <3> QED BY <3>2, <3>3
  <2>2. Source(w[i].trans) # Source(w[j].trans)
    BY <1>1, <1>7, <2>1
  <2>3. cs[p[j]] \in ToSet(cs)
    BY <1>3, <1>7 DEF ToSet
  <2>4. ~LosesToNestedTransition(cs, cs[p[i]])
    BY <1>7
  <2>5. ~NestedIn(Source(cs[p[j]].trans), Source(cs[p[i]].trans))
    BY <2>3, <2>4 DEF LosesToNestedTransition
  <2> QED BY <1>7, <2>2, <2>5
<1>9. Clear(w)
  <2> SUFFICES ASSUME NEW i \in 1..Len(w), NEW j \in 1..Len(w), i # j
               PROVE  Apart(w[i].trans, w[j].trans)
    BY <1>6 DEF Clear
  <2> QED BY <1>8 DEF Apart
<1>10. \A i \in 1..Len(w) : w[i].trans \in eligible /\ Source(w[i].trans) \in StateSet
  BY <1>1, <1>7
<1> QED BY <1>2, <1>4, <1>6, <1>9, <1>10 DEF cs

\* What is active, what leaves it and what it defers depend only on where the
\* machine is.
LEMMA SameConfiguration ==
    ASSUME NEW m, NEW n,
           n.of = m.of, n.regionStates = m.regionStates, n.simpleState = m.simpleState
    PROVE  /\ ActiveStates(n) = ActiveStates(m) /\ Configuration(n) = Configuration(m)
           /\ Outgoing(n) = Outgoing(m) /\ Watched(n) = Watched(m)
           /\ ActiveLeaves(n) = ActiveLeaves(m)
           /\ \A e : DefersEvent(n, e) = DefersEvent(m, e)
           /\ \A s : IsActive(n, s) = IsActive(m, s)
<1>1. ActiveRegions(n) = ActiveRegions(m)
  BY DEF ActiveRegions
<1>2. OrderedActiveRegions(n) = OrderedActiveRegions(m)
  BY <1>1 DEF OrderedActiveRegions
<1>3. OrderedRegionStates(n) = OrderedRegionStates(m)
  BY <1>2 DEF OrderedRegionStates
<1>4. ActiveStates(n) = ActiveStates(m)
  BY <1>1, <1>3 DEF ActiveStates
<1>5. Configuration(n) = Configuration(m)
  BY <1>4 DEF Configuration
<1>6. Outgoing(n) = Outgoing(m) /\ Watched(n) = Watched(m)
  BY <1>5 DEF Outgoing, Watched
<1>7. \A s : EnclosesActiveRegion(n, s) = EnclosesActiveRegion(m, s)
  BY <1>1 DEF EnclosesActiveRegion
<1>8. ActiveLeaves(n) = ActiveLeaves(m)
  <2>1. {s \in ToSet(ActiveStates(n)) : ~EnclosesActiveRegion(n, s)}
            = {s \in ToSet(ActiveStates(m)) : ~EnclosesActiveRegion(m, s)}
    BY <1>4, <1>7
  <2> QED BY <1>4, <2>1 DEF ActiveLeaves
<1>9. \A e : DefersEvent(n, e) = DefersEvent(m, e)
  BY <1>5 DEF DefersEvent
<1>10. \A s : IsActive(n, s) = IsActive(m, s)
  BY <1>1 DEF IsActive
<1> QED BY <1>4, <1>5, <1>6, <1>8, <1>9, <1>10

\* Nothing taken is picked from no candidates.
LEMMA PickedNone ==
    ASSUME NEW cs
    PROVE  Picked(<<>>, cs, 0)
<1> DEFINE p == [i \in 1..0 |-> i]
<1>1. p \in [1..Len(<<>>) -> 1..0] /\ \A i \in 1..Len(<<>>) : FALSE
  OBVIOUS
<1> HIDE DEF p
<1> QED BY <1>1 DEF Picked

\* One more candidate is passed over or taken last.
LEMMA PickedGrows ==
    ASSUME NEW T, NEW ts \in Seq(T), NEW cs, NEW k \in Nat \ {0}, NEW t \in T, t = cs[k].trans,
           Picked(ts, cs, k - 1)
    PROVE  Picked(ts, cs, k) /\ Picked(Append(ts, t), cs, k)
<1>1. PICK p \in [1..Len(ts) -> 1..(k - 1)] :
          /\ \A i, j \in 1..Len(ts) : i < j => p[i] < p[j]
          /\ \A i \in 1..Len(ts) : ts[i] = cs[p[i]].trans
  BY DEF Picked
<1>2. Len(ts) \in Nat
  BY LenProperties
<1>3. Picked(ts, cs, k)
  <2>1. \A i \in 1..Len(ts) : p[i] \in 1..k
    BY <1>1
  <2>2. p \in [1..Len(ts) -> 1..k]
    BY <1>1, <2>1
  <2> QED BY <1>1, <2>2 DEF Picked
<1> DEFINE u == Append(ts, t)
           q == [i \in 1..(Len(ts) + 1) |-> IF i = Len(ts) + 1 THEN k ELSE p[i]]
<1>4. Len(u) = Len(ts) + 1 /\ u[Len(ts) + 1] = t /\ \A i \in 1..Len(ts) : u[i] = ts[i]
  BY AppendProperties
<1> HIDE DEF u
<1>5. \A i \in 1..Len(u) : \/ i \in 1..Len(ts) /\ q[i] = p[i] /\ p[i] \in 1..(k - 1)
                           \/ i = Len(ts) + 1 /\ q[i] = k
  <2> SUFFICES ASSUME NEW i \in 1..Len(u)
               PROVE  \/ i \in 1..Len(ts) /\ q[i] = p[i] /\ p[i] \in 1..(k - 1)
                      \/ i = Len(ts) + 1 /\ q[i] = k
    OBVIOUS
  <2>1. CASE i = Len(ts) + 1
    BY <1>2, <1>4, <2>1
  <2>2. CASE i # Len(ts) + 1
    <3>1. i \in 1..Len(ts) /\ i \in 1..(Len(ts) + 1)
      BY <1>2, <1>4, <2>2
    <3> QED BY <1>1, <2>2, <3>1
  <2> QED BY <2>1, <2>2
<1>6. q = [i \in 1..Len(u) |-> q[i]]
  BY <1>4
<1> HIDE DEF q
<1>7. \A i \in 1..Len(u) : q[i] \in 1..k
  <2> SUFFICES ASSUME NEW i \in 1..Len(u) PROVE q[i] \in 1..k
    OBVIOUS
  <2> QED BY <1>5
<1>8. q \in [1..Len(u) -> 1..k]
  BY <1>6, <1>7
<1>9. \A i, j \in 1..Len(u) : i < j => q[i] < q[j]
  <2> SUFFICES ASSUME NEW i \in 1..Len(u), NEW j \in 1..Len(u), i < j PROVE q[i] < q[j]
    OBVIOUS
  <2>1. i \in 1..Len(ts) /\ q[i] = p[i] /\ p[i] \in 1..(k - 1)
    BY <1>2, <1>4, <1>5
  <2> QED BY <1>1, <1>5, <2>1
<1>10. \A i \in 1..Len(u) : u[i] = cs[q[i]].trans
  BY <1>1, <1>4, <1>5
<1>11. Picked(u, cs, k)
  BY <1>8, <1>9, <1>10 DEF Picked
<1> QED BY <1>3, <1>11 DEF u

\* What is picked from candidates without conflict is without conflict.
LEMMA PickedResolved ==
    ASSUME NEW T, NEW ts \in Seq(T), NEW cs, DOMAIN cs = 1..Len(cs), Len(cs) \in Nat, Clear(cs),
           Picked(ts, cs, Len(cs))
    PROVE  Resolved(ts)
<1>1. PICK p \in [1..Len(ts) -> 1..Len(cs)] :
          /\ \A i, j \in 1..Len(ts) : i < j => p[i] < p[j]
          /\ \A i \in 1..Len(ts) : ts[i] = cs[p[i]].trans
  BY DEF Picked
<1>2. DOMAIN ts = 1..Len(ts)
  BY LenProperties
<1> SUFFICES ASSUME NEW i \in 1..Len(ts), NEW j \in 1..Len(ts), i < j
             PROVE  Apart(ts[i], ts[j])
  BY <1>2 DEF Resolved
<1>3. p[i] \in 1..Len(cs) /\ p[j] \in 1..Len(cs) /\ p[i] # p[j]
  BY <1>1
<1> QED BY <1>1, <1>3 DEF Clear

\* The effect that a candidate runs is its transition's.
LEMMA FiresOn ==
    ASSUME NEW n \in Machine, NEW cs, NEW k \in Nat \ {0}, cs[k].trans \in Transitions,
           Picked(n.taken, cs, k - 1), NEW x \in Fires(n, cs[k].trans)
    PROVE  Picked(x.taken, cs, k)
<1>1. n.taken \in Seq(Transitions)
  BY MachineHas
<1>2. x.taken \in {n.taken, Append(n.taken, cs[k].trans)}
  BY DEF Fires
<1> DEFINE t == cs[k].trans
           ts == n.taken
<1>3. t = cs[k].trans /\ t \in Transitions /\ ts \in Seq(Transitions) /\ Picked(ts, cs, k - 1)
  BY <1>1
<1> HIDE DEF t, ts
<1>4. Picked(ts, cs, k) /\ Picked(Append(ts, t), cs, k)
  BY <1>3, PickedGrows
<1> QED BY <1>2, <1>4 DEF t, ts

\* One event takes transitions that are not in conflict, and touches no other
\* event that was sent to the machine.
LEMMA BroadcastFires ==
    ASSUME NEW m \in Machine, m.taken = <<>>, NEW e
    PROVE  /\ BroadcastEvent(m, e).m \in Machine
           /\ Follows(m, BroadcastEvent(m, e).m)
           /\ Resolved(BroadcastEvent(m, e).m.taken)
<1> DEFINE eligible == {t \in Outgoing(m) : MatchesEvent(t, e) /\ PassesGuard(m, t)}
           w == Winners(SelectCandidates(m, eligible))
           base == [m |-> m, consumed |-> FALSE]
           V == [k \in 0..Len(w) |->
                    {acc \in [m : Machine, consumed : BOOLEAN] :
                        Follows(m, acc.m) /\ Picked(acc.m.taken, w, k)}]
<1>1. /\ w \in Seq(Candidates) /\ Len(w) \in Nat /\ DOMAIN w = 1..Len(w)
      /\ \A i \in 1..Len(w) : w[i].trans \in eligible /\ Source(w[i].trans) \in StateSet
      /\ Clear(w)
  <2> HIDE DEF eligible
  <2> QED BY WinnersResolved
<1>2. BroadcastEvent(m, e) = Firings!Over(base, w)
  BY DEF BroadcastEvent
<1> HIDE DEF w
<1>3. base \in V[0]
  <2>1. Follows(m, m)
    BY QuietReflexive DEF Quiet
  <2>2. Picked(m.taken, w, 0)
    BY PickedNone
  <2> QED BY <1>1, <2>1, <2>2
<1>4. ASSUME NEW k \in 1..Len(w), NEW acc \in V[k - 1]
      PROVE  FireCandidate(acc, w[k]) \in V[k]
  <2> DEFINE t == w[k].trans
             x == FireFrom(acc.m, Source(t), t)
             n == [m |-> x, consumed |-> TRUE]
  <2>1. FireCandidate(acc, w[k]) = IF PassedOver(acc.m, w[k]) THEN acc ELSE n
    BY DEF FireCandidate
  <2>2. acc.m \in Machine /\ Follows(m, acc.m) /\ Picked(acc.m.taken, w, k - 1)
        /\ acc \in [m : Machine, consumed : BOOLEAN]
    BY <1>1
  <2>3. t \in Transitions /\ Source(t) \in StateSet /\ k \in Nat \ {0}
    <3>1. w[k] \in Candidates
      BY <1>1, ElementOfSeq
    <3> QED BY <1>1, <3>1 DEF Candidates
  <2>4. x \in Fires(acc.m, t)
    BY <2>2, <2>3, FireFromFires
  <2> HIDE DEF x
  <2>5. x \in Machine /\ Follows(m, x) /\ Picked(x.taken, w, k)
    <3>1. x \in Machine /\ Follows(acc.m, x)
      BY <2>4 DEF Fires
    <3> QED BY <2>2, <2>3, <2>4, <3>1, FiresOn, FollowsTransitive
  <2>6. Picked(acc.m.taken, w, k)
    <3>1. acc.m \in Fires(acc.m, t)
      BY <2>2, QuietReflexive, QuietFires
    <3> QED BY <2>2, <2>3, <3>1, FiresOn
  <2>7. n \in V[k]
    <3>1. n \in [m : Machine, consumed : BOOLEAN] /\ n.m = x
      BY <2>5
    <3>2. k \in 0..Len(w)
      BY <1>1
    <3> HIDE DEF n
    <3> QED BY <2>5, <3>1, <3>2
  <2>8. acc \in V[k]
    BY <1>1, <2>2, <2>6
  <2> QED BY <2>1, <2>7, <2>8
<1> HIDE DEF base
<1>5. Firings!Over(base, w) \in V[Len(w)]
  <2> HIDE DEF V
  <2> QED BY <1>1, <1>3, <1>4, LoopsInduct, Firings!LoopSteps
<1> DEFINE r == Firings!Over(base, w)
<1>6. r.m \in Machine /\ Follows(m, r.m) /\ Picked(r.m.taken, w, Len(w))
  <2> HIDE DEF r
  <2>1. r \in V[Len(w)]
    BY <1>5 DEF r
  <2> QED BY <1>1, <2>1
<1> HIDE DEF r
<1>7. r.m.taken \in Seq(Transitions)
  BY <1>6, MachineHas
<1>8. Resolved(r.m.taken)
  BY <1>1, <1>6, <1>7, PickedResolved
<1> QED BY <1>2, <1>6, <1>8 DEF r

---------------------------------------------------------------------------
(* The events that were sent to a machine.                                 *)

QueuedIDs(m) == {e.id : e \in PoolOf(m.eventQueue)}
HeldIDs(m) == {e.id : e \in PoolOf(ToSet(m.deferred))}

\* Some of the events held return to those queued.
PoolRecalls(m, n, held, queued) ==
    \E recalled \in SUBSET held :
        /\ HeldIDs(n) = held \ recalled
        /\ QueuedIDs(n) = queued \cup recalled
        /\ n.nextEventID >= m.nextEventID

PoolArrives(m, n) ==
    /\ QueuedIDs(n) = QueuedIDs(m) \cup {m.nextEventID}
    /\ n.nextEventID = m.nextEventID + 1
    /\ HeldIDs(n) = HeldIDs(m)

PoolStays(m, n) == PoolRecalls(m, n, HeldIDs(m), QueuedIDs(m))

\* The oldest event queued is consumed, dropped or held.
PoolDispatches(m, n) ==
    \E e \in QueuedIDs(m) :
        /\ \A f \in QueuedIDs(m) : e <= f
        /\ \E kept \in {HeldIDs(m), HeldIDs(m) \cup {e}} :
               PoolRecalls(m, n, kept, QueuedIDs(m) \ {e})

\* Every event held is deferred by an active state.
AllDeferred(m) == \A i \in 1..Len(m.deferred) : DefersEvent(m, m.deferred[i])

\* The events held, by number.
LEMMA HeldAre ==
    ASSUME NEW m \in Machine
    PROVE  HeldIDs(m) = {m.deferred[i].id : i \in 1..Len(m.deferred)}
<1>1. DOMAIN m.deferred = 1..Len(m.deferred) /\ \A i \in 1..Len(m.deferred) : IsPoolEvent(m.deferred[i])
  BY MachineHas, EventsHave
<1> QED BY <1>1 DEF HeldIDs, PoolOf, ToSet

\* A machine that takes another's place without an arrival, a dispatch or a
\* recall has the same events.
LEMMA FollowsPool ==
    ASSUME NEW m \in Machine, NEW n \in Machine, Follows(m, n)
    PROVE  /\ QueuedIDs(n) = QueuedIDs(m) /\ HeldIDs(n) = HeldIDs(m)
           /\ n.nextEventID >= m.nextEventID /\ PoolStays(m, n)
<1>1. QueuedIDs(n) = QueuedIDs(m) /\ HeldIDs(n) = HeldIDs(m) /\ n.nextEventID >= m.nextEventID
  BY DEF Follows, QueuedIDs, HeldIDs
<1>2. {} \in SUBSET HeldIDs(m) /\ HeldIDs(n) = HeldIDs(m) \ {} /\ QueuedIDs(n) = QueuedIDs(m) \cup {}
  BY <1>1
<1>3. PoolStays(m, n)
  BY <1>1, <1>2 DEF PoolStays, PoolRecalls
<1> QED BY <1>1, <1>3

\* A recall returns the events no active state defers, keeps the others, and
\* changes nothing else.
LEMMA RecallSteps ==
    ASSUME NEW m \in Machine
    PROVE  LET n == RecallDeferredEvents(m)
           IN  /\ n \in Machine /\ AllDeferred(n) /\ PoolStays(m, n)
               /\ n.of = m.of /\ n.state = m.state /\ n.currentTime = m.currentTime
               /\ n.regionStates = m.regionStates /\ n.simpleState = m.simpleState
               /\ n.taken = m.taken /\ n.doActions = m.doActions /\ n.stateData = m.stateData
               /\ n.changeFired = m.changeFired /\ n.firingChange = m.firingChange
               /\ n.changeRearmed = m.changeRearmed
<1> DEFINE old == m.deferred
           at == StillHeld(m)
           kept == KeepAt(old, at)
           back == {[e EXCEPT !.time = m.currentTime] : e \in Recalled(m)}
           q == m.eventQueue \cup back
           n == [m EXCEPT !.deferred = kept, !.eventQueue = q]
           gone == {old[i].id : i \in (1..Len(old)) \ at}
<1>0. /\ m \in MachineRecords /\ Sound(m) /\ old \in Seq(Events) /\ DOMAIN old = 1..Len(old)
      /\ Len(old) \in Nat /\ m.currentTime \in Int /\ m.nextEventID \in Nat
      /\ m.eventQueue \in SUBSET Events
  BY MachineHas
<1>1. RecallDeferredEvents(m) = n
  BY DEF RecallDeferredEvents
<1>2. kept \in Seq(Events) /\ \E p : Selects(p, kept, old, at, Len(old))
  BY <1>0, KeepAtSelects
<1>3. \A i \in at : i \in 1..Len(old) /\ DefersEvent(m, old[i])
  BY <1>0 DEF StillHeld
<1>4. Recalled(m) = {old[i] : i \in (1..Len(old)) \ at}
  BY <1>0 DEF Recalled
<1> HIDE DEF kept, at
<1>5. PICK p : Selects(p, kept, old, at, Len(old))
  BY <1>2
<1>6. Len(kept) \in Nat /\ DOMAIN kept = 1..Len(kept)
  BY <1>2, LenProperties
<1>7. ASSUME NEW i \in 1..Len(kept)
      PROVE  p[i] \in 1..Len(old) /\ p[i] \in at /\ kept[i] = old[p[i]]
  BY <1>5 DEF Selects
<1>8. ASSUME NEW x \in at PROVE \E i \in 1..Len(kept) : p[i] = x
  BY <1>3, <1>5 DEF Selects
<1>9. /\ \A e \in m.eventQueue : e.id \in Nat /\ e.id < m.nextEventID
      /\ Timely(m.eventQueue, m.currentTime)
      /\ \A e, f \in m.eventQueue : e.id = f.id => e = f
      /\ \A i \in 1..Len(old) :
            /\ old[i] \in Events /\ old[i].id \in Nat
            /\ old[i].id < m.nextEventID /\ IsPoolEvent(old[i])
            /\ \A e \in m.eventQueue : e.id # old[i].id
      /\ \A i, j \in 1..Len(old) : old[i].id = old[j].id => i = j
  BY EventsHave
<1>10. ASSUME NEW b \in back
       PROVE  /\ b \in Events /\ b.time = m.currentTime /\ IsPoolEvent(b)
              /\ \E i \in (1..Len(old)) \ at : b = [old[i] EXCEPT !.time = m.currentTime] /\ b.id = old[i].id
  <2>1. PICK i \in (1..Len(old)) \ at : b = [old[i] EXCEPT !.time = m.currentTime]
    BY <1>4
  <2>2. old[i] \in Events /\ IsPoolEvent(old[i])
    BY <1>9
  <2> DEFINE e == old[i]
  <2> HIDE DEF e, old
  <2>3. e \in Events /\ IsPoolEvent(e) /\ b = [e EXCEPT !.time = m.currentTime]
    BY <2>1, <2>2 DEF e
  <2>4. b \in Events /\ b.time = m.currentTime /\ IsPoolEvent(b) /\ b.id = e.id
    BY <1>0, <2>3 DEF Events, IsPoolEvent
  <2> QED BY <2>1, <2>4 DEF e
<1>11. \A i \in (1..Len(old)) \ at : [old[i] EXCEPT !.time = m.currentTime] \in back
                                      /\ [old[i] EXCEPT !.time = m.currentTime].id = old[i].id
  <2> SUFFICES ASSUME NEW i \in (1..Len(old)) \ at
               PROVE  [old[i] EXCEPT !.time = m.currentTime] \in back
                      /\ [old[i] EXCEPT !.time = m.currentTime].id = old[i].id
    OBVIOUS
  <2>1. old[i] \in Events
    BY <1>9
  <2> QED BY <1>4, <2>1 DEF Events
<1> HIDE DEF back
<1>12. q \in SUBSET Events
  BY <1>0, <1>10
<1> HIDE DEF q
<1>13. /\ n \in MachineRecords /\ n.eventQueue = q /\ n.deferred = kept
       /\ n.nextEventID = m.nextEventID
       /\ n.of = m.of /\ n.state = m.state /\ n.currentTime = m.currentTime
       /\ n.regionStates = m.regionStates /\ n.simpleState = m.simpleState
       /\ n.taken = m.taken /\ n.doActions = m.doActions /\ n.stateData = m.stateData
       /\ n.changeFired = m.changeFired /\ n.firingChange = m.firingChange
       /\ n.changeRearmed = m.changeRearmed
  BY <1>0, <1>2, <1>12 DEF MachineRecords
<1> HIDE DEF n
<1>14. \A e \in q : e \in m.eventQueue \/ e \in back
  BY DEF q
<1>15. \A b \in back : \A e \in m.eventQueue : b.id # e.id
  BY <1>9, <1>10
<1>16. \A b, c \in back : b.id = c.id => b = c
  <2> SUFFICES ASSUME NEW b \in back, NEW c \in back, b.id = c.id PROVE b = c
    OBVIOUS
  <2>1. PICK i \in (1..Len(old)) \ at : b = [old[i] EXCEPT !.time = m.currentTime] /\ b.id = old[i].id
    BY <1>10
  <2>2. PICK j \in (1..Len(old)) \ at : c = [old[j] EXCEPT !.time = m.currentTime] /\ c.id = old[j].id
    BY <1>10
  <2>3. i = j
    BY <1>9, <2>1, <2>2
  <2> QED BY <2>1, <2>2, <2>3
<1>17. \A b \in back : b.id < m.nextEventID /\ b.time = m.currentTime
  BY <1>0, <1>9, <1>10
<1>18. \A i \in 1..Len(kept) : \A b \in back : b.id # kept[i].id
  <2> SUFFICES ASSUME NEW i \in 1..Len(kept), NEW b \in back PROVE b.id # kept[i].id
    OBVIOUS
  <2>1. PICK j \in (1..Len(old)) \ at : b.id = old[j].id
    BY <1>10
  <2>2. p[i] \in 1..Len(old) /\ p[i] \in at /\ kept[i] = old[p[i]]
    BY <1>7
  <2>3. old[p[i]].id # old[j].id
    <3>1. p[i] # j
      BY <2>2
    <3> QED BY <1>9, <2>2, <3>1
  <2> QED BY <2>1, <2>2, <2>3
<1>19. \A i, j \in 1..Len(kept) : kept[i].id = kept[j].id => i = j
  <2> SUFFICES ASSUME NEW i \in 1..Len(kept), NEW j \in 1..Len(kept), kept[i].id = kept[j].id
               PROVE  i = j
    OBVIOUS
  <2>3. kept[i] = old[p[i]] /\ kept[j] = old[p[j]] /\ p[i] \in 1..Len(old) /\ p[j] \in 1..Len(old)
    BY <1>7
  <2>4. old[p[i]].id = old[p[j]].id
    BY <2>3
  <2>1. p[i] = p[j] /\ p[i] \in Int
    <3> HIDE DEF old
    <3> QED BY <1>9, <2>3, <2>4
  <2>2. ~(i < j) /\ ~(j < i)
    BY <1>5, <2>1 DEF Selects
  <2> QED BY <1>6, <2>2
<1>20. Sound(n)
  <2>1. \A e \in n.eventQueue : e.id < n.nextEventID
    BY <1>9, <1>13, <1>14, <1>17
  <2>4. Timely(m.eventQueue \cup back, m.currentTime)
    <3>1. back \in SUBSET Events
      BY <1>10
    <3> QED BY <1>0, <1>9, <1>17, <3>1, TimelySteps
  <2>2. \A e, f \in n.eventQueue : e.id = f.id => e = f
    BY <1>9, <1>13, <1>14, <1>15, <1>16
  <2>3. \A i \in 1..Len(n.deferred) :
          /\ n.deferred[i].id < n.nextEventID /\ IsPoolEvent(n.deferred[i])
          /\ \A e \in n.eventQueue : e.id # n.deferred[i].id
    <3> SUFFICES ASSUME NEW i \in 1..Len(kept)
                 PROVE  /\ kept[i].id < m.nextEventID /\ IsPoolEvent(kept[i])
                        /\ \A e \in q : e.id # kept[i].id
      BY <1>13
    <3>1. kept[i] = old[p[i]] /\ p[i] \in 1..Len(old)
      BY <1>7
    <3> QED BY <1>9, <1>14, <1>18, <3>1
  <2>5. Timely(n.eventQueue, n.currentTime)
    BY <1>13, <2>4 DEF q
  <2> QED BY <1>13, <1>19, <2>1, <2>2, <2>3, <2>5 DEF Sound
<1>21. n \in Machine
  BY <1>13, <1>20 DEF Machine
<1>22. AllDeferred(n)
  <2>1. \A i \in 1..Len(kept) : DefersEvent(m, kept[i])
    BY <1>3, <1>7
  <2>2. \A e : DefersEvent(n, e) = DefersEvent(m, e)
    BY <1>13, SameConfiguration
  <2> QED BY <1>13, <2>1, <2>2 DEF AllDeferred
<1>23. HeldIDs(n) = HeldIDs(m) \ gone
  <2>1. HeldIDs(m) = {old[i].id : i \in 1..Len(old)}
    BY HeldAre
  <2>2. HeldIDs(n) = {kept[i].id : i \in 1..Len(kept)}
    BY <1>13, <1>21, HeldAre
  <2>3. ASSUME NEW i \in 1..Len(kept) PROVE kept[i].id \in HeldIDs(m) \ gone
    <3>1. p[i] \in 1..Len(old) /\ p[i] \in at /\ kept[i] = old[p[i]]
      BY <1>7
    <3>2. ASSUME NEW j \in (1..Len(old)) \ at PROVE old[j].id # kept[i].id
      <4>1. p[i] # j
        BY <3>1
      <4> QED BY <1>9, <3>1, <4>1
    <3> QED BY <2>1, <3>1, <3>2
  <2>4. ASSUME NEW i \in 1..Len(old), old[i].id \notin gone PROVE old[i].id \in HeldIDs(n)
    <3>1. i \in at
      BY <2>4
    <3> QED BY <1>7, <1>8, <2>2, <3>1
  <2> HIDE DEF gone
  <2> QED BY <2>1, <2>2, <2>3, <2>4
<1>24. QueuedIDs(n) = QueuedIDs(m) \cup gone
  <2>1. PoolOf(q) = PoolOf(m.eventQueue) \cup back
    BY <1>10 DEF PoolOf, q
  <2>2. {b.id : b \in back} = gone
    <3>1. \A b \in back : b.id \in gone
      BY <1>10
    <3>2. \A i \in (1..Len(old)) \ at : \E b \in back : old[i].id = b.id
      BY <1>11
    <3> QED BY <3>1, <3>2
  <2> HIDE DEF gone
  <2> QED BY <1>13, <2>1, <2>2 DEF QueuedIDs
<1>25. gone \in SUBSET HeldIDs(m)
  BY HeldAre
<1>26. PoolStays(m, n)
  <2> HIDE DEF gone
  <2>1. n.nextEventID >= m.nextEventID
    BY <1>0, <1>13
  <2>2. PoolRecalls(m, n, HeldIDs(m), QueuedIDs(m))
    BY <1>23, <1>24, <1>25, <2>1 DEF PoolRecalls
  <2> QED BY <2>2 DEF PoolStays
<1> QED BY <1>1, <1>13, <1>21, <1>22, <1>26

\* Taking the first event off the queue moves the clock to it.
LEMMA PopSteps ==
    ASSUME NEW m \in Machine, m.eventQueue # {}
    PROVE  LET e == Peek(m.eventQueue)
               n == [m EXCEPT !.eventQueue = Pop(@), !.currentTime = e.time]
           IN  /\ n \in Machine /\ n.eventQueue = m.eventQueue \ {e}
               /\ n.of = m.of /\ n.state = m.state /\ n.deferred = m.deferred
               /\ n.nextEventID = m.nextEventID /\ n.currentTime = e.time /\ n.taken = m.taken
               /\ HeldIDs(n) = HeldIDs(m)
               /\ QueuedIDs(n) = IF IsPoolEvent(e) THEN QueuedIDs(m) \ {e.id} ELSE QueuedIDs(m)
<1> DEFINE e == Peek(m.eventQueue)
           q == m.eventQueue \ {e}
           time == e.time
           n == [m EXCEPT !.eventQueue = q, !.currentTime = time]
<1>1. [m EXCEPT !.eventQueue = Pop(@), !.currentTime = e.time] = n
  BY DEF Pop
<1>2. /\ e \in m.eventQueue /\ e \in Events
      /\ \A f \in m.eventQueue : e.time <= f.time
  BY PeekIsDue
<1>3. m \in MachineRecords /\ m.eventQueue \in SUBSET Events /\ m.currentTime \in Int
  BY MachineHas
<1>4. /\ \A f \in m.eventQueue : f.id \in Nat /\ f.id < m.nextEventID /\ f.time \in Int
      /\ Timely(m.eventQueue, m.currentTime)
      /\ \A f, g \in m.eventQueue : f.id = g.id => f = g
      /\ \A i \in 1..Len(m.deferred) :
            /\ m.deferred[i].id < m.nextEventID /\ IsPoolEvent(m.deferred[i])
            /\ \A f \in m.eventQueue : f.id # m.deferred[i].id
      /\ \A i, j \in 1..Len(m.deferred) : m.deferred[i].id = m.deferred[j].id => i = j
  BY EventsHave
<1>8. Timely(q, time)
  BY <1>2, <1>3, <1>4, TimelySteps
<1> HIDE DEF e
<1>5. time \in Int /\ q \in SUBSET Events
  BY <1>2, <1>3, <1>4
<1> HIDE DEF q, time
<1>6. /\ n \in MachineRecords /\ n.eventQueue = q
      /\ n.of = m.of /\ n.state = m.state /\ n.deferred = m.deferred
      /\ n.nextEventID = m.nextEventID /\ n.currentTime = time /\ n.taken = m.taken
  BY <1>3, <1>5 DEF MachineRecords
<1>7. q \subseteq m.eventQueue
  BY DEF q
<1> HIDE DEF n
<1>9. Sound(n)
  BY <1>4, <1>6, <1>7, <1>8 DEF Sound
<1>10. n \in Machine
  BY <1>6, <1>9 DEF Machine
<1>11. HeldIDs(n) = HeldIDs(m)
  BY <1>6 DEF HeldIDs
<1>12. QueuedIDs(n) = IF IsPoolEvent(e) THEN QueuedIDs(m) \ {e.id} ELSE QueuedIDs(m)
  <2>1. CASE IsPoolEvent(e)
    <3>1. PoolOf(q) = PoolOf(m.eventQueue) \ {e}
      BY DEF PoolOf, q
    <3>2. \A f \in PoolOf(m.eventQueue) : f \in m.eventQueue
      BY DEF PoolOf
    <3> QED BY <1>2, <1>4, <1>6, <2>1, <3>1, <3>2 DEF QueuedIDs
  <2>2. CASE ~IsPoolEvent(e)
    <3>1. PoolOf(q) = PoolOf(m.eventQueue)
      BY <2>2 DEF PoolOf, q
    <3> QED BY <1>6, <2>2, <3>1 DEF QueuedIDs
  <2> QED BY <2>1, <2>2
<1> QED BY <1>1, <1>6, <1>10, <1>11, <1>12 DEF q, time, e

\* An event that nobody consumed is held or dropped.
LEMMA HoldBackSteps ==
    ASSUME NEW r, r.m \in Machine, NEW e \in Events, IsPoolEvent(e), e.id < r.m.nextEventID,
           \A f \in r.m.eventQueue : f.id # e.id,
           \A i \in 1..Len(r.m.deferred) : r.m.deferred[i].id # e.id
    PROVE  LET d == HoldBack(r, e)
           IN  /\ d \in Machine /\ d.eventQueue = r.m.eventQueue
               /\ d.of = r.m.of /\ d.state = r.m.state /\ d.currentTime = r.m.currentTime
               /\ d.nextEventID = r.m.nextEventID /\ d.taken = r.m.taken
               /\ HeldIDs(d) \in {HeldIDs(r.m), HeldIDs(r.m) \cup {e.id}}
<1> DEFINE m == r.m
           more == Append(m.deferred, e)
           n == [m EXCEPT !.deferred = more]
<1>1. HoldBack(r, e) = IF ~r.consumed /\ DefersEvent(m, e) THEN n ELSE m
  BY DEF HoldBack
<1>2. m \in Machine /\ m \in MachineRecords /\ m.deferred \in Seq(Events) /\ Len(m.deferred) \in Nat
  BY MachineHas
<1>3. /\ \A f \in m.eventQueue : f.id < m.nextEventID
      /\ Timely(m.eventQueue, m.currentTime)
      /\ \A f, g \in m.eventQueue : f.id = g.id => f = g
      /\ \A i \in 1..Len(m.deferred) :
            /\ m.deferred[i].id < m.nextEventID /\ IsPoolEvent(m.deferred[i])
            /\ \A f \in m.eventQueue : f.id # m.deferred[i].id
      /\ \A i, j \in 1..Len(m.deferred) : m.deferred[i].id = m.deferred[j].id => i = j
  BY EventsHave
<1>4. /\ more \in Seq(Events) /\ Len(more) = Len(m.deferred) + 1
      /\ \A i \in 1..Len(m.deferred) : more[i] = m.deferred[i]
      /\ more[Len(m.deferred) + 1] = e
  BY <1>2, AppendProperties
<1>5. \A f \in m.eventQueue : f.id # e.id
  OBVIOUS
<1>6. \A i \in 1..Len(m.deferred) : m.deferred[i].id # e.id
  OBVIOUS
<1>7. e.id < m.nextEventID
  OBVIOUS
<1> HIDE DEF m, more
<1>8. /\ n \in MachineRecords /\ n.eventQueue = m.eventQueue /\ n.deferred = more
      /\ n.of = m.of /\ n.state = m.state /\ n.currentTime = m.currentTime
      /\ n.nextEventID = m.nextEventID /\ n.taken = m.taken
  BY <1>2, <1>4 DEF MachineRecords
<1> HIDE DEF n
<1>9. \A i \in 1..Len(more) : \/ i \in 1..Len(m.deferred) /\ more[i] = m.deferred[i]
                              \/ i = Len(m.deferred) + 1 /\ more[i] = e
  BY <1>2, <1>4
<1>10. Sound(n)
  <2>1. \A i \in 1..Len(more) : /\ more[i].id < m.nextEventID /\ IsPoolEvent(more[i])
                                /\ \A f \in m.eventQueue : f.id # more[i].id
    BY <1>3, <1>5, <1>7, <1>9
  <2>2. \A i, j \in 1..Len(more) : more[i].id = more[j].id => i = j
    <3> SUFFICES ASSUME NEW i \in 1..Len(more), NEW j \in 1..Len(more), more[i].id = more[j].id
                 PROVE  i = j
      OBVIOUS
    <3> QED BY <1>3, <1>6, <1>9
  <2> QED BY <1>3, <1>8, <2>1, <2>2 DEF Sound
<1>11. n \in Machine
  BY <1>8, <1>10 DEF Machine
<1>12. HeldIDs(n) = HeldIDs(m) \cup {e.id}
  <2>1. HeldIDs(m) = {m.deferred[i].id : i \in 1..Len(m.deferred)}
    BY <1>2, HeldAre
  <2>2. HeldIDs(n) = {more[i].id : i \in 1..Len(more)}
    BY <1>8, <1>11, HeldAre
  <2>3. \A i \in 1..Len(m.deferred) : i \in 1..Len(more)
    BY <1>2, <1>4
  <2>4. Len(m.deferred) + 1 \in 1..Len(more)
    BY <1>2, <1>4
  <2>5. \A i \in 1..Len(more) : more[i].id \in HeldIDs(m) \cup {e.id}
    BY <1>9, <2>1
  <2>6. \A i \in 1..Len(m.deferred) : m.deferred[i].id \in HeldIDs(n)
    BY <1>4, <2>2, <2>3
  <2>7. e.id \in HeldIDs(n)
    BY <1>4, <2>2, <2>4
  <2>8. \A x \in HeldIDs(n) : x \in HeldIDs(m) \cup {e.id}
    BY <2>2, <2>5
  <2>9. \A x \in HeldIDs(m) : x \in HeldIDs(n)
    BY <2>1, <2>6
  <2> QED BY <2>7, <2>8, <2>9
<1>13. CASE ~r.consumed /\ DefersEvent(m, e)
  BY <1>1, <1>8, <1>11, <1>12, <1>13 DEF m
<1>14. CASE ~(~r.consumed /\ DefersEvent(m, e))
  BY <1>1, <1>2, <1>14 DEF m
<1> QED BY <1>13, <1>14

\* One transition is not in conflict with itself.
LEMMA OneResolved ==
    ASSUME NEW t
    PROVE  Resolved(<<>>) /\ Resolved(Append(<<>>, t))
<1>1. DOMAIN <<>> = {} /\ DOMAIN Append(<<>>, t) = 1..1
  OBVIOUS
<1> QED BY <1>1 DEF Resolved

\* Forgetting the timer of an event is quiet.
LEMMA ExpiredQuiet ==
    ASSUME NEW m \in Machine, NEW e
    PROVE  Expired(m, e) \in Quiet(m)
<1> DEFINE timers == m.timerScheduled \ {e.what}
           n == [m EXCEPT !.timerScheduled = timers]
<1>1. m \in MachineRecords /\ timers \in SUBSET Transitions
  BY MachineHas
<1>2. Expired(m, e) = n
  BY DEF Expired
<1> HIDE DEF timers
<1>3. n \in MachineRecords
  BY <1>1 DEF MachineRecords
<1> QED BY <1>1, <1>2, <1>3, TouchesNone DEF MachineRecords

\* What dispatching one event, taken off the queue, does.
LEMMA DispatchSteps ==
    ASSUME NEW m \in Machine, m.taken = <<>>, NEW e \in Events, e.id < m.nextEventID, e.id \in Nat,
           \A f \in m.eventQueue : f.id # e.id,
           \A i \in 1..Len(m.deferred) : m.deferred[i].id # e.id
    PROVE  LET d == DispatchEvent(m, e)
           IN  /\ d \in Machine /\ Resolved(d.taken)
               /\ d.of = m.of /\ d.currentTime = m.currentTime /\ d.state \in {m.state, "completed"}
               /\ d.nextEventID >= m.nextEventID /\ QueuedIDs(d) = QueuedIDs(m)
               /\ HeldIDs(d) = HeldIDs(m) \/ (IsPoolEvent(e) /\ HeldIDs(d) = HeldIDs(m) \cup {e.id})
<1> DEFINE d == DispatchEvent(m, e)
<1>1. CASE IsPoolEvent(e)
  <2> DEFINE r == BroadcastEvent(m, e)
             k == r.m
  <2>1. d = HoldBack(r, e)
    BY <1>1 DEF DispatchEvent
  <2>2. k \in Machine /\ Follows(m, k) /\ Resolved(k.taken)
    BY BroadcastFires
  <2> HIDE DEF r
  <2>3. /\ k.nextEventID >= m.nextEventID /\ m.nextEventID \in Nat /\ k.nextEventID \in Nat
        /\ \A f \in k.eventQueue : f.id \in Nat /\ (f \in m.eventQueue \/ f.id >= m.nextEventID)
        /\ k.deferred = m.deferred
    BY <2>2, MachineHas, EventsHave DEF Follows
  <2>4. e.id < k.nextEventID
    BY <2>3
  <2>5. \A f \in k.eventQueue : f.id # e.id
    BY <2>3
  <2>6. \A i \in 1..Len(k.deferred) : k.deferred[i].id # e.id
    BY <2>3
  <2>7. /\ d \in Machine /\ d.eventQueue = k.eventQueue
        /\ d.of = k.of /\ d.state = k.state /\ d.currentTime = k.currentTime
        /\ d.nextEventID = k.nextEventID /\ d.taken = k.taken
        /\ HeldIDs(d) \in {HeldIDs(k), HeldIDs(k) \cup {e.id}}
    BY <1>1, <2>1, <2>2, <2>4, <2>5, <2>6, HoldBackSteps
  <2> HIDE DEF d
  <2>8. QueuedIDs(k) = QueuedIDs(m) /\ HeldIDs(k) = HeldIDs(m)
    BY <2>2, FollowsPool
  <2>9. QueuedIDs(d) = QueuedIDs(k)
    BY <2>7 DEF QueuedIDs
  <2>10. d.of = m.of /\ d.currentTime = m.currentTime /\ d.state \in {m.state, "completed"}
         /\ d.nextEventID >= m.nextEventID /\ Resolved(d.taken)
    BY <2>2, <2>3, <2>7 DEF Follows
  <2> QED BY <1>1, <2>7, <2>8, <2>9, <2>10 DEF d
<1>2. CASE ~IsPoolEvent(e)
  <2> DEFINE x == Expired(m, e)
             t == e.what
  <2>1. t \in Transitions
    BY <1>2 DEF Events
  <2>2. d = IF InActiveConfiguration(x, Source(t)) THEN FireFrom(x, Source(t), t) ELSE x
    BY <1>2 DEF DispatchEvent, FireUnlessStale
  <2> HIDE DEF t
  <2>3. x \in Quiet(m) /\ x \in Machine
    BY ExpiredQuiet DEF Quiet
  <2> HIDE DEF x
  <2>4. InActiveConfiguration(x, Source(t)) => Source(t) \in StateSet
    BY <2>3, ConfigurationTyped DEF InActiveConfiguration
  <2>5. d \in Fires(x, t)
    BY <2>1, <2>2, <2>3, <2>4, FireFromFires, QuietReflexive, QuietFires
  <2> HIDE DEF d
  <2>6. d \in Fires(m, t)
    BY <2>3, <2>5, QuietFires
  <2>7. d \in Machine /\ Follows(m, d) /\ Resolved(d.taken)
    BY <2>6, OneResolved DEF Fires
  <2>8. QueuedIDs(d) = QueuedIDs(m) /\ HeldIDs(d) = HeldIDs(m)
    BY <2>7, FollowsPool
  <2>9. d.of = m.of /\ d.currentTime = m.currentTime /\ d.state \in {m.state, "completed"}
        /\ d.nextEventID >= m.nextEventID
    BY <2>7 DEF Follows
  <2> QED BY <2>7, <2>8, <2>9 DEF d
<1> QED BY <1>1, <1>2

\* What processing the next event does.
LEMMA ProcessSteps ==
    ASSUME NEW m \in Machine, m.taken = <<>>, m.eventQueue # {}
    PROVE  LET n == ProcessQueuedEvent(m)
           IN  /\ n \in Machine /\ AllDeferred(n) /\ Resolved(n.taken)
               /\ n.of = m.of /\ n.state \in {m.state, "completed"}
               /\ n.currentTime = Peek(m.eventQueue).time
               /\ WaitingNow(m) => PoolStays(m, n) \/ PoolDispatches(m, n)
<1> DEFINE e == Peek(m.eventQueue)
           a == [m EXCEPT !.eventQueue = Pop(@), !.currentTime = e.time]
           d == DispatchEvent(a, e)
           n == RecallDeferredEvents(d)
<1>1. ProcessQueuedEvent(m) = n
  BY DEF ProcessQueuedEvent
<1>2. /\ a \in Machine /\ a.eventQueue = m.eventQueue \ {e}
      /\ a.of = m.of /\ a.state = m.state /\ a.deferred = m.deferred
      /\ a.nextEventID = m.nextEventID /\ a.currentTime = e.time /\ a.taken = m.taken
      /\ HeldIDs(a) = HeldIDs(m)
      /\ QueuedIDs(a) = IF IsPoolEvent(e) THEN QueuedIDs(m) \ {e.id} ELSE QueuedIDs(m)
  BY PopSteps
<1>3. /\ e \in m.eventQueue /\ e \in Events
      /\ IsPoolEvent(e) /\ WaitingNow(m) => \A f \in PoolOf(m.eventQueue) : e.id <= f.id
  BY PeekIsDue
<1> HIDE DEF e, a
<1>4. e.id < a.nextEventID /\ e.id \in Nat
  BY <1>2, <1>3, EventsHave
<1>5. \A f \in a.eventQueue : f.id # e.id
  BY <1>2, <1>3, EventsHave
<1>6. \A i \in 1..Len(a.deferred) : a.deferred[i].id # e.id
  BY <1>2, <1>3, EventsHave
<1>7. /\ d \in Machine /\ Resolved(d.taken)
      /\ d.of = a.of /\ d.currentTime = a.currentTime /\ d.state \in {a.state, "completed"}
      /\ d.nextEventID >= a.nextEventID /\ QueuedIDs(d) = QueuedIDs(a)
      /\ HeldIDs(d) = HeldIDs(a) \/ (IsPoolEvent(e) /\ HeldIDs(d) = HeldIDs(a) \cup {e.id})
  BY <1>2, <1>3, <1>4, <1>5, <1>6, DispatchSteps
<1> HIDE DEF d
<1>8. /\ n \in Machine /\ AllDeferred(n) /\ PoolStays(d, n)
      /\ n.of = d.of /\ n.state = d.state /\ n.currentTime = d.currentTime /\ n.taken = d.taken
  BY <1>7, RecallSteps
<1> HIDE DEF n
<1>9. n.nextEventID >= m.nextEventID
  <2>1. n.nextEventID >= d.nextEventID
    BY <1>8 DEF PoolStays, PoolRecalls
  <2>2. n.nextEventID \in Nat /\ d.nextEventID \in Nat /\ m.nextEventID \in Nat
    BY <1>7, <1>8, MachineHas
  <2> QED BY <1>2, <1>7, <2>1, <2>2
<1>10. PoolRecalls(m, n, HeldIDs(d), QueuedIDs(d))
  BY <1>8, <1>9 DEF PoolStays, PoolRecalls
<1>11. CASE IsPoolEvent(e)
  <2>1. WaitingNow(m) => e.id \in QueuedIDs(m) /\ \A f \in QueuedIDs(m) : e.id <= f
    BY <1>3, <1>11 DEF QueuedIDs, PoolOf
  <2>2. QueuedIDs(d) = QueuedIDs(m) \ {e.id} /\ HeldIDs(d) \in {HeldIDs(m), HeldIDs(m) \cup {e.id}}
    BY <1>2, <1>7, <1>11
  <2> QED BY <1>1, <1>2, <1>7, <1>8, <1>10, <2>1, <2>2 DEF PoolDispatches, e
<1>12. CASE ~IsPoolEvent(e)
  <2>1. QueuedIDs(d) = QueuedIDs(m) /\ HeldIDs(d) = HeldIDs(m)
    BY <1>2, <1>7, <1>12
  <2> QED BY <1>1, <1>2, <1>7, <1>8, <1>10, <2>1 DEF PoolStays, e
<1> QED BY <1>11, <1>12

---------------------------------------------------------------------------
(* Polling the change conditions.                                          *)

\* The machine may have latched conditions, been armed anew, sent messages
\* or recorded history; nothing else about it has changed.
InPlace(m, n) ==
    /\ n.of = m.of /\ n.state = m.state
    /\ n.regionStates = m.regionStates /\ n.simpleState = m.simpleState
    /\ n.eventQueue = m.eventQueue /\ n.deferred = m.deferred
    /\ n.nextEventID = m.nextEventID /\ n.currentTime = m.currentTime
    /\ n.doActions = m.doActions /\ n.stateData = m.stateData /\ n.taken = m.taken

\* What holds depends only on the attributes.
LEMMA SameGuards ==
    ASSUME NEW m, NEW n, n.stateData = m.stateData
    PROVE  /\ \A c : Holds(n, c) = Holds(m, c)
           /\ \A t : PassesGuard(n, t) = PassesGuard(m, t)
BY DEF Holds, PassesGuard

\* Setting and clearing latches is quiet.
LEMMA LatchQuiet ==
    ASSUME NEW m \in Machine
    PROVE  /\ \A A, B \in SUBSET Transitions :
                 LET n == [m EXCEPT !.changeFired = A, !.changeRearmed = B]
                 IN  n \in Quiet(m) /\ InPlace(m, n) /\ n.changeFired = A /\ n.changeRearmed = B
           /\ \A A \in SUBSET Transitions : \A x \in Optional(Transitions) :
                 [m EXCEPT !.changeFired = A, !.firingChange = x] \in Quiet(m)
           /\ \A x \in Optional(Transitions) : [m EXCEPT !.firingChange = x] \in Quiet(m)
<1>0. m \in MachineRecords
  BY MachineHas
<1>1. ASSUME NEW A \in SUBSET Transitions, NEW B \in SUBSET Transitions
      PROVE  LET n == [m EXCEPT !.changeFired = A, !.changeRearmed = B]
             IN  n \in Quiet(m) /\ InPlace(m, n) /\ n.changeFired = A /\ n.changeRearmed = B
  <2> DEFINE n == [m EXCEPT !.changeFired = A, !.changeRearmed = B]
  <2>1. n \in MachineRecords /\ InPlace(m, n) /\ n.changeFired = A /\ n.changeRearmed = B
    BY <1>0 DEF MachineRecords, InPlace
  <2> HIDE DEF n
  <2>2. n \in Quiet(m)
    BY <2>1, TouchesNone DEF InPlace
  <2> QED BY <2>1, <2>2 DEF n
<1>2. ASSUME NEW A \in SUBSET Transitions, NEW x \in Optional(Transitions)
      PROVE  [m EXCEPT !.changeFired = A, !.firingChange = x] \in Quiet(m)
  <2> DEFINE n == [m EXCEPT !.changeFired = A, !.firingChange = x]
  <2>1. n \in MachineRecords /\ InPlace(m, n)
    BY <1>0 DEF MachineRecords, InPlace
  <2> HIDE DEF n
  <2>2. n \in Quiet(m)
    BY <2>1, TouchesNone DEF InPlace
  <2> QED BY <2>2 DEF n
<1>3. ASSUME NEW x \in Optional(Transitions)
      PROVE  [m EXCEPT !.firingChange = x] \in Quiet(m)
  <2> DEFINE n == [m EXCEPT !.firingChange = x]
  <2>1. n \in MachineRecords /\ InPlace(m, n)
    BY <1>0 DEF MachineRecords, InPlace
  <2> HIDE DEF n
  <2>2. n \in Quiet(m)
    BY <2>1, TouchesNone DEF InPlace
  <2> QED BY <2>2 DEF n
<1> QED BY <1>1, <1>2, <1>3

\* A change that leaves the machine in place is quiet.
LEMMA InPlaceQuiet ==
    ASSUME NEW m \in Machine, NEW n \in MachineRecords, InPlace(m, n)
    PROVE  n \in Quiet(m)
BY TouchesNone DEF InPlace

\* Observing the conditions re-arms the triggers whose condition is false.
LEMMA ObserveSteps ==
    ASSUME NEW m \in Machine
    PROVE  LET o == Observe(m)
           IN  /\ o \in Quiet(m) /\ InPlace(m, o) /\ o.changeRearmed = {}
               /\ o.changeFired = {t \in m.changeFired : t \in Watched(m) => Holds(m, On(t).holds)}
               /\ o.out = m.out
<1> DEFINE A == {t \in m.changeFired : t \in Watched(m) => Holds(m, On(t).holds)}
           n == [m EXCEPT !.changeFired = A, !.changeRearmed = {}]
<1>1. A \in SUBSET Transitions /\ m \in MachineRecords
  BY MachineHas
<1>2. Observe(m) = n
  BY DEF Observe
<1> HIDE DEF A
<1>3. /\ n \in MachineRecords /\ InPlace(m, n) /\ n.changeFired = A /\ n.changeRearmed = {}
      /\ n.out = m.out
  BY <1>1 DEF MachineRecords, InPlace
<1> HIDE DEF n
<1>4. n \in Quiet(m)
  BY <1>3, InPlaceQuiet
<1> QED BY <1>2, <1>3, <1>4 DEF A

\* Taking a rise fires its transition.
LEMMA RiseFires ==
    ASSUME NEW m \in Machine, NEW t \in Transitions, Source(t) \in StateSet
    PROVE  FireLatched(m, t) \in Fires(m, t)
<1> DEFINE latches == m.changeFired \cup {t}
           a == [m EXCEPT !.changeFired = latches, !.firingChange = t]
           b == FireFrom(a, Source(t), t)
           n == [b EXCEPT !.firingChange = None]
<1>1. FireLatched(m, t) = n
  BY DEF FireLatched, Latched
<1>2. latches \in SUBSET Transitions /\ t \in Optional(Transitions)
  BY MachineHas DEF Optional
<1> HIDE DEF latches
<1>3. a \in Quiet(m) /\ a \in Machine
  BY <1>2, LatchQuiet DEF Quiet
<1> HIDE DEF a
<1>4. b \in Fires(m, t) /\ b \in Machine
  BY <1>3, FireFromFires, QuietFires DEF Fires
<1> HIDE DEF b
<1>5. n \in Quiet(b)
  BY <1>4, LatchQuiet DEF Optional
<1> QED BY <1>1, <1>4, <1>5, QuietFires

\* The transitions a poll takes are not in conflict, and a poll that takes none
\* leaves the machine as it was observed.
LEMMA TakeRisesSteps ==
    ASSUME NEW m \in Machine, m.taken = <<>>
    PROVE  LET r == TakeRises(Observe(m), SelectCandidates(m, Risen(m)))
           IN  /\ r \in [m : Machine, fired : BOOLEAN, blocked : SUBSET Transitions]
               /\ Follows(m, r.m) /\ Resolved(r.m.taken)
               /\ ~r.fired => r.m = Observe(m) /\ r.blocked = {}
               /\ Risen(m) = {} => ~r.fired
<1> DEFINE eligible == Risen(m)
           w == Winners(SelectCandidates(m, eligible))
           o == Observe(m)
           base == [m |-> o, fired |-> FALSE, blocked |-> {}]
           U == [m : Machine, fired : BOOLEAN, blocked : SUBSET Transitions]
           V == [k \in 0..Len(w) |->
                    {acc \in U : /\ Follows(m, acc.m) /\ Picked(acc.m.taken, w, k)
                                 /\ ~acc.fired => acc.m = o /\ acc.blocked = {}
                                 /\ eligible = {} => ~acc.fired}]
<1>1. /\ w \in Seq(Candidates) /\ Len(w) \in Nat /\ DOMAIN w = 1..Len(w)
      /\ \A i \in 1..Len(w) : w[i].trans \in eligible /\ Source(w[i].trans) \in StateSet
      /\ Clear(w)
  <2> HIDE DEF eligible
  <2> QED BY WinnersResolved
<1>2. TakeRises(o, SelectCandidates(m, eligible)) = Rises!Over(base, w)
  BY DEF TakeRises
<1>3. /\ o \in Machine /\ Follows(m, o) /\ o.taken = <<>>
      /\ \A t \in eligible : PassesGuard(o, t)
  <2>1. o \in Quiet(m) /\ InPlace(m, o)
    BY ObserveSteps
  <2> HIDE DEF o
  <2>2. \A t : PassesGuard(o, t) = PassesGuard(m, t)
    BY <2>1, SameGuards DEF InPlace
  <2> QED BY <2>1, <2>2 DEF Quiet, InPlace, Risen
<1> HIDE DEF w, o, eligible
<1>4. base \in V[0]
  <2>1. Picked(o.taken, w, 0)
    BY <1>3, PickedNone
  <2>2. base \in U /\ base.m = o /\ base.fired = FALSE /\ base.blocked = {}
    BY <1>3
  <2> HIDE DEF base, U
  <2> QED BY <1>1, <1>3, <2>1, <2>2
<1>5. ASSUME NEW k \in 1..Len(w), NEW acc \in V[k - 1]
      PROVE  TakeRise(acc, w[k]) \in V[k]
  <2> DEFINE t == w[k].trans
             x == FireLatched(acc.m, t)
             blocked == acc.blocked \cup {t}
             shut == [acc EXCEPT !.blocked = blocked]
             n == [acc EXCEPT !.fired = TRUE, !.m = x]
  <2>0. k \in 0..Len(w) /\ k - 1 \in 0..Len(w) /\ k \in Nat \ {0}
    BY <1>1
  <2>1. TakeRise(acc, w[k]) = IF PassedOver(acc.m, w[k]) THEN acc
                              ELSE IF ~PassesGuard(acc.m, t) THEN shut ELSE n
    BY DEF TakeRise
  <2>2. /\ acc \in U /\ Follows(m, acc.m) /\ Picked(acc.m.taken, w, k - 1)
        /\ ~acc.fired => acc.m = o /\ acc.blocked = {}
        /\ eligible = {} => ~acc.fired
    <3> HIDE DEF U
    <3> QED BY <2>0
  <2>3. t \in Transitions /\ Source(t) \in StateSet /\ t \in eligible
    <3>1. w[k] \in Candidates
      BY <1>1, ElementOfSeq
    <3> QED BY <1>1, <3>1 DEF Candidates
  <2>4. acc.m \in Machine /\ acc.blocked \in SUBSET Transitions
    BY <2>2
  <2>5. Picked(acc.m.taken, w, k)
    <3>1. acc.m \in Fires(acc.m, t)
      BY <2>4, QuietReflexive, QuietFires
    <3> QED BY <2>0, <2>2, <2>3, <2>4, <3>1, FiresOn
  <2>6. x \in Machine /\ Follows(m, x) /\ Picked(x.taken, w, k)
    <3>1. x \in Fires(acc.m, t)
      BY <2>3, <2>4, RiseFires
    <3> HIDE DEF x
    <3>2. x \in Machine /\ Follows(acc.m, x)
      BY <3>1 DEF Fires
    <3> QED BY <2>0, <2>2, <2>3, <2>4, <3>1, <3>2, FiresOn, FollowsTransitive
  <2> HIDE DEF t, x
  <2>7. acc \in V[k]
    <3> HIDE DEF U
    <3> QED BY <2>0, <2>2, <2>5
  <2>8. ~PassesGuard(acc.m, t) => shut \in V[k]
    <3> SUFFICES ASSUME ~PassesGuard(acc.m, t) PROVE shut \in V[k]
      OBVIOUS
    <3>1. acc.fired
      BY <1>3, <2>2, <2>3
    <3>2. blocked \in SUBSET Transitions
      BY <2>3, <2>4
    <3> HIDE DEF blocked
    <3>3. shut \in U /\ shut.m = acc.m /\ shut.fired = acc.fired
      BY <2>2, <3>2
    <3> HIDE DEF shut, U
    <3> QED BY <2>0, <2>2, <2>5, <3>1, <3>3
  <2>9. n \in V[k]
    <3>1. n \in U /\ n.m = x /\ n.fired = TRUE
      BY <2>2, <2>6
    <3> HIDE DEF n, U
    <3> QED BY <2>0, <2>3, <2>6, <3>1
  <2> HIDE DEF V, U, n, shut
  <2> QED BY <2>1, <2>7, <2>8, <2>9
<1>6. Rises!Over(base, w) \in V[Len(w)]
  <2> HIDE DEF V, base
  <2> QED BY <1>1, <1>4, <1>5, LoopsInduct, Rises!LoopSteps
<1> DEFINE r == Rises!Over(base, w)
<1>7. /\ r \in U /\ Follows(m, r.m) /\ Picked(r.m.taken, w, Len(w))
      /\ ~r.fired => r.m = o /\ r.blocked = {}
      /\ eligible = {} => ~r.fired
  <2>1. r \in V[Len(w)]
    BY <1>6
  <2>2. Len(w) \in 0..Len(w)
    BY <1>1
  <2> HIDE DEF r, U
  <2> QED BY <2>1, <2>2
<1> HIDE DEF r
<1>8. r.m \in Machine
  BY <1>7
<1>9. Resolved(r.m.taken)
  <2>1. r.m.taken \in Seq(Transitions)
    BY <1>8, MachineHas
  <2> QED BY <1>1, <1>7, <2>1, PickedResolved
<1> QED BY <1>2, <1>7, <1>9 DEF r, o, eligible

\* A poll takes transitions that are not in conflict and touches no event that
\* was sent to the machine.  One that takes none changes nothing but latches,
\* and leaves no change trigger to take; one with no trigger to take takes none.
LEMMA PollSteps ==
    ASSUME NEW m \in Machine, m.taken = <<>>
    PROVE  LET p == PollChangeEvents(m)
           IN  /\ p.m \in Machine /\ p.fired \in BOOLEAN /\ Resolved(p.m.taken)
               /\ p.m.of = m.of /\ p.m.currentTime = m.currentTime
               /\ p.m.state \in {m.state, "completed"} /\ PoolStays(m, p.m)
               /\ p.fired => AllDeferred(p.m)
               /\ ~p.fired => InPlace(m, p.m) /\ Risen(p.m) = {} /\ p.m.out = m.out
               /\ Risen(m) = {} => ~p.fired
<1> DEFINE o == Observe(m)
           risen == Risen(m)
           r == TakeRises(o, SelectCandidates(m, risen))
           q == IF r.fired THEN [r EXCEPT !.m = RecallDeferredEvents(@)] ELSE r
           consumed == risen \ (q.blocked \cup q.m.changeRearmed)
           latches == q.m.changeFired \cup consumed
           n == [q.m EXCEPT !.changeFired = latches, !.changeRearmed = {}]
           p == [q EXCEPT !.m = n]
           U == [m : Machine, fired : BOOLEAN, blocked : SUBSET Transitions]
<1>1. PollChangeEvents(m) = p
  BY DEF PollChangeEvents, ConsumeRises, Consumed, RecallIfFired
<1>2. /\ r \in U /\ Follows(m, r.m) /\ Resolved(r.m.taken)
      /\ ~r.fired => r.m = o /\ r.blocked = {}
      /\ risen = {} => ~r.fired
  BY TakeRisesSteps
<1>3. /\ o \in Machine /\ InPlace(m, o) /\ o.changeRearmed = {}
      /\ o.changeFired = {t \in m.changeFired : t \in Watched(m) => Holds(m, On(t).holds)}
      /\ o.out = m.out
  BY ObserveSteps DEF Quiet
<1>4. risen \in SUBSET Transitions
  BY ConfigurationTyped DEF Risen, Watched
<1> HIDE DEF r, o, risen
<1>5. r.m \in Machine /\ r.fired \in BOOLEAN
  BY <1>2
<1>6. /\ PoolStays(m, r.m) /\ r.m.of = m.of /\ r.m.currentTime = m.currentTime
      /\ r.m.state \in {m.state, "completed"}
  BY <1>2, <1>5, FollowsPool DEF Follows
<1>7. /\ q \in U /\ q.fired = r.fired /\ Resolved(q.m.taken) /\ PoolStays(m, q.m)
      /\ q.m.of = m.of /\ q.m.currentTime = m.currentTime /\ q.m.state \in {m.state, "completed"}
      /\ q.fired => AllDeferred(q.m)
      /\ ~q.fired => q = r
  <2>1. CASE r.fired
    <3> DEFINE k == RecallDeferredEvents(r.m)
    <3>1. /\ k \in Machine /\ AllDeferred(k) /\ PoolStays(r.m, k)
          /\ k.of = r.m.of /\ k.state = r.m.state /\ k.currentTime = r.m.currentTime
          /\ k.taken = r.m.taken
      BY <1>5, RecallSteps
    <3> HIDE DEF k
    <3>2. q = [r EXCEPT !.m = k]
      BY <2>1 DEF k
    <3>3. q \in U /\ q.m = k /\ q.fired = r.fired
      BY <1>2, <3>1, <3>2
    <3> HIDE DEF q, U
    <3>4. PoolStays(m, k)
      <4>1. QueuedIDs(r.m) = QueuedIDs(m) /\ HeldIDs(r.m) = HeldIDs(m)
            /\ r.m.nextEventID >= m.nextEventID
        BY <1>2, <1>5, FollowsPool
      <4>2. k.nextEventID >= r.m.nextEventID
        BY <3>1 DEF PoolStays, PoolRecalls
      <4>3. k.nextEventID \in Nat /\ r.m.nextEventID \in Nat /\ m.nextEventID \in Nat
        BY <1>5, <3>1, MachineHas
      <4>4. k.nextEventID >= m.nextEventID
        BY <4>1, <4>2, <4>3
      <4> QED BY <3>1, <4>1, <4>4 DEF PoolStays, PoolRecalls
    <3> QED BY <1>2, <1>6, <2>1, <3>1, <3>3, <3>4
  <2>2. CASE ~r.fired
    <3>1. q = r
      BY <2>2
    <3> HIDE DEF q, U
    <3> QED BY <1>2, <1>6, <2>2, <3>1
  <2> QED BY <1>5, <2>1, <2>2
<1> HIDE DEF q
<1>8. q.m \in Machine /\ q.m.changeFired \in SUBSET Transitions
  BY <1>7, MachineHas
<1>9. latches \in SUBSET Transitions
  BY <1>4, <1>8
<1>10. n \in Quiet(q.m) /\ InPlace(q.m, n) /\ n.changeFired = latches /\ n.out = q.m.out
  <2> HIDE DEF latches
  <2>1. q.m \in MachineRecords
    BY <1>8, MachineHas
  <2>2. n \in MachineRecords /\ InPlace(q.m, n) /\ n.changeFired = latches /\ n.out = q.m.out
    BY <1>9, <2>1 DEF MachineRecords, InPlace
  <2> HIDE DEF n
  <2> QED BY <1>8, <2>2, InPlaceQuiet
<1>11. p.m = n /\ p.fired = q.fired
  BY <1>7
<1> HIDE DEF n, p
<1>12. n \in Machine
  BY <1>10 DEF Quiet
<1>13. /\ n.of = m.of /\ n.currentTime = m.currentTime /\ n.state \in {m.state, "completed"}
       /\ Resolved(n.taken)
  BY <1>7, <1>10 DEF InPlace
<1>14. PoolStays(m, n)
  BY <1>7, <1>10 DEF InPlace, PoolStays, PoolRecalls, QueuedIDs, HeldIDs
<1>15. p.fired => AllDeferred(n)
  <2>1. \A e : DefersEvent(n, e) = DefersEvent(q.m, e)
    BY <1>10, SameConfiguration DEF InPlace
  <2> QED BY <1>7, <1>10, <1>11, <2>1 DEF AllDeferred, InPlace
<1>16. ASSUME ~p.fired PROVE InPlace(m, n) /\ Risen(n) = {} /\ n.out = m.out
  <2>1. q.m = o /\ q.blocked = {}
    BY <1>2, <1>7, <1>11, <1>16
  <2>2. InPlace(m, n)
    BY <1>3, <1>10, <2>1 DEF InPlace
  <2>3. n.changeFired = o.changeFired \cup risen
    BY <1>3, <1>10, <2>1
  <2>4. Watched(n) = Watched(m)
    BY <2>2, SameConfiguration DEF InPlace
  <2>5. \A t : PassesGuard(n, t) = PassesGuard(m, t) /\ Holds(n, On(t).holds) = Holds(m, On(t).holds)
    BY <2>2, SameGuards DEF InPlace
  <2>6. ASSUME NEW t \in Risen(n) PROVE FALSE
    <3>1. t \in Watched(m) /\ Holds(m, On(t).holds) /\ PassesGuard(m, t) /\ t \notin n.changeFired
      BY <2>4, <2>5, <2>6 DEF Risen
    <3>2. t \notin m.changeFired
      BY <1>3, <2>3, <3>1
    <3>3. t \in risen
      BY <3>1, <3>2 DEF Risen, risen
    <3> QED BY <2>3, <3>1, <3>3
  <2>7. n.out = m.out
    BY <1>3, <1>10, <2>1
  <2> QED BY <2>2, <2>6, <2>7
<1>17. risen = {} => ~p.fired
  BY <1>2, <1>7, <1>11
<1>18. p.fired \in BOOLEAN
  BY <1>5, <1>7, <1>11
<1> QED BY <1>1, <1>11, <1>12, <1>13, <1>14, <1>15, <1>16, <1>17, <1>18 DEF risen

---------------------------------------------------------------------------
(* What surrounds a step: resuming, parking and forgetting what was sent.  *)

\* Nothing is left for the machine to do on its own.
Settled(m) == m.doActions = <<>> /\ Risen(m) = {}

\* The two have the same configuration, events, attributes and latches.
Alike(m, n) ==
    /\ n.of = m.of /\ n.regionStates = m.regionStates /\ n.simpleState = m.simpleState
    /\ n.eventQueue = m.eventQueue /\ n.deferred = m.deferred
    /\ n.nextEventID = m.nextEventID /\ n.currentTime = m.currentTime
    /\ n.doActions = m.doActions /\ n.stateData = m.stateData
    /\ n.changeFired = m.changeFired

\* Being active and deferring are told by the configuration, which events are
\* due by the queue and the clock.
LEMMA SameQuestions ==
    ASSUME NEW m, NEW n, n.of = m.of,
           n.regionStates = m.regionStates, n.simpleState = m.simpleState
    PROVE  /\ \A s : AcceptsSignal(n, s) = AcceptsSignal(m, s)
           /\ n.deferred = m.deferred => AllDeferred(n) = AllDeferred(m)
           /\ n.stateData = m.stateData /\ n.changeFired = m.changeFired => Risen(n) = Risen(m)
<1>1. /\ Outgoing(n) = Outgoing(m) /\ Watched(n) = Watched(m)
      /\ \A e : DefersEvent(n, e) = DefersEvent(m, e)
  BY SameConfiguration
<1>2. \A s : AcceptsSignal(n, s) = AcceptsSignal(m, s)
  BY <1>1 DEF AcceptsSignal
<1>3. n.deferred = m.deferred => AllDeferred(n) = AllDeferred(m)
  BY <1>1 DEF AllDeferred
<1>4. ASSUME n.stateData = m.stateData, n.changeFired = m.changeFired
      PROVE  Risen(n) = Risen(m)
  <2>1. /\ \A c : Holds(n, c) = Holds(m, c)
        /\ \A t : PassesGuard(n, t) = PassesGuard(m, t)
    BY <1>4, SameGuards
  <2> QED BY <1>1, <1>4, <2>1 DEF Risen
<1> QED BY <1>2, <1>3, <1>4

\* A machine like another has everything said of it in common.
LEMMA AlikeSteps ==
    ASSUME NEW m \in Machine, NEW n \in MachineRecords, Alike(m, n)
    PROVE  /\ n \in Machine /\ PoolStays(m, n)
           /\ AllDeferred(n) = AllDeferred(m) /\ Settled(n) = Settled(m)
           /\ QueuedIDs(n) = QueuedIDs(m) /\ HeldIDs(n) = HeldIDs(m)
           /\ \A h : HasDueEvent(n, h) = HasDueEvent(m, h)
           /\ \A s : AcceptsSignal(n, s) = AcceptsSignal(m, s)
<1>1. Sound(m) /\ m.nextEventID \in Nat
  BY MachineHas
<1>2. n \in Machine
  BY <1>1 DEF Sound, Alike, Machine
<1>3. /\ AllDeferred(n) = AllDeferred(m) /\ Settled(n) = Settled(m)
      /\ \A s : AcceptsSignal(n, s) = AcceptsSignal(m, s)
  <2>1. /\ n.of = m.of /\ n.regionStates = m.regionStates /\ n.simpleState = m.simpleState
        /\ n.deferred = m.deferred /\ n.stateData = m.stateData /\ n.changeFired = m.changeFired
        /\ n.doActions = m.doActions
    BY DEF Alike
  <2> QED BY <2>1, SameQuestions DEF Settled
<1>4. QueuedIDs(n) = QueuedIDs(m) /\ HeldIDs(n) = HeldIDs(m)
  BY DEF Alike, QueuedIDs, HeldIDs
<1>5. {} \in SUBSET HeldIDs(m) /\ HeldIDs(n) = HeldIDs(m) \ {} /\ QueuedIDs(n) = QueuedIDs(m) \cup {}
  BY <1>4
<1>6. n.nextEventID >= m.nextEventID
  BY <1>1 DEF Alike
<1>7. PoolStays(m, n)
  BY <1>5, <1>6 DEF PoolStays, PoolRecalls
<1>8. \A h : HasDueEvent(n, h) = HasDueEvent(m, h)
  BY DEF HasDueEvent, Alike
<1> QED BY <1>2, <1>3, <1>4, <1>7, <1>8

\* A machine has its own pool.
LEMMA PoolStaysPut ==
    ASSUME NEW m \in Machine
    PROVE  PoolStays(m, m)
<1>1. m \in MachineRecords /\ Alike(m, m)
  BY MachineHas DEF Alike
<1> QED BY <1>1, AlikeSteps

\* Forgetting what the step did leaves the machine alike.
LEMMA FlushedSteps ==
    ASSUME NEW m \in Machine
    PROVE  LET n == [m EXCEPT !.out = <<>>, !.taken = <<>>, !.exited = {}]
           IN  /\ n \in Machine /\ Alike(m, n) /\ n.state = m.state
               /\ n.out = <<>> /\ n.taken = <<>> /\ n.exited = {}
<1> DEFINE n == [m EXCEPT !.out = <<>>, !.taken = <<>>, !.exited = {}]
<1>1. m \in MachineRecords /\ <<>> \in Seq(Mail) /\ <<>> \in Seq(Transitions)
  BY MachineHas, EmptySeq
<1>2. /\ n \in MachineRecords /\ Alike(m, n) /\ n.state = m.state
      /\ n.out = <<>> /\ n.taken = <<>> /\ n.exited = {}
  BY <1>1 DEF MachineRecords, Alike
<1> HIDE DEF n
<1>3. n \in Machine
  BY <1>2, AlikeSteps
<1> QED BY <1>2, <1>3 DEF n

\* So does giving it another status.
LEMMA StatusSteps ==
    ASSUME NEW m \in Machine, NEW status \in Statuses
    PROVE  LET n == [m EXCEPT !.state = status]
           IN  /\ n \in Machine /\ Alike(m, n) /\ n.state = status
               /\ n.out = m.out /\ n.taken = m.taken /\ n.exited = m.exited
<1> DEFINE n == [m EXCEPT !.state = status]
<1>1. m \in MachineRecords
  BY MachineHas
<1>2. /\ n \in MachineRecords /\ Alike(m, n) /\ n.state = status
      /\ n.out = m.out /\ n.taken = m.taken /\ n.exited = m.exited
  BY <1>1 DEF MachineRecords, Alike
<1> HIDE DEF n
<1>3. n \in Machine
  BY <1>2, AlikeSteps
<1> QED BY <1>2, <1>3 DEF n

\* An event in the queue that is due now makes the machine have a due event.
LEMMA DueNow ==
    ASSUME NEW m \in Machine, NEW e \in m.eventQueue, e.time = m.currentTime
    PROVE  \A h : HasDueEvent(m, h)
<1> DEFINE p == Peek(m.eventQueue)
<1>1. m.eventQueue # {}
  OBVIOUS
<1>2. p.time <= e.time
  BY <1>1, PeekIsDue
<1> HIDE DEF p
<1> QED BY <1>1, <1>2 DEF HasDueEvent, p

\* An event sent to a machine arrives last, at the present time.
LEMMA ArriveSteps ==
    ASSUME NEW m \in Machine, NEW kind \in {"signal", "call"}, NEW name \in Triggers
    PROVE  LET n == Push(m, kind, name, m.currentTime)
           IN  /\ n \in Machine /\ PoolArrives(m, n)
               /\ AllDeferred(n) = AllDeferred(m) /\ Settled(n) = Settled(m)
               /\ n.of = m.of /\ n.state = m.state /\ n.currentTime = m.currentTime
               /\ n.deferred = m.deferred /\ n.doActions = m.doActions
               /\ n.out = m.out /\ n.taken = m.taken
               /\ n.eventQueue # {} /\ \A h : HasDueEvent(n, h)
<1> DEFINE e == [id |-> m.nextEventID, kind |-> kind, what |-> name, time |-> m.currentTime]
           n == Push(m, kind, name, m.currentTime)
<1>0. m \in MachineRecords /\ m.nextEventID \in Nat /\ m.currentTime \in Int
  BY MachineHas
<1>1. n \in Machine
  BY <1>0, PushSound DEF Kinds
<1>2. /\ n.eventQueue = m.eventQueue \cup {e} /\ n.nextEventID = m.nextEventID + 1
      /\ n.of = m.of /\ n.state = m.state /\ n.currentTime = m.currentTime
      /\ n.deferred = m.deferred /\ n.doActions = m.doActions
      /\ n.regionStates = m.regionStates /\ n.simpleState = m.simpleState
      /\ n.stateData = m.stateData /\ n.changeFired = m.changeFired
      /\ n.out = m.out /\ n.taken = m.taken
  BY <1>0 DEF Push, MachineRecords
<1>3. e.id = m.nextEventID /\ IsPoolEvent(e) /\ e.time = n.currentTime
  BY <1>2 DEF IsPoolEvent
<1> HIDE DEF e, n
<1>4. PoolOf(n.eventQueue) = PoolOf(m.eventQueue) \cup {e}
  BY <1>2, <1>3 DEF PoolOf
<1>5. QueuedIDs(n) = QueuedIDs(m) \cup {m.nextEventID}
  BY <1>3, <1>4 DEF QueuedIDs
<1>6. HeldIDs(n) = HeldIDs(m)
  BY <1>2 DEF HeldIDs
<1>7. PoolArrives(m, n)
  BY <1>2, <1>5, <1>6 DEF PoolArrives
<1>8. AllDeferred(n) = AllDeferred(m) /\ Settled(n) = Settled(m)
  BY <1>2, SameQuestions DEF Settled
<1>9. \A h : HasDueEvent(n, h)
  BY <1>1, <1>2, <1>3, DueNow
<1> QED BY <1>1, <1>2, <1>7, <1>8, <1>9 DEF n

---------------------------------------------------------------------------
(* A round of the do behaviors.                                            *)

\* Quiet, and in the same states.
Steady(m) ==
    {n \in Quiet(m) : /\ n.state = m.state /\ n.doActions = m.doActions
                      /\ n.regionStates = m.regionStates /\ n.simpleState = m.simpleState}

\* Being steady is transitive.
LEMMA SteadyTransitive ==
    ASSUME NEW m \in Machine, NEW n \in Steady(m), NEW k \in Steady(n)
    PROVE  k \in Steady(m)
BY QuietTransitive DEF Steady

\* Executing behaviors is steady.
LEMMA ExecuteSteady ==
    ASSUME NEW m \in Machine, NEW behaviors \in Seq(Behaviors)
    PROVE  ExecuteBehaviors(m, behaviors) \in Steady(m)
<1>1. m \in Steady(m) /\ Len(behaviors) \in Nat
  BY QuietReflexive, LenProperties DEF Steady
<1>2. ASSUME NEW v \in Steady(m), NEW i \in 1..Len(behaviors)
      PROVE  Perform(v, behaviors[i]) \in Steady(m)
  <2> DEFINE b == behaviors[i]
             n == Perform(v, b)
  <2>1. v \in Machine /\ b \in Behaviors
    BY ElementOfSeq, LenProperties DEF Steady, Quiet
  <2> HIDE DEF b
  <2>2. n \in Quiet(v)
    BY <2>1, PerformQuiet
  <2>3. /\ n.state = v.state /\ n.doActions = v.doActions
        /\ n.regionStates = v.regionStates /\ n.simpleState = v.simpleState
    BY <2>1, MachineHas DEF Perform, MachineRecords
  <2> HIDE DEF n
  <2>4. n \in Steady(v)
    BY <2>2, <2>3 DEF Steady
  <2> QED BY <2>4, SteadyTransitive DEF n, b
<1> QED BY <1>1, <1>2, LoopsInduct, Performs!LoopKeeps DEF ExecuteBehaviors

\* Scheduling completion transitions is steady.
LEMMA CompletionsSteady ==
    ASSUME NEW m \in Machine, NEW s \in StateSet
    PROVE  ScheduleCompletionTransitions(m, s) \in Steady(m)
<1> DEFINE S == {t \in ToSet(Graph.Transitions[s]) : On(t).kind = "none" /\ PassesGuard(m, t)}
           own == Keep(Graph.Transitions[s], S)
<1>1. own \in Seq(Transitions)
  BY TransitionsOf, KeepKeeps
<1>2. ScheduleCompletionTransitions(m, s) =
          IF HasRunningDoAction(m, s) THEN m ELSE Completions!Over(m, own)
  BY DEF ScheduleCompletionTransitions
<1>3. m \in Steady(m) /\ Len(own) \in Nat
  BY <1>1, QuietReflexive, LenProperties DEF Steady
<1>4. ASSUME NEW v \in Steady(m), NEW i \in 1..Len(own)
      PROVE  QueueCompletion(v, own[i]) \in Steady(m)
  <2> DEFINE t == own[i]
             n == QueueCompletion(v, t)
  <2>1. v \in Machine /\ t \in Transitions
    BY <1>1, ElementOfSeq DEF Steady, Quiet
  <2> HIDE DEF t
  <2>2. v.currentTime \in Int /\ v \in MachineRecords
    BY <2>1, MachineHas
  <2>3. n \in Quiet(v)
    BY <2>1, <2>2, PushQuiet DEF QueueCompletion
  <2>4. /\ n.state = v.state /\ n.doActions = v.doActions
        /\ n.regionStates = v.regionStates /\ n.simpleState = v.simpleState
    BY <2>2 DEF QueueCompletion, Push, MachineRecords
  <2> HIDE DEF n
  <2>5. n \in Steady(v)
    BY <2>3, <2>4 DEF Steady
  <2> QED BY <2>5, SteadyTransitive DEF n, t
<1> HIDE DEF own
<1>5. Completions!Over(m, own) \in Steady(m)
  BY <1>3, <1>4, LoopsInduct, Completions!LoopKeeps
<1> QED BY <1>2, <1>3, <1>5

\* Nothing is kept of nothing.
LEMMA KeepNothing ==
    ASSUME NEW T, NEW at
    PROVE  KeepAt(<<>>, at) = <<>>
<1>1. <<>> \in Seq(T)
  BY EmptySeq
<1> DEFINE k == KeepAt(<<>>, at)
<1>2. k \in Seq(T) /\ \E p : Selects(p, k, <<>>, at, 0)
  BY <1>1, KeepAtSelects, EmptySeq
<1> HIDE DEF k
<1>3. Len(k) \in Nat
  BY <1>2, LenProperties
<1>4. \A i \in 1..Len(k) : FALSE
  BY <1>2 DEF Selects
<1>5. Len(k) = 0
  BY <1>3, <1>4
<1> QED BY <1>2, <1>5, EmptySeq DEF k

\* A round of the do behaviors moves no machine, and one of a machine without
\* do behaviors leaves it without.
LEMMA RoundSteps ==
    ASSUME NEW m \in Machine
    PROVE  LET n == RunDoRound(m)
           IN  /\ n \in Quiet(m) /\ n.state = m.state
               /\ n.regionStates = m.regionStates /\ n.simpleState = m.simpleState
               /\ m.doActions = <<>> => n.doActions = <<>>
<1> DEFINE acts == m.doActions
           heads == [i \in DOMAIN acts |-> Head(acts[i].pending)]
           ran == ExecuteBehaviors(m, heads)
           advanced == [i \in DOMAIN acts |-> [acts[i] EXCEPT !.pending = Tail(@)]]
           over == {i \in DOMAIN advanced : advanced[i].pending = <<>>}
           kept == KeepAt(advanced, DOMAIN advanced \ over)
           ended == KeepAt(advanced, over)
           a == [ran EXCEPT !.doActions = kept]
           n == DoEnds!Over(a, ended)
           Advanced == [state : StateSet, pending : Seq(Behaviors)]
<1>1. RunDoRound(m) = n
  BY DEF RunDoRound
<1>2. acts \in Seq(DoActions) /\ Len(acts) \in Nat /\ DOMAIN acts = 1..Len(acts)
      /\ \A i \in 1..Len(acts) : acts[i] \in DoActions
  BY MachineHas, ElementOfSeq
<1> HIDE DEF acts
<1>3. heads \in Seq(Behaviors)
  <2>1. \A i \in 1..Len(acts) : Head(acts[i].pending) \in Behaviors
    BY <1>2, HeadTailProperties DEF DoActions
  <2> QED BY <1>2, <2>1, IsASeq
<1>4. advanced \in Seq(Advanced) /\ DOMAIN advanced = 1..Len(acts) /\ Len(advanced) = Len(acts)
  <2>1. ASSUME NEW i \in 1..Len(acts) PROVE [acts[i] EXCEPT !.pending = Tail(@)] \in Advanced
    <3> DEFINE act == acts[i]
               rest == Tail(act.pending)
    <3>1. act \in DoActions
      BY <1>2
    <3> HIDE DEF act
    <3>2. rest \in Seq(Behaviors)
      BY <3>1, HeadTailProperties DEF DoActions
    <3> HIDE DEF rest
    <3>3. [act EXCEPT !.pending = rest] \in Advanced
      BY <3>1, <3>2 DEF DoActions
    <3> QED BY <3>3 DEF act, rest
  <2>2. advanced = [i \in 1..Len(acts) |-> advanced[i]] /\ DOMAIN advanced = 1..Len(acts)
    BY <1>2
  <2>3. \A i \in 1..Len(acts) : advanced[i] \in Advanced
    BY <1>2, <2>1
  <2> HIDE DEF advanced
  <2>4. advanced \in Seq(Advanced)
    BY <1>2, <2>2, <2>3, IsASeq
  <2> QED BY <1>2, <2>2, <2>4, LenProperties
<1>5. \A i \in 1..Len(acts) : advanced[i] \in Advanced
  BY <1>4, ElementOfSeq
<1> HIDE DEF advanced
<1>6. kept \in Seq(DoActions)
  <2> DEFINE at == DOMAIN advanced \ over
  <2>1. kept \in Seq(Advanced) /\ \E p : Selects(p, kept, advanced, at, Len(advanced))
    BY <1>4, KeepAtSelects
  <2>2. at = {i \in 1..Len(acts) : advanced[i].pending # <<>>}
    BY <1>4
  <2> HIDE DEF kept, at
  <2>3. PICK p : Selects(p, kept, advanced, at, Len(advanced))
    BY <2>1
  <2>4. Len(kept) \in Nat /\ DOMAIN kept = 1..Len(kept)
    BY <2>1, LenProperties
  <2>5. ASSUME NEW i \in 1..Len(kept) PROVE kept[i] \in DoActions
    <3>1. p[i] \in at /\ kept[i] = advanced[p[i]]
      BY <2>3 DEF Selects
    <3> QED BY <1>5, <2>2, <3>1 DEF DoActions
  <2>6. kept = [i \in 1..Len(kept) |-> kept[i]]
    BY <2>1, LenProperties
  <2> QED BY <2>4, <2>5, <2>6, IsASeq
<1>7. ended \in Seq(Advanced) /\ Len(ended) \in Nat
  BY <1>4, KeepAtSelects, LenProperties
<1>8. ran \in Steady(m) /\ ran \in Machine
  BY <1>3, ExecuteSteady DEF Steady, Quiet
<1> DEFINE V == {k \in Quiet(m) : /\ k.state = m.state /\ k.doActions = kept
                                  /\ k.regionStates = m.regionStates
                                  /\ k.simpleState = m.simpleState}
<1> HIDE DEF heads, over, kept, ended, ran
<1>9. a \in V
  <2>1. ran \in MachineRecords
    BY <1>8, MachineHas
  <2>2. /\ a \in MachineRecords /\ a.doActions = kept
        /\ a.of = ran.of /\ a.state = ran.state /\ a.eventQueue = ran.eventQueue
        /\ a.deferred = ran.deferred /\ a.currentTime = ran.currentTime
        /\ a.nextEventID = ran.nextEventID /\ a.taken = ran.taken
        /\ a.regionStates = ran.regionStates /\ a.simpleState = ran.simpleState
    BY <1>6, <2>1 DEF MachineRecords
  <2> HIDE DEF a
  <2>3. a \in Quiet(ran)
    BY <1>8, <2>2, TouchesNone
  <2>4. a \in Quiet(m)
    BY <1>8, <2>3, QuietTransitive DEF Steady
  <2> QED BY <1>8, <2>2, <2>4 DEF Steady
<1>10. ASSUME NEW v \in V, NEW i \in 1..Len(ended)
       PROVE  EndDoAction(v, ended[i]) \in V
  <2>1. v \in Machine /\ ended[i].state \in StateSet
    <3>1. ended[i] \in Advanced
      BY <1>7, ElementOfSeq
    <3> QED BY <3>1 DEF Quiet
  <2> DEFINE k == EndDoAction(v, ended[i])
  <2>2. k \in Steady(v)
    BY <2>1, CompletionsSteady DEF EndDoAction
  <2> HIDE DEF k
  <2>3. k \in Quiet(m)
    BY <2>1, <2>2, QuietTransitive DEF Steady
  <2> QED BY <2>2, <2>3 DEF Steady, k
<1>11. n \in V
  <2> HIDE DEF V, a
  <2> QED BY <1>7, <1>9, <1>10, LoopsInduct, DoEnds!LoopKeeps
<1>12. m.doActions = <<>> => kept = <<>>
  <2> SUFFICES ASSUME m.doActions = <<>> PROVE kept = <<>>
    OBVIOUS
  <2>1. Len(acts) = 0
    BY EmptySeq DEF acts
  <2>2. advanced = <<>>
    BY <1>4, <2>1, EmptySeq
  <2> QED BY <2>2, KeepNothing DEF kept
<1> HIDE DEF n
<1> QED BY <1>1, <1>11, <1>12

---------------------------------------------------------------------------
(* The beginning of a machine.                                             *)

\* A new machine is ready and has no events.
LEMMA NewMachineSteps ==
    ASSUME NEW k \in Machines, NEW data \in [Vars -> BOOLEAN]
    PROVE  LET n == NewMachine(k, data)
           IN  /\ n \in Machine /\ n.of = k /\ n.state = "ready" /\ n.deferred = <<>>
               /\ n.out = <<>> /\ n.taken = <<>> /\ n.exited = {} /\ n.nextEventID = 1
               /\ QueuedIDs(n) = {} /\ HeldIDs(n) = {} /\ AllDeferred(n)
<1> DEFINE states == ToSet(Graph.States[k])
           open == [s \in states |-> 0]
           n == NewMachine(k, data)
<1>1. open \in Assignments(StateSet, Int)
  <2>1. states \subseteq StateSet
    BY RegionOfTyped, ToSetTyped
  <2>2. open \in [states -> Int]
    OBVIOUS
  <2> HIDE DEF states, open
  <2> QED BY <2>1, <2>2, AssignmentMade
<1>2. <<>> \in Configurations /\ <<>> \in Assignments(StateSet, Recorded)
  <2>1. <<>> = [x \in {} |-> x]
    OBVIOUS
  <2>2. <<>> \in [{} -> StateSet] /\ <<>> \in [{} -> Recorded]
    BY <2>1
  <2> QED BY <2>2, AssignmentMade DEF Configurations
<1>3. /\ <<>> \in Seq(Events) /\ <<>> \in Seq(DoActions) /\ <<>> \in Seq(Mail)
      /\ <<>> \in Seq(Transitions) /\ Len(<<>>) = 0
  BY EmptySeq
<1> HIDE DEF open
<1>4. n = [of |-> k, state |-> "ready", simpleState |-> None, regionStates |-> <<>>,
           eventQueue |-> {}, deferred |-> <<>>, timerScheduled |-> {},
           changeFired |-> {}, firingChange |-> None, changeRearmed |-> {},
           history |-> <<>>, doActions |-> <<>>,
           stateData |-> data, currentTime |-> 0, nextEventID |-> 1,
           out |-> <<>>, taken |-> <<>>, exited |-> {}, open |-> open]
  BY DEF NewMachine, open
<1>5. /\ n.of = k /\ n.state = "ready" /\ n.deferred = <<>> /\ n.eventQueue = {}
      /\ n.currentTime = 0
      /\ n.out = <<>> /\ n.taken = <<>> /\ n.exited = {} /\ n.nextEventID = 1
  BY <1>4
<1>6. n \in MachineRecords
  BY <1>1, <1>2, <1>3, <1>4 DEF MachineRecords, Statuses, Optional
<1> HIDE DEF n
<1>7. \A i \in 1..Len(n.deferred) : FALSE
  BY <1>3, <1>5
<1>8. Sound(n)
  <2>1. Timely({}, 0)
    BY DEF Timely, Bounded
  <2> QED BY <1>5, <1>7, <2>1 DEF Sound
<1>9. ToSet(n.deferred) = {}
  BY <1>3, <1>5 DEF ToSet
<1>10. QueuedIDs(n) = {} /\ HeldIDs(n) = {}
  BY <1>5, <1>9 DEF QueuedIDs, HeldIDs, PoolOf
<1>11. AllDeferred(n)
  BY <1>7 DEF AllDeferred
<1> QED BY <1>5, <1>6, <1>8, <1>10, <1>11 DEF n, Machine

\* Initializing a machine that is ready starts it where it is told to, and
\* neither moves its clock nor touches an event sent to it.
LEMMA InitializeSteps ==
    ASSUME NEW m \in Machine, m.deferred = <<>>
    PROVE  LET n == Initialize(m)
           IN  /\ n \in Machine /\ n.of = m.of /\ n.state \in {"running", "completed"}
               /\ n.currentTime = m.currentTime /\ n.deferred = m.deferred
               /\ n.taken = m.taken /\ PoolStays(m, n) /\ AllDeferred(n)
<1> DEFINE first == Graph.Initial[m.of]
           n == Initialize(m)
<1>0. m \in MachineRecords /\ Sound(m) /\ m.of \in Machines /\ m.nextEventID \in Nat
  BY MachineHas
<1>1. first \in Optional(StateSet) /\ Graph.TopRegions[m.of] \in Seq(Regions)
  BY <1>0, GraphAssumption DEF StatesAreTyped, RegionsAreTyped, Optional
<1>2. <<>> \in Configurations
  BY EmptyConfiguration
<1>3. ASSUME NEW s \in Optional(StateSet), NEW a, a = [m EXCEPT !.state = "running", !.simpleState = s]
      PROVE  a \in Machine /\ a.state = "running" /\ a.of = m.of /\ a.currentTime = m.currentTime
             /\ a.deferred = m.deferred /\ a.taken = m.taken /\ a.eventQueue = m.eventQueue
             /\ a.nextEventID = m.nextEventID
  <2> DEFINE b == [m EXCEPT !.state = "running", !.simpleState = s]
  <2>1. /\ b \in MachineRecords /\ b.state = "running" /\ b.of = m.of /\ b.currentTime = m.currentTime
        /\ b.deferred = m.deferred /\ b.taken = m.taken /\ b.eventQueue = m.eventQueue
        /\ b.nextEventID = m.nextEventID
    BY <1>0 DEF MachineRecords, Statuses
  <2>2. a = b
    BY <1>3
  <2> HIDE DEF b
  <2> QED BY <1>0, <2>1, <2>2 DEF Sound, Machine
<1>4. \E a \in Machine : /\ a.state = "running" /\ a.of = m.of /\ a.currentTime = m.currentTime
                         /\ a.deferred = m.deferred /\ a.taken = m.taken
                         /\ a.eventQueue = m.eventQueue /\ a.nextEventID = m.nextEventID
                         /\ n \in Quiet(a)
  <2>1. CASE first # None
    <3> DEFINE a == [m EXCEPT !.state = "running", !.simpleState = first]
               b == EnterAll(a, Reverse(ParentChain[first]), <<>>)
    <3>1. n = ScheduleActive(b)
      BY <2>1 DEF Initialize
    <3>2. /\ a \in Machine /\ a.state = "running" /\ a.of = m.of /\ a.currentTime = m.currentTime
          /\ a.deferred = m.deferred /\ a.taken = m.taken /\ a.eventQueue = m.eventQueue
          /\ a.nextEventID = m.nextEventID
      <4> HIDE DEF first
      <4> QED BY <1>1, <1>3
    <3>3. Reverse(ParentChain[first]) \in Seq(StateSet)
      BY <1>1, <2>1, ChainTyped, ReverseTyped DEF Optional
    <3> HIDE DEF a, n, first
    <3>4. b \in Quiet(a) /\ b \in Machine
      BY <1>2, <3>2, <3>3, EnterAllQuiet DEF Quiet
    <3> HIDE DEF b
    <3>5. n \in Quiet(a)
      BY <3>1, <3>2, <3>4, ScheduleActiveQuiet, QuietTransitive
    <3> QED BY <3>2, <3>5
  <2>2. CASE first = None
    <3> DEFINE a == [m EXCEPT !.state = "running"]
               b == EnterRegions(a, None, Graph.TopRegions[m.of], <<>>)
    <3>1. n = ScheduleActive(b)
      BY <2>2 DEF Initialize
    <3>2. /\ a \in Machine /\ a.state = "running" /\ Alike(m, a) /\ a.taken = m.taken
      BY StatusSteps DEF Statuses
    <3> HIDE DEF a, n
    <3>3. b \in Quiet(a) /\ b \in Machine
      BY <1>1, <1>2, <3>2, EnterRegionsQuiet DEF Quiet
    <3> HIDE DEF b
    <3>4. n \in Quiet(a)
      BY <3>1, <3>2, <3>3, ScheduleActiveQuiet, QuietTransitive
    <3> QED BY <3>2, <3>4 DEF Alike
  <2> QED BY <2>1, <2>2
<1>5. PICK a \in Machine : /\ a.state = "running" /\ a.of = m.of /\ a.currentTime = m.currentTime
                           /\ a.deferred = m.deferred /\ a.taken = m.taken
                           /\ a.eventQueue = m.eventQueue /\ a.nextEventID = m.nextEventID
                           /\ n \in Quiet(a)
  BY <1>4
<1> HIDE DEF n
<1>6. /\ n \in Machine /\ Follows(a, n) /\ n.of = m.of /\ n.state \in {"running", "completed"}
      /\ n.currentTime = m.currentTime /\ n.deferred = m.deferred /\ n.taken = m.taken
  BY <1>5 DEF Quiet, Follows
<1>7. PoolStays(m, n)
  <2>1. PoolStays(a, n)
    BY <1>5, <1>6, FollowsPool
  <2>2. QueuedIDs(a) = QueuedIDs(m) /\ HeldIDs(a) = HeldIDs(m) /\ a.nextEventID = m.nextEventID
    BY <1>5 DEF QueuedIDs, HeldIDs
  <2> QED BY <2>1, <2>2 DEF PoolStays, PoolRecalls
<1>8. AllDeferred(n)
  <2>1. Len(n.deferred) = 0
    BY <1>6, EmptySeq
  <2> QED BY <2>1 DEF AllDeferred
<1> QED BY <1>6, <1>7, <1>8 DEF n
=============================================================================
