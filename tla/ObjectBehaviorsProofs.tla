------------------------ MODULE ObjectBehaviorsProofs ------------------------
(***************************************************************************)
(* The inductive invariant of ObjectBehaviors, that every step keeps it,   *)
(* and what follows: events keep their order, events held are deferred,    *)
(* clocks go back only to negative timers, and machines are parked with    *)
(* nothing left to do.                                                     *)
(***************************************************************************)
EXTENDS ObjectBehaviors, StateMachineProofs

---------------------------------------------------------------------------
(* The inductive invariant.                                                *)

\* The messages there can be.
Addressees ==
    {Anyone} \cup {b.to : b \in Behaviors} \cup UNION {DOMAIN c.exhibits : c \in Casts}
Post == [signal : Triggers, to : Addressees]

\* A machine between two steps: what the last step did has been taken away, every
\* event held is still deferred, one that has not begun holds none, and one that
\* is parked has no do behavior running.
AtRest ==
    {m \in Machine :
        /\ m.out = <<>> /\ m.taken = <<>> /\ m.exited = {} /\ AllDeferred(m)
        /\ m.state = "ready" => m.deferred = <<>>
        /\ m.state = "suspended" => m.doActions = <<>>}

\* The behaviors there can be.
Players == UNION {DOMAIN c.machines : c \in Casts}

CallRecords ==
    [driver : {"none", "drain", "run", "step", "advance"},
     obj : Players \cup {None},
     phase : {"none", "start", "next", "round", "poll", "deliver", "event", "driver", "forget"},
     atCurrentTime : BOOLEAN, ran : Nat, events : Int, doSteps : Int, rounds : Int,
     deadline : Int, kept : Nat, result : {"none", "ok", "drained", "budget"}]

\* The phases a drain goes through between two behaviors.
BetweenRuns == {"start", "next", "forget"}

\* Which phases a driver goes through.
Shaped(c) ==
    /\ c.driver = "none" <=> c.phase = "none"
    /\ c.phase \in BetweenRuns => c.driver = "drain"
    /\ c.phase = "driver" => c.driver \in {"step", "advance"}
    /\ c.atCurrentTime <=> c.driver = "drain"
    /\ c.driver # "none" => c.result = "none"

\* What the phases before have established of the machine a call is at.
Fits(c, m) ==
    /\ m.state \in {"running", "completed"}
    /\ c.phase \in {"poll", "deliver"} /\ c.ran = 0 => m.doActions = <<>>
    /\ c.phase = "deliver" => Risen(m) = {}
    /\ c.phase = "event" => HasDueEvent(m, c.atCurrentTime)

Engaged(c) == c.phase \notin BetweenRuns \cup {"none"}

\* A parked machine has no change condition to act on, unless another machine of
\* its object may have made it true since.
ParkedAreSettled ==
    \A b \in DOMAIN cast.machines :
        machines[b].state = "suspended" /\ Solitary(b) => Risen(machines[b]) = {}

IInv ==
    /\ cast \in Casts
    /\ machines \in [DOMAIN cast.machines -> AtRest]
    /\ bus \in Seq(Post)
    /\ attached \in Seq(DOMAIN cast.machines) /\ pending \in Seq(DOMAIN cast.machines)
    /\ starting \in Seq(DOMAIN cast.machines)
    /\ \A b \in ToSet(attached) \cup ToSet(pending) : machines[b].state # "ready"
    /\ session \in [DOMAIN cast.machines -> Int]
    /\ Resolved(taken)
    /\ call \in CallRecords /\ Shaped(call)
    /\ Engaged(call) => call.obj \in DOMAIN cast.machines /\ Fits(call, machines[call.obj])
    /\ ParkedAreSettled

---------------------------------------------------------------------------
(* What one step has to show.                                              *)

PoolMoves(m, n) ==
    WaitingNow(m) => PoolStays(m, n) \/ PoolArrives(m, n) \/ PoolDispatches(m, n)

PoolsMove == \A b \in DOMAIN cast.machines : PoolMoves(machines[b], machines'[b])

ParksQuiescent ==
    \A b \in Executions :
        machines[b].state = "running" /\ machines'[b].state = "suspended" =>
            /\ Quiescent(b, machines'[b], bus')
            /\ call.driver = "run" => machines'[b].eventQueue = {}

\* The clock stands still, or goes back to a negative timer.
WaitsForNothing(m, n) ==
    \/ n.currentTime = m.currentTime
    \/ /\ n.currentTime < m.currentTime
       /\ \E e \in m.eventQueue : RunsBack(e) /\ n.currentTime = e.time

SettlesWithoutWaiting ==
    call.driver = "drain" =>
        /\ \A b \in Executions : WaitsForNothing(machines[b], machines'[b])
        /\ call'.result = "drained" =>
              \A b \in ToSet(attached) : machines'[b].state = "suspended" =>
                  /\ OutOfWork(b, machines'[b], bus')
                  /\ Solitary(b) => Quiescent(b, machines'[b], bus')

StepKeeps == IInv' /\ PoolsMove /\ ParksQuiescent /\ SettlesWithoutWaiting

\* What makes n a machine to go on from m with.
Continues(m, n) ==
    /\ n \in Machine /\ AllDeferred(n) /\ Resolved(n.taken) /\ n.state # "ready"
    /\ n.state = "suspended" => n.doActions = <<>>
    /\ PoolMoves(m, n)

\* What the behaviors started are after a step at b.
Listed(b) ==
    /\ attached' \in Seq(DOMAIN cast.machines) /\ pending' \in Seq(DOMAIN cast.machines)
    /\ starting' \in Seq(DOMAIN cast.machines)
    /\ \A x \in ToSet(attached') \cup ToSet(pending') : x = b \/ machines[x].state # "ready"

\* What the invariant says of the machines.
LEMMA Rest ==
    ASSUME IInv
    PROVE  /\ Executions = DOMAIN cast.machines
           /\ \A b \in DOMAIN cast.machines :
                 /\ machines[b] \in Machine /\ machines[b] \in AtRest
                 /\ machines[b].out = <<>> /\ machines[b].taken = <<>>
                 /\ AllDeferred(machines[b])
                 /\ machines[b].state \in Statuses
                 /\ machines[b].state = "ready" => machines[b].deferred = <<>>
                 /\ machines[b].state = "suspended" => machines[b].doActions = <<>>
<1>1. machines \in [DOMAIN cast.machines -> AtRest]
  BY DEF IInv
<1>2. \A b \in DOMAIN cast.machines : machines[b] \in AtRest
  BY <1>1
<1>3. \A m \in AtRest : m \in Machine /\ m.state \in Statuses
  BY MachineHas DEF AtRest
<1> QED BY <1>1, <1>2, <1>3 DEF AtRest, Executions

\* What the invariant says of the sequences, and of the object a behavior is of.
LEMMA ListsTyped ==
    ASSUME IInv
    PROVE  /\ cast \in Casts /\ None \notin DOMAIN cast.machines
           /\ bus \in Seq(Post) /\ session \in [DOMAIN cast.machines -> Int]
           /\ attached \in Seq(DOMAIN cast.machines) /\ pending \in Seq(DOMAIN cast.machines)
           /\ starting \in Seq(DOMAIN cast.machines)
           /\ \A b \in DOMAIN cast.machines : Self(b) \in DOMAIN cast.exhibits
           /\ DOMAIN cast.exhibits \subseteq Addressees
<1>1. cast \in Casts
  BY DEF IInv
<1>2. ASSUME NEW b \in DOMAIN cast.machines PROVE Self(b) \in DOMAIN cast.exhibits
  <2>1. PICK p \in DOMAIN cast.exhibits :
            {q \in DOMAIN cast.exhibits : b \in ToSet(cast.exhibits[q])} = {p}
    BY <1>1, CastAssumption
  <2>2. b \in ToSet(cast.exhibits[p])
    BY <2>1
  <2> QED BY <2>2 DEF Self
<1>3. DOMAIN cast.exhibits \subseteq Addressees
  BY <1>1 DEF Addressees
<1> QED BY <1>1, <1>2, <1>3, CastAssumption DEF IInv

\* What machines send can be on the bus.
LEMMA MailIsPost == Seq(Mail) \subseteq Seq(Post)
<1>1. ASSUME NEW b \in Behaviors PROVE [signal |-> b.signal, to |-> b.to] \in Post
  BY DEF Post, Triggers, Addressees
<1>2. Mail \subseteq Post
  BY <1>1 DEF Mail
<1>3. ASSUME NEW s \in Seq(Mail) PROVE s \in Seq(Post)
  <2>1. /\ Len(s) \in Nat /\ s = [i \in 1..Len(s) |-> s[i]]
        /\ \A i \in 1..Len(s) : s[i] \in Post
    BY <1>2, LenProperties, ElementOfSeq
  <2> QED BY <2>1, IsASeq
<1> QED BY <1>3

\* No transition taken is in conflict with another when none is taken.
LEMMA NoneResolved == Resolved(<<>>)
BY EmptySeq DEF Resolved

\* A machine a step left is at rest once what it did is taken away, and the call
\* fits it as it did before.
LEMMA FlushedRests ==
    ASSUME NEW m, NEW n, Continues(m, n), NEW c \in CallRecords
    PROVE  /\ Flushed(n) \in AtRest /\ Flushed(n).state = n.state
           /\ Flushed(n).currentTime = n.currentTime /\ Flushed(n).eventQueue = n.eventQueue
           /\ Alike(n, Flushed(n)) /\ PoolMoves(m, Flushed(n))
           /\ Fits(c, n) => Fits(c, Flushed(n))
           /\ Risen(Flushed(n)) = Risen(n)
<1> DEFINE f == Flushed(n)
<1>1. /\ n \in Machine /\ AllDeferred(n) /\ n.state # "ready"
      /\ n.state = "suspended" => n.doActions = <<>>
      /\ PoolMoves(m, n)
  BY DEF Continues
<1>2. /\ f \in Machine /\ Alike(n, f) /\ f.state = n.state
      /\ f.out = <<>> /\ f.taken = <<>> /\ f.exited = {}
  BY <1>1, FlushedSteps DEF Flushed
<1> HIDE DEF f
<1>3. f \in MachineRecords
  BY <1>2, MachineHas
<1>4. /\ AllDeferred(f) = AllDeferred(n)
      /\ QueuedIDs(f) = QueuedIDs(n) /\ HeldIDs(f) = HeldIDs(n)
      /\ \A h : HasDueEvent(f, h) = HasDueEvent(n, h)
  BY <1>1, <1>2, <1>3, AlikeSteps
<1>6. f.nextEventID = n.nextEventID /\ f.doActions = n.doActions
  BY <1>2 DEF Alike
<1>5. f \in AtRest
  BY <1>1, <1>2, <1>4, <1>6 DEF AtRest
<1>7. PoolMoves(m, f)
  BY <1>1, <1>4, <1>6 DEF PoolMoves, PoolStays, PoolArrives, PoolDispatches, PoolRecalls
<1>8. Risen(f) = Risen(n) /\ f.doActions = n.doActions
  BY <1>2, SameQuestions DEF Alike
<1>9. Fits(c, n) => Fits(c, f)
  BY <1>2, <1>4, <1>8 DEF Fits
<1>10. f.currentTime = n.currentTime /\ f.eventQueue = n.eventQueue
  BY <1>2 DEF Alike
<1> QED BY <1>2, <1>5, <1>7, <1>8, <1>9, <1>10 DEF f

\* What a machine is shown of another changes its attributes only.
LEMMA ShownSteps ==
    ASSUME NEW m \in AtRest, NEW n \in Machine
    PROVE  LET k == Shown(m, n)
           IN  /\ k \in AtRest /\ PoolMoves(m, k) /\ k.state = m.state
               /\ k.currentTime = m.currentTime
<1> DEFINE data == [v \in Vars |-> IF v \in Features THEN n.stateData[v] ELSE m.stateData[v]]
           k == [m EXCEPT !.stateData = data]
<1>1. m \in Machine /\ m \in MachineRecords /\ Sound(m)
  BY MachineHas DEF AtRest
<1>2. data \in [Vars -> BOOLEAN]
  <2>1. m.stateData \in [Vars -> BOOLEAN] /\ n.stateData \in [Vars -> BOOLEAN]
    BY <1>1, MachineHas
  <2>2. \A v \in Vars : m.stateData[v] \in BOOLEAN /\ n.stateData[v] \in BOOLEAN
    BY <2>1
  <2> QED BY <2>2
<1>3. Shown(m, n) = k
  BY DEF Shown
<1> HIDE DEF data
<1>4. /\ k \in MachineRecords /\ k.of = m.of /\ k.state = m.state
      /\ k.regionStates = m.regionStates /\ k.simpleState = m.simpleState
      /\ k.eventQueue = m.eventQueue /\ k.deferred = m.deferred
      /\ k.nextEventID = m.nextEventID /\ k.currentTime = m.currentTime
      /\ k.doActions = m.doActions
      /\ k.out = m.out /\ k.taken = m.taken /\ k.exited = m.exited
  BY <1>1, <1>2 DEF MachineRecords
<1> HIDE DEF k
<1>5. k \in Machine
  BY <1>1, <1>4 DEF Machine, Sound
<1>6. AllDeferred(k) = AllDeferred(m)
  BY <1>4, SameQuestions
<1>7. k \in AtRest
  BY <1>4, <1>5, <1>6 DEF AtRest
<1>8. PoolMoves(m, k)
  <2>1. PoolStays(m, m)
    BY <1>1, PoolStaysPut
  <2>2. PoolStays(m, k)
    BY <1>4, <2>1 DEF PoolStays, PoolRecalls, QueuedIDs, HeldIDs
  <2> QED BY <2>2 DEF PoolMoves
<1> QED BY <1>3, <1>4, <1>7, <1>8

\* A step that commits one machine.  Whoever is parked by it, and the clocks of a
\* drain, are left to the cases where they matter.
LEMMA CommitSteps ==
    ASSUME IInv, NEW b \in DOMAIN cast.machines, NEW n, NEW mail \in Seq(Post),
           Continues(machines[b], n), Commit(b, n, mail),
           n.state = "suspended" /\ Solitary(b) => Risen(n) = {},
           cast' = cast, Listed(b), session' \in [DOMAIN cast.machines -> Int],
           call' \in CallRecords, Shaped(call'),
           Engaged(call') => call'.obj = b /\ Fits(call', n)
    PROVE  /\ IInv' /\ PoolsMove
           /\ machines'[b] = Flushed(n) /\ machines'[b].state = n.state
           /\ machines'[b].currentTime = n.currentTime
           /\ machines'[b].eventQueue = n.eventQueue /\ Alike(n, machines'[b])
           /\ \A x \in DOMAIN cast.machines : x # b =>
                 /\ machines'[x].state = machines[x].state
                 /\ machines'[x].currentTime = machines[x].currentTime
           /\ bus' = mail \o n.out
<1> DEFINE B == DOMAIN cast.machines
           f == Flushed(n)
<1>1. /\ machines' = [x \in Executions |-> IF x = b THEN f
                                           ELSE IF Self(x) = Self(b) THEN Shown(machines[x], n)
                                           ELSE machines[x]]
      /\ bus' = mail \o n.out /\ taken' = n.taken
  BY DEF Commit
<1>2. /\ cast \in Casts /\ machines \in [B -> AtRest] /\ Executions = B
      /\ \A x \in B : machines[x] \in AtRest
      /\ ParkedAreSettled
  BY Rest DEF IInv
<1>3. /\ f \in AtRest /\ f.state = n.state /\ f.currentTime = n.currentTime
      /\ f.eventQueue = n.eventQueue
      /\ Alike(n, f) /\ PoolMoves(machines[b], f)
      /\ Fits(call', n) => Fits(call', f)
      /\ Risen(f) = Risen(n)
  BY FlushedRests
<1>4. n \in Machine /\ n.state # "ready" /\ Resolved(n.taken)
  BY DEF Continues
<1> HIDE DEF f
<1>5. ASSUME NEW x \in B
      PROVE  /\ machines'[x] \in AtRest /\ PoolMoves(machines[x], machines'[x])
             /\ x = b => machines'[x] = f
             /\ x # b => /\ machines'[x].state = machines[x].state
                         /\ machines'[x].currentTime = machines[x].currentTime
             /\ x # b /\ Self(x) # Self(b) => machines'[x] = machines[x]
  <2>1. CASE x = b
    <3>1. machines'[x] = f
      BY <1>1, <1>2, <2>1
    <3> QED BY <1>3, <2>1, <3>1
  <2>2. CASE x # b /\ Self(x) = Self(b)
    <3>1. machines'[x] = Shown(machines[x], n)
      BY <1>1, <1>2, <2>2
    <3> QED BY <1>2, <1>4, <2>2, <3>1, ShownSteps
  <2>3. CASE x # b /\ Self(x) # Self(b)
    <3>1. machines'[x] = machines[x]
      BY <1>1, <1>2, <2>3
    <3>2. PoolMoves(machines[x], machines[x])
      BY Rest, PoolStaysPut DEF PoolMoves
    <3> QED BY <1>2, <2>3, <3>1, <3>2
  <2> QED BY <2>1, <2>2, <2>3
<1>6. machines' \in [B -> AtRest] /\ DOMAIN machines' = B
  <2>1. machines' = [x \in B |-> machines'[x]]
    BY <1>1, <1>2
  <2> QED BY <1>5, <2>1
<1>7. PoolsMove
  BY <1>5 DEF PoolsMove
<1>8. bus' \in Seq(Post)
  <2>1. n.out \in Seq(Post)
    BY <1>4, MachineHas, MailIsPost
  <2> QED BY <1>1, <2>1, ConcatProperties
<1>9. \A x \in ToSet(attached') \cup ToSet(pending') : machines'[x].state # "ready"
  <2>1. ToSet(attached') \subseteq B /\ ToSet(pending') \subseteq B
    BY ToSetTyped DEF Listed
  <2>2. machines'[b].state # "ready"
    BY <1>3, <1>4, <1>5
  <2> QED BY <1>5, <2>1, <2>2 DEF Listed
<1>10. Engaged(call') => call'.obj \in B /\ Fits(call', machines'[call'.obj])
  BY <1>3, <1>5
<1>11. ParkedAreSettled'
  <2>1. \A x \in B : Solitary(x)' <=> Solitary(x)
    BY <1>2, <1>6 DEF Solitary, Self, Executions
  <2>2. ASSUME NEW x \in B, machines'[x].state = "suspended", Solitary(x)
        PROVE  Risen(machines'[x]) = {}
    <3>1. CASE x = b
      BY <1>3, <1>5, <2>2, <3>1
    <3>2. CASE x # b
      <4>1. Self(x) # Self(b)
        BY <1>2, <2>2, <3>2 DEF Solitary
      <4>2. machines'[x] = machines[x]
        BY <1>5, <3>2, <4>1
      <4> QED BY <1>2, <2>2, <4>2 DEF ParkedAreSettled
    <3> QED BY <3>1, <3>2
  <2> QED BY <2>1, <2>2 DEF ParkedAreSettled
<1>12. IInv'
  BY <1>1, <1>2, <1>4, <1>6, <1>8, <1>9, <1>10, <1>11 DEF IInv, Listed
<1> QED BY <1>1, <1>3, <1>5, <1>7, <1>12 DEF f

\* A step that parks nobody and, in a drain, waits for nothing.
LEMMA CommitKeeps ==
    ASSUME IInv, NEW b \in DOMAIN cast.machines, NEW n, NEW mail \in Seq(Post),
           Continues(machines[b], n), Commit(b, n, mail),
           n.state = "suspended" /\ Solitary(b) => Risen(n) = {},
           cast' = cast, Listed(b), session' \in [DOMAIN cast.machines -> Int],
           call' \in CallRecords, Shaped(call'),
           Engaged(call') => call'.obj = b /\ Fits(call', n),
           machines[b].state = "running" => n.state # "suspended",
           call.driver = "drain" => WaitsForNothing(machines[b], n) /\ call'.result # "drained"
    PROVE  StepKeeps
<1>1. /\ IInv' /\ PoolsMove
      /\ machines'[b].state = n.state /\ machines'[b].currentTime = n.currentTime
      /\ \A x \in DOMAIN cast.machines : x # b =>
            /\ machines'[x].state = machines[x].state
            /\ machines'[x].currentTime = machines[x].currentTime
  BY CommitSteps
<1>2. Executions = DOMAIN cast.machines
  BY Rest
<1>3. ParksQuiescent
  BY <1>1, <1>2 DEF ParksQuiescent
<1>4. SettlesWithoutWaiting
  <2>1. call.driver = "drain" =>
            \A x \in DOMAIN cast.machines : WaitsForNothing(machines[x], machines'[x])
    BY <1>1 DEF WaitsForNothing
  <2> QED BY <1>2, <2>1 DEF SettlesWithoutWaiting
<1> QED BY <1>1, <1>3, <1>4 DEF StepKeeps

\* A step that starts no behavior leaves the lists as they are, or shorter.
LEMMA StaysListed ==
    ASSUME IInv, attached' = attached, starting' = starting,
           pending' \in Seq(DOMAIN cast.machines), ToSet(pending') \subseteq ToSet(pending)
    PROVE  \A b : Listed(b)
BY DEF IInv, Listed

\* A step that moves no machine.
LEMMA UnmovedKeeps ==
    ASSUME IInv, machines' = machines, bus' \in Seq(Post), taken' = <<>>,
           cast' = cast, Listed(None), session' = session,
           call' \in CallRecords, Shaped(call'),
           Engaged(call') => call'.obj \in DOMAIN cast.machines /\ Fits(call', machines[call'.obj]),
           call.driver = "drain" /\ call'.result = "drained" =>
               \A b \in ToSet(attached) : machines[b].state = "suspended" =>
                   /\ OutOfWork(b, machines[b], bus')
                   /\ Solitary(b) => Quiescent(b, machines[b], bus')
    PROVE  StepKeeps
<1>1. \A x \in ToSet(attached') \cup ToSet(pending') : machines[x].state # "ready"
  <2>1. ToSet(attached') \subseteq DOMAIN cast.machines /\ ToSet(pending') \subseteq DOMAIN cast.machines
    BY ToSetTyped DEF Listed
  <2> QED BY <2>1, ListsTyped DEF Listed
<1>2. ParkedAreSettled'
  <2>1. \A b : Solitary(b)' <=> Solitary(b)
    BY DEF Solitary, Self, Executions
  <2> QED BY <2>1 DEF IInv, ParkedAreSettled
<1>3. IInv'
  BY <1>1, <1>2, NoneResolved DEF IInv, Listed
<1>4. PoolsMove
  BY Rest, PoolStaysPut DEF PoolsMove, PoolMoves
<1>5. ParksQuiescent
  BY DEF ParksQuiescent
<1>6. SettlesWithoutWaiting
  BY DEF SettlesWithoutWaiting, WaitsForNothing
<1> QED BY <1>3, <1>4, <1>5, <1>6 DEF StepKeeps

\* A step of a call that moves neither a machine nor a message.
LEMMA IdleKeeps ==
    ASSUME IInv, Unmoved, cast' = cast, attached' = attached, pending' = pending,
           starting' = starting, session' = session,
           call' \in CallRecords, Shaped(call'), call'.result # "drained",
           Engaged(call') => call'.obj \in DOMAIN cast.machines /\ Fits(call', machines[call'.obj])
    PROVE  StepKeeps
<1>1. machines' = machines /\ bus' \in Seq(Post) /\ taken' = <<>>
  BY ListsTyped DEF Unmoved
<1>2. Listed(None)
  BY ListsTyped, StaysListed
<1> QED BY <1>1, <1>2, UnmovedKeeps

---------------------------------------------------------------------------
(* How a call goes on.                                                     *)

\* The machine a call is at.
LEMMA CallObject ==
    ASSUME IInv, Engaged(call)
    PROVE  /\ call.obj \in DOMAIN cast.machines /\ Fits(call, machines[call.obj])
           /\ machines[call.obj].state \in {"running", "completed"}
           /\ call \in CallRecords /\ Shaped(call)
           /\ call.driver \in {"drain", "run", "step", "advance"} /\ call.result = "none"
           /\ call.driver # "none"
<1>1. /\ call \in CallRecords /\ Shaped(call)
      /\ call.obj \in DOMAIN cast.machines /\ Fits(call, machines[call.obj])
  BY DEF IInv
<1>2. call.driver # "none" /\ call.result = "none"
  BY <1>1 DEF Shaped, Engaged, BetweenRuns
<1>3. call.driver \in {"none", "drain", "run", "step", "advance"}
  BY <1>1 DEF CallRecords
<1> QED BY <1>1, <1>2, <1>3 DEF Fits

\* No call, whatever the last one came to.
LEMMA NoCallTyped ==
    ASSUME NEW result \in {"none", "ok", "drained", "budget"}
    PROVE  LET c == [NoCall EXCEPT !.result = result]
           IN  c \in CallRecords /\ Shaped(c) /\ ~Engaged(c) /\ c.result = result
<1> DEFINE c == [NoCall EXCEPT !.result = result]
<1>1. /\ NoCall \in CallRecords /\ NoCall.driver = "none" /\ NoCall.phase = "none"
      /\ NoCall.atCurrentTime = FALSE
  BY DEF NoCall, CallRecords
<1>2. c \in CallRecords
  BY <1>1 DEF CallRecords
<1>3. c.driver = "none" /\ c.phase = "none" /\ c.atCurrentTime = FALSE /\ c.result = result
  BY <1>1 DEF CallRecords
<1> HIDE DEF c
<1> QED BY <1>2, <1>3 DEF Shaped, Engaged, BetweenRuns, c

\* A call that returns is over, or the drain looks for its next behavior or undoes
\* its start.
LEMMA ReturnFits ==
    ASSUME IInv, call.driver # "none", NEW result \in {"ok", "budget"}, Return(result)
    PROVE  call' \in CallRecords /\ Shaped(call') /\ ~Engaged(call') /\ call'.result # "drained"
<1>1. call \in CallRecords /\ Shaped(call)
  BY DEF IInv
<1>2. CASE call.driver = "drain"
  <2> DEFINE phase == IF result = "ok" THEN "next" ELSE "forget"
             c == [call EXCEPT !.obj = None, !.phase = phase]
  <2>1. call' = c /\ phase \in BetweenRuns
    BY <1>2 DEF Return, BetweenRuns
  <2> HIDE DEF phase
  <2>2. /\ c \in CallRecords /\ c.phase = phase /\ c.driver = call.driver
        /\ c.result = call.result /\ c.atCurrentTime = call.atCurrentTime
    BY <1>1, <2>1 DEF CallRecords, BetweenRuns
  <2> HIDE DEF c
  <2> QED BY <1>1, <1>2, <2>1, <2>2 DEF Shaped, Engaged, BetweenRuns
<1>3. CASE call.driver # "drain"
  <2>1. call' = [NoCall EXCEPT !.result = result]
    BY <1>3 DEF Return
  <2> QED BY <2>1, NoCallTyped
<1> QED BY <1>2, <1>3

\* A call that goes round again is at the same machine, which still runs.
LEMMA AgainFits ==
    ASSUME IInv, Engaged(call), NEW n, NEW events \in Int, Again(n, events)
    PROVE  /\ call' \in CallRecords /\ Shaped(call') /\ call'.result # "drained"
           /\ Engaged(call') => call'.obj = call.obj /\ Fits(call', n)
<1>1. /\ call \in CallRecords /\ Shaped(call) /\ call.driver # "none" /\ call.result = "none"
      /\ call.driver \in {"drain", "run", "step", "advance"}
  BY CallObject
<1>2. CASE call.driver = "step" \/ n.state # "running"
  <2>1. Return("ok")
    BY <1>2 DEF Again
  <2> QED BY <1>1, <2>1, ReturnFits
<1>3. CASE ~(call.driver = "step" \/ n.state # "running")
  <2> DEFINE phase == IF InRun THEN "round" ELSE "driver"
             counted == call.events + events
             c == [call EXCEPT !.phase = phase, !.events = counted]
  <2>1. call' = c
    BY <1>3 DEF Again
  <2>0. counted \in Int /\ phase \in {"round", "driver"} /\ (phase = "round" <=> InRun)
    BY <1>1 DEF CallRecords
  <2> HIDE DEF phase, counted
  <2>2. /\ c \in CallRecords /\ c.phase = phase
        /\ c.driver = call.driver /\ c.result = call.result
        /\ c.atCurrentTime = call.atCurrentTime /\ c.obj = call.obj
    BY <1>1, <2>0 DEF CallRecords
  <2> HIDE DEF c
  <2>3. Shaped(c)
    BY <1>1, <2>0, <2>2 DEF Shaped, InRun, BetweenRuns
  <2>4. Fits(c, n)
    BY <1>3, <2>0, <2>2 DEF Fits
  <2> QED BY <1>1, <2>1, <2>2, <2>3, <2>4
<1> QED BY <1>2, <1>3

\* A call that moves on to another phase at the same machine.
LEMMA PhaseFits ==
    ASSUME IInv, Engaged(call), NEW phase \in {"round", "poll", "deliver", "event"},
           NEW ran \in Nat, NEW doSteps \in Int,
           call' = [call EXCEPT !.phase = phase, !.ran = ran, !.doSteps = doSteps]
    PROVE  /\ call' \in CallRecords /\ Shaped(call') /\ Engaged(call') /\ call'.result # "drained"
           /\ call'.obj = call.obj /\ call'.phase = phase /\ call'.ran = ran
           /\ call'.atCurrentTime = call.atCurrentTime
<1> DEFINE c == [call EXCEPT !.phase = phase, !.ran = ran, !.doSteps = doSteps]
<1>1. call \in CallRecords /\ Shaped(call) /\ call.driver # "none" /\ call.result = "none"
  BY CallObject
<1>2. /\ c \in CallRecords /\ c.phase = phase /\ c.ran = ran
      /\ c.driver = call.driver /\ c.result = call.result
      /\ c.atCurrentTime = call.atCurrentTime /\ c.obj = call.obj
  BY <1>1 DEF CallRecords
<1>3. call' = c
  OBVIOUS
<1> HIDE DEF c
<1>4. Shaped(c)
  BY <1>1, <1>2 DEF Shaped, BetweenRuns
<1> QED BY <1>1, <1>2, <1>3, <1>4 DEF Engaged, BetweenRuns

\* A call that moves on to another phase without counting anything.
LEMMA MovesOn ==
    ASSUME IInv, Engaged(call), NEW phase \in {"round", "poll", "deliver", "event"},
           call' = [call EXCEPT !.phase = phase]
    PROVE  /\ call' \in CallRecords /\ Shaped(call') /\ Engaged(call') /\ call'.result # "drained"
           /\ call'.obj = call.obj /\ call'.phase = phase /\ call'.ran = call.ran
           /\ call'.atCurrentTime = call.atCurrentTime
<1> DEFINE c == [call EXCEPT !.phase = phase]
<1>1. call \in CallRecords /\ Shaped(call) /\ call.driver # "none" /\ call.result = "none"
  BY CallObject
<1>2. /\ c \in CallRecords /\ c.phase = phase /\ c.ran = call.ran
      /\ c.driver = call.driver /\ c.result = call.result
      /\ c.atCurrentTime = call.atCurrentTime /\ c.obj = call.obj
  BY <1>1 DEF CallRecords
<1>3. call' = c
  OBVIOUS
<1> HIDE DEF c
<1>4. Shaped(c)
  BY <1>1, <1>2 DEF Shaped, BetweenRuns
<1> QED BY <1>1, <1>2, <1>3, <1>4 DEF Engaged, BetweenRuns

\* A quiet change that keeps the configuration can be gone on from.
LEMMA QuietContinues ==
    ASSUME NEW m \in Machine, AllDeferred(m), m.taken = <<>>, NEW n \in Quiet(m),
           n.regionStates = m.regionStates, n.simpleState = m.simpleState,
           n.state \in {"running", "completed"}
    PROVE  Continues(m, n) /\ n.currentTime = m.currentTime
<1>1. /\ n \in Machine /\ Follows(m, n) /\ n.taken = m.taken
      /\ n.of = m.of /\ n.deferred = m.deferred /\ n.currentTime = m.currentTime
  BY DEF Quiet, Follows
<1>2. AllDeferred(n)
  BY <1>1, SameQuestions
<1>3. PoolMoves(m, n)
  BY <1>1, FollowsPool DEF PoolMoves
<1> QED BY <1>1, <1>2, <1>3, NoneResolved DEF Continues

\* A round of the do behaviors can be gone on from.
LEMMA RoundContinues ==
    ASSUME NEW m \in Machine, AllDeferred(m), m.taken = <<>>, m.state \in {"running", "completed"}
    PROVE  LET n == RunDoRound(m)
           IN  /\ Continues(m, n) /\ n.currentTime = m.currentTime /\ n.state = m.state
               /\ m.doActions = <<>> => n.doActions = <<>>
<1> DEFINE n == RunDoRound(m)
<1>1. /\ n \in Quiet(m) /\ n.state = m.state
      /\ n.regionStates = m.regionStates /\ n.simpleState = m.simpleState
      /\ m.doActions = <<>> => n.doActions = <<>>
  BY RoundSteps
<1> HIDE DEF n
<1> QED BY <1>1, QuietContinues DEF n

\* So can a poll.
LEMMA PollContinues ==
    ASSUME NEW m \in Machine, AllDeferred(m), m.taken = <<>>, m.state \in {"running", "completed"}
    PROVE  LET p == PollChangeEvents(m)
           IN  /\ Continues(m, p.m) /\ p.m.currentTime = m.currentTime
               /\ p.m.state \in {"running", "completed"} /\ p.fired \in BOOLEAN
               /\ ~p.fired => InPlace(m, p.m) /\ Risen(p.m) = {} /\ p.m.out = m.out
<1> DEFINE p == PollChangeEvents(m)
<1>1. /\ p.m \in Machine /\ p.fired \in BOOLEAN /\ Resolved(p.m.taken)
      /\ p.m.of = m.of /\ p.m.currentTime = m.currentTime
      /\ p.m.state \in {m.state, "completed"} /\ PoolStays(m, p.m)
      /\ p.fired => AllDeferred(p.m)
      /\ ~p.fired => InPlace(m, p.m) /\ Risen(p.m) = {} /\ p.m.out = m.out
  BY PollSteps
<1> HIDE DEF p
<1>2. AllDeferred(p.m)
  BY <1>1, SameQuestions DEF InPlace
<1>3. Continues(m, p.m)
  BY <1>1, <1>2 DEF Continues, PoolMoves
<1> QED BY <1>1, <1>3 DEF p

\* A step of the call that gives no other call's message away.
LEMMA CallKeeps ==
    ASSUME IInv, Engaged(call), NEW n, NEW mail \in Seq(Post),
           Continues(machines[call.obj], n), n.state \in {"running", "completed"},
           Commit(call.obj, n, mail),
           call.driver = "drain" => WaitsForNothing(machines[call.obj], n),
           cast' = cast, attached' = attached, pending' = pending, starting' = starting,
           session' \in [DOMAIN cast.machines -> Int],
           call' \in CallRecords, Shaped(call'), call'.result # "drained",
           Engaged(call') => call'.obj = call.obj /\ Fits(call', n)
    PROVE  StepKeeps
<1>1. call.obj \in DOMAIN cast.machines
  BY CallObject
<1>2. Listed(call.obj)
  BY ListsTyped, StaysListed
<1>3. n.state # "suspended"
  OBVIOUS
<1> QED BY <1>1, <1>2, <1>3, CommitKeeps

---------------------------------------------------------------------------
(* The phases of a run.                                                    *)

\* runDoRound.
LEMMA DoRoundSteps ==
    ASSUME IInv, DoRound
    PROVE  StepKeeps
<1> DEFINE b == call.obj
           m == machines[b]
           n == RunDoRound(m)
           ran == Len(m.doActions)
<1>1. Engaged(call) /\ cast' = cast /\ attached' = attached /\ pending' = pending /\ starting' = starting /\ session' = session
  BY DEF DoRound, InPhase, Engaged, BetweenRuns
<1>2. /\ b \in DOMAIN cast.machines /\ m \in Machine /\ AllDeferred(m) /\ m.taken = <<>>
      /\ m.state \in {"running", "completed"} /\ call \in CallRecords /\ call.driver # "none"
  BY <1>1, CallObject, Rest
<1>3. Commit(b, n, bus)
  BY DEF DoRound
<1>4. /\ Continues(m, n) /\ n.currentTime = m.currentTime /\ n.state = m.state
      /\ m.doActions = <<>> => n.doActions = <<>>
  BY <1>2, RoundContinues
<1>5. ran \in Nat /\ (ran = 0 => m.doActions = <<>>)
  <2>1. m.doActions \in Seq(DoActions)
    BY <1>2, MachineHas
  <2> QED BY <2>1, LenProperties, EmptySeq
<1>6. Return("budget") \/ call' = [call EXCEPT !.phase = "poll", !.ran = ran, !.doSteps = @ + ran]
  BY DEF DoRound
<1> HIDE DEF n, ran
<1>7. /\ call' \in CallRecords /\ Shaped(call') /\ call'.result # "drained"
      /\ Engaged(call') => call'.obj = b /\ Fits(call', n)
  <2>1. CASE Return("budget")
    BY <1>2, <2>1, ReturnFits
  <2>2. CASE call' = [call EXCEPT !.phase = "poll", !.ran = ran, !.doSteps = @ + ran]
    <3> DEFINE steps == call.doSteps + ran
    <3>1. steps \in Int
      BY <1>2, <1>5 DEF CallRecords
    <3>2. call' = [call EXCEPT !.phase = "poll", !.ran = ran, !.doSteps = steps]
      BY <2>2
    <3> HIDE DEF steps
    <3>3. /\ call' \in CallRecords /\ Shaped(call') /\ call'.result # "drained"
          /\ call'.obj = call.obj /\ call'.phase = "poll" /\ call'.ran = ran
      BY <1>1, <1>5, <3>1, <3>2, PhaseFits
    <3> QED BY <1>2, <1>4, <1>5, <3>3 DEF Fits
  <2> QED BY <1>6, <2>1, <2>2
<1> QED BY <1>1, <1>2, <1>3, <1>4, <1>7, ListsTyped, CallKeeps DEF WaitsForNothing

\* pollChangeEvents.
LEMMA PollPhaseSteps ==
    ASSUME IInv, Poll
    PROVE  StepKeeps
<1> DEFINE b == call.obj
           m == machines[b]
           p == PollChangeEvents(m)
<1>1. /\ Engaged(call) /\ call.phase = "poll"
      /\ cast' = cast /\ attached' = attached /\ pending' = pending /\ starting' = starting /\ session' = session
  BY DEF Poll, InPhase, Engaged, BetweenRuns
<1>2. /\ b \in DOMAIN cast.machines /\ m \in Machine /\ AllDeferred(m) /\ m.taken = <<>>
      /\ m.state \in {"running", "completed"} /\ call \in CallRecords /\ call.driver # "none"
      /\ Fits(call, m)
  BY <1>1, CallObject, Rest
<1>3. AfterPoll(p)
  BY DEF Poll
<1>4. /\ Continues(m, p.m) /\ p.m.currentTime = m.currentTime
      /\ p.m.state \in {"running", "completed"} /\ p.fired \in BOOLEAN
      /\ ~p.fired => InPlace(m, p.m) /\ Risen(p.m) = {} /\ p.m.out = m.out
  BY <1>2, PollContinues
<1> HIDE DEF p
<1>5. Commit(b, p.m, bus)
  BY <1>3 DEF AfterPoll
<1>6. /\ call' \in CallRecords /\ Shaped(call') /\ call'.result # "drained"
      /\ Engaged(call') => call'.obj = b /\ Fits(call', p.m)
  <2>1. CASE ~p.fired
    <3>1. call' = [call EXCEPT !.phase = "deliver"]
      BY <1>3, <2>1 DEF AfterPoll
    <3>2. /\ call' \in CallRecords /\ Shaped(call') /\ call'.result # "drained"
          /\ call'.obj = call.obj /\ call'.phase = "deliver" /\ call'.ran = call.ran
      BY <1>1, <3>1, MovesOn
    <3>3. p.m.doActions = m.doActions /\ p.m.state = m.state /\ Risen(p.m) = {}
      BY <1>4, <2>1 DEF InPlace
    <3> QED BY <1>1, <1>2, <3>2, <3>3 DEF Fits
  <2>2. CASE p.fired /\ Return("budget")
    BY <1>2, <2>2, ReturnFits
  <2>3. CASE p.fired /\ Again(p.m, 1)
    BY <1>1, <2>3, AgainFits
  <2> QED BY <1>3, <1>4, <2>1, <2>2, <2>3 DEF AfterPoll
<1> QED BY <1>1, <1>2, <1>4, <1>5, <1>6, ListsTyped, CallKeeps DEF WaitsForNothing

\* Removing a message leaves a sequence of messages.
LEMMA RemoveTyped ==
    ASSUME NEW S, NEW s \in Seq(S), NEW i \in 1..Len(s)
    PROVE  RemoveAt(s, i) \in Seq(S)
<1>0. Len(s) \in Nat
  BY LenProperties
<1>1. SubSeq(s, 1, i - 1) \in Seq(S) /\ SubSeq(s, i + 1, Len(s)) \in Seq(S)
  BY <1>0, SubSeqProperties, ElementOfSeq
<1> QED BY <1>1, ConcatProperties DEF RemoveAt

\* The search for a message an object may take finds one when there is one.
LEMMA AcceptableFound ==
    ASSUME IInv, NEW b
    PROVE  LET i == FirstAcceptable(b)
           IN  /\ i # 0 => i \in 1..Len(bus)
               /\ i = 0 => \A j \in 1..Len(bus) : ~Acceptable(b, bus[j])
<1> DEFINE I == {j \in 1..Len(bus) : Acceptable(b, bus[j])}
           i == FirstAcceptable(b)
<1>1. i = IF I # {} THEN Min(I) ELSE 0
  BY DEF FirstAcceptable, SelectInSeq
<1>2. Len(bus) \in Nat
  BY ListsTyped, LenProperties
<1>3. ASSUME I # {} PROVE Min(I) \in I
  <2>1. I \subseteq Nat
    BY <1>2
  <2> HIDE DEF I
  <2>2. \E n \in I : \A k \in I : n <= k
    BY <1>3, <2>1, LeastNatural
  <2> QED BY <2>2 DEF Min
<1>4. \A j \in 1..Len(bus) : j # 0
  BY <1>2
<1> HIDE DEF i
<1>5. CASE I # {}
  <2>1. i \in I
    BY <1>1, <1>3, <1>5
  <2> QED BY <1>4, <2>1 DEF i
<1>6. CASE I = {}
  <2>1. i = 0
    BY <1>1, <1>6
  <2> QED BY <1>6, <2>1 DEF i
<1> QED BY <1>5, <1>6

\* A settled machine without a due event or a message to take is quiescent.
LEMMA ParkedIsQuiescent ==
    ASSUME NEW b, NEW m \in Machine, m.doActions = <<>>, m.taken = <<>>, ~HasDueEvent(m, TRUE),
           NEW messages \in Seq(Post),
           \A i \in 1..Len(messages) :
               messages[i].to \in {Anyone, Self(b)} => ~AcceptsSignal(m, messages[i].signal)
    PROVE  OutOfWork(b, m, messages) /\ (Risen(m) = {} => Quiescent(b, m, messages))
<1>1. Risen(m) = {} => ~PollChangeEvents(m).fired
  BY PollSteps
<1>2. DOMAIN messages = 1..Len(messages)
  BY LenProperties
<1> QED BY <1>1, <1>2 DEF OutOfWork, Quiescent

\* Parking a machine: it has neither an event due nor a message to take.
LEMMA ParkSteps ==
    ASSUME IInv, Engaged(call), NEW m, Continues(machines[call.obj], m),
           m.out = <<>>, m.taken = <<>>, m.currentTime = machines[call.obj].currentTime,
           m.doActions = <<>>, Risen(m) = {},
           ~HasDueEvent(m, TRUE), call.driver = "run" => m.eventQueue = {},
           \A j \in 1..Len(bus) :
               bus[j].to \in {Anyone, Self(call.obj)} => ~AcceptsSignal(m, bus[j].signal),
           Commit(call.obj, [m EXCEPT !.state = "suspended"], bus), Return("ok"),
           cast' = cast, attached' = attached, pending' = pending, starting' = starting,
           session' = session
    PROVE  StepKeeps
<1> DEFINE b == call.obj
           n == [m EXCEPT !.state = "suspended"]
<1>0. /\ m \in Machine /\ AllDeferred(m) /\ PoolMoves(machines[b], m)
      /\ b \in DOMAIN cast.machines /\ machines[b] \in Machine /\ call.driver # "none"
      /\ Executions = DOMAIN cast.machines /\ bus \in Seq(Post) /\ Len(bus) \in Nat
  BY CallObject, Rest, ListsTyped, LenProperties DEF Continues
<1>1. /\ n \in Machine /\ Alike(m, n) /\ n.state = "suspended"
      /\ n.out = <<>> /\ n.taken = <<>>
  BY <1>0, StatusSteps DEF Statuses
<1>2. Commit(b, n, bus)
  OBVIOUS
<1> HIDE DEF n
<1>3. n \in MachineRecords
  BY <1>1, MachineHas
<1>4. /\ AllDeferred(n) /\ n.doActions = <<>> /\ Risen(n) = {}
      /\ QueuedIDs(n) = QueuedIDs(m) /\ HeldIDs(n) = HeldIDs(m) /\ n.nextEventID = m.nextEventID
      /\ ~HasDueEvent(n, TRUE)
      /\ \A s : AcceptsSignal(n, s) = AcceptsSignal(m, s)
  <2>1. /\ AllDeferred(n) = AllDeferred(m) /\ Settled(n) = Settled(m)
        /\ QueuedIDs(n) = QueuedIDs(m) /\ HeldIDs(n) = HeldIDs(m)
        /\ HasDueEvent(n, TRUE) = HasDueEvent(m, TRUE)
        /\ \A s : AcceptsSignal(n, s) = AcceptsSignal(m, s)
    BY <1>0, <1>1, <1>3, AlikeSteps
  <2>2. Settled(m)
    BY DEF Settled
  <2>3. n.nextEventID = m.nextEventID
    BY <1>1 DEF Alike
  <2> QED BY <1>0, <2>1, <2>2, <2>3 DEF Settled
<1>5. PoolMoves(machines[b], n)
  BY <1>0, <1>4 DEF PoolMoves, PoolStays, PoolArrives, PoolDispatches, PoolRecalls
<1>6. Continues(machines[b], n)
  BY <1>1, <1>4, <1>5, NoneResolved DEF Continues
<1>7. call' \in CallRecords /\ Shaped(call') /\ ~Engaged(call') /\ call'.result # "drained"
  BY <1>0, ReturnFits
<1>8. /\ IInv' /\ PoolsMove
      /\ machines'[b] = Flushed(n) /\ machines'[b].state = n.state
      /\ machines'[b].currentTime = n.currentTime
      /\ machines'[b].eventQueue = n.eventQueue /\ Alike(n, machines'[b])
      /\ \A x \in DOMAIN cast.machines : x # b =>
            /\ machines'[x].state = machines[x].state
            /\ machines'[x].currentTime = machines[x].currentTime
      /\ bus' = bus \o n.out
  <2>1. Listed(b)
    BY ListsTyped, StaysListed
  <2>2. /\ session' \in [DOMAIN cast.machines -> Int] /\ bus \in Seq(Post)
        /\ b \in DOMAIN cast.machines /\ cast' = cast
        /\ n.state = "suspended" /\ Solitary(b) => Risen(n) = {}
    BY <1>0, <1>4, ListsTyped
  <2> HIDE DEF b
  <2> QED BY <1>2, <1>6, <1>7, <2>1, <2>2, CommitSteps
<1>9. bus' = bus
  <2>1. bus' = bus \o <<>>
    BY <1>1, <1>8
  <2> QED BY <1>0, <2>1, ConcatEmptySeq
<1> DEFINE f == machines'[b]
<1>10. f \in Machine /\ f.taken = <<>> /\ f \in MachineRecords
  <2>1. Flushed(n) \in AtRest
    BY <1>6, <1>7, FlushedRests
  <2>2. f \in AtRest
    BY <1>8, <2>1
  <2> HIDE DEF f
  <2> QED BY <2>2, MachineHas DEF AtRest
<1>11. Quiescent(b, f, bus)
  <2> HIDE DEF f
  <2>0. Alike(n, f)
    BY <1>8 DEF f
  <2>1. /\ Settled(f) /\ ~HasDueEvent(f, TRUE)
        /\ \A s : AcceptsSignal(f, s) = AcceptsSignal(m, s)
    <3>1. /\ Settled(f) = Settled(n) /\ HasDueEvent(f, TRUE) = HasDueEvent(n, TRUE)
          /\ \A s : AcceptsSignal(f, s) = AcceptsSignal(n, s)
      BY <1>1, <1>10, <2>0, AlikeSteps
    <3> QED BY <1>4, <3>1 DEF Settled
  <2>2. f.doActions = <<>> /\ Risen(f) = {}
    BY <2>1 DEF Settled
  <2> QED BY <1>0, <1>10, <2>1, <2>2, ParkedIsQuiescent
<1>12. ParksQuiescent
  <2>1. call.driver = "run" => f.eventQueue = {}
    BY <1>1, <1>8 DEF Alike
  <2> QED BY <1>0, <1>8, <1>9, <1>11, <2>1 DEF ParksQuiescent
<1>13. SettlesWithoutWaiting
  <2>1. n.currentTime = machines[b].currentTime
    BY <1>1 DEF Alike
  <2> QED BY <1>0, <1>7, <1>8, <2>1 DEF SettlesWithoutWaiting, WaitsForNothing
<1> QED BY <1>8, <1>12, <1>13 DEF StepKeeps

\* A machine is where it was.
LEMMA StandsStill ==
    ASSUME NEW m \in Machine, AllDeferred(m), m.taken = <<>>, m.state \in {"running", "completed"}
    PROVE  Continues(m, m)
BY PoolStaysPut, NoneResolved DEF Continues, PoolMoves

\* hasDueEvent and deliverPendingSignal.
LEMMA DeliverSteps ==
    ASSUME IInv, Deliver
    PROVE  StepKeeps
<1> DEFINE b == call.obj
           m == machines[b]
           i == FirstAcceptable(b)
           Going == Return("budget") \/ call' = [call EXCEPT !.phase = "event"]
<1>1. /\ Engaged(call) /\ call.phase = "deliver"
      /\ cast' = cast /\ attached' = attached /\ pending' = pending /\ starting' = starting /\ session' = session
  BY DEF Deliver, InPhase, Engaged, BetweenRuns
<1>2. /\ b \in DOMAIN cast.machines /\ m \in Machine /\ AllDeferred(m) /\ m.taken = <<>>
      /\ m.out = <<>>
      /\ m.state \in {"running", "completed"} /\ call \in CallRecords /\ call.driver # "none"
      /\ Fits(call, m) /\ Shaped(call)
  BY <1>1, CallObject, Rest
<1>3. ASSUME NEW n, n.state \in {"running", "completed"}, HasDueEvent(n, call.atCurrentTime), Going
      PROVE  /\ call' \in CallRecords /\ Shaped(call') /\ call'.result # "drained"
             /\ Engaged(call') => call'.obj = b /\ Fits(call', n)
  <2>1. CASE Return("budget")
    BY <1>2, <2>1, ReturnFits
  <2>2. CASE call' = [call EXCEPT !.phase = "event"]
    <3>1. /\ call' \in CallRecords /\ Shaped(call') /\ call'.result # "drained"
          /\ call'.obj = call.obj /\ call'.phase = "event"
          /\ call'.atCurrentTime = call.atCurrentTime
      BY <1>1, <2>2, MovesOn
    <3> QED BY <1>3, <3>1 DEF Fits
  <2> QED BY <1>3, <2>1, <2>2
<1>4. CASE HasDueEvent(m, call.atCurrentTime)
  <2>1. Unmoved /\ Going
    BY <1>4 DEF Deliver
  <2>2. /\ call' \in CallRecords /\ Shaped(call') /\ call'.result # "drained"
        /\ Engaged(call') => call'.obj = b /\ Fits(call', m)
    BY <1>2, <1>3, <1>4, <2>1
  <2> QED BY <1>1, <1>2, <2>1, <2>2, IdleKeeps
<1>5. CASE ~HasDueEvent(m, call.atCurrentTime) /\ i # 0
  <2> DEFINE n == EnqueueSignal(m, bus[i].signal)
             mail == RemoveAt(bus, i)
  <2>1. Commit(b, n, mail) /\ Going
    BY <1>5 DEF Deliver
  <2>2. i \in 1..Len(bus)
    BY <1>5, AcceptableFound
  <2> HIDE DEF i
  <2>3. mail \in Seq(Post) /\ bus[i].signal \in Triggers
    <3>1. bus[i] \in Post
      BY <2>2, ListsTyped, ElementOfSeq
    <3> QED BY <2>2, <3>1, ListsTyped, RemoveTyped DEF Post
  <2>4. /\ n \in Machine /\ PoolArrives(m, n) /\ AllDeferred(n) = AllDeferred(m)
        /\ n.state = m.state /\ n.currentTime = m.currentTime /\ n.taken = m.taken
        /\ \A h : HasDueEvent(n, h)
    BY <1>2, <2>3, ArriveSteps DEF EnqueueSignal
  <2> HIDE DEF n, mail
  <2>5. Continues(m, n)
    BY <1>2, <2>4, NoneResolved DEF Continues, PoolMoves
  <2>6. /\ call' \in CallRecords /\ Shaped(call') /\ call'.result # "drained"
        /\ Engaged(call') => call'.obj = b /\ Fits(call', n)
    BY <1>2, <1>3, <2>1, <2>4
  <2> QED BY <1>1, <1>2, <2>1, <2>3, <2>4, <2>5, <2>6, ListsTyped, CallKeeps DEF WaitsForNothing
<1>6. CASE ~HasDueEvent(m, call.atCurrentTime) /\ i = 0 /\ call.ran > 0
  <2>1. Unmoved /\ Again(m, 0)
    BY <1>6 DEF Deliver
  <2>2. /\ call' \in CallRecords /\ Shaped(call') /\ call'.result # "drained"
        /\ Engaged(call') => call'.obj = b /\ Fits(call', m)
    BY <1>1, <2>1, AgainFits
  <2> QED BY <1>1, <1>2, <2>1, <2>2, IdleKeeps
<1>7. CASE ~HasDueEvent(m, call.atCurrentTime) /\ i = 0 /\ ~(call.ran > 0)
  <2>1. Commit(b, [m EXCEPT !.state = "suspended"], bus) /\ Return("ok")
    BY <1>7 DEF Deliver
  <2>2. call.ran = 0
    BY <1>2, <1>7 DEF CallRecords
  <2>3. m.doActions = <<>> /\ Risen(m) = {}
    BY <1>1, <1>2, <2>2 DEF Fits
  <2>4. ~HasDueEvent(m, TRUE)
    BY <1>7 DEF HasDueEvent
  <2>5. call.driver = "run" => m.eventQueue = {}
    BY <1>2, <1>7 DEF HasDueEvent, Shaped
  <2>6. \A j \in 1..Len(bus) : bus[j].to \in {Anyone, Self(b)} => ~AcceptsSignal(m, bus[j].signal)
    BY <1>7, AcceptableFound DEF Acceptable
  <2>7. Continues(m, m)
    BY <1>2, StandsStill
  <2> HIDE DEF m
  <2> QED BY <1>1, <1>2, <2>1, <2>3, <2>4, <2>5, <2>6, <2>7, ParkSteps DEF m
<1> QED BY <1>4, <1>5, <1>6, <1>7

\* processNextEvent.
LEMMA ProcessNextEventSteps ==
    ASSUME IInv, ProcessNextEvent
    PROVE  StepKeeps
<1> DEFINE b == call.obj
           m == machines[b]
           n == ProcessQueuedEvent(m)
<1>1. /\ Engaged(call) /\ call.phase = "event"
      /\ cast' = cast /\ attached' = attached /\ pending' = pending /\ starting' = starting
  BY DEF ProcessNextEvent, InPhase, Engaged, BetweenRuns
<1>2. /\ b \in DOMAIN cast.machines /\ m \in Machine /\ AllDeferred(m) /\ m.taken = <<>>
      /\ m.state \in {"running", "completed"} /\ call \in CallRecords /\ call.driver # "none"
      /\ Fits(call, m) /\ Shaped(call)
  BY <1>1, CallObject, Rest
<1>3. AfterEvent(n)
  BY DEF ProcessNextEvent
<1>4. HasDueEvent(m, call.atCurrentTime)
  BY <1>1, <1>2 DEF Fits
<1>5. m.eventQueue # {}
  BY <1>4 DEF HasDueEvent
<1>6. /\ n \in Machine /\ AllDeferred(n) /\ Resolved(n.taken)
      /\ n.of = m.of /\ n.state \in {m.state, "completed"}
      /\ n.currentTime = Peek(m.eventQueue).time
      /\ WaitingNow(m) => PoolStays(m, n) \/ PoolDispatches(m, n)
  BY <1>2, <1>5, ProcessSteps
<1> HIDE DEF n
<1>7. Continues(m, n)
  BY <1>2, <1>6 DEF Continues, PoolMoves
<1>8. call.driver = "drain" => WaitsForNothing(m, n)
  <2> SUFFICES ASSUME call.driver = "drain" PROVE WaitsForNothing(m, n)
    OBVIOUS
  <2> DEFINE e == Peek(m.eventQueue)
  <2>1. e.time <= m.currentTime
    BY <1>2, <1>4 DEF HasDueEvent, Shaped
  <2>2. e \in m.eventQueue /\ (e.time >= m.currentTime \/ RunsBack(e))
    BY <1>2, <1>5, PeekIsDue
  <2>3. n.currentTime = e.time /\ n.currentTime \in Int /\ m.currentTime \in Int
    BY <1>2, <1>6, MachineHas
  <2> HIDE DEF e
  <2>4. CASE e.time >= m.currentTime
    <3>1. n.currentTime = m.currentTime
      BY <2>1, <2>3, <2>4
    <3> QED BY <3>1 DEF WaitsForNothing
  <2>5. CASE ~(e.time >= m.currentTime)
    <3>1. n.currentTime < m.currentTime /\ RunsBack(e)
      BY <2>2, <2>3, <2>5
    <3> QED BY <2>2, <2>3, <3>1 DEF WaitsForNothing
  <2> QED BY <2>4, <2>5
<1>9. Commit(b, n, bus) /\ Again(n, 1)
  BY <1>3 DEF AfterEvent
<1>10. session' \in [DOMAIN cast.machines -> Int]
  <2>1. n.currentTime \in Int
    BY <1>6, MachineHas
  <2>2. session' = session \/ session' = [session EXCEPT ![b] = n.currentTime]
    BY <1>3 DEF AfterEvent
  <2> QED BY <2>1, <2>2, ListsTyped
<1>11. /\ call' \in CallRecords /\ Shaped(call') /\ call'.result # "drained"
       /\ Engaged(call') => call'.obj = b /\ Fits(call', n)
  BY <1>1, <1>9, AgainFits
<1>12. n.state \in {"running", "completed"}
  BY <1>2, <1>6
<1> QED BY <1>1, <1>2, <1>7, <1>8, <1>9, <1>10, <1>11, <1>12, ListsTyped, CallKeeps

---------------------------------------------------------------------------
(* The debugger's own turn.                                                *)

\* A call of the debugger that counts an event, or do actions, stays where it is.
LEMMA CountFits ==
    ASSUME IInv, call.phase = "driver", NEW n, n.state \in {"running", "completed"},
           call' \in CallRecords, call'.phase = call.phase, call'.driver = call.driver,
           call'.result = call.result, call'.atCurrentTime = call.atCurrentTime,
           call'.obj = call.obj
    PROVE  /\ call' \in CallRecords /\ Shaped(call') /\ call'.result # "drained"
           /\ call'.obj = call.obj /\ Fits(call', n)
<1>1. /\ call \in CallRecords /\ Shaped(call) /\ call.driver # "none" /\ call.result = "none"
  BY CallObject DEF Engaged, BetweenRuns
<1> QED BY <1>1 DEF Shaped, Fits, BetweenRuns

\* The end of an advance.
LEMMA EndAdvanceSteps ==
    ASSUME IInv, call.phase = "driver", NEW n, Continues(machines[call.obj], n),
           n.state \in {"running", "completed"}, EndAdvance(n),
           cast' = cast, attached' = attached, pending' = pending, starting' = starting
    PROVE  StepKeeps
<1> DEFINE b == call.obj
<1>1. /\ Engaged(call) /\ b \in DOMAIN cast.machines /\ call.driver # "none"
      /\ call.driver # "drain" /\ call.deadline \in Int
  BY CallObject DEF Engaged, BetweenRuns, Shaped, CallRecords
<1>2. /\ Commit(b, n, bus) /\ Return("ok")
      /\ session' = [session EXCEPT ![b] = IF n.currentTime > call.deadline THEN n.currentTime
                                           ELSE call.deadline]
  BY DEF EndAdvance
<1>3. n.currentTime \in Int
  BY MachineHas DEF Continues
<1>4. session' \in [DOMAIN cast.machines -> Int]
  BY <1>1, <1>2, <1>3, ListsTyped
<1>5. call' \in CallRecords /\ Shaped(call') /\ ~Engaged(call') /\ call'.result # "drained"
  BY <1>1, <1>2, ReturnFits
<1> QED BY <1>1, <1>2, <1>4, <1>5, ListsTyped, CallKeeps DEF WaitsForNothing

\* The debugger's turn for one machine.
LEMMA DriveSteps ==
    ASSUME IInv, call.phase = "driver", DriveFrom(call.obj, PollChangeEvents(machines[call.obj])),
           cast' = cast, attached' = attached, pending' = pending, starting' = starting
    PROVE  StepKeeps
<1> DEFINE b == call.obj
           m == machines[b]
           p == PollChangeEvents(m)
           k == p.m
           stepping == call.driver = "step"
           ready == IF k.eventQueue = {} THEN HasPendingSignal(b)
                    ELSE stepping \/ Peek(k.eventQueue).time <= call.deadline
           ran == Len(k.doActions)
           Move(n) == Commit(b, n, bus) /\ session' = session
<1>1. /\ Engaged(call) /\ b \in DOMAIN cast.machines /\ call.driver # "none"
      /\ call.driver # "drain" /\ call.driver # "run" /\ call \in CallRecords
      /\ m \in Machine /\ AllDeferred(m) /\ m.taken = <<>> /\ m.out = <<>>
      /\ m.state \in {"running", "completed"}
  BY CallObject, Rest DEF Engaged, BetweenRuns, Shaped
<1>2. /\ Continues(m, k) /\ k.currentTime = m.currentTime
      /\ k.state \in {"running", "completed"} /\ p.fired \in BOOLEAN
      /\ ~p.fired => InPlace(m, k) /\ Risen(k) = {} /\ k.out = m.out
  BY <1>1, PollContinues
<1>3. IF p.fired
      THEN Move(k) /\ IF stepping THEN Return("ok") ELSE call' = [call EXCEPT !.events = @ + 1]
      ELSE IF ready THEN Move(k) /\ call' = [call EXCEPT !.phase = "round"]
      ELSE IF ran > 0
      THEN Move(RunDoRound(k))
           /\ IF stepping THEN Return("ok") ELSE call' = [call EXCEPT !.doSteps = @ + ran]
      ELSE IF stepping THEN Move([k EXCEPT !.state = "suspended"]) /\ Return("ok")
      ELSE EndAdvance(k)
  BY DEF DriveFrom
<1> HIDE DEF p, ready
<1>4. k \in Machine /\ AllDeferred(k)
  BY <1>2 DEF Continues
<1>5. ran \in Nat /\ (~(ran > 0) => k.doActions = <<>>)
  <2>1. k.doActions \in Seq(DoActions)
    BY <1>4, MachineHas
  <2> QED BY <2>1, LenProperties, EmptySeq
<1> HIDE DEF ran
<1>6. CASE p.fired
  <2>1. Move(k) /\ (Return("ok") \/ call' = [call EXCEPT !.events = @ + 1])
    BY <1>3, <1>6
  <2>2. /\ call' \in CallRecords /\ Shaped(call') /\ call'.result # "drained"
        /\ Engaged(call') => call'.obj = b /\ Fits(call', k)
    <3>1. CASE Return("ok")
      BY <1>1, <3>1, ReturnFits
    <3>2. CASE call' = [call EXCEPT !.events = @ + 1]
      <4> DEFINE events == call.events + 1
      <4>1. events \in Int
        BY <1>1 DEF CallRecords
      <4>2. call' = [call EXCEPT !.events = events]
        BY <3>2
      <4> HIDE DEF events
      <4>3. /\ call' \in CallRecords /\ call'.phase = call.phase /\ call'.driver = call.driver
            /\ call'.result = call.result /\ call'.atCurrentTime = call.atCurrentTime
            /\ call'.obj = call.obj
        BY <1>1, <4>1, <4>2 DEF CallRecords
      <4> QED BY <1>2, <4>3, CountFits
    <3> QED BY <2>1, <3>1, <3>2
  <2> QED BY <1>1, <1>2, <2>1, <2>2, ListsTyped, CallKeeps DEF WaitsForNothing
<1>7. CASE ~p.fired /\ ready
  <2>1. Move(k) /\ call' = [call EXCEPT !.phase = "round"]
    BY <1>3, <1>7
  <2>2. /\ call' \in CallRecords /\ Shaped(call') /\ call'.result # "drained"
        /\ call'.obj = call.obj /\ call'.phase = "round"
    BY <1>1, <2>1, MovesOn
  <2>3. Fits(call', k)
    BY <1>2, <2>2 DEF Fits
  <2> QED BY <1>1, <1>2, <2>1, <2>2, <2>3, ListsTyped, CallKeeps DEF WaitsForNothing
<1>8. CASE ~p.fired /\ ~ready /\ ran > 0
  <2> DEFINE n == RunDoRound(k)
  <2>1. Move(n) /\ (Return("ok") \/ call' = [call EXCEPT !.doSteps = @ + ran])
    BY <1>3, <1>8
  <2>2. k.taken = <<>>
    BY <1>1, <1>2, <1>8 DEF InPlace
  <2>3. Continues(k, n) /\ n.state = k.state
    BY <1>2, <1>4, <2>2, RoundContinues
  <2> HIDE DEF n
  <2>4. /\ QueuedIDs(k) = QueuedIDs(m) /\ HeldIDs(k) = HeldIDs(m) /\ k.nextEventID = m.nextEventID
        /\ WaitingNow(k) = WaitingNow(m)
    BY <1>2, <1>8 DEF InPlace, QueuedIDs, HeldIDs, WaitingNow
  <2>5. Continues(m, n)
    BY <2>3, <2>4 DEF Continues, PoolMoves, PoolStays, PoolArrives, PoolDispatches, PoolRecalls
  <2>6. /\ call' \in CallRecords /\ Shaped(call') /\ call'.result # "drained"
        /\ Engaged(call') => call'.obj = b /\ Fits(call', n)
    <3>1. CASE Return("ok")
      BY <1>1, <3>1, ReturnFits
    <3>2. CASE call' = [call EXCEPT !.doSteps = @ + ran]
      <4> DEFINE steps == call.doSteps + ran
      <4>1. steps \in Int
        BY <1>1, <1>5 DEF CallRecords
      <4>2. call' = [call EXCEPT !.doSteps = steps]
        BY <3>2
      <4> HIDE DEF steps
      <4>3. /\ call' \in CallRecords /\ call'.phase = call.phase /\ call'.driver = call.driver
            /\ call'.result = call.result /\ call'.atCurrentTime = call.atCurrentTime
            /\ call'.obj = call.obj
        BY <1>1, <4>1, <4>2 DEF CallRecords
      <4> QED BY <1>2, <2>3, <4>3, CountFits
    <3> QED BY <2>1, <3>1, <3>2
  <2> QED BY <1>1, <1>2, <2>1, <2>3, <2>5, <2>6, ListsTyped, CallKeeps DEF WaitsForNothing
<1>9. CASE ~p.fired /\ ~ready /\ ~(ran > 0) /\ stepping
  <2>1. Move([k EXCEPT !.state = "suspended"]) /\ Return("ok")
    BY <1>3, <1>9
  <2>2. InPlace(m, k) /\ Risen(k) = {} /\ k.out = <<>> /\ k.taken = <<>> /\ k.doActions = <<>>
    BY <1>1, <1>2, <1>5, <1>9 DEF InPlace
  <2>3. k.eventQueue = {} /\ ~HasPendingSignal(b)
    BY <1>9 DEF ready
  <2>4. ~HasDueEvent(k, TRUE)
    BY <2>3 DEF HasDueEvent
  <2>5. \A j \in 1..Len(bus) : bus[j].to \in {Anyone, Self(b)} => ~AcceptsSignal(k, bus[j].signal)
    <3>1. \A s : AcceptsSignal(k, s) = AcceptsSignal(m, s)
      BY <2>2, SameQuestions DEF InPlace
    <3>2. \A j \in 1..Len(bus) : ~Acceptable(b, bus[j])
      BY <2>3, AcceptableFound DEF HasPendingSignal
    <3> QED BY <3>1, <3>2 DEF Acceptable
  <2> HIDE DEF k
  <2> QED BY <1>1, <1>2, <2>1, <2>2, <2>3, <2>4, <2>5, ParkSteps
<1>10. CASE ~p.fired /\ ~ready /\ ~(ran > 0) /\ ~stepping
  <2>1. EndAdvance(k)
    BY <1>3, <1>10
  <2> QED BY <1>2, <2>1, EndAdvanceSteps
<1> QED BY <1>2, <1>6, <1>7, <1>8, <1>9, <1>10

\* The debugger's turn.
LEMMA DriverSteps ==
    ASSUME IInv, Driver
    PROVE  StepKeeps
<1> DEFINE b == call.obj
           m == machines[b]
<1>1. /\ Engaged(call) /\ call.phase = "driver"
      /\ cast' = cast /\ attached' = attached /\ pending' = pending /\ starting' = starting
      /\ EndAdvance(m) \/ DriveFrom(b, PollChangeEvents(m))
  BY DEF Driver, InPhase, Engaged, BetweenRuns
<1>2. /\ m \in Machine /\ AllDeferred(m) /\ m.taken = <<>> /\ m.state \in {"running", "completed"}
  BY <1>1, CallObject, Rest
<1>3. Continues(m, m)
  BY <1>2, StandsStill
<1> QED BY <1>1, <1>2, <1>3, EndAdvanceSteps, DriveSteps

---------------------------------------------------------------------------
(* The drain's choice of the next behavior.                                *)

\* Resuming a machine that has begun, or leaving it as it is.
LEMMA ResumedSteps ==
    ASSUME NEW m \in AtRest, m.state # "ready"
    PROVE  LET n == Resumed(m)
           IN  /\ Continues(m, n) /\ n.state \in {"running", "completed"} /\ n.state # "ready"
               /\ n.currentTime = m.currentTime
               /\ m.state = "completed" => n.state = "completed"
<1> DEFINE n == Resumed(m)
<1>1. m \in Machine /\ AllDeferred(m) /\ m.taken = <<>> /\ m.state \in Statuses
  BY MachineHas DEF AtRest
<1>2. CASE m.state = "suspended"
  <2> DEFINE k == [m EXCEPT !.state = "running"]
  <2>1. n = k
    BY <1>2 DEF Resumed
  <2>2. k \in Machine /\ Alike(m, k) /\ k.state = "running" /\ k.taken = m.taken
    BY <1>1, StatusSteps DEF Statuses
  <2> HIDE DEF k
  <2>3. k \in MachineRecords
    BY <2>2, MachineHas
  <2>4. PoolStays(m, k) /\ AllDeferred(k) = AllDeferred(m)
    BY <1>1, <2>2, <2>3, AlikeSteps
  <2>5. k.currentTime = m.currentTime
    BY <2>2 DEF Alike
  <2> QED BY <1>1, <1>2, <2>1, <2>2, <2>4, <2>5, NoneResolved DEF Continues, PoolMoves
<1>3. CASE m.state # "suspended"
  <2>1. n = m /\ m.state \in {"running", "completed"}
    BY <1>1, <1>3 DEF Resumed, Statuses
  <2> QED BY <1>1, <2>1, StandsStill
<1> QED BY <1>2, <1>3

\* StartRun: the behavior chosen next is run, unless it has completed.
LEMMA StartRunSteps ==
    ASSUME IInv, call.phase = "next", NEW b \in DOMAIN cast.machines, machines[b].state # "ready",
           StartRun(b), cast' = cast, attached' = attached, starting' = starting,
           session' = session,
           pending' \in Seq(DOMAIN cast.machines), ToSet(pending') \subseteq ToSet(pending)
    PROVE  StepKeeps
<1> DEFINE m == machines[b]
           n == Resumed(m)
<1>1. call \in CallRecords /\ Shaped(call) /\ call.driver = "drain" /\ call.result = "none"
  BY DEF IInv, Shaped, BetweenRuns
<1>2. m \in AtRest
  BY Rest
<1>3. /\ Continues(m, n) /\ n.state \in {"running", "completed"} /\ n.currentTime = m.currentTime
      /\ m.state = "completed" => n.state = "completed"
  BY <1>2, ResumedSteps
<1>4. Commit(b, n, bus)
  BY DEF StartRun
<1> HIDE DEF n
<1> DEFINE rounds == call.rounds + 1
<1>5. rounds \in Int
  BY <1>1 DEF CallRecords
<1>6. /\ call' \in CallRecords /\ Shaped(call') /\ call'.result # "drained"
      /\ Engaged(call') => call'.obj = b /\ Fits(call', n)
  <2>1. CASE m.state = "completed"
    <3>1. call' = [call EXCEPT !.rounds = rounds]
      BY <2>1 DEF StartRun
    <3> HIDE DEF rounds
    <3>2. /\ call' \in CallRecords /\ call'.phase = "next" /\ call'.driver = "drain"
          /\ call'.result = "none" /\ call'.atCurrentTime = call.atCurrentTime
      BY <1>1, <1>5, <3>1 DEF CallRecords
    <3> QED BY <1>1, <3>2 DEF Shaped, Engaged, BetweenRuns
  <2>2. CASE m.state # "completed"
    <3>1. call' = [call EXCEPT !.obj = b, !.phase = "round", !.rounds = rounds,
                               !.events = 0, !.doSteps = 0]
      BY <2>2 DEF StartRun
    <3>2. b \in Players
      BY ListsTyped DEF Players
    <3> HIDE DEF rounds
    <3> DEFINE c == [call EXCEPT !.obj = b, !.phase = "round", !.rounds = rounds]
    <3>4. /\ c \in CallRecords /\ c.phase = "round" /\ c.driver = "drain"
          /\ c.result = "none" /\ c.atCurrentTime = call.atCurrentTime /\ c.obj = b
      BY <1>1, <1>5, <3>2 DEF CallRecords
    <3> DEFINE zero == 0
    <3>5. call' = [c EXCEPT !.events = zero, !.doSteps = zero]
      BY <1>1, <3>1 DEF CallRecords
    <3>6. zero \in Int
      OBVIOUS
    <3> HIDE DEF c, zero
    <3>3. /\ call' \in CallRecords /\ call'.phase = "round" /\ call'.driver = "drain"
          /\ call'.result = "none" /\ call'.atCurrentTime = call.atCurrentTime /\ call'.obj = b
      BY <3>4, <3>5, <3>6 DEF CallRecords
    <3> QED BY <1>1, <1>3, <3>3 DEF Shaped, Fits, BetweenRuns
  <2> QED BY <2>1, <2>2
<1>7. n.state # "suspended"
  BY <1>3
<1>8. Listed(b) /\ WaitsForNothing(m, n)
  BY <1>3, StaysListed DEF WaitsForNothing
<1> QED BY <1>3, <1>4, <1>6, <1>7, <1>8, ListsTyped, CommitKeeps

\* A drain that finds no behavior to run leaves the parked ones nothing to do.
LEMMA DrainedSteps ==
    ASSUME IInv, NEW b \in ToSet(attached), machines[b].state = "suspended",
           First(attached, {x \in ToSet(attached) : Runnable(x)}) = None
    PROVE  /\ OutOfWork(b, machines[b], bus)
           /\ Solitary(b) => Quiescent(b, machines[b], bus)
<1> DEFINE m == machines[b]
           S == {x \in ToSet(attached) : Runnable(x)}
<1>2. ToSet(attached) \cap S = {}
  <2> HIDE DEF S
  <2>1. First(attached, S) = None
    BY DEF S
  <2> QED BY <2>1, ListsTyped, FirstFinds
<1>3. b \in DOMAIN cast.machines
  BY ListsTyped, ToSetTyped
<1>4. /\ m \in Machine /\ m.taken = <<>> /\ m.doActions = <<>>
      /\ Solitary(b) => Risen(m) = {}
  BY <1>3, Rest DEF IInv, ParkedAreSettled
<1>5. ~HasDueEvent(m, TRUE) /\ ~HasPendingSignal(b)
  BY <1>2 DEF Runnable
<1>6. \A j \in 1..Len(bus) : bus[j].to \in {Anyone, Self(b)} => ~AcceptsSignal(m, bus[j].signal)
  BY <1>5, AcceptableFound DEF Acceptable, HasPendingSignal
<1> HIDE DEF m
<1>7. OutOfWork(b, m, bus) /\ (Risen(m) = {} => Quiescent(b, m, bus))
  BY <1>4, <1>5, <1>6, ListsTyped, ParkedIsQuiescent
<1> QED BY <1>4, <1>7 DEF m

\* nextRunnableBehavior.
LEMMA NextBehaviorSteps ==
    ASSUME IInv, NextBehavior
    PROVE  StepKeeps
<1> DEFINE b == First(attached, {x \in ToSet(attached) : Runnable(x)})
<1>1. /\ call.phase = "next" /\ cast' = cast /\ attached' = attached /\ starting' = starting
      /\ session' = session
  BY DEF NextBehavior, InPhase
<1>2. /\ call.driver = "drain" /\ cast \in Casts /\ None \notin DOMAIN cast.machines
      /\ attached \in Seq(DOMAIN cast.machines) /\ pending \in Seq(DOMAIN cast.machines)
      /\ \A x \in ToSet(attached) \cup ToSet(pending) : machines[x].state # "ready"
  BY <1>1, CastAssumption DEF IInv, Shaped, BetweenRuns
<1>3. ASSUME Unmoved, pending' = pending, Return("budget") PROVE StepKeeps
  BY <1>1, <1>2, <1>3, ReturnFits, IdleKeeps
<1>4. ASSUME pending # <<>>, StartRun(Head(pending)), pending' = Tail(pending) PROVE StepKeeps
  <2>1. /\ Head(pending) \in ToSet(pending) /\ Head(pending) \in DOMAIN cast.machines
        /\ Tail(pending) \in Seq(DOMAIN cast.machines)
    BY <1>2, <1>4, HeadTyped, HeadTailProperties
  <2>2. ToSet(Tail(pending)) \subseteq ToSet(pending)
    <3>1. /\ DOMAIN pending = 1..Len(pending) /\ Len(pending) \in Nat
          /\ DOMAIN Tail(pending) = 1..Len(Tail(pending))
          /\ Len(Tail(pending)) = Len(pending) - 1
          /\ \A i \in 1..Len(Tail(pending)) : Tail(pending)[i] = pending[i + 1]
      BY <1>2, <1>4, <2>1, LenProperties, HeadTailProperties
    <3> QED BY <3>1 DEF ToSet
  <2> QED BY <1>1, <1>2, <1>4, <2>1, <2>2, StartRunSteps
<1>5. ASSUME b # None, StartRun(b), pending' = pending PROVE StepKeeps
  <2>1. b \in ToSet(attached)
    BY <1>2, <1>5, FirstFinds
  <2>2. b \in DOMAIN cast.machines /\ machines[b].state # "ready"
    BY <1>2, <2>1, ToSetTyped
  <2> HIDE DEF b
  <2> QED BY <1>1, <1>2, <1>5, <2>2, StartRunSteps
<1>6. ASSUME b = None, Unmoved, pending' = pending, call' = [NoCall EXCEPT !.result = "drained"]
      PROVE  StepKeeps
  <2>1. call' \in CallRecords /\ Shaped(call') /\ ~Engaged(call')
    BY <1>6, NoCallTyped
  <2>2. /\ machines' = machines /\ bus' = bus /\ taken' = <<>> /\ bus' \in Seq(Post)
        /\ Listed(None)
    BY <1>1, <1>6, ListsTyped, StaysListed DEF Unmoved
  <2>3. \A x \in ToSet(attached) : machines[x].state = "suspended" =>
            /\ OutOfWork(x, machines[x], bus')
            /\ Solitary(x) => Quiescent(x, machines[x], bus')
    BY <1>6, <2>2, DrainedSteps
  <2> QED BY <1>1, <2>1, <2>2, <2>3, UnmovedKeeps
<1>7. \/ Unmoved /\ pending' = pending /\ Return("budget")
      \/ pending # <<>> /\ StartRun(Head(pending)) /\ pending' = Tail(pending)
      \/ b # None /\ StartRun(b) /\ pending' = pending
      \/ b = None /\ Unmoved /\ pending' = pending /\ call' = [NoCall EXCEPT !.result = "drained"]
  BY DEF NextBehavior
<1> QED BY <1>3, <1>4, <1>5, <1>6, <1>7

---------------------------------------------------------------------------
(* The drain's beginning, and its end when a start fails.                  *)

\* startBehaviorsOf.
LEMMA StartBehaviorSteps ==
    ASSUME IInv, StartBehavior
    PROVE  StepKeeps
<1> DEFINE b == Head(starting)
           B == DOMAIN cast.machines
<1>1. /\ call.phase = "start" /\ cast' = cast /\ session' = session
      /\ call \in CallRecords /\ Shaped(call) /\ call.driver = "drain" /\ call.result = "none"
  BY DEF StartBehavior, IInv, Shaped, BetweenRuns
<1>2. CASE starting = <<>>
  <2> DEFINE phase == "next"
             c == [call EXCEPT !.phase = phase]
  <2>1. /\ Unmoved /\ attached' = attached /\ pending' = pending /\ starting' = starting
        /\ call' = c
    BY <1>2 DEF StartBehavior
  <2>2. phase \in BetweenRuns
    BY DEF BetweenRuns
  <2> HIDE DEF phase
  <2>3. /\ c \in CallRecords /\ c.phase = phase /\ c.driver = call.driver
        /\ c.result = call.result /\ c.atCurrentTime = call.atCurrentTime
    BY <1>1, <2>2 DEF CallRecords, BetweenRuns
  <2> HIDE DEF c
  <2>4. call' \in CallRecords /\ Shaped(call') /\ ~Engaged(call') /\ call'.result # "drained"
    BY <1>1, <2>1, <2>2, <2>3 DEF Shaped, Engaged, BetweenRuns
  <2> QED BY <1>1, <2>1, <2>4, IdleKeeps
<1>3. CASE starting # <<>>
  <2> DEFINE m == machines[b]
  <2>1. /\ starting' = Tail(starting) /\ call' = call
        /\ IF m.state # "ready" THEN Unmoved /\ attached' = attached /\ pending' = pending
           ELSE /\ Commit(b, Initialize(m), bus)
                /\ attached' = Append(attached, b) /\ pending' = Append(pending, b)
    BY <1>3 DEF StartBehavior
  <2>2. b \in B /\ starting' \in Seq(B)
    BY <1>3, <2>1, ListsTyped, HeadTyped
  <2>3. call' \in CallRecords /\ Shaped(call') /\ ~Engaged(call') /\ call'.result # "drained"
    BY <1>1, <2>1 DEF Engaged, BetweenRuns
  <2>4. \A x \in ToSet(attached) \cup ToSet(pending) : machines[x].state # "ready"
    BY DEF IInv
  <2> HIDE DEF b
  <2>5. CASE m.state # "ready"
    <3>1. /\ machines' = machines /\ bus' \in Seq(Post) /\ taken' = <<>>
          /\ attached' = attached /\ pending' = pending
      BY <2>1, <2>5, ListsTyped DEF Unmoved
    <3>2. Listed(None)
      BY <2>2, <2>4, <3>1, ListsTyped DEF Listed
    <3> QED BY <1>1, <2>3, <3>1, <3>2, UnmovedKeeps
  <2>6. CASE m.state = "ready"
    <3> DEFINE n == Initialize(m)
    <3>1. /\ Commit(b, n, bus)
          /\ attached' = Append(attached, b) /\ pending' = Append(pending, b)
      BY <2>1, <2>6
    <3>2. m \in Machine /\ m.deferred = <<>> /\ m.taken = <<>>
      BY <2>2, <2>6, Rest
    <3> HIDE DEF m
    <3>3. /\ n \in Machine /\ n.state \in {"running", "completed"}
          /\ n.currentTime = m.currentTime
          /\ n.taken = m.taken /\ PoolStays(m, n) /\ AllDeferred(n)
      BY <3>2, InitializeSteps
    <3> HIDE DEF n
    <3>4. Continues(m, n) /\ n.state # "suspended" /\ WaitsForNothing(m, n)
      BY <3>2, <3>3, NoneResolved DEF Continues, PoolMoves, WaitsForNothing
    <3>5. Listed(b)
      <4>1. ASSUME NEW seq \in Seq(B), \A x \in ToSet(seq) : machines[x].state # "ready"
            PROVE  /\ Append(seq, b) \in Seq(B)
                   /\ \A x \in ToSet(Append(seq, b)) : x = b \/ machines[x].state # "ready"
        <5>1. /\ Append(seq, b) \in Seq(B) /\ Len(Append(seq, b)) = Len(seq) + 1
              /\ \A i \in 1..Len(seq) : Append(seq, b)[i] = seq[i]
              /\ Append(seq, b)[Len(seq) + 1] = b
          BY <2>2, AppendProperties
        <5>2. /\ Len(seq) \in Nat /\ DOMAIN seq = 1..Len(seq)
              /\ DOMAIN Append(seq, b) = 1..(Len(seq) + 1)
          BY <5>1, LenProperties
        <5>3. ASSUME NEW i \in 1..(Len(seq) + 1)
              PROVE  Append(seq, b)[i] = b \/ machines[Append(seq, b)[i]].state # "ready"
          <6>1. i = Len(seq) + 1 \/ i \in 1..Len(seq)
            BY <5>2
          <6> QED BY <4>1, <5>1, <5>2, <6>1 DEF ToSet
        <5> QED BY <5>1, <5>2, <5>3 DEF ToSet
      <4> QED BY <2>2, <2>4, <3>1, <4>1, ListsTyped DEF Listed
    <3> QED BY <1>1, <2>2, <2>3, <2>6, <3>1, <3>4, <3>5, ListsTyped, CommitKeeps DEF m
  <2> QED BY <2>5, <2>6
<1> QED BY <1>2, <1>3

\* forgetBehaviorsFrom.
LEMMA ForgetSteps ==
    ASSUME IInv, ForgetBehaviors
    PROVE  StepKeeps
<1> DEFINE B == DOMAIN cast.machines
<1>1. /\ cast' = cast /\ machines' = machines /\ starting' = starting /\ session' = session
      /\ taken' = <<>> /\ call' = [NoCall EXCEPT !.result = "budget"]
      /\ \E at : attached' = KeepAt(attached, at)
      /\ \E S : pending' = Keep(pending, S)
      /\ \E S : bus' = Keep(bus, S)
  BY DEF ForgetBehaviors
<1>2. attached' \in Seq(B) /\ ToSet(attached') \subseteq ToSet(attached)
  <2>1. PICK at : attached' = KeepAt(attached, at)
    BY <1>1
  <2>2. PICK p : attached' \in Seq(B) /\ Selects(p, attached', attached, at, Len(attached))
    BY <2>1, ListsTyped, KeepAtSelects
  <2>3. DOMAIN attached' = 1..Len(attached') /\ DOMAIN attached = 1..Len(attached)
    BY <2>2, ListsTyped, LenProperties
  <2> QED BY <2>2, <2>3 DEF Selects, ToSet
<1>3. pending' \in Seq(B) /\ ToSet(pending') \subseteq ToSet(pending)
  BY <1>1, ListsTyped, KeepKeeps
<1>4. bus' \in Seq(Post)
  BY <1>1, ListsTyped, KeepKeeps
<1>5. Listed(None)
  BY <1>1, <1>2, <1>3, ListsTyped DEF IInv, Listed
<1>6. call' \in CallRecords /\ Shaped(call') /\ ~Engaged(call') /\ call'.result = "budget"
  BY <1>1, NoCallTyped
<1> QED BY <1>1, <1>4, <1>5, <1>6, UnmovedKeeps

---------------------------------------------------------------------------
(* What the environment asks for.                                          *)

\* Between calls nobody is engaged, and no drain is under way.
LEMMA IdleRests ==
    ASSUME IInv, CanCall
    PROVE  ~Engaged(call) /\ call.driver # "drain" /\ call.driver # "run"
BY DEF IInv, CanCall, Idle, Shaped, Engaged, BetweenRuns

\* No call is a call.
LEMMA NoCallRecord == NoCall \in CallRecords /\ NoCall.result = "none"
BY DEF NoCall, CallRecords

\* The call that has begun is at behavior b, whose machine has not been touched.
Begun(b) ==
    /\ call' \in CallRecords /\ call'.obj = b /\ call'.atCurrentTime = FALSE
    /\ call'.result = "none"
    /\ \/ call'.driver = "run" /\ call'.phase = "round"
       \/ call'.driver \in {"step", "advance"} /\ call'.phase = "driver"

\* A run or a step begins.
LEMMA Begins ==
    ASSUME NEW b \in Players,
           \/ call' = NewCall("run", b, "round", FALSE)
           \/ call' = NewCall("step", b, "driver", FALSE)
    PROVE  Begun(b)
<1>1. ASSUME NEW driver \in {"run", "step"}, NEW phase \in {"round", "driver"},
             driver = "run" <=> phase = "round",
             call' = NewCall(driver, b, phase, FALSE)
      PROVE  Begun(b)
  <2> DEFINE hold == FALSE
             c == [NoCall EXCEPT !.driver = driver, !.obj = b, !.phase = phase,
                                 !.atCurrentTime = hold]
  <2>1. b \in Players \cup {None} /\ hold \in BOOLEAN
    OBVIOUS
  <2>2. hold = FALSE /\ call' = c
    BY <1>1 DEF NewCall
  <2> HIDE DEF hold
  <2>3. /\ c \in CallRecords /\ c.driver = driver /\ c.obj = b /\ c.phase = phase
        /\ c.atCurrentTime = hold /\ c.result = "none"
    BY <2>1, NoCallRecord DEF CallRecords
  <2> HIDE DEF c
  <2> QED BY <1>1, <2>2, <2>3 DEF Begun
<1> QED BY <1>1

\* A call that begins fits a machine that runs.
LEMMA NewCallFits ==
    ASSUME NEW b, Begun(b), NEW n, n.state \in {"running", "completed"}
    PROVE  /\ call' \in CallRecords /\ Shaped(call') /\ call'.result # "drained"
           /\ Engaged(call') => call'.obj = b /\ Fits(call', n)
<1>1. Shaped(call')
  BY DEF Begun, Shaped, BetweenRuns
<1>2. Fits(call', n)
  BY DEF Begun, Fits
<1> QED BY <1>1, <1>2 DEF Begun

\* What the events of a behavior are called.
LEMMA NamesTyped ==
    ASSUME IInv, NEW b \in DOMAIN cast.machines, NEW kind
    PROVE  Names(b, kind) \subseteq Triggers
<1> DEFINE k == machines[b].of
           states == ToSet(Graph.States[k])
           own == UNION {ToSet(Graph.Transitions[s]) : s \in states}
<1>1. k \in Machines
  BY Rest, MachineHas
<1> HIDE DEF k
<1>2. states \subseteq StateSet
  BY <1>1, RegionOfTyped, ToSetTyped
<1> HIDE DEF states
<1>3. own \subseteq Transitions
  BY <1>2, TransitionsOf
<1> HIDE DEF own
<1>4. Names(b, kind) = {On(t).name : t \in {x \in own : On(x).kind = kind}}
  BY DEF Names, own, states, k
<1> QED BY <1>3, <1>4 DEF Triggers

\* SendSignal, InvokeOperation, and a message posted for the object.
LEMMA SendToSteps ==
    ASSUME IInv, NEW b \in DOMAIN cast.machines, SendTo(b)
    PROVE  StepKeeps
<1> DEFINE m == machines[b]
<1>1. /\ CanCall /\ m.state \in {"running", "suspended"} /\ call' = NoCall
      /\ cast' = cast /\ attached' = attached /\ pending' = pending /\ starting' = starting
      /\ session' = session
  BY DEF SendTo
<1>2. /\ m \in Machine /\ m \in AtRest /\ AllDeferred(m) /\ m.taken = <<>>
      /\ m.state = "suspended" => m.doActions = <<>>
      /\ m.state = "suspended" /\ Solitary(b) => Risen(m) = {}
  BY Rest DEF IInv, ParkedAreSettled
<1>3. ~Engaged(call) /\ call.driver # "drain"
  BY <1>1, IdleRests
<1>4. call' \in CallRecords /\ Shaped(call') /\ ~Engaged(call')
  BY <1>1 DEF NoCall, CallRecords, Shaped, Engaged, BetweenRuns
<1>0. Listed(b)
  BY <1>1, ListsTyped, StaysListed
<1> HIDE DEF m
<1>5. ASSUME NEW n, NEW mail \in Seq(Post), Commit(b, n, mail), Continues(m, n), n.state = m.state,
             m.state = "suspended" /\ Risen(m) = {} => Risen(n) = {}
      PROVE  StepKeeps
  <2>1. /\ n.state = "suspended" /\ Solitary(b) => Risen(n) = {}
        /\ machines[b].state = "running" => n.state # "suspended"
    BY <1>2, <1>5 DEF m
  <2>2. session' \in [DOMAIN cast.machines -> Int]
    BY <1>1, ListsTyped
  <2> QED BY <1>0, <1>1, <1>3, <1>4, <1>5, <2>1, <2>2, CommitKeeps DEF m
<1>6. ASSUME NEW kind \in {"signal", "call"}, NEW name \in Triggers,
             Commit(b, Push(m, kind, name, m.currentTime), bus)
      PROVE  StepKeeps
  <2> DEFINE n == Push(m, kind, name, m.currentTime)
  <2>1. /\ n \in Machine /\ PoolArrives(m, n)
        /\ AllDeferred(n) = AllDeferred(m) /\ Settled(n) = Settled(m)
        /\ n.state = m.state /\ n.taken = m.taken /\ n.doActions = m.doActions
    BY <1>2, ArriveSteps
  <2>2. Commit(b, n, bus)
    BY <1>6
  <2> HIDE DEF n
  <2>3. Continues(m, n)
    BY <1>1, <1>2, <2>1, NoneResolved DEF Continues, PoolMoves, m
  <2>4. m.state = "suspended" /\ Risen(m) = {} => Risen(n) = {}
    BY <1>2, <2>1 DEF Settled
  <2> QED BY <1>5, <2>1, <2>2, <2>3, <2>4, ListsTyped
<1>7. ASSUME NEW name \in Triggers, Commit(b, m, Append(bus, [signal |-> name, to |-> Self(b)]))
      PROVE  StepKeeps
  <2>1. Self(b) \in Addressees
    BY ListsTyped
  <2> DEFINE msg == [signal |-> name, to |-> Self(b)]
             mail == Append(bus, msg)
  <2>2. msg \in Post
    BY <2>1 DEF Post
  <2>4. Commit(b, m, mail)
    BY <1>7
  <2> HIDE DEF msg
  <2>3. mail \in Seq(Post)
    BY <2>2, ListsTyped, AppendProperties
  <2> HIDE DEF mail
  <2>5. Continues(m, m)
    BY <1>1, <1>2, PoolStaysPut, NoneResolved DEF Continues, PoolMoves, m
  <2> QED BY <1>5, <2>3, <2>4, <2>5
<1>8. \/ \E name \in Names(b, "signal") : Commit(b, Push(m, "signal", name, m.currentTime), bus)
      \/ \E name \in Names(b, "call") : Commit(b, Push(m, "call", name, m.currentTime), bus)
      \/ \E name \in Names(b, "signal") :
            Commit(b, m, Append(bus, [signal |-> name, to |-> Self(b)]))
  BY DEF SendTo, EnqueueSignal, InvokeOperation, m
<1> QED BY <1>6, <1>7, <1>8, NamesTyped

\* A machine a call is made for goes on from where it stands.
LEMMA CalledSteps ==
    ASSUME IInv, NEW b \in DOMAIN cast.machines, CanCall, NEW n, Commit(b, n, bus),
           n = Resumed(machines[b]) \/ n = machines[b], n.state = "running",
           machines[b].state # "ready",
           Begun(b), cast' = cast, attached' = attached, pending' = pending, starting' = starting,
           session' = session
    PROVE  StepKeeps
<1> DEFINE m == machines[b]
<1>1. m \in AtRest /\ m \in Machine /\ AllDeferred(m) /\ m.taken = <<>> /\ m.state # "ready"
  BY Rest
<1> HIDE DEF m
<1>2. Continues(m, n)
  <2>1. CASE n = Resumed(m)
    <3> DEFINE k == Resumed(m)
    <3>1. Continues(m, k)
      BY <1>1, ResumedSteps
    <3> HIDE DEF k
    <3> QED BY <2>1, <3>1 DEF k
  <2>2. CASE n = m
    BY <1>1, <2>2, StandsStill
  <2> QED BY <2>1, <2>2 DEF m
<1>3. /\ call' \in CallRecords /\ Shaped(call') /\ call'.result # "drained"
      /\ Engaged(call') => call'.obj = b /\ Fits(call', n)
  <2>1. n.state \in {"running", "completed"}
    OBVIOUS
  <2> QED BY <2>1, NewCallFits
<1>4. call.driver # "drain" /\ Listed(b) /\ n.state # "suspended"
  BY IdleRests, ListsTyped, StaysListed
<1> QED BY <1>2, <1>3, <1>4, ListsTyped, CommitKeeps DEF m

\* RunToCompletion.
LEMMA RunToCompletionSteps ==
    ASSUME IInv, NEW b \in DOMAIN cast.machines, RunToCompletion(b)
    PROVE  StepKeeps
<1> DEFINE m == machines[b]
           n == Resumed(m)
<1>1. /\ CanCall /\ m.state \in {"running", "suspended"} /\ Commit(b, n, bus)
      /\ call' = NewCall("run", b, "round", FALSE)
      /\ cast' = cast /\ attached' = attached /\ pending' = pending /\ starting' = starting
      /\ session' = session
  BY DEF RunToCompletion
<1>2. m \in MachineRecords
  BY Rest, MachineHas
<1>3. n.state = "running"
  BY <1>1, <1>2 DEF Resumed, MachineRecords
<1>4. b \in Players
  BY ListsTyped DEF Players
<1>5. Begun(b)
  BY <1>1, <1>4, Begins
<1> HIDE DEF n
<1>6. n = Resumed(machines[b]) /\ machines[b].state # "ready"
  BY <1>1 DEF n
<1> HIDE DEF m
<1> QED BY <1>1, <1>3, <1>5, <1>6, CalledSteps

\* stepState.
LEMMA StepStateSteps ==
    ASSUME IInv, NEW b \in DOMAIN cast.machines, StepState(b)
    PROVE  StepKeeps
<1> DEFINE m == machines[b]
           n == IF HasPendingWork(b) \/ Watched(m) # {} THEN Resumed(m) ELSE m
<1>1. /\ CanCall /\ n.state = "running" /\ Commit(b, n, bus)
      /\ call' = NewCall("step", b, "driver", FALSE)
      /\ cast' = cast /\ attached' = attached /\ pending' = pending /\ starting' = starting
      /\ session' = session
  BY DEF StepState
<1>2. n = Resumed(machines[b]) \/ n = machines[b]
  OBVIOUS
<1> HIDE DEF n
<1>3. machines[b].state # "ready"
  <2>1. CASE n = machines[b]
    BY <1>1, <2>1
  <2>2. CASE n = Resumed(machines[b])
    BY <1>1, <2>2 DEF Resumed
  <2> QED BY <1>2, <2>1, <2>2
<1>4. b \in Players
  BY ListsTyped DEF Players
<1>5. Begun(b)
  BY <1>1, <1>4, Begins
<1> QED BY <1>1, <1>2, <1>3, <1>5, CalledSteps

\* advanceBy.
LEMMA AdvanceBySteps ==
    ASSUME IInv, NEW b \in DOMAIN cast.machines, NEW d \in Delays, AdvanceBy(b, d)
    PROVE  StepKeeps
<1> DEFINE n == Resumed(machines[b])
           deadline == session[b] + d
<1>1. /\ CanCall /\ n.state = "running" /\ Commit(b, n, bus)
      /\ call' = [NewCall("advance", b, "driver", FALSE) EXCEPT !.deadline = deadline]
      /\ cast' = cast /\ attached' = attached /\ pending' = pending /\ starting' = starting
      /\ session' = session
  BY DEF AdvanceBy
<1>2. deadline \in Int
  BY ListsTyped, CastAssumption
<1>3. machines[b].state # "ready"
  BY <1>1 DEF Resumed
<1>4. n = Resumed(machines[b])
  OBVIOUS
<1> HIDE DEF n, deadline
<1> DEFINE hold == FALSE
           driver == "advance"
           phase == "driver"
           c == [NoCall EXCEPT !.driver = driver, !.obj = b, !.phase = phase,
                               !.atCurrentTime = hold]
<1>8. c = NewCall(driver, b, phase, hold)
  BY DEF NewCall
<1>5. /\ b \in Players \cup {None}
      /\ hold \in BOOLEAN /\ hold = FALSE
      /\ driver \in {"drain", "run", "step", "advance"} /\ driver = "advance"
      /\ phase \in {"next", "round", "driver"} /\ phase = "driver"
  BY ListsTyped DEF Players
<1>7. call' = [c EXCEPT !.deadline = deadline]
  BY <1>1, <1>8
<1> HIDE DEF hold, driver, phase
<1>9. /\ c \in CallRecords /\ c.driver = driver /\ c.obj = b /\ c.phase = phase
      /\ c.atCurrentTime = hold /\ c.result = "none"
  BY <1>5, NoCallRecord DEF CallRecords
<1> HIDE DEF c
<1>6. Begun(b)
  BY <1>2, <1>5, <1>7, <1>9 DEF Begun, CallRecords
<1> QED BY <1>1, <1>3, <1>4, <1>6, CalledSteps

\* The behaviors of the objects materialized together, in order.
LEMMA StartingTyped ==
    ASSUME IInv, NEW objects \in Orders
    PROVE  Flatten([i \in DOMAIN objects |-> cast.exhibits[objects[i]]])
               \in Seq(DOMAIN cast.machines)
<1> DEFINE seqs == [i \in DOMAIN objects |-> cast.exhibits[objects[i]]]
<1>1. PICK n \in 1..Cardinality(DOMAIN cast.exhibits) : objects \in [1..n -> DOMAIN cast.exhibits]
  BY DEF Orders
<1>2. n \in Nat /\ DOMAIN seqs = 1..n
  BY <1>1
<1>3. Len(seqs) = n
  BY <1>2
<1>4. \A i \in 1..n : seqs[i] \in Seq(DOMAIN cast.machines)
  BY <1>1, ListsTyped, CastAssumption
<1> HIDE DEF seqs
<1>5. Flatten(seqs) \in Seq(DOMAIN cast.machines)
  BY <1>2, <1>3, <1>4, FlattenTyped
<1> QED BY <1>5 DEF seqs

\* startClassifierBehaviorsOf, which starts nothing by itself.
LEMMA MaterializeSteps ==
    ASSUME IInv, NEW objects \in Orders, Materialize(objects)
    PROVE  StepKeeps
<1> DEFINE kept == Len(attached)
<1>1. /\ CanCall /\ Unmoved
      /\ starting' = Flatten([i \in DOMAIN objects |-> cast.exhibits[objects[i]]])
      /\ call' = [NewCall("drain", None, "start", TRUE) EXCEPT !.kept = kept]
      /\ cast' = cast /\ attached' = attached /\ pending' = pending /\ session' = session
  BY DEF Materialize
<1>2. kept \in Nat
  BY ListsTyped, LenProperties
<1> HIDE DEF kept
<1>3. machines' = machines /\ bus' \in Seq(Post) /\ taken' = <<>>
  BY <1>1, ListsTyped DEF Unmoved
<1>4. Listed(None)
  BY <1>1, ListsTyped, StartingTyped DEF IInv, Listed
<1>5. call' \in CallRecords /\ Shaped(call') /\ ~Engaged(call') /\ call'.result # "drained"
  <2> DEFINE driver == "drain"
             phase == "start"
             hold == TRUE
             c == [NoCall EXCEPT !.driver = driver, !.obj = None, !.phase = phase,
                                 !.atCurrentTime = hold]
  <2>1. /\ driver \in {"drain", "run", "step", "advance"} /\ driver = "drain"
        /\ phase \in {"none", "start"} /\ phase = "start"
        /\ hold \in BOOLEAN /\ hold = TRUE
    OBVIOUS
  <2>2. call' = [c EXCEPT !.kept = kept]
    BY <1>1 DEF NewCall
  <2> HIDE DEF driver, phase, hold
  <2>3. /\ c \in CallRecords /\ c.driver = driver /\ c.phase = phase
        /\ c.atCurrentTime = hold /\ c.result = "none"
    BY <2>1, NoCallRecord DEF CallRecords
  <2> HIDE DEF c
  <2>4. /\ call' \in CallRecords /\ call'.driver = driver /\ call'.phase = phase
        /\ call'.atCurrentTime = hold /\ call'.result = "none"
    BY <1>2, <2>2, <2>3 DEF CallRecords
  <2> QED BY <2>1, <2>4 DEF Shaped, Engaged, BetweenRuns
<1> QED BY <1>1, <1>3, <1>4, <1>5, UnmovedKeeps

---------------------------------------------------------------------------
(* Every step, and the beginning.                                          *)

\* Whatever the environment asks for.
LEMMA RequestSteps ==
    ASSUME IInv, Request
    PROVE  StepKeeps
<1>1. Executions = DOMAIN cast.machines
  BY Rest
<1>2. CASE \E order \in Orders : Materialize(order)
  BY <1>2, MaterializeSteps
<1>3. CASE \E b \in Executions : SendTo(b) \/ RunToCompletion(b) \/ StepState(b)
  BY <1>1, <1>3, SendToSteps, RunToCompletionSteps, StepStateSteps
<1>4. CASE \E b \in Executions : \E d \in Delays : AdvanceBy(b, d)
  BY <1>1, <1>4, AdvanceBySteps
<1> QED BY <1>2, <1>3, <1>4 DEF Request

\* Every step.
LEMMA NextSteps ==
    ASSUME IInv, Next
    PROVE  StepKeeps
<1>1. CASE Progress
  BY <1>1, StartBehaviorSteps, ForgetSteps, NextBehaviorSteps, DoRoundSteps, PollPhaseSteps, DeliverSteps,
     ProcessNextEventSteps, DriverSteps DEF Progress
<1>2. CASE Request
  BY <1>2, RequestSteps
<1> QED BY <1>1, <1>2 DEF Next

\* EventPool numbers the events of a machine as its own pool does.
LEMMA PoolIsPool ==
    ASSUME NEW m
    PROVE  PoolIDs(m.eventQueue) = QueuedIDs(m) /\ PoolIDs(ToSet(m.deferred)) = HeldIDs(m)
BY DEF PoolIDs, QueuedIDs, HeldIDs, PoolOf

\* The beginning.
LEMMA InitSteps ==
    ASSUME Init
    PROVE  IInv /\ \A b \in Executions : Pool(b)!Init
<1> DEFINE O == DOMAIN cast.machines
<1>1. /\ cast \in Casts
      /\ machines = [b \in O |-> NewMachine(cast.machines[b], cast.data)]
      /\ bus = <<>> /\ attached = <<>> /\ pending = <<>> /\ starting = <<>> /\ taken = <<>>
      /\ session = [b \in O |-> 0] /\ call = NoCall
  BY DEF Init
<1>2. cast.data \in [Vars -> BOOLEAN] /\ \A b \in O : cast.machines[b] \in Machines
  BY <1>1, CastAssumption
<1>3. ASSUME NEW b \in O
      PROVE  machines[b] \in AtRest /\ machines[b].state = "ready" /\ Pool(b)!Init
  <2> DEFINE k == cast.machines[b]
             data == cast.data
             m == NewMachine(k, data)
  <2>1. machines[b] = m /\ k \in Machines /\ data \in [Vars -> BOOLEAN]
    BY <1>1, <1>2
  <2> HIDE DEF k, data
  <2>2. /\ m \in Machine /\ m.state = "ready" /\ m.deferred = <<>>
        /\ m.out = <<>> /\ m.taken = <<>> /\ m.exited = {} /\ m.nextEventID = 1
        /\ QueuedIDs(m) = {} /\ HeldIDs(m) = {} /\ AllDeferred(m)
    BY <2>1, NewMachineSteps
  <2> HIDE DEF m
  <2>3. m \in AtRest
    BY <2>2 DEF AtRest
  <2>4. PoolIDs(m.eventQueue) = {} /\ PoolIDs(ToSet(m.deferred)) = {}
    BY <2>2, PoolIsPool
  <2> QED BY <2>1, <2>2, <2>3, <2>4 DEF Pool!Init
<1>4. machines \in [O -> AtRest] /\ Executions = O
  <2>1. machines = [b \in O |-> machines[b]]
    BY <1>1
  <2> QED BY <1>3, <2>1 DEF Executions
<1>5. /\ bus \in Seq(Post) /\ attached \in Seq(O) /\ pending \in Seq(O) /\ starting \in Seq(O)
      /\ ToSet(attached) = {} /\ ToSet(pending) = {}
  BY <1>1, EmptySeq DEF ToSet
<1>6. session \in [O -> Int]
  BY <1>1
<1>7. call \in CallRecords /\ Shaped(call) /\ ~Engaged(call)
  BY <1>1 DEF NoCall, CallRecords, Shaped, Engaged, BetweenRuns
<1>8. ParkedAreSettled
  BY <1>3 DEF ParkedAreSettled
<1>9. IInv
  BY <1>1, <1>4, <1>5, <1>6, <1>7, <1>8, NoneResolved DEF IInv
<1> QED BY <1>3, <1>4, <1>9

\* A step that changes nothing.
LEMMA StutterSteps ==
    ASSUME IInv, UNCHANGED vars
    PROVE  IInv'
<1>1. ParkedAreSettled'
  <2>1. \A b : Solitary(b)' <=> Solitary(b)
    BY DEF vars, Solitary, Self, Executions
  <2> QED BY <2>1 DEF IInv, vars, ParkedAreSettled
<1> QED BY <1>1 DEF IInv, vars

---------------------------------------------------------------------------
(* What every behavior has.                                                *)

\* IInv holds in every state: machines stay well formed and at rest between
\* steps, a call in progress fits the machine it is at, and one that is parked has
\* no do behavior running and, if it is its object's only machine, no change
\* condition to act on, whichever order calls, sends and steps come in.
THEOREM MachinesStayFine == Spec => []IInv
<1>1. Init => IInv
  BY InitSteps
<1>2. IInv /\ [Next]_vars => IInv'
  BY NextSteps, StutterSteps DEF StepKeeps
<1> QED BY <1>1, <1>2, PTL DEF Spec

\* Only a timer whose duration is negative is ever queued for a time that has
\* passed (scheduleTimeTransitions, recallDeferredEvents): dispatching any other
\* event never moves the clock backwards.
THEOREM PastEventsAreTimers == Spec => []PastEventsAreNegativeTimers
<1>1. IInv => PastEventsAreNegativeTimers
  <2> SUFFICES ASSUME IInv PROVE PastEventsAreNegativeTimers
    OBVIOUS
  <2>1. \A b \in Executions : machines[b] \in Machine
    BY Rest
  <2>2. \A m \in Machine : \A e \in m.eventQueue : e.time < m.currentTime => RunsBack(e)
    BY MachineHas, EventsHave DEF Machine, Sound, Timely
  <2> QED BY <2>1, <2>2 DEF PastEventsAreNegativeTimers
<1> QED BY <1>1, MachinesStayFine, PTL

\* An event is held back only while an active state defers it, whatever the
\* configuration goes through (recallDeferredEvents).
THEOREM HeldEventsAreDeferred == Spec => []HeldEventsStillDeferred
<1>1. IInv => HeldEventsStillDeferred
  <2> SUFFICES ASSUME IInv PROVE HeldEventsStillDeferred
    OBVIOUS
  <2>1. \A b \in Executions : machines[b] \in Machine /\ AllDeferred(machines[b])
    BY Rest
  <2>2. \A m \in Machine : DOMAIN m.deferred = 1..Len(m.deferred)
    BY MachineHas
  <2> QED BY <2>1, <2>2 DEF HeldEventsStillDeferred, AllDeferred, ToSet
<1> QED BY <1>1, MachinesStayFine, PTL

\* Of the transitions one step takes no two leave states one of which contains
\* the other (losesToNestedTransition).
THEOREM ConflictsStayResolved == Spec => []ConflictsAreResolved
<1>1. IInv => ConflictsAreResolved
  BY DEF IInv, Resolved, Apart, ConflictsAreResolved
<1> QED BY <1>1, MachinesStayFine, PTL

\* What a step does to the events of a machine that waits at the present time is a
\* step of EventPool.
LEMMA PoolSteps ==
    ASSUME IInv, IInv', PoolsMove, NEW b \in Executions, b \in DOMAIN cast'.machines,
           WaitingNow(machines[b])
    PROVE  Pool(b)!Next
<1> DEFINE m == machines[b]
           n == machines'[b]
<1>1. m \in Machine /\ PoolMoves(m, n) /\ WaitingNow(m)
  BY Rest DEF PoolsMove
<1>2. n \in Machine
  <2>1. machines' \in [DOMAIN cast'.machines -> AtRest]
    BY DEF IInv
  <2> QED BY <2>1 DEF AtRest
<1>3. m.nextEventID \in Nat /\ n.nextEventID \in Nat
  BY <1>1, <1>2, MachineHas
<1>4. /\ PoolIDs(machines[b].eventQueue) = QueuedIDs(m)
      /\ PoolIDs(ToSet(machines[b].deferred)) = HeldIDs(m)
      /\ PoolIDs(machines'[b].eventQueue) = QueuedIDs(n)
      /\ PoolIDs(ToSet(machines'[b].deferred)) = HeldIDs(n)
  BY PoolIsPool
<1>5. machines[b].nextEventID = m.nextEventID /\ machines'[b].nextEventID = n.nextEventID
  OBVIOUS
<1> HIDE DEF m, n
<1>6. CASE PoolArrives(m, n)
  <2>1. Pool(b)!Arrive
    BY <1>4, <1>5, <1>6 DEF PoolArrives, Pool!Arrive
  <2> QED BY <2>1 DEF Pool!Next
<1>7. CASE PoolStays(m, n)
  <2>1. Pool(b)!Internal
    BY <1>3, <1>4, <1>5, <1>7 DEF PoolStays, PoolRecalls, Pool!Internal, Pool!Recall
  <2> QED BY <2>1 DEF Pool!Next
<1>8. CASE PoolDispatches(m, n)
  <2>1. PICK e \in QueuedIDs(m) :
           /\ \A f \in QueuedIDs(m) : e <= f
           /\ \E kept \in {HeldIDs(m), HeldIDs(m) \cup {e}} :
                  PoolRecalls(m, n, kept, QueuedIDs(m) \ {e})
    BY <1>8 DEF PoolDispatches
  <2>2. Pool(b)!Dispatch(e)
    BY <1>3, <1>4, <1>5, <2>1 DEF PoolRecalls, Pool!Dispatch, Pool!Recall
  <2>3. e \in PoolIDs(machines[b].eventQueue)
    BY <1>4
  <2> QED BY <2>2, <2>3 DEF Pool!Next
<1> QED BY <1>1, <1>6, <1>7, <1>8 DEF PoolMoves

\* No step changes the cast, and a step of a machine whose waiting events are of the
\* present is one of its pool.
LEMMA PoolNext ==
    ASSUME IInv, IInv', Next, NEW b \in Executions, WaitingNow(machines[b])
    PROVE  Pool(b)!Next
<1>1. PoolsMove
  BY NextSteps DEF StepKeeps
<1>2. Executions = DOMAIN cast.machines
  BY Rest
<1>3. cast' = cast
  BY DEF Next, Progress, Request, StartBehavior, ForgetBehaviors, NextBehavior, DoRound, Poll,
     Deliver, ProcessNextEvent, Driver, InPhase, Materialize, SendTo, RunToCompletion,
     StepState, AdvanceBy
<1> QED BY <1>1, <1>2, <1>3, PoolSteps

\* While every event that waits is one of the present, the events sent to a machine
\* are dispatched in the order they arrived in, through deferral and recall, and
\* none disappears otherwise: the machine takes steps of EventPool (enqueueEvent,
\* processNextEvent), whatever durations its timers and those of others have.
THEOREM PoolsKeepOrderOfThePresent ==
    Spec => [][\A b \in Executions :
                  WaitingNow(machines[b]) => [Pool(b)!Next]_(Pool(b)!poolVars)]_vars
<1>1. IInv /\ IInv' /\ [Next]_vars
        => [\A b \in Executions :
               WaitingNow(machines[b]) => [Pool(b)!Next]_(Pool(b)!poolVars)]_vars
  BY PoolNext
<1> QED BY <1>1, MachinesStayFine, PTL DEF Spec

\* Where no duration is negative every event that waits is one of the present, so
\* that every machine implements EventPool.
THEOREM PoolsKeepArrivalOrder == NothingRecedes => (Spec => KeepsArrivalOrder)
<1> SUFFICES ASSUME NothingRecedes PROVE Spec => KeepsArrivalOrder
  OBVIOUS
<1>1. Init => IInv /\ \A b \in Executions : Pool(b)!Init
  BY InitSteps
<1>2. IInv => \A b \in Executions : WaitingNow(machines[b])
  <2>1. IInv => \A b \in Executions : machines[b] \in Machine
    BY Rest
  <2> QED BY <2>1 DEF Machine, Sound, Timely, WaitingNow
<1>3. IInv /\ IInv' /\ [Next]_vars
        => [\A b \in Executions :
               (HasNegativeTimer(machines[b]) => WaitingNow(machines[b]))
               => [Pool(b)!Next]_(Pool(b)!poolVars)]_vars
  BY <1>2, PoolNext
<1> QED BY <1>1, <1>3, MachinesStayFine, PTL DEF Spec, KeepsArrivalOrder

\* A machine that a run or the debugger parks has nothing left to do, and a run
\* to completion leaves it no event (hasDueEvent, deliverPendingSignal).
THEOREM MachinesParkQuiescent == Spec => ParkedMachinesAreQuiescent
<1>1. IInv /\ [Next]_vars => [ParksQuiescent]_vars
  BY NextSteps DEF StepKeeps
<1> QED BY <1>1, MachinesStayFine, PTL DEF Spec, ParkedMachinesAreQuiescent, ParksQuiescent

\* A drain waits for no timer: no clock moves but back to a negative timer.  When it
\* ends well none of its machines has an event, a message or a do behavior left, nor
\* a change condition that another machine of its object cannot have made true
\* (drainObjectBehaviors, nextRunnableBehavior).
THEOREM DrainsSettle == Spec => DrainSettlesWithoutWaiting
<1>1. IInv /\ [Next]_vars => [SettlesWithoutWaiting]_vars
  BY NextSteps DEF StepKeeps
<1> QED BY <1>1, MachinesStayFine, PTL
        DEF Spec, DrainSettlesWithoutWaiting, SettlesWithoutWaiting, WaitsForNothing
=============================================================================
