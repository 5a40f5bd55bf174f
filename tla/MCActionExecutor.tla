--------------------------- MODULE MCActionExecutor ---------------------------
(***************************************************************************)
(* Small action graphs for the executor.  A node's name says its kind; a   *)
(* graph is a set of successions among them, and its variants break one    *)
(* thing at one node: a body or a guard that reports an error, a guard     *)
(* that does not hold, a missing or an extra succession, a failing flow.   *)
(***************************************************************************)
EXTENDS ActionExecutor

MCNodes == {"start", "split", "a", "b", "c", "sync", "meet", "pick",
            "recv", "poll", "timer", "end"}

KindOf(n) ==
  CASE n = "start" -> "initial" [] n = "split" -> "fork"
    [] n = "sync" -> "join"     [] n = "meet" -> "merge"
    [] n = "pick" -> "decision" [] n = "recv" -> "accept"
    [] n = "poll" -> "when"     [] n = "timer" -> "after"
    [] n = "end" -> "final"     [] OTHER -> "action"

MCMessages == {"sig", "other"}
MCData == 0..2

Const(v) == [d \in MCData |-> v]
Same == [d \in MCData |-> d]
Bump == [d \in MCData |-> IF d < 2 THEN d + 1 ELSE 2]
AtMost(k) == [d \in MCData |-> IF d <= k THEN "holds" ELSE "fails"]

(* The graph with successions e, every body and flow neutral. *)
Flow(e) ==
  [initial |-> "start",
   kind |-> [n \in MCNodes |-> KindOf(n)],
   edges |-> [n \in MCNodes |-> IF n \in DOMAIN e THEN e[n] ELSE <<>>],
   guards |-> [n \in MCNodes |-> <<>>],
   body |-> [n \in MCNodes |-> Same],
   flow |-> [n \in MCNodes |-> Same],
   sends |-> [n \in MCNodes |-> <<>>],
   accepts |-> [n \in MCNodes |-> IF n = "recv" THEN {"sig"} ELSE {}],
   binds |-> [n \in MCNodes |-> [m \in MCMessages |-> Same]],
   condition |-> [n \in MCNodes |-> AtMost(0)],
   defaults |-> MCData]

Guarded(g, n, m, verdicts) ==
  [g EXCEPT !.guards[n] = @ @@ (m :> verdicts)]

(* start -> split -> {a, b} -> sync -> end, with a third branch c beside. *)
ForkJoin ==
  Flow("start" :> <<"split">> @@ "split" :> <<"a", "b", "c">> @@
       "a" :> <<"sync">> @@ "b" :> <<"sync">> @@ "sync" :> <<"c">>)

(* One branch into the join is guarded away when the data has grown. *)
ForkPruned ==
  Guarded(Flow("start" :> <<"split">> @@ "split" :> <<"a", "b">> @@
               "a" :> <<"sync">> @@ "b" :> <<"sync">> @@ "sync" :> <<"end">>),
          "split", "a", AtMost(0))

(* a is repeated until its assignments make the guard fail. *)
Loop ==
  LET g == Guarded(Flow("start" :> <<"a">> @@ "a" :> <<"pick">> @@
                        "pick" :> <<"a", "end">>), "pick", "a", AtMost(1))
  IN [g EXCEPT !.body["a"] = Bump]

(* A loop no assignment ends, which the budget has to. *)
Endless ==
  Flow("start" :> <<"a">> @@ "a" :> <<"b">> @@ "b" :> <<"a">>)

(* a succeeds itself until its assignments make the guard fail. *)
SelfLoop ==
  LET g == Guarded(Guarded(Flow("start" :> <<"a">> @@ "a" :> <<"a", "end">>),
                           "a", "a", AtMost(1)),
                   "a", "end", [d \in MCData |-> IF d = 2 THEN "holds" ELSE "fails"])
  IN [g EXCEPT !.body["a"] = Bump]

(* split and spread, forks both, keep handing a and spread a token each: the *)
(* tokens that leave a node are replaced, at the same indices, by new ones.  *)
ForkLoop ==
  [Flow("start" :> <<"split">> @@ "split" :> <<"meet", "a">> @@
        "a" :> <<"meet">> @@ "meet" :> <<"a">>) EXCEPT !.kind["meet"] = "fork"]

(* Two branches meet at a merge; the winner leaves towards c. *)
MergeRace ==
  Flow("start" :> <<"split">> @@ "split" :> <<"a", "meet">> @@
       "a" :> <<"meet">> @@ "meet" :> <<"c">> @@ "c" :> <<"end">>)

(* The loop body comes back to a merge it has already traversed. *)
MergeLoop ==
  LET g == Guarded(Flow("start" :> <<"meet">> @@ "meet" :> <<"a">> @@
                        "a" :> <<"pick">> @@ "pick" :> <<"meet", "end">>),
                   "pick", "meet", AtMost(1))
  IN [g EXCEPT !.body["a"] = Bump]

(* One branch waits for what the other, stepped after it, sends. *)
SendAccept ==
  LET g == Flow("start" :> <<"split">> @@ "split" :> <<"a", "recv">> @@
                "recv" :> <<"sync">> @@ "a" :> <<"sync">> @@
                "sync" :> <<"end">>)
  IN [g EXCEPT !.sends["a"] = <<"other", "sig">>]

(* An accept loops for as long as messages come. *)
AcceptLoop ==
  LET g == Flow("start" :> <<"recv">> @@ "recv" :> <<"c">> @@ "c" :> <<"recv">>)
  IN [g EXCEPT !.binds["recv"]["sig"] = Bump]

(* One branch polls a condition the other, stepped after it, makes hold. *)
PollCondition ==
  LET g == Flow("start" :> <<"split">> @@ "split" :> <<"b", "poll">> @@
                "poll" :> <<"end">> @@ "b" :> <<"end">>)
  IN [g EXCEPT !.body["b"] = Bump, !.condition["poll"] =
        [d \in MCData |-> IF d = 1 THEN "holds" ELSE "fails"]]

NoInitial == [Flow("a" :> <<"end">>) EXCEPT !.initial = None]
Timed == Flow("start" :> <<"timer">>)

Base(b) ==
  CASE b = "forkJoin" -> ForkJoin     [] b = "forkPruned" -> ForkPruned
    [] b = "loop" -> Loop             [] b = "endless" -> Endless
    [] b = "mergeRace" -> MergeRace   [] b = "mergeLoop" -> MergeLoop
    [] b = "sendAccept" -> SendAccept [] b = "acceptLoop" -> AcceptLoop
    [] b = "poll" -> PollCondition    [] b = "noInitial" -> NoInitial
    [] b = "timed" -> Timed            [] b = "selfLoop" -> SelfLoop
    [] b = "forkLoop" -> ForkLoop

Faults == {"body", "flow", "condition", "binding", "noSuccession",
           "extraSuccession", "guardFails", "guardsFail", "guardError",
           "defaults"}

FirstGuarded(g, n, v) ==
  IF g.edges[n] = <<>> THEN g
  ELSE Guarded([g EXCEPT !.guards[n] = <<>>], n, g.edges[n][1], Const(v))

AllGuarded(g, n, v) ==
  [g EXCEPT !.guards[n] =
     [m \in {g.edges[n][i] : i \in DOMAIN g.edges[n]} |-> Const(v)]]

(* g with one thing broken at node n. *)
Broken(g, n, fault) ==
  CASE fault = "body" -> [g EXCEPT !.body[n] = Const(Fails)]
    [] fault = "flow" -> [g EXCEPT !.flow[n] = Const(Fails)]
    [] fault = "condition" -> [g EXCEPT !.condition[n] = Const("error")]
    [] fault = "binding" -> [g EXCEPT !.binds[n] = [m \in MCMessages |-> Const(Fails)]]
    [] fault = "noSuccession" -> [g EXCEPT !.edges[n] = <<>>]
    [] fault = "extraSuccession" -> [g EXCEPT !.edges[n] = Append(@, "end")]
    [] fault = "guardFails" -> FirstGuarded(g, n, "fails")
    [] fault = "guardsFail" -> AllGuarded(g, n, "fails")
    [] fault = "guardError" -> FirstGuarded(g, n, "error")
    [] fault = "defaults" -> [g EXCEPT !.defaults = {}]
    [] OTHER -> g

MCActions(bases) ==
  [base : bases, at : {"start"}, fault : {"none"}]
  \cup [base : bases, at : MCNodes, fault : Faults]

MCLowered ==
  [x \in MCActions({"forkJoin", "forkPruned", "loop", "endless", "mergeRace",
                    "mergeLoop", "sendAccept", "acceptLoop", "poll",
                    "noInitial", "timed", "selfLoop", "forkLoop"}) |->
     Broken(Base(x.base), x.at, x.fault)]

(* Where each graph is broken: together these reach every error return. *)
FaultyNodes(b) ==
  CASE b = "forkPruned" -> {"start", "split", "a", "sync"}
    [] b = "mergeRace" -> {"meet", "c"}
    [] b = "loop" -> {"pick"}
    [] b = "sendAccept" -> {"recv"}
    [] b = "poll" -> {"poll"}
    [] OTHER -> {}

RunActions ==
  {x \in DOMAIN MCLowered :
     /\ x.base \notin {"selfLoop", "forkLoop"}
     /\ x.fault = "none" \/ x.at \in FaultyNodes(x.base)}

Intact(bases) == [base : bases, at : {"start"}, fault : {"none"}]

(* Graphs a run can be stopped in without a join firing in the meantime. *)
BreakActions == Intact({"loop", "mergeRace", "mergeLoop", "acceptLoop"})
MergeActions == Intact({"mergeLoop"})
JoinActions == Intact({"forkPruned"})
SelfLoopActions == Intact({"selfLoop"})
ForkLoopActions == Intact({"forkLoop"})
=============================================================================
