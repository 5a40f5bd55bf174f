---------------------------- MODULE ActionExecutor ----------------------------
(***************************************************************************)
(* The token-flow executor of an action body                               *)
(* (src/internal/core/runtime/action_executor.go).                         *)
(*                                                                         *)
(* A lowered ActionGraph is walked by tokens kept in a slice.  Step        *)
(* advances the tokens one by one, from the last index to the first, while *)
(* forks, joins, merges and ends of flow add and remove entries of that    *)
(* slice; RunToCompletion calls Step until the action completes, stops at  *)
(* a breakpoint, waits for a message, fails, or spends its budget.         *)
(*                                                                         *)
(* A definition named D_Variant is D with one slip a maintainer could make *)
(* there; no specification uses it.                                        *)
(*                                                                         *)
(* One action of this module is one call of stepToken, one head of the run *)
(* loop, or one call made by the debugger that drives the executor.  The   *)
(* executor is single threaded: whoever posts messages or sets breakpoints *)
(* does so between two calls.                                              *)
(***************************************************************************)
EXTENDS Integers, Sequences, FiniteSets, SequencesExt

CONSTANTS
  Nodes,           \* the nodes action graphs are built from
  Messages,        \* the signals a message can carry, as far as an accept tells
  Data,            \* the values the action's features can hold, together
  Empty,           \* e.data as it is made: no feature holds anything
  Actions,         \* the actions an executor may be created for
  Lowered,         \* the graph each action is lowered to
  None,            \* no node
  Fails,           \* what a body or a flow that reports an error evaluates to
  MaxActionSteps,  \* ctx.maxActionSteps, the budget of one run
  MaxCalls,        \* bound on the calls a driver makes
  MaxPosts,        \* bound on the messages posted from outside the action
  DriverCalls,     \* the methods the driver calls
  Breakable        \* the nodes the driver sets breakpoints on

Kinds == {"initial", "final", "fork", "join", "merge", "decision", "action",
          "accept", "when", "after"}

(* A guard or a trigger condition is evaluated against the features' data. *)
Verdicts == {"holds", "fails", "error"}

(***************************************************************************)
(* A graph as lower.ToActionGraph builds it.  guards[n] is defined on the  *)
(* targets whose succession out of n carries a guard; body, flow and       *)
(* condition are what evaluating the node's statements, its object flows   *)
(* and its change trigger comes to, sends the messages its body posts,     *)
(* accepts the messages its accept takes, and binds what each of them       *)
(* makes of the data as its value goes into the accept's parameter.        *)
(* defaults is what the attributes' defaults and the inputs can leave, {}  *)
(* when evaluating one fails.                                              *)
(***************************************************************************)
IsGraph(g) ==
  /\ g.initial \in Nodes \cup {None}
  /\ g.kind \in [Nodes -> Kinds]
  /\ g.edges \in [Nodes -> Seq(Nodes)]
  /\ \A n \in Nodes :
       /\ DOMAIN g.guards[n] \subseteq Nodes
       /\ \A m \in DOMAIN g.guards[n] : g.guards[n][m] \in [Data -> Verdicts]
  /\ g.body \in [Nodes -> [Data -> Data \cup {Fails}]]
  /\ g.flow \in [Nodes -> [Data -> Data \cup {Fails}]]
  /\ g.sends \in [Nodes -> Seq(Messages)]
  /\ g.accepts \in [Nodes -> SUBSET Messages]
  /\ g.binds \in [Nodes -> [Messages -> [Data -> Data \cup {Fails}]]]
  /\ g.condition \in [Nodes -> [Data -> Verdicts]]
  /\ g.defaults \subseteq Data

ASSUME NodesAssumption == IsFiniteSet(Nodes) /\ None \notin Nodes
ASSUME DataAssumption == Fails \notin Data /\ Empty \in Data
ASSUME LoweredAssumption == \A a \in Actions : IsGraph(Lowered[a])
(* SetBudgets refuses a budget that is not positive. *)
ASSUME BoundsAssumption ==
  MaxActionSteps \in Nat \ {0} /\ MaxCalls \in Nat /\ MaxPosts \in Nat
ASSUME DriverAssumption ==
  /\ DriverCalls \subseteq {"Step", "RunToCompletion", "RunToQuiescence"}
  /\ Breakable \subseteq Nodes

VARIABLES
  action,            \* e.action
  tokens,            \* e.tokens: the slice, with its order
  state,             \* e.state
  nextTokenID,       \* e.nextTokenID
  mergeVisited,      \* e.mergeVisited
  breakpoints,       \* e.breakpoints, as the nodes they name
  firedBreakpoints,  \* e.firedBreakpoints
  pausedAt,          \* e.pausedAt
  data,              \* e.data
  messages,          \* ctx.messages, oldest first
  call,              \* the method of the executor that is executing
  pc,                \* where in it: its loop's head, or stepping tokens
  cursor,            \* Step: index of the token it steps next
  before,            \* Step: the tokens as it found them
  steps,             \* RunToCompletion: the steps it has spent
  err,               \* the error the last call returned
  calls, posts,      \* calls and outside posts so far, against their bounds
  stopped            \* history: the visits a run has stopped on, each kept
                     \* only until its token leaves the node

execVars == <<tokens, state, nextTokenID, mergeVisited, data, messages>>
debugVars == <<breakpoints, firedBreakpoints, pausedAt>>
callVars == <<call, pc, cursor, before, steps, err>>
boundVars == <<calls, posts>>
vars == <<action, execVars, debugVars, callVars, boundVars, stopped>>

(* e.graph, which newActionExecutor has lowered the action to. *)
graph == Lowered[action]

States == {"Ready", "Running", "Completed", "Suspended", "Waiting"}
Calls == {"none", "Step", "RunToCompletion", "RunToQuiescence"}
RunCalls == {"RunToCompletion", "RunToQuiescence"}
Errors == {"none", "notInitialized", "invalidFlow", "ambiguous", "noEnabled",
           "eval", "noClock", "deadlock", "acceptDeadlock", "budget"}

Token == [id : Nat, loc : Nodes, wait : BOOLEAN]
Visit == [token : Nat, node : Nodes]

TypeOK ==
  /\ action \in Actions
  /\ tokens \in Seq(Token)
  /\ state \in States
  /\ nextTokenID \in Nat
  /\ mergeVisited \subseteq Nodes
  /\ breakpoints \subseteq Nodes
  /\ firedBreakpoints \subseteq Visit
  /\ pausedAt \in Nodes \cup {None}
  /\ data \in Data
  /\ messages \in Seq(Messages)
  /\ call \in Calls
  /\ pc \in {"idle", "loop", "token"}
  /\ cursor \in Nat
  /\ before \in Seq(Token)
  /\ steps \in Nat
  /\ err \in Errors
  /\ calls \in Nat /\ posts \in Nat
  /\ stopped \subseteq Visit

Init ==
  /\ action \in Actions
  /\ tokens = <<>>
  /\ state = "Ready"
  /\ nextTokenID = 1
  /\ mergeVisited = {}
  /\ breakpoints = {}
  /\ firedBreakpoints = {}
  /\ pausedAt = None
  /\ data = Empty
  /\ messages = <<>>
  /\ call = "none" /\ pc = "idle" /\ cursor = 0 /\ before = <<>> /\ steps = 0
  /\ err = "none"
  /\ calls = 0 /\ posts = 0
  /\ stopped = {}

-----------------------------------------------------------------------------
(* Tokens, successions and bodies *)

NewToken(i, n) == [id |-> i, loc |-> n, wait |-> FALSE]

(* k tokens have been made: each took the id the counter was at. *)
Allocate_Once(k) == nextTokenID' = nextTokenID + 1

Allocate(k) == nextTokenID' = nextTokenID + k

(* Where a visit's token sits is where the visit was recorded. *)
VisitHolds(v, ts) ==
  \E i \in DOMAIN ts : ts[i].id = v.token /\ ts[i].loc = v.node

VisitOf(t) == [token |-> t.id, node |-> t.loc]

(* S in increasing order: one sequence for each finite set of indices. *)
InOrder(S) ==
  {f \in [1..Cardinality(S) -> S] :
     \A i, j \in DOMAIN f : i < j => f[i] < f[j]}

Verdict(n, m, d) ==
  IF m \in DOMAIN graph.guards[n] THEN graph.guards[n][m][d] ELSE "holds"

GuardsError(n, d) ==
  \E i \in DOMAIN graph.edges[n] : Verdict(n, graph.edges[n][i], d) = "error"

(* The successions a token at n may take, as indices of graph.edges[n]. *)
enabledSuccessions(n, d) ==
  {i \in DOMAIN graph.edges[n] : Verdict(n, graph.edges[n][i], d) = "holds"}

IsFirst(i, S) == i \in S /\ \A j \in S : i <= j

(* The sources of the successions into n, each counted once. *)
getIncomingEdges(n) ==
  {m \in Nodes : \E i \in DOMAIN graph.edges[m] : graph.edges[m][i] = n}

TokensAt(n) == {i \in DOMAIN tokens : tokens[i].loc = n}

(* The data after the statements of node n, when none of them fails. *)
AfterBody(n) == graph.body[n][data]

-----------------------------------------------------------------------------
(* How a call, or the step of one token, ends *)

Return(e) ==
  /\ call' = "none" /\ pc' = "idle"
  /\ cursor' = 0 /\ before' = <<>> /\ steps' = 0
  /\ err' = e

(* The token at cursor is done with: Step turns to the index below it. *)
NextIndex ==
  /\ cursor' = cursor - 1
  /\ UNCHANGED <<call, pc, before, steps, err>>

(* The step of a token reports e: Step returns at once, and what the tokens *)
(* stepped before it did, and ts of this one's own doing, stays done.       *)
StepFails(ts, e) ==
  /\ tokens' = ts
  /\ Return(e)
  /\ UNCHANGED <<state, nextTokenID, mergeVisited>>

(* The statements of node n leave d, the messages they send following bus;  *)
(* when one of them fails, those before it have had their effect.          *)
BodyFails(ts, n, bus, d) ==
  /\ d = Fails
  /\ data' \in Data
  /\ \E k \in 0..Len(graph.sends[n]) :
       messages' = bus \o SubSeq(graph.sends[n], 1, k)
  /\ StepFails(ts, "eval")

BodyRuns(n, bus, d) ==
  /\ d # Fails
  /\ messages' = bus \o graph.sends[n]

retireToken_Unchecked(ts) ==
  /\ tokens' = RemoveAt(ts, cursor)
  /\ state' = "Completed"
  /\ NextIndex
  /\ UNCHANGED nextTokenID

retireToken(ts) ==
  /\ tokens' = RemoveAt(ts, cursor)
  /\ state' = IF tokens' = <<>> THEN "Completed" ELSE state
  /\ NextIndex
  /\ UNCHANGED nextTokenID

Advance(ts, target) ==
  /\ tokens' = [ts EXCEPT ![cursor].loc = target]
  /\ NextIndex
  /\ UNCHANGED <<state, nextTokenID>>

Stays(ts) ==
  /\ tokens' = ts
  /\ NextIndex
  /\ UNCHANGED <<state, nextTokenID, mergeVisited, data, messages>>

(* Step hands the token at cursor to the case of stepToken for its node. *)
Stepping(kinds) ==
  /\ pc = "token"
  /\ cursor \in DOMAIN tokens
  /\ graph.kind[tokens[cursor].loc] \in kinds

Here == tokens[cursor].loc

-----------------------------------------------------------------------------
(* The nodes of the flow: one action per case of stepToken *)

stepInitialNode ==
  /\ Stepping({"initial"})
  /\ LET n == Here
         d == AfterBody(n)
         enabled == enabledSuccessions(n, d)
     IN
     \/ /\ graph.edges[n] = <<>>
        /\ StepFails(tokens, "invalidFlow")
        /\ UNCHANGED <<data, messages>>
     \/ graph.edges[n] # <<>> /\ BodyFails(tokens, n, messages, d)
     \/ /\ graph.edges[n] # <<>>
        /\ BodyRuns(n, messages, d)
        /\ data' = d
        /\ \/ GuardsError(n, d) /\ StepFails(tokens, "eval")
           \/ /\ ~GuardsError(n, d)
              /\ enabled = {}
              /\ retireToken(tokens)
              /\ UNCHANGED mergeVisited
           \/ /\ ~GuardsError(n, d)
              /\ \E i \in enabled :
                   IsFirst(i, enabled) /\ Advance(tokens, graph.edges[n][i])
              /\ UNCHANGED mergeVisited

stepFinalNode ==
  /\ Stepping({"final"})
  /\ retireToken(tokens)
  /\ UNCHANGED <<mergeVisited, data, messages>>

(* One new token per enabled branch, appended in declaration order. *)
stepForkNode ==
  /\ Stepping({"fork"})
  /\ LET n == Here
         d == AfterBody(n)
         enabled == enabledSuccessions(n, d)
     IN
     \/ /\ graph.edges[n] = <<>>
        /\ StepFails(tokens, "invalidFlow")
        /\ UNCHANGED <<data, messages>>
     \/ graph.edges[n] # <<>> /\ BodyFails(tokens, n, messages, d)
     \/ /\ graph.edges[n] # <<>>
        /\ BodyRuns(n, messages, d)
        /\ data' = d
        /\ \/ GuardsError(n, d) /\ StepFails(tokens, "eval")
           \/ /\ ~GuardsError(n, d)
              /\ enabled = {}
              /\ retireToken(tokens)
              /\ UNCHANGED mergeVisited
           \/ /\ ~GuardsError(n, d)
              /\ enabled # {}
              /\ \E branch \in InOrder(enabled) :
                   tokens' = RemoveAt(tokens, cursor) \o
                     [k \in DOMAIN branch |->
                        NewToken(nextTokenID + k - 1, graph.edges[n][branch[k]])]
              /\ Allocate(Cardinality(enabled))
              /\ NextIndex
              /\ UNCHANGED <<state, mergeVisited>>

Remaining_OneOnly(n) == {RemoveAt(tokens, cursor)}

(* The slice without the tokens at n, the others in their order. *)
Remaining(n) ==
  {[k \in DOMAIN keep |-> tokens[keep[k]]] :
     keep \in InOrder(DOMAIN tokens \ TokensAt(n))}

(* The barrier counts the tokens at the join, whichever way they came. *)
stepJoinNode ==
  /\ Stepping({"join"})
  /\ LET n == Here
         d == AfterBody(n)
         enabled == enabledSuccessions(n, d)
         arrived == Cardinality(TokensAt(n)) >= Cardinality(getIncomingEdges(n))
     IN
     \/ ~arrived /\ Stays(tokens)
     \/ arrived /\ BodyFails(tokens, n, messages, d)
     \/ /\ arrived
        /\ BodyRuns(n, messages, d)
        /\ data' = d
        /\ \/ Len(graph.edges[n]) # 1 /\ StepFails(tokens, "invalidFlow")
           \/ /\ Len(graph.edges[n]) = 1
              /\ GuardsError(n, d)
              /\ StepFails(tokens, "eval")
           \/ /\ Len(graph.edges[n]) = 1
              /\ ~GuardsError(n, d)
              /\ enabled = {}
              /\ tokens' \in Remaining(n)
              /\ state' = IF tokens' = <<>> THEN "Completed" ELSE state
              /\ NextIndex
              /\ UNCHANGED <<nextTokenID, mergeVisited>>
           \/ /\ Len(graph.edges[n]) = 1
              /\ ~GuardsError(n, d)
              /\ enabled # {}
              /\ \E ts \in Remaining(n) :
                   tokens' = Append(ts, NewToken(nextTokenID, graph.edges[n][1]))
              /\ Allocate(1)
              /\ NextIndex
              /\ UNCHANGED <<state, mergeVisited>>

Traversed_Never(n) == FALSE

Traversed(n) == n \in mergeVisited

(* The first token to traverse a merge wins; a later one leaves the slice   *)
(* without the check for completion that retireToken makes.                *)
stepMergeNode ==
  /\ Stepping({"merge"})
  /\ LET n == Here
         enabled == enabledSuccessions(n, data)
     IN
     \/ /\ Traversed(n)
        /\ tokens' = RemoveAt(tokens, cursor)
        /\ NextIndex
        /\ UNCHANGED <<state, nextTokenID, mergeVisited, data, messages>>
     \/ /\ ~Traversed(n)
        /\ Len(graph.edges[n]) # 1
        /\ StepFails(tokens, "invalidFlow")
        /\ UNCHANGED <<data, messages>>
     \/ /\ ~Traversed(n)
        /\ Len(graph.edges[n]) = 1
        /\ \/ /\ GuardsError(n, data)
              /\ StepFails(tokens, "eval")
              /\ UNCHANGED <<data, messages>>
           \/ /\ ~GuardsError(n, data)
              /\ enabled = {}
              /\ retireToken(tokens)
              /\ UNCHANGED <<mergeVisited, data, messages>>
           \/ /\ ~GuardsError(n, data)
              /\ enabled # {}
              /\ BodyFails(tokens, n, messages, AfterBody(n))
           \/ /\ ~GuardsError(n, data)
              /\ enabled # {}
              /\ BodyRuns(n, messages, AfterBody(n))
              /\ data' = AfterBody(n)
              /\ mergeVisited' = mergeVisited \cup {n}
              /\ Advance(tokens, graph.edges[n][1])

(* The guarded successions are tried in order up to the first that does not *)
(* fail; the last unguarded one is taken when every guard failed.          *)
stepDecisionNode ==
  /\ Stepping({"decision"})
  /\ LET n == Here
         d == AfterBody(n)
         edges == graph.edges[n]
         guarded == {i \in DOMAIN edges : edges[i] \in DOMAIN graph.guards[n]}
         decisive == {i \in guarded : graph.guards[n][edges[i]][d] # "fails"}
         fallback == DOMAIN edges \ guarded
     IN
     \/ /\ edges = <<>>
        /\ StepFails(tokens, "invalidFlow")
        /\ UNCHANGED <<data, messages>>
     \/ edges # <<>> /\ BodyFails(tokens, n, messages, d)
     \/ /\ edges # <<>>
        /\ BodyRuns(n, messages, d)
        /\ data' = d
        /\ \/ \E i \in decisive :
                /\ IsFirst(i, decisive)
                /\ graph.guards[n][edges[i]][d] = "error"
                /\ StepFails(tokens, "eval")
           \/ \E i \in decisive :
                /\ IsFirst(i, decisive)
                /\ graph.guards[n][edges[i]][d] = "holds"
                /\ Advance(tokens, edges[i])
                /\ UNCHANGED mergeVisited
           \/ \E i \in fallback :
                /\ decisive = {}
                /\ \A j \in fallback : j <= i
                /\ Advance(tokens, edges[i])
                /\ UNCHANGED mergeVisited
           \/ /\ decisive = {}
              /\ fallback = {}
              /\ StepFails(tokens, "noEnabled")

(* What a node that performs something does once it may: its body runs, the *)
(* successions out of it are resolved, its object flows carry their values, *)
(* and the token leaves, or ends where nothing follows.                     *)
Perform(ts, n, bus, given) ==
  LET d == graph.body[n][given]
      enabled == enabledSuccessions(n, d)
      One == \A i, j \in enabled : i = j
      passed == ~GuardsError(n, d) /\ One
  IN
  \/ BodyFails(ts, n, bus, d)
  \/ /\ BodyRuns(n, bus, d)
     /\ \/ /\ GuardsError(n, d)
           /\ data' = d
           /\ StepFails(ts, "eval")
        \/ /\ ~GuardsError(n, d)
           /\ ~One
           /\ data' = d
           /\ StepFails(ts, "ambiguous")
        \/ /\ passed
           /\ graph.flow[n][d] = Fails
           /\ data' \in Data
           /\ StepFails(ts, "eval")
        \/ /\ passed
           /\ graph.flow[n][d] # Fails
           /\ data' = graph.flow[n][d]
           /\ IF enabled = {}
              THEN retireToken(ts)
              ELSE \E i \in enabled : Advance(ts, graph.edges[n][i])
           /\ UNCHANGED mergeVisited

stepActionNode ==
  /\ Stepping({"action"})
  /\ Perform(tokens, Here, messages, data)

Parked == [tokens EXCEPT ![cursor].wait = TRUE]
Resumed_StillWaiting == tokens
Resumed == [tokens EXCEPT ![cursor].wait = FALSE]

Acceptable(n) == {i \in DOMAIN messages : messages[i] \in graph.accepts[n]}

stepAcceptNode_TakesAny ==
  /\ Stepping({"accept"})
  /\ tokens' = Parked
  /\ messages' = IF messages = <<>> THEN messages ELSE Tail(messages)
  /\ NextIndex
  /\ UNCHANGED <<state, nextTokenID, mergeVisited, data>>

(* An accept takes the oldest message it can, or parks its token.  The      *)
(* message is off the bus before anything the node does next can fail.     *)
stepAcceptNode ==
  /\ Stepping({"accept"})
  /\ LET n == Here
         found == Acceptable(n)
     IN
     \/ found = {} /\ Stays(Parked)
     \/ \E i \in found :
          /\ IsFirst(i, found)
          /\ LET given == graph.binds[n][messages[i]][data]
                 bus == RemoveAt(messages, i)
             IN
             \/ /\ given = Fails
                /\ messages' = bus
                /\ StepFails(Resumed, "eval")
                /\ UNCHANGED data
             \/ given # Fails /\ Perform(Resumed, n, bus, given)

(* accept when c: the condition is polled, once for each step of the token. *)
stepWhenNode ==
  /\ Stepping({"when"})
  /\ LET n == Here
         verdict == graph.condition[n][data]
     IN
     \/ /\ verdict = "error"
        /\ StepFails(tokens, "eval")
        /\ UNCHANGED <<data, messages>>
     \/ verdict = "fails" /\ Stays(Parked)
     \/ verdict = "holds" /\ Perform(Resumed, n, messages, data)

(* accept after d, accept at t: the action executor has no clock. *)
stepTimeNode ==
  /\ Stepping({"after"})
  /\ StepFails(tokens, "noClock")
  /\ UNCHANGED <<data, messages>>

stepToken ==
  /\ \/ stepInitialNode \/ stepFinalNode \/ stepForkNode \/ stepJoinNode
     \/ stepMergeNode \/ stepDecisionNode \/ stepActionNode
     \/ stepAcceptNode \/ stepWhenNode \/ stepTimeNode
  /\ stopped' = {v \in stopped : VisitHolds(v, tokens')}
  /\ UNCHANGED <<action, debugVars, boundVars>>

-----------------------------------------------------------------------------
(* Step and the run loop around it *)

BeginStep(c) ==
  /\ call' = c /\ pc' = "token"
  /\ cursor' = Len(tokens)
  /\ before' = tokens
  /\ state' = IF state \in {"Suspended", "Waiting"} THEN "Running" ELSE state
  /\ pausedAt' = IF state = "Suspended" THEN None ELSE pausedAt
  /\ UNCHANGED <<action, tokens, nextTokenID, mergeVisited, data, messages,
                 posts, stopped>>

(* Earlier tokens of this Step removed the entry the loop had counted on. *)
SkipIndex ==
  /\ pc = "token"
  /\ cursor > Len(tokens)
  /\ NextIndex
  /\ UNCHANGED <<action, execVars, debugVars, boundVars, stopped>>

Progress_CountOnly == Len(tokens) # Len(before)

(* Step's idea of progress: the count or some index's location changed. *)
Progress ==
  \/ Len(tokens) # Len(before)
  \/ tokens = <<>>
  \/ \E i \in DOMAIN tokens \cap DOMAIN before :
       tokens[i].loc # before[i].loc

anyTokenWaiting_Never == FALSE

anyTokenWaiting == \E i \in DOMAIN tokens : tokens[i].wait

StepTaken_Uncounted == steps' = steps

StepTaken == steps' = steps + 1

(* The end of Step, and what RunToCompletion does with the way it ended. *)
EndStep ==
  /\ pc = "token"
  /\ cursor = 0
  /\ \/ /\ Progress
        /\ IF call = "Step"
           THEN Return("none")
           ELSE /\ pc' = "loop"
                /\ StepTaken
                /\ before' = <<>>
                /\ UNCHANGED <<call, cursor, err>>
        /\ UNCHANGED state
     \/ /\ ~Progress
        /\ ~anyTokenWaiting
        /\ Return("deadlock")
        /\ UNCHANGED state
     \/ /\ ~Progress
        /\ anyTokenWaiting
        /\ state' = "Waiting"
        /\ Return(IF call = "RunToCompletion" THEN "acceptDeadlock" ELSE "none")
  /\ UNCHANGED <<action, tokens, nextTokenID, mergeVisited, data, messages,
                 debugVars, boundVars, stopped>>

LiveVisits_KeepAll == firedBreakpoints
LiveVisits_Forget == {}

(* breakpointHit forgets the visits whose token has left, then looks for a  *)
(* token on a breakpoint that the run has not stopped on in this visit.    *)
LiveVisits ==
  IF breakpoints = {} THEN firedBreakpoints
  ELSE {v \in firedBreakpoints : VisitHolds(v, tokens)}

Unfired ==
  {i \in DOMAIN tokens : /\ tokens[i].loc \in breakpoints
                         /\ VisitOf(tokens[i]) \notin LiveVisits}

RunLoop ==
  /\ pc = "loop"
  /\ \/ /\ state \notin {"Running", "Waiting"}
        /\ Return("none")
        /\ UNCHANGED <<action, execVars, debugVars, posts, stopped>>
     \/ /\ state \in {"Running", "Waiting"}
        /\ \E i \in Unfired :
             /\ IsFirst(i, Unfired)
             /\ firedBreakpoints' = LiveVisits \cup {VisitOf(tokens[i])}
             /\ stopped' = stopped \cup {VisitOf(tokens[i])}
             /\ pausedAt' = tokens[i].loc
        /\ state' = "Suspended"
        /\ Return("none")
        /\ UNCHANGED <<action, tokens, nextTokenID, mergeVisited, data,
                       messages, breakpoints, posts>>
     \/ /\ state \in {"Running", "Waiting"}
        /\ Unfired = {}
        /\ firedBreakpoints' = LiveVisits
        /\ \/ /\ steps >= MaxActionSteps
              /\ Return("budget")
              /\ UNCHANGED <<action, execVars, pausedAt, posts, stopped>>
           \/ /\ steps < MaxActionSteps
              /\ BeginStep(call)
              /\ UNCHANGED <<steps, err>>
        /\ UNCHANGED breakpoints
  /\ UNCHANGED calls

-----------------------------------------------------------------------------
(* The driver: the debugger, or an object performing the action *)

initialize_Unchecked ==
  /\ pc = "idle" /\ state = "Ready"
  /\ data' \in graph.defaults
  /\ tokens' = Append(tokens, NewToken(nextTokenID, graph.initial))
  /\ Allocate(1)
  /\ state' = "Running"
  /\ Return("none")
  /\ UNCHANGED <<action, mergeVisited, messages, debugVars, boundVars, stopped>>

(* Whoever creates an executor initializes it once, before any other call.  *)
initialize ==
  /\ pc = "idle" /\ state = "Ready"
  /\ \/ /\ graph.initial = None
        /\ Return("invalidFlow")
        /\ UNCHANGED <<tokens, state, nextTokenID, data>>
     \/ /\ graph.initial # None
        /\ graph.defaults = {}
        /\ data' \in Data
        /\ Return("eval")
        /\ UNCHANGED <<tokens, state, nextTokenID>>
     \/ /\ graph.initial # None
        /\ data' \in graph.defaults
        /\ tokens' = Append(tokens, NewToken(nextTokenID, graph.initial))
        /\ Allocate(1)
        /\ state' = "Running"
        /\ Return("none")
  /\ UNCHANGED <<action, mergeVisited, messages, debugVars, boundVars, stopped>>

Calling(m) ==
  /\ pc = "idle"
  /\ m \in DriverCalls
  /\ calls < MaxCalls
  /\ calls' = calls + 1

Step ==
  /\ Calling("Step")
  /\ \/ /\ state = "Completed"
        /\ Return("none")
        /\ UNCHANGED <<action, execVars, pausedAt, posts, stopped>>
     \/ /\ state = "Ready"
        /\ Return("notInitialized")
        /\ UNCHANGED <<action, execVars, pausedAt, posts, stopped>>
     \/ /\ state \notin {"Completed", "Ready"}
        /\ BeginStep("Step")
        /\ steps' = 0 /\ err' = "none"
  /\ UNCHANGED <<breakpoints, firedBreakpoints>>

Resume_StillPaused ==
  /\ state' = IF state = "Suspended" THEN "Running" ELSE state
  /\ UNCHANGED pausedAt

(* A run that takes up again is no longer held by the breakpoint. *)
Resume ==
  /\ state' = IF state = "Suspended" THEN "Running" ELSE state
  /\ pausedAt' = None

(* RunToCompletion, and RunToQuiescence, which is it with one error dropped. *)
Run ==
  \E m \in RunCalls :
    /\ Calling(m)
    /\ call' = m /\ pc' = "loop"
    /\ steps' = 0 /\ err' = "none"
    /\ Resume
    /\ UNCHANGED <<action, tokens, nextTokenID, mergeVisited, data, messages,
                   breakpoints, firedBreakpoints, cursor, before, posts,
                   stopped>>

SetBreakpoint(n) ==
  /\ pc = "idle"
  /\ breakpoints' = breakpoints \cup {n}
  /\ UNCHANGED <<action, execVars, firedBreakpoints, pausedAt, callVars,
                 boundVars, stopped>>

ClearBreakpoints ==
  /\ pc = "idle"
  /\ breakpoints' = {} /\ firedBreakpoints' = {} /\ stopped' = {}
  /\ UNCHANGED <<action, execVars, pausedAt, callVars, boundVars>>

(* A sibling behavior, or a test, posts a message between two calls. *)
PostMessage(m) ==
  /\ pc = "idle"
  /\ posts < MaxPosts
  /\ posts' = posts + 1
  /\ messages' = Append(messages, m)
  /\ UNCHANGED <<action, tokens, state, nextTokenID, mergeVisited, data,
                 debugVars, callVars, calls, stopped>>

Proceed == stepToken \/ SkipIndex \/ EndStep \/ RunLoop

Next ==
  \/ initialize
  \/ Step
  \/ Run
  \/ \E n \in Breakable : SetBreakpoint(n)
  \/ ClearBreakpoints
  \/ \E m \in Messages : PostMessage(m)
  \/ Proceed

Spec == Init /\ [][Next]_vars

(* A call that has begun is executed to its end: nothing preempts it. *)
FairSpec == Spec /\ WF_vars(Proceed)

-----------------------------------------------------------------------------
(* Properties *)

(* Token ids are never shared nor reused, so that a breakpoint visit, which *)
(* names its token by id, cannot be mistaken for another token's: forks and *)
(* joins hand out fresh ids while the slice they index is being rebuilt.    *)
TokenIdentity ==
  /\ \A i, j \in DOMAIN tokens : tokens[i].id = tokens[j].id => i = j
  /\ \A i \in DOMAIN tokens : tokens[i].id < nextTokenID
  /\ \A v \in firedBreakpoints \cup stopped : v.token < nextTokenID

(* Only a token at an accept is parked: a Wait left set on a token that has *)
(* moved on would turn a deadlock into a suspension nothing can resume.     *)
ParkedAtAccept ==
  \A i \in DOMAIN tokens :
    tokens[i].wait => graph.kind[tokens[i].loc] \in {"accept", "when"}

(* An action that reports completion has no token left that could act.      *)
CompletedHoldsNoToken == state = "Completed" => tokens = <<>>

(* An initialized action whose last token is gone has completed             *)
(* (retireToken: "the action completes once no token is left").            *)
DrainedIsCompleted ==
  pc # "token" /\ state # "Ready" /\ tokens = <<>> => state = "Completed"

(* PausedAt names a node exactly while a breakpoint holds the run: resuming *)
(* by either Step or a run clears it, and no other way of stopping sets it. *)
SuspendedIffPaused == state = "Suspended" <=> pausedAt # None

CanProceed(t) ==
  \/ graph.kind[t.loc] = "accept" /\ Acceptable(t.loc) # {}
  \/ graph.kind[t.loc] = "when" /\ graph.condition[t.loc][data] = "holds"

CallEnds == call # "none" /\ call' = "none"

(* A run that reports that nothing can resume its parked tokens is right:   *)
(* no message on the bus, not even one sent in the step that gave up, and   *)
(* no condition would let one of them proceed.                             *)
SuspensionIsReal ==
  [][CallEnds /\ state' = "Waiting" =>
       \A i \in DOMAIN tokens : ~CanProceed(tokens[i])]_vars

(* ErrActionDeadlock is reported only when no token can take a step: every  *)
(* one is held at a join that has not enough tokens.                       *)
DeadlockIsReal ==
  [][CallEnds /\ err' = "deadlock" =>
       \A i \in DOMAIN tokens :
         /\ graph.kind[tokens[i].loc] = "join"
         /\ Cardinality(TokensAt(tokens[i].loc))
              < Cardinality(getIncomingEdges(tokens[i].loc))]_vars

(* A merge lets one token through in the whole run, whatever order the      *)
(* branches arrive in and however often a loop comes back to it.           *)
StaysAtPassedMerge ==
  \A i \in DOMAIN tokens : tokens[i].loc \in mergeVisited =>
    \A j \in DOMAIN tokens' :
      tokens'[j].id = tokens[i].id => tokens'[j].loc = tokens[i].loc

MergePassesOnce == [][StaysAtPassedMerge]_vars

(* A message leaves the bus for a token that then leaves its accept, or the *)
(* call reports an error: a message is never consumed by a step that parks. *)
TakenMessageIsHandled ==
  [][Len(messages') < Len(messages) =>
       \/ err' # "none"
       \/ ~VisitHolds(VisitOf(tokens[cursor]), tokens')]_vars

(* In a run, no token sitting on a breakpoint is stepped before the run has *)
(* stopped there: "A run stops as soon as a token sits on a node a          *)
(* breakpoint was set on" (RunToCompletion).                               *)
StopsAtEveryVisit ==
  pc = "token" /\ call \in RunCalls /\ cursor \in DOMAIN tokens =>
    (Here \in breakpoints => VisitOf(tokens[cursor]) \in stopped)

(* A resumed run gets past the node it stopped at: no visit stops two runs. *)
StopsAnew ==
  state' = "Suspended" /\ state # "Suspended" => stopped' # stopped

StopsOncePerVisit == [][StopsAnew]_vars

(* Every call returns: the budget ends a run that never completes.          *)
CallReturns == call # "none" ~> call = "none"

-----------------------------------------------------------------------------
(* The executor plays the token game: however the slice is rebuilt under   *)
(* the index that walks it, each step of a token is one node firing, and   *)
(* no other step of a call moves, makes or loses a token or a message.     *)
TokenGame == INSTANCE TokenGame WITH
  net <- graph,
  marking <- [n \in Nodes |-> Cardinality(TokensAt(n))],
  passed <- mergeVisited,
  inbox <- [m \in Messages |->
              Cardinality({i \in DOMAIN messages : messages[i] = m})]

PlaysTheTokenGame == TokenGame!Game
=============================================================================
