--------------------------- MODULE ActionFlowProofs ---------------------------
(***************************************************************************)
(* What the executor of ActionExecutor reports of the flow is so: a        *)
(* deadlock, a suspension, a message taken, a stop at a breakpoint.  None   *)
(* of that holds of every graph (the runs that fail show which), so each    *)
(* theorem says of which graphs it holds.                                  *)
(*                                                                         *)
(* The argument: TokenOutcome says how the step of one token can end; from *)
(* there on the proofs speak of the slice, and not of the kinds of nodes.  *)
(***************************************************************************)
EXTENDS TokenGameProofs

-----------------------------------------------------------------------------
(* How the step of one token ends *)

(* A token is held: at a join that has not enough tokens, or at an accept   *)
(* that it waits at for a message or a condition.                          *)
Held(i) ==
  LET n == tokens[i].loc
  IN  \/ /\ graph.kind[n] = "join"
         /\ Cardinality(TokensAt(n)) < Cardinality(getIncomingEdges(n))
      \/ /\ graph.kind[n] = "accept"
         /\ Acceptable(n) = {}
         /\ tokens[i].wait
      \/ /\ graph.kind[n] = "when"
         /\ graph.condition[n][data] = "fails"
         /\ tokens[i].wait

(* The token at the cursor stays where it is, and why.                     *)
Waits ==
  \/ /\ graph.kind[Here] = "join"
     /\ Cardinality(TokensAt(Here)) < Cardinality(getIncomingEdges(Here))
     /\ Stays(tokens)
  \/ /\ graph.kind[Here] = "accept"
     /\ Acceptable(Here) = {}
     /\ Stays(Parked)
  \/ /\ graph.kind[Here] = "when"
     /\ graph.condition[Here][data] = "fails"
     /\ Stays(Parked)

(* The step reports an error of its node.                                  *)
Halts(ts) == \E e \in NodeErrors : StepFails(ts, e)

Ends(ts) == tokens' = RemoveAt(ts, cursor) /\ NextIndex

Moves(ts) == \E i \in DOMAIN graph.edges[Here] : Advance(ts, graph.edges[Here][i])

(* The tokens a fork makes, one for each of the branches.                  *)
Branches(branch) ==
  [k \in DOMAIN branch |->
     NewToken(nextTokenID + k - 1, graph.edges[Here][branch[k]])]

Splits ==
  /\ graph.kind[Here] = "fork"
  /\ NextIndex
  /\ \E branch \in InOrder(enabledSuccessions(Here, AfterBody(Here))) :
       tokens' = RemoveAt(tokens, cursor) \o Branches(branch)

Gathers ==
  /\ graph.kind[Here] = "join"
  /\ NextIndex
  /\ \E ts \in Remaining(Here) :
       \/ tokens' = ts
       \/ /\ Len(graph.edges[Here]) = 1
          /\ tokens' = Append(ts, NewToken(nextTokenID, graph.edges[Here][1]))

TokenOutcome ==
  \/ \E ts \in {tokens, Resumed} : Halts(ts) \/ Ends(ts) \/ Moves(ts)
  \/ Waits
  \/ Splits
  \/ Gathers

(* A node that performs something fails, or its token ends or moves.        *)
LEMMA PerformEnds ==
  ASSUME NEW ts, NEW bus, NEW given, Perform(ts, Here, bus, given)
  PROVE  Halts(ts) \/ Ends(ts) \/ Moves(ts)
<1>1. \/ Failing(ts, bus, graph.body[Here][given])
      \/ Moving(ts, bus, graph.body[Here][given])
  BY PerformOutcome
<1> QED
  BY <1>1 DEF Failing, BodyFails, Halts, NodeErrors, Moving, retireToken, Ends, Moves

(* The barrier of a join compares two numbers.                             *)
LEMMA BarrierCounts ==
  ASSUME Inv, NEW n
  PROVE  Cardinality(TokensAt(n)) \in Nat /\ Cardinality(getIncomingEdges(n)) \in Nat
<1>1. Cardinality(TokensAt(n)) \in Nat
  BY GameCounts, LocsType DEF Inv, TypeOK
<1>2. getIncomingEdges(n) \in SUBSET Nodes
  BY DEF getIncomingEdges
<1> QED BY <1>1, <1>2, NodesAssumption, FS_Subset, FS_CardinalityType

(* Each case of stepToken ends in one of these ways.                       *)
LEMMA TokenEnds == ASSUME Inv, stepToken PROVE TokenOutcome
<1>1. CASE stepInitialNode
  BY <1>1 DEF stepInitialNode, Here, Stepping, BodyFails, Halts, retireToken,
              enabledSuccessions, NodeErrors, Ends, Moves, TokenOutcome
<1>2. CASE stepFinalNode
  BY <1>2 DEF stepFinalNode, retireToken, Ends, TokenOutcome
<1>3. CASE stepForkNode
  BY <1>3 DEF stepForkNode, Stepping, Here, BodyFails, Halts, retireToken,
              NodeErrors, Ends, Branches, Splits, TokenOutcome
<1>4. CASE stepJoinNode
  <2>1. graph.kind[Here] = "join"
    BY <1>4 DEF stepJoinNode, Stepping, Here
  <2>2. \/ Halts(tokens)
        \/ ~(Cardinality(TokensAt(Here)) >= Cardinality(getIncomingEdges(Here))) /\ Stays(tokens)
        \/ /\ NextIndex
           /\ \E ts \in Remaining(Here) :
                \/ tokens' = ts
                \/ /\ Len(graph.edges[Here]) = 1
                   /\ tokens' = Append(ts, NewToken(nextTokenID, graph.edges[Here][1]))
    BY <1>4 DEF stepJoinNode, BodyFails, Halts, NodeErrors
  <2>3. \/ Cardinality(TokensAt(Here)) >= Cardinality(getIncomingEdges(Here))
        \/ Cardinality(TokensAt(Here)) < Cardinality(getIncomingEdges(Here))
    BY BarrierCounts
  <2> QED BY <2>1, <2>2, <2>3 DEF Waits, Gathers, TokenOutcome
<1>5. CASE stepMergeNode
  <2>1. \/ Halts(tokens)
        \/ Ends(tokens)
        \/ Len(graph.edges[Here]) = 1 /\ Advance(tokens, graph.edges[Here][1])
    BY <1>5 DEF stepMergeNode, BodyFails, Halts, retireToken, NodeErrors, Ends
  <2> QED BY <2>1 DEF Moves, TokenOutcome
<1>6. CASE stepDecisionNode
  BY <1>6 DEF stepDecisionNode, BodyFails, Halts, NodeErrors, Moves, TokenOutcome
<1>7. CASE stepActionNode
  BY <1>7, PerformEnds DEF stepActionNode, TokenOutcome
<1>8. CASE stepAcceptNode
  BY <1>8, PerformEnds DEF stepAcceptNode, Stepping, Here, Halts, NodeErrors, Waits,
                           TokenOutcome
<1>9. CASE stepWhenNode
  BY <1>9, PerformEnds DEF stepWhenNode, Stepping, Here, Halts, NodeErrors, Waits,
                           TokenOutcome
<1>10. CASE stepTimeNode
  BY <1>10 DEF stepTimeNode, Halts, NodeErrors, TokenOutcome
<1> QED
  BY <1>1, <1>2, <1>3, <1>4, <1>5, <1>6, <1>7, <1>8, <1>9, <1>10 DEF stepToken

(* A succession leads from n back to n.                                    *)
FollowsItself(g, n) == \E i \in DOMAIN g.edges[n] : g.edges[n][i] = n

-----------------------------------------------------------------------------
(* Messages taken *)

(* What the statements of the node at the cursor can do to the bus.        *)
Grown ==
  \/ messages' = messages
  \/ messages' = messages \o graph.sends[Here]
  \/ \E k \in 0..Len(graph.sends[Here]) :
       messages' = messages \o SubSeq(graph.sends[Here], 1, k)

(* What a node performs on the bus as it is only adds to it.               *)
LEMMA PerformGrows ==
  ASSUME NEW ts, NEW given, Perform(ts, Here, messages, given)
  PROVE  Grown
<1> QED BY DEF Perform, BodyFails, BodyRuns, Grown

(* No node but an accept takes a message off the bus.                      *)
LEMMA BusGrows ==
  ASSUME Inv, stepToken, graph.kind[Here] # "accept"
  PROVE  Len(messages') >= Len(messages)
<1>1. Grown
  <2>1. CASE stepInitialNode
    BY <2>1 DEF stepInitialNode, BodyFails, BodyRuns, Grown
  <2>2. CASE stepFinalNode
    BY <2>2 DEF stepFinalNode, Grown
  <2>3. CASE stepForkNode
    BY <2>3 DEF stepForkNode, BodyFails, BodyRuns, Grown
  <2>4. CASE stepJoinNode
    BY <2>4 DEF stepJoinNode, Stays, BodyFails, BodyRuns, Grown
  <2>5. CASE stepMergeNode
    BY <2>5 DEF stepMergeNode, BodyFails, BodyRuns, Grown
  <2>6. CASE stepDecisionNode
    BY <2>6 DEF stepDecisionNode, BodyFails, BodyRuns, Grown
  <2>7. CASE stepActionNode
    BY <2>7, PerformGrows DEF stepActionNode
  <2>8. CASE stepWhenNode
    BY <2>8, PerformGrows DEF stepWhenNode, Stays, Grown
  <2>9. CASE stepTimeNode
    BY <2>9 DEF stepTimeNode, Grown
  <2>10. ~stepAcceptNode
    BY DEF stepAcceptNode, Stepping, Here
  <2> QED
    BY <2>1, <2>2, <2>3, <2>4, <2>5, <2>6, <2>7, <2>8, <2>9, <2>10 DEF stepToken
<1>2. /\ messages \in Seq(Messages) /\ graph.sends[Here] \in Seq(Messages)
       /\ Len(messages) \in Nat /\ Len(graph.sends[Here]) \in Nat
  <2>1. messages \in Seq(Messages) /\ graph.sends[Here] \in Seq(Messages)
    BY NodeSteps, SteppingFacts, GraphType DEF Inv, TypeOK, IsGraph
  <2> QED BY <2>1, LenProperties
<1>3. ASSUME NEW sent \in Seq(Messages), messages' = messages \o sent
       PROVE  Len(messages') >= Len(messages)
  <2>1. Len(messages \o sent) = Len(messages) + Len(sent) /\ Len(sent) \in Nat
    BY <1>2, ConcatProperties, LenProperties
  <2> QED BY <1>2, <1>3, <2>1
<1>4. ASSUME NEW k \in 0..Len(graph.sends[Here]),
              messages' = messages \o SubSeq(graph.sends[Here], 1, k)
       PROVE  Len(messages') >= Len(messages)
  <2> DEFINE sent == SubSeq(graph.sends[Here], 1, k)
  <2>1. sent \in Seq(Messages)
    <3>1. \A i \in 1..k : graph.sends[Here][i] \in Messages
      BY <1>2, ElementOfSeq
    <3> QED BY <1>2, <3>1, SubSeqProperties
  <2>2. messages' = messages \o sent
    BY <1>4
  <2> HIDE DEF sent
  <2> QED BY <1>3, <2>1, <2>2
<1>5. CASE messages' = messages
  BY <1>2, <1>5
<1> QED BY <1>1, <1>2, <1>3, <1>4, <1>5 DEF Grown

(* A token that ends or moves on has left its node, unless it is its own    *)
(* successor.                                                              *)
LEMMA VisitEnds ==
  ASSUME Inv, cursor \in DOMAIN tokens, ~FollowsItself(graph, Here),
         NEW ts, SameFlow(ts), Ends(ts) \/ Moves(ts)
  PROVE  ~VisitHolds(VisitOf(tokens[cursor]), tokens')
<1>1. /\ GoodTokens(graph, ts, nextTokenID) /\ cursor \in DOMAIN ts
      /\ ts[cursor].id = tokens[cursor].id /\ nextTokenID \in Nat
  BY InvTokens DEF SameFlow
<1>2. CASE Ends(ts)
  <2>1. \A j \in DOMAIN RemoveAt(ts, cursor) :
          RemoveAt(ts, cursor)[j].id # ts[cursor].id
    BY <1>1, RemoveToken
  <2> QED BY <1>1, <1>2, <2>1 DEF Ends, VisitHolds, VisitOf
<1>3. ASSUME NEW i \in DOMAIN graph.edges[Here], Advance(ts, graph.edges[Here][i])
      PROVE  ~VisitHolds(VisitOf(tokens[cursor]), tokens')
  <2> DEFINE m == graph.edges[Here][i]
  <2>1. m # Here
    BY DEF FollowsItself
  <2>2. tokens' = [ts EXCEPT ![cursor].loc = m]
    BY <1>3 DEF Advance
  <2> HIDE DEF m
  <2>3. ts[cursor] \in Token
    BY <1>1, ElementOfSeq, LenProperties DEF GoodTokens
  <2>4. /\ DOMAIN tokens' = DOMAIN ts
        /\ \A j \in DOMAIN ts : j # cursor => tokens'[j] = ts[j]
        /\ tokens'[cursor].loc = m
    BY <1>1, <2>2, <2>3 DEF Token
  <2>5. \A j \in DOMAIN ts : j # cursor => ts[j].id # ts[cursor].id
    BY <1>1 DEF GoodTokens
  <2> QED BY <1>1, <2>1, <2>4, <2>5 DEF VisitHolds, VisitOf, Here
<1> QED BY <1>2, <1>3 DEF Moves

NoAcceptFollowsItself(g) ==
  \A n \in Nodes : g.kind[n] = "accept" => ~FollowsItself(g, n)

(* What a message was taken for in one step.                               *)
Handled == err' # "none" \/ ~VisitHolds(VisitOf(tokens[cursor]), tokens')

(* An accept that takes a message moves its token on or reports an error.   *)
LEMMA TakenInStep ==
  ASSUME Inv, NoAcceptFollowsItself(graph), stepToken, Len(messages') < Len(messages)
  PROVE  Handled
<1>1. cursor \in DOMAIN tokens /\ Here \in Nodes /\ messages' # messages
  <2>1. Len(messages) \in Nat
    BY LenProperties DEF Inv, TypeOK
  <2> QED BY <2>1, NodeSteps, SteppingFacts
<1>2. graph.kind[Here] = "accept"
  <2>1. Len(messages) \in Nat /\ Len(messages') \in Nat
    BY NodeSteps, LenProperties DEF Inv, TypeOK, NodeStep, ValuesStep
  <2> QED BY <2>1, BusGrows
<1>3. ~FollowsItself(graph, Here)
  BY <1>1, <1>2 DEF NoAcceptFollowsItself
<1>4. \A ts \in {tokens, Resumed} : SameFlow(ts)
  BY <1>1, InvTokens, WaitChange
<1>5. \/ \E e \in NodeErrors : Return(e)
      \/ \E ts \in {tokens, Resumed} : Ends(ts) \/ Moves(ts)
  BY <1>1, <1>2, TokenEnds DEF TokenOutcome, Halts, StepFails, Waits, Stays, Splits, Gathers
<1>6. CASE \E e \in NodeErrors : Return(e)
  BY <1>6 DEF NodeErrors, Return, Handled
<1>7. CASE \E ts \in {tokens, Resumed} : Ends(ts) \/ Moves(ts)
  BY <1>1, <1>3, <1>4, <1>7, VisitEnds DEF Handled
<1> QED BY <1>5, <1>6, <1>7

(* Nothing but the step of a token takes a message.                        *)
LEMMA TakenInNext ==
  ASSUME Inv, NoAcceptFollowsItself(graph), [Next]_vars, Len(messages') < Len(messages)
  PROVE  Handled
<1>1. messages \in Seq(Messages) /\ Len(messages) \in Nat
  BY LenProperties DEF Inv, TypeOK
<1>2. messages' # messages
  BY <1>1
<1>3. ASSUME NEW m \in Messages, PostMessage(m)
      PROVE  FALSE
  <2>1. messages' = Append(messages, m)
    BY <1>3 DEF PostMessage
  <2>2. Len(messages') = Len(messages) + 1
    BY <1>1, <2>1, AppendProperties
  <2> QED BY <1>1, <2>2
<1>4. stepToken
  BY <1>2, <1>3 DEF Next, Proceed, SkipIndex, EndStep, RunLoop, BeginStep, initialize, Step, Run,
                    SetBreakpoint, ClearBreakpoints, execVars, vars
<1> QED BY <1>4, TakenInStep

(* A message stepAcceptNode takes off the bus is handled: its token passes  *)
(* the accept, or the call reports an error, in every graph in which no     *)
(* accept is its own successor.  A token that passes such an accept is back *)
(* where it was, and the property cannot tell that it has been away.        *)
THEOREM TakenIsHandled ==
  ASSUME \A a \in Actions : NoAcceptFollowsItself(Lowered[a])
  PROVE  Spec => TakenMessageIsHandled
<1>1. Inv => NoAcceptFollowsItself(graph)
  BY DEF Inv, TypeOK, graph
<1>2. Inv /\ [Next]_vars => [Len(messages') < Len(messages) => Handled]_vars
  BY <1>1, TakenInNext
<1> QED BY <1>2, Invariance, PTL DEF Spec, TakenMessageIsHandled, Handled

-----------------------------------------------------------------------------
(* Levels of a graph *)

(* rank puts the nodes of g on levels no succession leads down from, and    *)
(* those out of a fork or a join lead up.                                  *)
Ranks(g, rank) ==
  \A n \in Nodes : \A i \in DOMAIN g.edges[n] :
    /\ g.edges[n][i] # n
    /\ rank[n] <= rank[g.edges[n][i]]
    /\ g.kind[n] \in {"fork", "join"} => rank[n] < rank[g.edges[n][i]]

(* The loops of g pass neither a fork nor a join, and no node is its own    *)
(* successor: such graphs are those whose nodes can be ranked.             *)
LoopsAreSequential(g) == \E rank \in [Nodes -> Nat] : Ranks(g, rank)

(* The tokens of ts on level q.                                            *)
AtLevel(rank, ts, q) == {i \in DOMAIN ts : rank[ts[i].loc] = q}

Level(rank, ts, q) == Cardinality(AtLevel(rank, ts, q))

(* A level holds finitely many tokens.                                     *)
LEMMA LevelType ==
  ASSUME NEW rank, NEW ts \in Seq(Token), NEW q
  PROVE  IsFiniteSet(AtLevel(rank, ts, q)) /\ Level(rank, ts, q) \in Nat
<1>1. IsFiniteSet(DOMAIN ts)
  BY LenProperties, FS_Interval
<1>2. AtLevel(rank, ts, q) \in SUBSET DOMAIN ts
  BY DEF AtLevel
<1>3. IsFiniteSet(AtLevel(rank, ts, q))
  BY <1>1, <1>2, FS_Subset
<1> QED BY <1>3, FS_CardinalityType DEF Level

(* Tokens where they were are on the levels they were on.                  *)
LEMMA LevelSame ==
  ASSUME NEW rank, NEW ts, NEW us, DOMAIN us = DOMAIN ts,
         \A i \in DOMAIN ts : rank[us[i].loc] = rank[ts[i].loc]
  PROVE  \A q : Level(rank, us, q) = Level(rank, ts, q)
<1>1. \A q : AtLevel(rank, us, q) = AtLevel(rank, ts, q)
  BY DEF AtLevel
<1> QED BY <1>1 DEF Level

(* us comes from ts by a token at c that leaves its level: every token that *)
(* us has on that level, or below it, was there in ts.                     *)
LEMMA LevelLeft ==
  ASSUME NEW rank, NEW ts \in Seq(Token), NEW us \in Seq(Token), NEW c \in DOMAIN ts,
         NEW next, From(ts, c, us, next), NEW q,
         \A i, j \in DOMAIN us : us[i].id = us[j].id => i = j,
         \A j \in DOMAIN us :
           us[j].id >= next \/ us[j].id = ts[c].id => rank[us[j].loc] # q
  PROVE  /\ Level(rank, us, q) <= Level(rank, ts, q)
         /\ rank[ts[c].loc] = q => Level(rank, us, q) < Level(rank, ts, q)
<1> DEFINE X == AtLevel(rank, us, q)
           Y == AtLevel(rank, ts, q)
           f == [j \in X |-> CHOOSE i \in Y \ {c} : ts[i].id = us[j].id]
<1>1. ASSUME NEW j \in X
      PROVE  \E i \in Y \ {c} : ts[i].id = us[j].id
  <2>1. j \in DOMAIN us /\ rank[us[j].loc] = q
    BY DEF AtLevel
  <2>2. ~(us[j].id >= next) /\ us[j].id # ts[c].id
    BY <2>1
  <2>3. PICK i \in DOMAIN ts : us[j].id = ts[i].id /\ (i # c => us[j].loc = ts[i].loc)
    BY <2>1, <2>2 DEF From
  <2>4. i # c
    BY <2>2, <2>3
  <2> QED BY <2>1, <2>3, <2>4 DEF AtLevel
<1>2. \A j \in X : f[j] \in Y \ {c} /\ ts[f[j]].id = us[j].id
  BY <1>1
<1>3. f \in [X -> Y \ {c}]
  BY <1>2
<1>4. \A a, b \in X : f[a] = f[b] => a = b
  <2> TAKE a, b \in X
  <2>1. a \in DOMAIN us /\ b \in DOMAIN us
    BY DEF AtLevel
  <2> HIDE DEF X, Y, f
  <2> QED BY <1>2, <2>1
<1>5. /\ IsFiniteSet(Y) /\ Cardinality(Y) \in Nat /\ Cardinality(X) \in Nat
      /\ Level(rank, us, q) = Cardinality(X) /\ Level(rank, ts, q) = Cardinality(Y)
  BY LevelType, FS_CardinalityType DEF Level
<1>6. c \in Y <=> rank[ts[c].loc] = q
  BY DEF AtLevel
<1> HIDE DEF X, Y, f
<1>7. /\ IsFiniteSet(Y \ {c})
      /\ Cardinality(Y \ {c}) = IF c \in Y THEN Cardinality(Y) - 1 ELSE Cardinality(Y)
  BY <1>5, FS_RemoveElement
<1>8. Cardinality(X) <= Cardinality(Y \ {c})
  <2>1. f \in Injection(X, Y \ {c})
    BY <1>3, <1>4, Fun_IsInj
  <2> QED BY <1>7, <2>1, FS_Injection
<1> QED BY <1>5, <1>6, <1>7, <1>8

-----------------------------------------------------------------------------
(* What the step of one token does to the levels *)

(* The token that is stepped, and those made of it, are above its node.     *)
Rises(rank) ==
  \A j \in DOMAIN tokens' :
    tokens'[j].id >= nextTokenID \/ tokens'[j].id = tokens[cursor].id
      => rank[tokens'[j].loc] > rank[Here]

(* The token that is stepped goes to another node of its level, and the     *)
(* slice is the same otherwise.                                            *)
Turns(rank) ==
  /\ DOMAIN tokens' = DOMAIN tokens
  /\ tokens'[cursor].loc # Here
  /\ \A i \in DOMAIN tokens : /\ rank[tokens'[i].loc] = rank[tokens[i].loc]
                              /\ i # cursor => tokens'[i].loc = tokens[i].loc

(* The ids of a good slice are numbers below the counter.                  *)
LEMMA KnownIds ==
  ASSUME NEW g, NEW ts, NEW next \in Nat, GoodTokens(g, ts, next), NEW i \in DOMAIN ts
  PROVE  ts[i] \in Token /\ ts[i].loc \in Nodes /\ ~(ts[i].id >= next)
<1>1. ts[i] \in Token
  BY ElementOfSeq, LenProperties DEF GoodTokens
<1>2. ts[i].id \in Nat /\ ts[i].loc \in Nodes
  BY <1>1 DEF Token
<1>3. ts[i].id < next
  BY DEF GoodTokens
<1> QED BY <1>1, <1>2, <1>3

(* What Ranks says of one succession.                                      *)
LEMMA RankUp ==
  ASSUME Inv, NEW rank \in [Nodes -> Nat], Ranks(graph, rank),
         NEW n \in Nodes, NEW i \in DOMAIN graph.edges[n]
  PROVE  /\ graph.edges[n][i] \in Nodes /\ graph.edges[n][i] # n
         /\ rank[n] \in Nat /\ rank[graph.edges[n][i]] \in Nat
         /\ rank[graph.edges[n][i]] = rank[n] \/ rank[graph.edges[n][i]] > rank[n]
         /\ graph.kind[n] \in {"fork", "join"} => rank[graph.edges[n][i]] > rank[n]
<1> DEFINE m == graph.edges[n][i]
<1>1. m \in Nodes
  BY EdgeNodes
<1>2. /\ m # n /\ rank[n] <= rank[m]
      /\ graph.kind[n] \in {"fork", "join"} => rank[n] < rank[m]
  BY DEF Ranks
<1> HIDE DEF m
<1>3. rank[n] \in Nat /\ rank[m] \in Nat
  BY <1>1
<1>4. /\ rank[m] = rank[n] \/ rank[m] > rank[n]
      /\ graph.kind[n] \in {"fork", "join"} => rank[m] > rank[n]
  BY <1>2, <1>3
<1> QED BY <1>1, <1>2, <1>3, <1>4 DEF m

(* A slice that has lost its entry at the cursor.                          *)
LEMMA RemovedEntries ==
  ASSUME Inv, cursor \in DOMAIN tokens, NEW ts, SameFlow(ts)
  PROVE  /\ RemoveAt(ts, cursor) \in Seq(Token)
         /\ Len(RemoveAt(ts, cursor)) \in Nat /\ Len(RemoveAt(ts, cursor)) = Len(ts) - 1
         /\ DOMAIN RemoveAt(ts, cursor) = 1..Len(RemoveAt(ts, cursor))
         /\ cursor \in 1..Len(ts) /\ Len(ts) \in Nat
         /\ \A j \in DOMAIN RemoveAt(ts, cursor) :
              \E i \in DOMAIN tokens :
                /\ i # cursor /\ (j < cursor => i = j)
                /\ RemoveAt(ts, cursor)[j].id = tokens[i].id
                /\ RemoveAt(ts, cursor)[j].loc = tokens[i].loc
<1> DEFINE rest == RemoveAt(ts, cursor)
           n == Len(ts)
<1>1. /\ ts \in Seq(Token) /\ n \in Nat /\ DOMAIN ts = 1..n /\ DOMAIN ts = DOMAIN tokens
      /\ cursor \in 1..n
      /\ \A i \in DOMAIN ts : ts[i].id = tokens[i].id /\ ts[i].loc = tokens[i].loc
  BY LenProperties DEF SameFlow, GoodTokens
<1>2. /\ rest \in Seq(Token) /\ Len(rest) = n - 1
      /\ \A j \in 1..(n - 1) : rest[j] = ts[IF j < cursor THEN j ELSE j + 1]
  BY <1>1, RemoveAtProperties
<1>3. DOMAIN rest = 1..(n - 1)
  BY <1>2, LenProperties
<1> HIDE DEF rest, n
<1>4. ASSUME NEW j \in DOMAIN rest
      PROVE  \E i \in DOMAIN tokens :
               /\ i # cursor /\ (j < cursor => i = j)
               /\ rest[j].id = tokens[i].id /\ rest[j].loc = tokens[i].loc
  <2>1. j \in 1..(n - 1) /\ j \in 1..n /\ j + 1 \in 1..n
    BY <1>1, <1>3
  <2>2. CASE j < cursor
    <3>1. rest[j] = ts[j]
      BY <1>2, <2>1, <2>2
    <3>2. j # cursor
      BY <1>1, <2>1, <2>2
    <3> QED BY <1>1, <2>1, <3>1, <3>2
  <2>3. CASE ~(j < cursor)
    <3>1. rest[j] = ts[j + 1]
      BY <1>2, <2>1, <2>3
    <3>2. j + 1 # cursor
      BY <1>1, <2>1, <2>3
    <3> QED BY <1>1, <2>1, <2>3, <3>1, <3>2
  <2> QED BY <2>2, <2>3
<1>5. n - 1 \in Nat
  BY <1>1
<1> QED BY <1>1, <1>2, <1>3, <1>4, <1>5 DEF rest, n

(* A token that splits is replaced by new ones at the end of the slice.    *)
LEMMA SplitEntries ==
  ASSUME Inv, cursor \in DOMAIN tokens, Splits, NEW j \in DOMAIN tokens'
  PROVE  \/ \E i \in DOMAIN tokens :
              /\ i # cursor /\ (j < cursor => i = j)
              /\ tokens'[j].id = tokens[i].id /\ tokens'[j].loc = tokens[i].loc
         \/ /\ ~(j < cursor) /\ tokens'[j].id >= nextTokenID
            /\ \E i \in DOMAIN graph.edges[Here] : tokens'[j].loc = graph.edges[Here][i]
<1> DEFINE edges == graph.edges[Here]
           enabled == enabledSuccessions(Here, AfterBody(Here))
           rest == RemoveAt(tokens, cursor)
<1>1. Here \in Nodes /\ nextTokenID \in Nat /\ SameFlow(tokens)
  BY SteppingFacts, InvTokens
<1>2. PICK branch \in InOrder(enabled) : tokens' = rest \o Branches(branch)
  BY DEF Splits
<1> DEFINE new == Branches(branch)
<1>3. enabled \subseteq DOMAIN edges /\ IsFiniteSet(enabled) /\ enabled \subseteq Int
  <2>1. edges \in Seq(Nodes)
    BY <1>1, GraphType DEF Inv, IsGraph
  <2> HIDE DEF edges
  <2>2. DOMAIN edges = 1..Len(edges) /\ Len(edges) \in Nat
    BY <2>1, LenProperties
  <2>3. enabled \subseteq DOMAIN edges
    BY DEF enabledSuccessions, edges
  <2>4. IsFiniteSet(DOMAIN edges)
    BY <2>2, FS_Interval
  <2> HIDE DEF enabled
  <2> QED BY <2>2, <2>3, <2>4, FS_Subset
<1>4. /\ Cardinality(enabled) \in Nat /\ DOMAIN branch = 1..Cardinality(enabled)
      /\ branch \in [1..Cardinality(enabled) -> enabled]
  BY <1>2, <1>3, OrderOnto
<1>5. \A k \in DOMAIN branch : branch[k] \in DOMAIN edges /\ edges[branch[k]] \in Nodes
  <2> TAKE k \in DOMAIN branch
  <2>1. branch[k] \in DOMAIN edges
    BY <1>3, <1>4
  <2> QED BY <1>1, <2>1, EdgeNodes
<1>6. /\ new \in Seq(Token) /\ DOMAIN new = 1..Len(new) /\ Len(new) \in Nat
      /\ \A k \in DOMAIN new : /\ new[k].id >= nextTokenID
                               /\ \E i \in DOMAIN edges : new[k].loc = edges[i]
  <2>1. DOMAIN new = DOMAIN branch
    BY DEF Branches
  <2>2. \A k \in DOMAIN branch :
          new[k] = NewToken(nextTokenID + k - 1, edges[branch[k]])
    BY DEF Branches
  <2>3. new \in [1..Cardinality(enabled) -> Token]
    BY <1>1, <1>4, <1>5 DEF Branches, NewToken, Token
  <2> HIDE DEF new, edges, enabled
  <2>4. new \in Seq(Token)
    BY <1>4, <2>3, FunctionIsSlice
  <2>5. \A k \in DOMAIN new : /\ new[k].id >= nextTokenID
                              /\ \E i \in DOMAIN edges : new[k].loc = edges[i]
    BY <1>1, <1>4, <1>5, <2>1, <2>2 DEF NewToken
  <2> QED BY <2>4, <2>5, LenProperties
<1>7. /\ rest \in Seq(Token) /\ DOMAIN rest = 1..Len(rest) /\ Len(rest) \in Nat
      /\ Len(rest) = Len(tokens) - 1 /\ cursor \in 1..Len(tokens) /\ Len(tokens) \in Nat
      /\ \A k \in DOMAIN rest :
           \E i \in DOMAIN tokens :
             /\ i # cursor /\ (k < cursor => i = k)
             /\ rest[k].id = tokens[i].id /\ rest[k].loc = tokens[i].loc
  BY <1>1, RemovedEntries
<1> HIDE DEF rest, new, enabled
<1>8. /\ tokens' \in Seq(Token) /\ Len(tokens') = Len(rest) + Len(new)
      /\ \A k \in 1..(Len(rest) + Len(new)) :
           tokens'[k] = IF k <= Len(rest) THEN rest[k] ELSE new[k - Len(rest)]
  <2>1. tokens' = rest \o new
    BY <1>2 DEF new
  <2> QED BY <1>6, <1>7, <2>1, ConcatProperties, Zenon
<1>9. \/ j \in DOMAIN rest /\ tokens'[j] = rest[j]
      \/ ~(j < cursor) /\ \E k \in DOMAIN new : tokens'[j] = new[k]
  <2>1. j \in 1..(Len(rest) + Len(new))
    BY <1>8, LenProperties
  <2>2. CASE j <= Len(rest)
    BY <1>6, <1>7, <1>8, <2>1, <2>2
  <2>3. CASE ~(j <= Len(rest))
    <3>1. j - Len(rest) \in DOMAIN new /\ ~(j < cursor)
      BY <1>6, <1>7, <2>1, <2>3
    <3>2. tokens'[j] = new[j - Len(rest)]
      BY <1>8, <2>1, <2>3, Zenon
    <3> QED BY <3>1, <3>2
  <2> QED BY <2>2, <2>3
<1>10. CASE j \in DOMAIN rest /\ tokens'[j] = rest[j]
  BY <1>7, <1>10
<1>11. CASE ~(j < cursor) /\ \E k \in DOMAIN new : tokens'[j] = new[k]
  BY <1>6, <1>11
<1> QED BY <1>9, <1>10, <1>11

(* A token that leaves the slice leaves nothing behind.                     *)
LEMMA EndsRise ==
  ASSUME Inv, NEW rank, cursor \in DOMAIN tokens, NEW ts, SameFlow(ts), Ends(ts)
  PROVE  Rises(rank)
<1>1. /\ nextTokenID \in Nat /\ GoodTokens(graph, ts, nextTokenID)
      /\ cursor \in DOMAIN ts /\ ts[cursor].id = tokens[cursor].id
  BY InvTokens DEF SameFlow
<1>2. /\ GoodTokens(graph, tokens', nextTokenID)
      /\ \A j \in DOMAIN tokens' : tokens'[j].id # tokens[cursor].id
  BY <1>1, RemoveToken DEF Ends
<1> QED BY <1>1, <1>2, KnownIds DEF Rises

(* A token that moves goes up, or to another node of its level.            *)
LEMMA MovesRise ==
  ASSUME Inv, NEW rank \in [Nodes -> Nat], Ranks(graph, rank),
         cursor \in DOMAIN tokens, NEW ts, SameFlow(ts), Moves(ts)
  PROVE  Rises(rank) \/ Turns(rank)
<1>1. PICK i \in DOMAIN graph.edges[Here] : Advance(ts, graph.edges[Here][i])
  BY DEF Moves
<1>2. Here \in Nodes
  BY SteppingFacts
<1> DEFINE m == graph.edges[Here][i]
<1>3. /\ m \in Nodes /\ m # Here /\ rank[Here] \in Nat /\ rank[m] \in Nat
      /\ rank[m] = rank[Here] \/ rank[m] > rank[Here]
  BY <1>2, RankUp
<1>4. tokens' = [ts EXCEPT ![cursor].loc = m]
  BY <1>1 DEF Advance
<1> HIDE DEF m
<1>5. /\ GoodTokens(graph, ts, nextTokenID) /\ nextTokenID \in Nat
      /\ DOMAIN ts = DOMAIN tokens
      /\ \A j \in DOMAIN ts : ts[j].id = tokens[j].id /\ ts[j].loc = tokens[j].loc
  BY InvTokens DEF SameFlow
<1>6. ts[cursor] \in Token
  BY <1>5, KnownIds
<1>7. /\ DOMAIN tokens' = DOMAIN tokens
      /\ tokens'[cursor].loc = m
      /\ \A j \in DOMAIN tokens : /\ tokens'[j].id = ts[j].id
                                  /\ j # cursor => tokens'[j].loc = tokens[j].loc
  BY <1>4, <1>5, <1>6 DEF Token
<1>8. ASSUME rank[m] > rank[Here]
      PROVE  Rises(rank)
  <2> SUFFICES ASSUME NEW j \in DOMAIN tokens',
                      tokens'[j].id >= nextTokenID \/ tokens'[j].id = tokens[cursor].id
               PROVE  rank[tokens'[j].loc] > rank[Here]
    BY DEF Rises
  <2>1. ~(tokens'[j].id >= nextTokenID)
    BY <1>5, <1>7, KnownIds
  <2>2. j = cursor
    BY <1>5, <1>7, <2>1 DEF GoodTokens
  <2> QED BY <1>7, <1>8, <2>2
<1>9. ASSUME rank[m] = rank[Here]
      PROVE  Turns(rank)
  BY <1>3, <1>7, <1>9 DEF Turns, Here
<1> QED BY <1>3, <1>8, <1>9

(* A fork's new tokens are on its branches, which lead up.                 *)
LEMMA SplitsRise ==
  ASSUME Inv, NEW rank \in [Nodes -> Nat], Ranks(graph, rank),
         cursor \in DOMAIN tokens, Splits
  PROVE  Rises(rank)
<1> SUFFICES ASSUME NEW j \in DOMAIN tokens',
                    tokens'[j].id >= nextTokenID \/ tokens'[j].id = tokens[cursor].id
             PROVE  rank[tokens'[j].loc] > rank[Here]
  BY DEF Rises
<1>1. Here \in Nodes /\ nextTokenID \in Nat /\ GoodTokens(graph, tokens, nextTokenID)
  BY SteppingFacts, InvTokens
<1>2. \A i \in DOMAIN tokens : i # cursor => tokens'[j].id # tokens[i].id
  BY <1>1, KnownIds DEF GoodTokens
<1>3. PICK i \in DOMAIN graph.edges[Here] : tokens'[j].loc = graph.edges[Here][i]
  BY <1>2, SplitEntries
<1> QED BY <1>1, <1>3, RankUp DEF Splits

(* A join's new token is on its succession, which leads up; the tokens it   *)
(* leaves in the slice are none of those it took.                          *)
LEMMA GathersRise ==
  ASSUME Inv, NEW rank \in [Nodes -> Nat], Ranks(graph, rank),
         cursor \in DOMAIN tokens, Gathers
  PROVE  Rises(rank)
<1>1. Here \in Nodes /\ nextTokenID \in Nat /\ GoodTokens(graph, tokens, nextTokenID)
  BY SteppingFacts, InvTokens
<1>2. PICK ts \in Remaining(Here) :
        \/ tokens' = ts
        \/ /\ Len(graph.edges[Here]) = 1
           /\ tokens' = Append(ts, NewToken(nextTokenID, graph.edges[Here][1]))
  BY DEF Gathers
<1>3. GoodTokens(graph, ts, nextTokenID)
  BY <1>1, RemainingTokens
<1>4. ts \in Seq(Token) /\ DOMAIN ts = 1..Len(ts) /\ Len(ts) \in Nat
  BY <1>3, LenProperties DEF GoodTokens
<1>5. \A k \in DOMAIN ts : ~(ts[k].id >= nextTokenID) /\ ts[k].id # tokens[cursor].id
  <2> TAKE k \in DOMAIN ts
  <2> DEFINE left == DOMAIN tokens \ TokensAt(Here)
  <2>1. PICK keep \in InOrder(left) : ts = [i \in DOMAIN keep |-> tokens[keep[i]]]
    BY DEF Remaining
  <2>2. keep[k] \in left /\ ts[k] = tokens[keep[k]]
    BY <2>1 DEF InOrder
  <2>3. keep[k] \in DOMAIN tokens /\ keep[k] # cursor
    BY <2>2 DEF TokensAt, Here
  <2> QED BY <1>1, <1>3, <2>2, <2>3, KnownIds DEF GoodTokens
<1>6. CASE tokens' = ts
  BY <1>5, <1>6 DEF Rises
<1>7. CASE /\ Len(graph.edges[Here]) = 1
           /\ tokens' = Append(ts, NewToken(nextTokenID, graph.edges[Here][1]))
  <2> DEFINE m == graph.edges[Here][1]
             t == NewToken(nextTokenID, m)
  <2>1. 1 \in DOMAIN graph.edges[Here]
    <3>1. graph.edges[Here] \in Seq(Nodes)
      BY <1>1, GraphType DEF Inv, IsGraph
    <3> QED BY <1>7, <3>1, LenProperties
  <2>2. m \in Nodes /\ rank[m] > rank[Here]
    BY <1>1, <2>1, RankUp DEF Gathers
  <2>3. t \in Token /\ t.loc = m
    BY <1>1, <2>2 DEF NewToken, Token
  <2>4. tokens' = Append(ts, t)
    BY <1>7
  <2> HIDE DEF t, m
  <2>5. /\ tokens' \in Seq(Token) /\ Len(tokens') = Len(ts) + 1
        /\ \A j \in 1..Len(ts) : tokens'[j] = ts[j]
        /\ tokens'[Len(ts) + 1] = t
    BY <1>4, <2>3, <2>4, AppendProperties
  <2>6. \A j \in DOMAIN tokens' : j \in DOMAIN ts \/ j = Len(ts) + 1
    BY <1>4, <2>5, LenProperties
  <2> QED BY <1>4, <1>5, <2>2, <2>3, <2>5, <2>6 DEF Rises
<1> QED BY <1>2, <1>6, <1>7

(* The tokens are where they were, and none has stopped waiting.           *)
Rest ==
  /\ DOMAIN tokens' = DOMAIN tokens
  /\ \A i \in DOMAIN tokens : /\ tokens'[i].loc = tokens[i].loc
                              /\ tokens[i].wait => tokens'[i].wait

(* What holds a token goes on holding it while nothing else changes.       *)
LEMMA HeldKept ==
  ASSUME Rest, UNCHANGED <<action, data, messages>>, NEW i \in DOMAIN tokens, Held(i)
  PROVE  Held(i)'
<1>1. graph' = graph /\ tokens'[i].loc = tokens[i].loc
  BY DEF graph, Rest
<1>2. {k \in DOMAIN tokens' : tokens'[k].loc = tokens'[i].loc}
        = {k \in DOMAIN tokens : tokens[k].loc = tokens[i].loc}
  BY DEF Rest
<1>3. tokens[i].wait => tokens'[i].wait
  BY DEF Rest
<1> QED BY <1>1, <1>2, <1>3 DEF Held, TokensAt, getIncomingEdges, Acceptable

(* A token that is left where it is is held there.                         *)
LEMMA WaitsRest ==
  ASSUME Inv, cursor \in DOMAIN tokens, Waits, UNCHANGED action
  PROVE  /\ NextIndex /\ UNCHANGED <<data, messages>>
         /\ Rest /\ \A i \in DOMAIN tokens : i = cursor => Held(i)'
<1>1. NextIndex /\ UNCHANGED <<data, messages>> /\ (tokens' = tokens \/ tokens' = Parked)
  BY DEF Waits, Stays
<1>2. tokens[cursor] \in Token
  BY SteppingFacts
<1>3. /\ DOMAIN Parked = DOMAIN tokens /\ Parked[cursor].wait = TRUE
      /\ \A i \in DOMAIN tokens : /\ Parked[i].loc = tokens[i].loc
                                  /\ tokens[i].wait => Parked[i].wait
  BY <1>2 DEF Parked, Token
<1>4. Rest
  BY <1>1, <1>3 DEF Rest
<1>5. graph' = graph
  BY DEF graph
<1>6. ASSUME NEW i \in DOMAIN tokens, i = cursor
      PROVE  Held(i)'
  <2>1. /\ tokens'[i].loc = Here /\ data' = data /\ messages' = messages
        /\ {k \in DOMAIN tokens' : tokens'[k].loc = tokens'[i].loc} = TokensAt(Here)
    BY <1>1, <1>4, <1>6 DEF Rest, Here, TokensAt
  <2>2. CASE tokens' = Parked
    <3>1. tokens'[i].wait
      BY <1>3, <1>6, <2>2
    <3> QED BY <1>5, <2>1, <3>1 DEF Waits, Held, TokensAt, getIncomingEdges, Acceptable
  <2>3. CASE graph.kind[Here] = "join"
    BY <1>5, <2>1, <2>3 DEF Waits, Held, TokensAt, getIncomingEdges
  <2> QED BY <2>2, <2>3 DEF Waits, Stays
<1> QED BY <1>1, <1>4, <1>6

(* The step of one token fails, leaves the token where it is held, lifts it *)
(* to higher levels, or moves it on its own.                               *)
LEMMA TokenMoves ==
  ASSUME Inv, stepToken, NEW rank \in [Nodes -> Nat], Ranks(graph, rank)
  PROVE  \/ \E e \in NodeErrors : Return(e)
         \/ /\ NextIndex /\ UNCHANGED <<data, messages>>
            /\ Rest /\ \A i \in DOMAIN tokens : i = cursor => Held(i)'
         \/ NextIndex /\ (Rises(rank) \/ Turns(rank))
<1>1. cursor \in DOMAIN tokens /\ UNCHANGED action
  BY NodeSteps DEF stepToken
<1>2. \A ts \in {tokens, Resumed} : SameFlow(ts)
  BY <1>1, InvTokens, WaitChange
<1>3. CASE Waits
  BY <1>1, <1>3, WaitsRest
<1>4. ASSUME NEW ts \in {tokens, Resumed}, Ends(ts)
      PROVE  NextIndex /\ Rises(rank)
  BY <1>1, <1>2, <1>4, EndsRise DEF Ends
<1>5. ASSUME NEW ts \in {tokens, Resumed}, Moves(ts)
      PROVE  NextIndex /\ (Rises(rank) \/ Turns(rank))
  BY <1>1, <1>2, <1>5, MovesRise DEF Moves, Advance
<1>6. CASE Splits
  BY <1>1, <1>6, SplitsRise DEF Splits
<1>7. CASE Gathers
  BY <1>1, <1>7, GathersRise DEF Gathers
<1> QED BY <1>3, <1>4, <1>5, <1>6, <1>7, TokenEnds DEF TokenOutcome, Halts, StepFails

-----------------------------------------------------------------------------
(* What a Step has done so far *)

(* Nothing has moved, and the tokens already stepped are held.             *)
Quiet ==
  /\ DOMAIN tokens = DOMAIN before
  /\ \A i \in DOMAIN tokens : /\ tokens[i].loc = before[i].loc
                              /\ i > cursor => Held(i)

(* Every token is on the level it was on, at the index it was at, and one   *)
(* of those already stepped is at another node.                            *)
Turned(rank) ==
  /\ DOMAIN tokens = DOMAIN before
  /\ \A i \in DOMAIN tokens : rank[tokens[i].loc] = rank[before[i].loc]
  /\ \E i \in DOMAIN tokens : i > cursor /\ tokens[i].loc # before[i].loc

(* Of the levels that a token has left there is a lowest: nothing has come  *)
(* to it.                                                                  *)
Dropped(rank) ==
  \E r \in Nat :
    /\ Level(rank, tokens, r) < Level(rank, before, r)
    /\ \A q \in 0..r : Level(rank, tokens, q) <= Level(rank, before, q)

(* The tokens stepped so far are all held, or it shows that they are not.   *)
SoFar(rank) == Quiet \/ Turned(rank) \/ Dropped(rank)

FlowInv ==
  pc = "token" => \E rank \in [Nodes -> Nat] : Ranks(graph, rank) /\ SoFar(rank)

(* A token that rises leaves its level, and comes to none below it.        *)
LEMMA RisesDrop ==
  ASSUME Inv, stepToken, NEW rank \in [Nodes -> Nat], Rises(rank)
  PROVE  /\ rank[Here] \in Nat
         /\ \A q \in 0..rank[Here] : Level(rank, tokens', q) <= Level(rank, tokens, q)
         /\ Level(rank, tokens', rank[Here]) < Level(rank, tokens, rank[Here])
<1>1. cursor \in DOMAIN tokens /\ rank[Here] \in Nat /\ tokens \in Seq(Token)
  BY NodeSteps, SteppingFacts DEF Inv, TypeOK
<1>2. /\ GoodTokens(graph, tokens', nextTokenID') /\ nextTokenID' \in Nat
      /\ From(tokens, cursor, tokens', nextTokenID)
  BY NodeSteps DEF NodeStep, TokensStep
<1>3. tokens' \in Seq(Token) /\ \A i, j \in DOMAIN tokens' : tokens'[i].id = tokens'[j].id => i = j
  BY <1>2 DEF GoodTokens
<1>4. \A j \in DOMAIN tokens' : rank[tokens'[j].loc] \in Nat
  BY <1>2, KnownIds
<1>5. ASSUME NEW q \in 0..rank[Here]
      PROVE  /\ Level(rank, tokens', q) <= Level(rank, tokens, q)
             /\ rank[tokens[cursor].loc] = q => Level(rank, tokens', q) < Level(rank, tokens, q)
  <2>1. \A j \in DOMAIN tokens' :
          tokens'[j].id >= nextTokenID \/ tokens'[j].id = tokens[cursor].id
            => rank[tokens'[j].loc] # q
    BY <1>1, <1>4 DEF Rises
  <2> QED BY <1>1, <1>2, <1>3, <2>1, LevelLeft
<1>6. rank[Here] \in 0..rank[Here] /\ rank[tokens[cursor].loc] = rank[Here]
  BY <1>1 DEF Here
<1> QED BY <1>1, <1>5, <1>6

(* The slice is as it was: what the Step has done so far is too, and one    *)
(* more token is held.                                                     *)
LEMMA RestSoFar ==
  ASSUME Inv, NEW rank, SoFar(rank), NextIndex, UNCHANGED <<action, data, messages>>,
         Rest, \A i \in DOMAIN tokens : i = cursor => Held(i)'
  PROVE  SoFar(rank)'
<1>1. before' = before /\ cursor' = cursor - 1 /\ cursor \in Nat
  BY DEF NextIndex, Inv, TypeOK
<1>2. \A i \in DOMAIN tokens : i \in Nat
  <2>1. tokens \in Seq(Token)
    BY DEF Inv, TypeOK
  <2> QED BY <2>1, LenProperties
<1>3. ASSUME Quiet
      PROVE  Quiet'
  <2>1. ASSUME NEW i \in DOMAIN tokens, i > cursor'
        PROVE  Held(i)'
    <3>1. CASE i = cursor
      BY <3>1
    <3>2. CASE i > cursor
      <4>1. Held(i)
        BY <1>3, <3>2 DEF Quiet
      <4> QED BY <4>1, HeldKept
    <3> QED BY <1>1, <1>2, <2>1, <3>1, <3>2
  <2> QED BY <1>1, <1>3, <2>1 DEF Quiet, Rest
<1>4. ASSUME Turned(rank)
      PROVE  Turned(rank)'
  <2>1. PICK i \in DOMAIN tokens : i > cursor /\ tokens[i].loc # before[i].loc
    BY <1>4 DEF Turned
  <2>2. i > cursor' /\ tokens'[i].loc # before'[i].loc
    BY <1>1, <1>2, <2>1 DEF Rest
  <2> QED BY <1>1, <1>4, <2>2 DEF Turned, Rest
<1>5. ASSUME Dropped(rank)
      PROVE  Dropped(rank)'
  <2>1. \A q : Level(rank, tokens', q) = Level(rank, tokens, q)
    BY LevelSame DEF Rest
  <2> QED BY <1>1, <1>5, <2>1 DEF Dropped
<1> QED BY <1>3, <1>4, <1>5 DEF SoFar

(* A token that turns is at another node, unless the levels show already    *)
(* that the slice is not what it was.                                      *)
LEMMA TurnsSoFar ==
  ASSUME Inv, cursor \in DOMAIN tokens, NEW rank, SoFar(rank), NextIndex, Turns(rank)
  PROVE  SoFar(rank)'
<1>1. before' = before /\ cursor' = cursor - 1 /\ cursor \in Nat
  BY DEF NextIndex, Inv, TypeOK
<1>2. \A i \in DOMAIN tokens : i \in Nat
  <2>1. tokens \in Seq(Token)
    BY DEF Inv, TypeOK
  <2> QED BY <2>1, LenProperties
<1>3. ASSUME Quiet
      PROVE  Turned(rank)'
  <2>1. cursor > cursor' /\ tokens'[cursor].loc # before'[cursor].loc
    BY <1>1, <1>3 DEF Quiet, Turns, Here
  <2>2. \A i \in DOMAIN tokens : rank[tokens'[i].loc] = rank[before'[i].loc]
    BY <1>1, <1>3 DEF Quiet, Turns
  <2> QED BY <1>1, <1>3, <2>1, <2>2 DEF Quiet, Turned, Turns
<1>4. ASSUME Turned(rank)
      PROVE  Turned(rank)'
  <2>1. PICK i \in DOMAIN tokens : i > cursor /\ tokens[i].loc # before[i].loc
    BY <1>4 DEF Turned
  <2>2. i > cursor' /\ i # cursor
    BY <1>1, <1>2, <2>1
  <2>3. tokens'[i].loc # before'[i].loc
    BY <1>1, <2>1, <2>2 DEF Turns
  <2> QED BY <1>1, <1>4, <2>2, <2>3 DEF Turned, Turns
<1>5. ASSUME Dropped(rank)
      PROVE  Dropped(rank)'
  <2>1. \A q : Level(rank, tokens', q) = Level(rank, tokens, q)
    BY LevelSame DEF Turns
  <2> QED BY <1>1, <1>5, <2>1 DEF Dropped
<1> QED BY <1>3, <1>4, <1>5 DEF SoFar

(* Once a token has risen there is a lowest level that one has left.       *)
LEMMA RisesSoFar ==
  ASSUME Inv, stepToken, NEW rank \in [Nodes -> Nat], SoFar(rank), NextIndex, Rises(rank)
  PROVE  SoFar(rank)'
<1> DEFINE p == rank[Here]
           Now(q) == Level(rank, tokens, q)
           Then(q) == Level(rank, before, q)
           Next_(q) == Level(rank, tokens', q)
<1>1. /\ p \in Nat
      /\ \A q \in 0..p : Next_(q) <= Now(q)
      /\ Next_(p) < Now(p)
  BY RisesDrop
<1>2. \A q : Next_(q) \in Nat /\ Now(q) \in Nat /\ Then(q) \in Nat
  <2>1. tokens' \in Seq(Token) /\ tokens \in Seq(Token) /\ before \in Seq(Token)
    BY NodeSteps DEF NodeStep, TokensStep, GoodTokens, Inv, TypeOK
  <2> QED BY <2>1, LevelType
<1>3. before' = before
  BY DEF NextIndex
<1> SUFFICES \E r \in Nat : Next_(r) < Then(r) /\ \A q \in 0..r : Next_(q) <= Then(q)
  BY <1>3 DEF Dropped, SoFar
<1>4. CASE \A q : Now(q) = Then(q)
  <2> HIDE DEF p, Now, Then, Next_
  <2> QED BY <1>1, <1>4
<1>5. ASSUME Quiet \/ Turned(rank)
      PROVE  \A q : Now(q) = Then(q)
  <2>1. /\ DOMAIN tokens = DOMAIN before
        /\ \A i \in DOMAIN before : rank[tokens[i].loc] = rank[before[i].loc]
    BY <1>5 DEF Quiet, Turned
  <2> QED BY <2>1, LevelSame
<1>6. ASSUME NEW r \in Nat, Now(r) < Then(r), \A q \in 0..r : Now(q) <= Then(q)
      PROVE  \E s \in Nat : Next_(s) < Then(s) /\ \A q \in 0..s : Next_(q) <= Then(q)
  <2> HIDE DEF p, Now, Then, Next_
  <2>1. CASE p <= r
    <3>1. \A q \in 0..p : q \in 0..r
      BY <1>1, <2>1
    <3>2. p \in 0..p
      BY <1>1
    <3> QED BY <1>1, <1>2, <1>6, <3>1, <3>2
  <2>2. CASE r < p
    <3>1. \A q \in 0..r : q \in 0..p
      BY <1>1, <2>2
    <3>2. r \in 0..p
      BY <1>1, <2>2
    <3> QED BY <1>1, <1>2, <1>6, <3>1, <3>2
  <2> QED BY <1>1, <2>1, <2>2
<1> QED BY <1>4, <1>5, <1>6 DEF SoFar, Dropped

(* The step of a token keeps what the Step has done so far.                *)
LEMMA TokenKeepsFlow == ASSUME Inv, FlowInv, stepToken PROVE FlowInv'
<1>1. pc = "token" /\ UNCHANGED action /\ cursor \in DOMAIN tokens
  BY NodeSteps DEF stepToken
<1>2. PICK rank \in [Nodes -> Nat] : Ranks(graph, rank) /\ SoFar(rank)
  BY <1>1 DEF FlowInv
<1>3. Ranks(graph', rank)
  BY <1>1, <1>2 DEF graph
<1>4. CASE \E e \in NodeErrors : Return(e)
  BY <1>4 DEF Return, FlowInv
<1>5. CASE /\ NextIndex /\ UNCHANGED <<data, messages>>
           /\ Rest /\ \A i \in DOMAIN tokens : i = cursor => Held(i)'
  <2>1. SoFar(rank)'
    BY <1>1, <1>2, <1>5, RestSoFar
  <2> QED BY <1>3, <2>1 DEF FlowInv
<1>6. CASE NextIndex /\ (Rises(rank) \/ Turns(rank))
  <2>1. SoFar(rank)'
    BY <1>1, <1>2, <1>6, TurnsSoFar, RisesSoFar
  <2> QED BY <1>3, <2>1 DEF FlowInv
<1> QED BY <1>2, <1>4, <1>5, <1>6, TokenMoves

(* An index that the slice does not reach any more is held by no token.    *)
LEMMA SkipKeepsFlow == ASSUME Inv, FlowInv, SkipIndex PROVE FlowInv'
<1>1. /\ pc = "token" /\ cursor > Len(tokens) /\ NextIndex
      /\ UNCHANGED <<action, tokens, data, messages>>
  BY DEF SkipIndex, execVars
<1>2. PICK rank \in [Nodes -> Nat] : Ranks(graph, rank) /\ SoFar(rank)
  BY <1>1 DEF FlowInv
<1>3. Ranks(graph', rank)
  BY <1>1, <1>2 DEF graph
<1>4. Rest
  BY <1>1 DEF Rest
<1>5. \A i \in DOMAIN tokens : i # cursor
  <2>1. Len(tokens) \in Nat /\ DOMAIN tokens = 1..Len(tokens) /\ cursor \in Nat
    BY LenProperties DEF Inv, TypeOK
  <2> QED BY <1>1, <2>1
<1>6. SoFar(rank)'
  BY <1>1, <1>2, <1>4, <1>5, RestSoFar
<1> QED BY <1>3, <1>6 DEF FlowInv

(* At the start of a Step nothing has moved and nothing has been stepped.  *)
LEMMA BeginKeepsFlow ==
  ASSUME Inv, \A a \in Actions : LoopsAreSequential(Lowered[a]), NEW c, BeginStep(c)
  PROVE  FlowInv'
<1>1. /\ before' = tokens /\ cursor' = Len(tokens)
      /\ UNCHANGED <<action, tokens, data, messages>>
  BY DEF BeginStep
<1>2. PICK rank \in [Nodes -> Nat] : Ranks(graph, rank)
  BY DEF Inv, TypeOK, graph, LoopsAreSequential
<1>3. Ranks(graph', rank)
  BY <1>1, <1>2 DEF graph
<1>4. Len(tokens) \in Nat /\ DOMAIN tokens = 1..Len(tokens)
  BY LenProperties DEF Inv, TypeOK
<1>5. \A i \in DOMAIN tokens : ~(i > Len(tokens))
  BY <1>4
<1>6. Quiet'
  BY <1>1, <1>5 DEF Quiet
<1> QED BY <1>3, <1>6 DEF FlowInv, SoFar

(* A run enters the loop's head waiting only before its first Step.        *)
WaitingIsFresh == pc = "loop" /\ state = "Waiting" => steps = 0

(* Every step keeps it: a Step starts with nothing moved.                  *)
LEMMA NextKeepsFlow ==
  ASSUME Inv, FlowInv, WaitingIsFresh, \A a \in Actions : LoopsAreSequential(Lowered[a]),
         [Next]_vars
  PROVE  FlowInv' /\ WaitingIsFresh'
<1>1. CASE stepToken
  <2>1. pc' # "loop"
    BY <1>1, NodeSteps DEF NodeStep, TokensStep, NextIndex, Return
  <2> QED BY <1>1, <2>1, TokenKeepsFlow DEF WaitingIsFresh
<1>2. CASE SkipIndex
  <2>1. pc' # "loop"
    BY <1>2 DEF SkipIndex, NextIndex
  <2> QED BY <1>2, <2>1, SkipKeepsFlow DEF WaitingIsFresh
<1>3. CASE EndStep
  <2>1. pc' # "token" /\ (pc' = "loop" => state' = state /\ pc = "token")
    BY <1>3 DEF EndStep, Return
  <2>2. pc' = "loop" => state' # "Waiting"
    BY <2>1 DEF Inv, SteppingRuns
  <2> QED BY <2>1, <2>2 DEF FlowInv, WaitingIsFresh
<1>4. CASE RunLoop
  <2>1. (\E e \in Errors : Return(e)) \/ \E c : BeginStep(c)
    BY <1>4 DEF RunLoop, Errors
  <2>2. CASE \E e \in Errors : Return(e)
    BY <2>2 DEF Return, FlowInv, WaitingIsFresh
  <2>3. ASSUME NEW c, BeginStep(c)
        PROVE  FlowInv' /\ WaitingIsFresh'
    <3>1. pc' = "token"
      BY <2>3 DEF BeginStep
    <3> QED BY <2>3, <3>1, BeginKeepsFlow DEF WaitingIsFresh
  <2> QED BY <2>1, <2>2, <2>3
<1>5. CASE Step
  <2>1. (\E e \in Errors : Return(e)) \/ BeginStep("Step")
    BY <1>5 DEF Step, Errors
  <2>2. CASE \E e \in Errors : Return(e)
    BY <2>2 DEF Return, FlowInv, WaitingIsFresh
  <2>3. CASE BeginStep("Step")
    <3>1. pc' = "token"
      BY <2>3 DEF BeginStep
    <3> QED BY <2>3, <3>1, BeginKeepsFlow DEF WaitingIsFresh
  <2> QED BY <2>1, <2>2, <2>3
<1>6. CASE Run
  BY <1>6 DEF Run, FlowInv, WaitingIsFresh
<1>7. CASE initialize
  BY <1>7 DEF initialize, Return, FlowInv, WaitingIsFresh
<1>8. CASE \/ \E n \in Breakable : SetBreakpoint(n)
           \/ ClearBreakpoints
           \/ \E m \in Messages : PostMessage(m)
  BY <1>8 DEF SetBreakpoint, ClearBreakpoints, PostMessage, callVars, FlowInv, WaitingIsFresh
<1>9. CASE UNCHANGED vars
  <2>1. UNCHANGED <<pc, state, steps, action, tokens, before, cursor, data, messages>>
    BY <1>9 DEF vars, execVars, callVars
  <2>2. graph' = graph
    BY <2>1 DEF graph
  <2>3. \A i : Held(i)' <=> Held(i)
    BY <2>1, <2>2 DEF Held, TokensAt, getIncomingEdges, Acceptable
  <2>4. \A rank : SoFar(rank)' <=> SoFar(rank)
    BY <2>1, <2>3 DEF SoFar, Quiet, Turned, Dropped
  <2> QED BY <2>1, <2>2, <2>4 DEF FlowInv, WaitingIsFresh
<1> QED BY <1>1, <1>2, <1>3, <1>4, <1>5, <1>6, <1>7, <1>8, <1>9 DEF Next, Proceed

-----------------------------------------------------------------------------
(* How a call ends *)

(* A Step that takes itself to have made no progress has: every token is    *)
(* held.                                                                   *)
LEMMA NoProgressHolds ==
  ASSUME Inv, FlowInv, pc = "token", cursor = 0, ~Progress
  PROVE  \A i \in DOMAIN tokens : Held(i)
<1>1. /\ DOMAIN tokens = 1..Len(tokens) /\ DOMAIN before = 1..Len(before)
      /\ Len(tokens) \in Nat /\ tokens \in Seq(Token) /\ before \in Seq(Token)
  BY LenProperties DEF Inv, TypeOK
<1>2. DOMAIN tokens = DOMAIN before /\ \A i \in DOMAIN tokens : tokens[i].loc = before[i].loc
  BY <1>1 DEF Progress
<1>3. PICK rank \in [Nodes -> Nat] : SoFar(rank)
  BY DEF FlowInv
<1>4. ~Turned(rank)
  BY <1>2 DEF Turned
<1>5. ~Dropped(rank)
  <2>1. \A q : Level(rank, tokens, q) = Level(rank, before, q)
    BY <1>2, LevelSame
  <2>2. \A q : Level(rank, tokens, q) \in Nat
    BY <1>1, LevelType
  <2>3. \A q : ~(Level(rank, tokens, q) < Level(rank, before, q))
    BY <2>1, <2>2
  <2> QED BY <2>3 DEF Dropped
<1>6. Quiet /\ \A i \in DOMAIN tokens : i > cursor
  BY <1>1, <1>3, <1>4, <1>5 DEF SoFar
<1> QED BY <1>6 DEF Quiet

(* The step of a token reports an error of its node, or Step goes on.      *)
LEMMA TokenReturns ==
  ASSUME Inv, stepToken
  PROVE  (\E e \in NodeErrors : Return(e)) \/ NextIndex
<1> QED BY TokenEnds DEF TokenOutcome, Halts, StepFails, Waits, Stays, Ends, Moves, Advance, Splits, Gathers

AtShortJoin(i) ==
  /\ graph.kind[tokens[i].loc] = "join"
  /\ Cardinality(TokensAt(tokens[i].loc)) < Cardinality(getIncomingEdges(tokens[i].loc))

(* Only the end of a Step that made no progress reports a deadlock.        *)
LEMMA DeadlockInNext ==
  ASSUME Inv, FlowInv, [Next]_vars, CallEnds, err' = "deadlock"
  PROVE  \A i \in DOMAIN tokens : AtShortJoin(i)
<1>1. CASE EndStep
  <2>1. pc = "token" /\ cursor = 0 /\ ~Progress /\ ~anyTokenWaiting
    BY <1>1 DEF EndStep, Return, CallEnds
  <2>2. \A i \in DOMAIN tokens : Held(i)
    BY <2>1, NoProgressHolds
  <2> QED BY <2>1, <2>2 DEF Held, anyTokenWaiting, AtShortJoin
<1>2. CASE stepToken
  BY <1>2, TokenReturns DEF NodeErrors, Return, NextIndex, CallEnds
<1>3. CASE ~stepToken /\ ~EndStep
  BY <1>3 DEF Next, Proceed, SkipIndex, NextIndex, RunLoop, BeginStep, Return, initialize, Step,
              Run, RunCalls, SetBreakpoint, ClearBreakpoints, PostMessage, callVars, vars, CallEnds
<1> QED BY <1>1, <1>2, <1>3

(* A call leaves the action waiting only at the end of such a Step: a run's *)
(* budget is not spent before its first Step.                              *)
LEMMA SuspensionInNext ==
  ASSUME Inv, FlowInv, WaitingIsFresh, [Next]_vars, CallEnds, state' = "Waiting"
  PROVE  \A i \in DOMAIN tokens : ~CanProceed(tokens[i])
<1>1. CASE EndStep
  <2>1. pc = "token" /\ cursor = 0
    BY <1>1 DEF EndStep
  <2>2. ~Progress
    BY <1>1, <2>1 DEF EndStep, Inv, SteppingRuns
  <2>3. \A i \in DOMAIN tokens : Held(i)
    BY <2>1, <2>2, NoProgressHolds
  <2> QED BY <2>3 DEF Held, CanProceed
<1>2. CASE stepToken
  <2>1. state' = "Running" \/ state' = "Completed"
    BY <1>2, NodeSteps DEF NodeStep, TokensStep, Inv, SteppingRuns
  <2> QED BY <2>1
<1>3. CASE RunLoop
  <2>1. state = "Waiting" /\ pc = "loop" /\ steps >= MaxActionSteps
    BY <1>3 DEF RunLoop, BeginStep, execVars, CallEnds
  <2>2. steps = 0
    BY <2>1 DEF WaitingIsFresh
  <2> QED BY <2>1, <2>2, BoundsAssumption
<1>4. CASE ~stepToken /\ ~EndStep /\ ~RunLoop
  BY <1>4 DEF Next, Proceed, SkipIndex, NextIndex, BeginStep, Return, initialize, Step,
              Run, RunCalls, SetBreakpoint, ClearBreakpoints, PostMessage, callVars, execVars, vars,
              CallEnds
<1> QED BY <1>1, <1>2, <1>3, <1>4

(* The invariant of the calls, in the graphs it holds of.                  *)
LEMMA FlowInvariance ==
  ASSUME \A a \in Actions : LoopsAreSequential(Lowered[a])
  PROVE  Spec => [](Inv /\ FlowInv /\ WaitingIsFresh)
<1>1. Init => FlowInv /\ WaitingIsFresh
  BY DEF Init, FlowInv, WaitingIsFresh
<1>2. Inv /\ FlowInv /\ WaitingIsFresh /\ [Next]_vars => FlowInv' /\ WaitingIsFresh'
  BY NextKeepsFlow
<1> QED BY <1>1, <1>2, Invariance, PTL DEF Spec

(* ErrActionDeadlock is never reported of an action that moved: the call    *)
(* that reports it has stepped every token and each is held at a join that  *)
(* lacks tokens, in every graph whose loops pass neither fork nor join.     *)
(* Step tells progress by the number of tokens and the location at each     *)
(* index, and a loop through a fork can leave both as they were.           *)
THEOREM DeadlockReported ==
  ASSUME \A a \in Actions : LoopsAreSequential(Lowered[a])
  PROVE  Spec => DeadlockIsReal
<1>1. Inv /\ FlowInv /\ [Next]_vars
        => [CallEnds /\ err' = "deadlock" => \A i \in DOMAIN tokens : AtShortJoin(i)]_vars
  BY DeadlockInNext
<1> QED BY <1>1, FlowInvariance, PTL DEF Spec, DeadlockIsReal, AtShortJoin

(* A suspension is real, in the same graphs: a call that leaves the action  *)
(* waiting has polled every token since the last message was sent and the   *)
(* last value assigned, and none of them can go on.                        *)
THEOREM SuspensionReported ==
  ASSUME \A a \in Actions : LoopsAreSequential(Lowered[a])
  PROVE  Spec => SuspensionIsReal
<1>1. Inv /\ FlowInv /\ WaitingIsFresh /\ [Next]_vars
        => [CallEnds /\ state' = "Waiting"
              => \A i \in DOMAIN tokens : ~CanProceed(tokens[i])]_vars
  BY SuspensionInNext
<1> QED BY <1>1, FlowInvariance, PTL DEF Spec, SuspensionIsReal

-----------------------------------------------------------------------------
(* Which entries of the slice the step of a token leaves alone *)

(* The entries below the cursor stay where they are.                       *)
Below ==
  \A j \in DOMAIN tokens' :
    j < cursor => /\ j \in DOMAIN tokens
                  /\ tokens'[j].id = tokens[j].id /\ tokens'[j].loc = tokens[j].loc

(* Every token is one that was there before, or is the one stepped, or made *)
(* of it, behind one of the successions of its node.                       *)
Passes ==
  \A j \in DOMAIN tokens' :
    \/ \E i \in DOMAIN tokens :
         tokens'[j].id = tokens[i].id /\ tokens'[j].loc = tokens[i].loc
    \/ /\ tokens'[j].id >= nextTokenID \/ tokens'[j].id = tokens[cursor].id
       /\ \E i \in DOMAIN graph.edges[Here] : tokens'[j].loc = graph.edges[Here][i]

(* A token that leaves the slice.                                          *)
LEMMA EndsBelow ==
  ASSUME Inv, cursor \in DOMAIN tokens, NEW ts, SameFlow(ts), Ends(ts)
  PROVE  Below /\ Passes
<1> QED BY RemovedEntries DEF Ends, Below, Passes

(* A token that moves.                                                     *)
LEMMA MovesBelow ==
  ASSUME Inv, cursor \in DOMAIN tokens, NEW ts, SameFlow(ts), Moves(ts)
  PROVE  Below /\ Passes
<1>1. PICK i \in DOMAIN graph.edges[Here] : Advance(ts, graph.edges[Here][i])
  BY DEF Moves
<1> DEFINE m == graph.edges[Here][i]
<1>2. tokens' = [ts EXCEPT ![cursor].loc = m]
  BY <1>1 DEF Advance
<1>3. /\ GoodTokens(graph, ts, nextTokenID) /\ nextTokenID \in Nat
      /\ DOMAIN ts = DOMAIN tokens
      /\ \A j \in DOMAIN ts : ts[j].id = tokens[j].id /\ ts[j].loc = tokens[j].loc
  BY InvTokens DEF SameFlow
<1>4. ts[cursor] \in Token /\ \A j \in DOMAIN ts : j \in Nat
  <2>1. ts \in Seq(Token)
    BY <1>3 DEF GoodTokens
  <2> QED BY <1>3, <2>1, KnownIds, LenProperties
<1>5. m = graph.edges[Here][i]
  OBVIOUS
<1> HIDE DEF m
<1>6. /\ DOMAIN tokens' = DOMAIN tokens
      /\ tokens'[cursor].loc = m
      /\ \A j \in DOMAIN tokens : /\ tokens'[j].id = tokens[j].id
                                  /\ j # cursor => tokens'[j].loc = tokens[j].loc
  BY <1>2, <1>3, <1>4 DEF Token
<1>7. Below
  <2>1. \A j \in DOMAIN tokens : j < cursor => j # cursor
    BY <1>3, <1>4
  <2> QED BY <1>6, <2>1 DEF Below
<1>8. Passes
  BY <1>5, <1>6 DEF Passes
<1> QED BY <1>7, <1>8

(* A token that splits.                                                    *)
LEMMA SplitsBelow ==
  ASSUME Inv, cursor \in DOMAIN tokens, Splits
  PROVE  Below /\ Passes
<1> QED BY SplitEntries DEF Below, Passes

(* So whatever the node is, unless it is a join.                           *)
LEMMA TokenBelow ==
  ASSUME Inv, stepToken, graph.kind[Here] # "join", NextIndex
  PROVE  Below /\ Passes
<1>1. cursor \in DOMAIN tokens /\ pc = "token"
  BY NodeSteps
<1>2. \A ts \in {tokens, Resumed} : SameFlow(ts)
  BY <1>1, InvTokens, WaitChange
<1>3. CASE Waits
  <2>1. tokens' = tokens \/ tokens' = Parked
    BY <1>3 DEF Waits, Stays
  <2>2. tokens[cursor] \in Token
    BY <1>1, SteppingFacts
  <2>3. /\ DOMAIN tokens' = DOMAIN tokens
        /\ \A i \in DOMAIN tokens : /\ tokens'[i].id = tokens[i].id
                                    /\ tokens'[i].loc = tokens[i].loc
    BY <1>1, <2>1, <2>2 DEF Parked, Token
  <2> QED BY <2>3 DEF Below, Passes
<1>4. CASE \E ts \in {tokens, Resumed} : Ends(ts) \/ Moves(ts)
  BY <1>1, <1>2, <1>4, EndsBelow, MovesBelow
<1>5. CASE Splits
  BY <1>1, <1>5, SplitsBelow
<1>6. ~\E e \in NodeErrors : Return(e)
  BY <1>1 DEF NextIndex, Return
<1> QED BY <1>3, <1>4, <1>5, <1>6, TokenEnds DEF TokenOutcome, Halts, StepFails, Gathers

-----------------------------------------------------------------------------
(* Breakpoints *)

(* No succession of g leads to a join, and its flow does not start at one.  *)
JoinsNothing(g) ==
  \A n \in Nodes : g.kind[n] = "join" =>
    /\ g.initial # n
    /\ \A m \in Nodes : \A i \in DOMAIN g.edges[m] : g.edges[m][i] # n

(* The nodes of g can be ranked so that every succession leads up.         *)
Climbs(g, rank) ==
  \A n \in Nodes : \A i \in DOMAIN g.edges[n] : rank[n] < rank[g.edges[n][i]]

LoopFree(g) == \E rank \in [Nodes -> Nat] : Climbs(g, rank)

NoTokenJoins == \A i \in DOMAIN tokens : graph.kind[tokens[i].loc] # "join"

(* Clearing the breakpoints forgets the visits.                            *)
NoneFired == breakpoints = {} => firedBreakpoints = {}

(* A visit on record that lasts is one a run has stopped on.               *)
FiredIsStopped == \A v \in firedBreakpoints : VisitHolds(v, tokens) => v \in stopped

(* The tokens that a run's Step has yet to step are on no breakpoint that   *)
(* the run has not stopped at.                                             *)
StoppedBelow ==
  pc = "token" /\ call \in RunCalls =>
    \A i \in DOMAIN tokens : i <= cursor /\ tokens[i].loc \in breakpoints
                               => VisitOf(tokens[i]) \in stopped

StopInv == NoTokenJoins /\ NoneFired /\ FiredIsStopped /\ StoppedBelow

(* The token that is stepped does not come to where it was stopped before.  *)
NoReturn ==
  \A v \in firedBreakpoints :
    v.token = tokens[cursor].id /\ VisitHolds(v, tokens') => v.node = Here

(* A visit on record names a token by an id that has been handed out.      *)
LEMMA FiredType ==
  ASSUME Inv, NEW v \in firedBreakpoints
  PROVE  v \in Visit /\ v.token \in Nat /\ v.node \in Nodes /\ ~(v.token >= nextTokenID)
<1>1. v \in Visit
  BY DEF Inv, TypeOK
<1>2. v.token \in Nat /\ v.node \in Nodes /\ v.token < nextTokenID /\ nextTokenID \in Nat
  BY <1>1 DEF Visit, Inv, TypeOK, TokenIdentity
<1> QED BY <1>1, <1>2

(* The step of a token keeps a visit on record only where the token stays.  *)
LEMMA TokenKeepsFired ==
  ASSUME Inv, stepToken, FiredIsStopped, NoReturn
  PROVE  FiredIsStopped'
<1>1. /\ firedBreakpoints' = firedBreakpoints /\ cursor \in DOMAIN tokens
      /\ stopped' = {v \in stopped : VisitHolds(v, tokens')}
      /\ From(tokens, cursor, tokens', nextTokenID)
  BY NodeSteps DEF stepToken, debugVars, NodeStep, TokensStep
<1> SUFFICES ASSUME NEW v \in firedBreakpoints, VisitHolds(v, tokens')
             PROVE  VisitHolds(v, tokens)
  BY <1>1 DEF FiredIsStopped
<1>2. PICK j \in DOMAIN tokens' : tokens'[j].id = v.token /\ tokens'[j].loc = v.node
  BY DEF VisitHolds
<1>3. PICK i \in DOMAIN tokens : /\ tokens'[j].id = tokens[i].id
                                 /\ i # cursor => tokens'[j].loc = tokens[i].loc
  BY <1>1, <1>2, FiredType DEF From
<1>4. CASE i # cursor
  BY <1>2, <1>3, <1>4 DEF VisitHolds
<1>5. CASE i = cursor
  <2>1. v.node = tokens[i].loc
    BY <1>2, <1>3, <1>5 DEF NoReturn, Here
  <2> QED BY <1>2, <1>3, <2>1 DEF VisitHolds
<1> QED BY <1>4, <1>5

(* The step of a token that does not return to where it was stopped.       *)
LEMMA TokenKeepsStops ==
  ASSUME Inv, JoinsNothing(graph), StopInv, NoReturn, stepToken
  PROVE  StopInv'
<1>1. /\ cursor \in DOMAIN tokens /\ Here \in Nodes /\ graph.kind[Here] # "join"
      /\ UNCHANGED <<action, breakpoints, firedBreakpoints>>
      /\ stopped' = {v \in stopped : VisitHolds(v, tokens')}
  BY NodeSteps, SteppingFacts DEF stepToken, debugVars, StopInv, NoTokenJoins, Here
<1>2. graph' = graph
  BY <1>1 DEF graph
<1>3. cursor \in Nat /\ (\A i \in DOMAIN tokens : i \in Nat) /\ \A i \in DOMAIN tokens' : i \in Nat
  <2>1. tokens \in Seq(Token) /\ tokens' \in Seq(Token) /\ cursor \in Nat
    BY NodeSteps DEF Inv, TypeOK, NodeStep, TokensStep, GoodTokens
  <2> QED BY <2>1, LenProperties
<1>4. NoneFired' /\ FiredIsStopped'
  BY <1>1, TokenKeepsFired DEF StopInv, NoneFired
<1>5. CASE \E e \in NodeErrors : Return(e)
  <2>1. pc = "token" /\ pc' = "idle"
    BY <1>5, NodeSteps DEF Return
  <2>2. \E ts \in {tokens, Resumed} : tokens' = ts
    BY <2>1, TokenEnds DEF TokenOutcome, Halts, StepFails, Waits, Stays, Ends, Moves, Advance,
                           Splits, Gathers, NextIndex
  <2>3. \A i \in DOMAIN tokens' : i \in DOMAIN tokens /\ tokens'[i].loc = tokens[i].loc
    BY <1>1, <2>2, InvTokens, WaitChange DEF SameFlow
  <2> QED BY <1>2, <1>4, <2>1, <2>3 DEF StopInv, NoTokenJoins, StoppedBelow
<1>6. CASE NextIndex
  <2>1. Below /\ Passes
    BY <1>1, <1>6, TokenBelow
  <2>2. NoTokenJoins'
    <3> SUFFICES ASSUME NEW j \in DOMAIN tokens' PROVE graph.kind[tokens'[j].loc] # "join"
      BY <1>2 DEF NoTokenJoins
    <3>1. CASE \E i \in DOMAIN tokens : tokens'[j].loc = tokens[i].loc
      BY <3>1 DEF StopInv, NoTokenJoins
    <3>2. CASE \E i \in DOMAIN graph.edges[Here] : tokens'[j].loc = graph.edges[Here][i]
      BY <1>1, <3>2, EdgeNodes DEF JoinsNothing
    <3> QED BY <2>1, <3>1, <3>2 DEF Passes
  <2>3. StoppedBelow'
    <3> SUFFICES ASSUME pc = "token", call \in RunCalls, NEW i \in DOMAIN tokens',
                        i <= cursor - 1, tokens'[i].loc \in breakpoints
                 PROVE  VisitOf(tokens'[i]) \in stopped'
      BY <1>1, <1>6 DEF NextIndex, StoppedBelow
    <3>1. i < cursor /\ i <= cursor
      BY <1>3
    <3>2. i \in DOMAIN tokens /\ tokens'[i].id = tokens[i].id /\ tokens'[i].loc = tokens[i].loc
      BY <2>1, <3>1 DEF Below
    <3>3. VisitOf(tokens'[i]) \in stopped
      BY <3>1, <3>2 DEF StopInv, StoppedBelow, VisitOf
    <3>4. VisitHolds(VisitOf(tokens'[i]), tokens')
      BY DEF VisitHolds, VisitOf
    <3> QED BY <1>1, <3>3, <3>4
  <2> QED BY <1>4, <2>2, <2>3 DEF StopInv
<1> QED BY <1>5, <1>6, TokenReturns

(* The head of the run loop, when no token is on a breakpoint that the run  *)
(* has not stopped at.                                                     *)
LEMMA LoopKeepsStops ==
  ASSUME Inv, StopInv, RunLoop
  PROVE  StopInv'
<1>1. UNCHANGED <<action, tokens, breakpoints>> /\ graph' = graph
  BY DEF RunLoop, BeginStep, execVars, debugVars, graph
<1>2. NoTokenJoins'
  BY <1>1 DEF StopInv, NoTokenJoins
<1>3. LiveVisits \subseteq firedBreakpoints
  BY LiveVisitsKeepsStopped
<1>4. CASE pc' # "token" /\ UNCHANGED <<firedBreakpoints, stopped>>
  BY <1>1, <1>2, <1>4 DEF StopInv, NoneFired, FiredIsStopped, StoppedBelow
<1>5. ASSUME NEW i \in Unfired, pc' # "token",
             firedBreakpoints' = LiveVisits \cup {VisitOf(tokens[i])},
             stopped' = stopped \cup {VisitOf(tokens[i])}
      PROVE  StopInv'
  <2>1. breakpoints # {}
    BY DEF Unfired
  <2>2. FiredIsStopped'
    BY <1>1, <1>3, <1>5 DEF StopInv, FiredIsStopped
  <2> QED BY <1>1, <1>2, <1>5, <2>1, <2>2 DEF StopInv, NoneFired, StoppedBelow
<1>6. CASE Unfired = {} /\ firedBreakpoints' = LiveVisits /\ UNCHANGED stopped
  <2>1. \A i \in DOMAIN tokens :
          tokens[i].loc \in breakpoints => VisitOf(tokens[i]) \in stopped
    <3> SUFFICES ASSUME NEW i \in DOMAIN tokens, tokens[i].loc \in breakpoints
                 PROVE  VisitOf(tokens[i]) \in stopped
      OBVIOUS
    <3>1. VisitOf(tokens[i]) \in firedBreakpoints
      BY <1>3, <1>6 DEF Unfired
    <3>2. VisitHolds(VisitOf(tokens[i]), tokens)
      BY DEF VisitHolds, VisitOf
    <3> QED BY <3>1, <3>2 DEF StopInv, FiredIsStopped
  <2> QED BY <1>1, <1>2, <1>3, <1>6, <2>1 DEF StopInv, NoneFired, FiredIsStopped, StoppedBelow
<1>7. \/ pc' # "token" /\ UNCHANGED <<firedBreakpoints, stopped>>
      \/ \E i \in Unfired : /\ pc' # "token"
                            /\ firedBreakpoints' = LiveVisits \cup {VisitOf(tokens[i])}
                            /\ stopped' = stopped \cup {VisitOf(tokens[i])}
      \/ Unfired = {} /\ firedBreakpoints' = LiveVisits /\ UNCHANGED stopped
  BY DEF RunLoop, BeginStep, Return, debugVars
<1> QED BY <1>4, <1>5, <1>6, <1>7

(* The first token has an id no visit names.                               *)
LEMMA InitializeKeepsStops ==
  ASSUME Inv, JoinsNothing(graph), StopInv, initialize
  PROVE  /\ StopInv'
         /\ \A v \in firedBreakpoints, j \in DOMAIN tokens' :
              tokens'[j].id = v.token => j \in DOMAIN tokens /\ tokens'[j] = tokens[j]
<1>1. /\ UNCHANGED <<action, breakpoints, firedBreakpoints, stopped>> /\ pc' = "idle"
      /\ graph' = graph
  BY DEF initialize, Return, debugVars, graph
<1>2. CASE tokens' = tokens
  BY <1>1, <1>2 DEF StopInv, NoTokenJoins, NoneFired, FiredIsStopped, StoppedBelow
<1>3. CASE graph.initial # None /\ tokens' = Append(tokens, NewToken(nextTokenID, graph.initial))
  <2> DEFINE t == NewToken(nextTokenID, graph.initial)
  <2>1. /\ graph.initial \in Nodes /\ tokens \in Seq(Token) /\ nextTokenID \in Nat
        /\ Len(tokens) \in Nat /\ DOMAIN tokens = 1..Len(tokens)
    BY <1>3, GraphType, LenProperties DEF Inv, TypeOK, IsGraph
  <2>2. t \in Token /\ t.id = nextTokenID /\ t.loc = graph.initial
    BY <2>1 DEF NewToken, Token
  <2>3. tokens' = Append(tokens, t)
    BY <1>3
  <2> HIDE DEF t
  <2>4. /\ tokens' \in Seq(Token) /\ Len(tokens') = Len(tokens) + 1
        /\ \A j \in 1..Len(tokens) : tokens'[j] = tokens[j]
        /\ tokens'[Len(tokens) + 1] = t
    BY <2>1, <2>2, <2>3, AppendProperties
  <2>5. \A j \in DOMAIN tokens' : \/ j \in DOMAIN tokens /\ tokens'[j] = tokens[j]
                                  \/ tokens'[j] = t
    BY <2>1, <2>4, LenProperties
  <2>6. ASSUME NEW v \in firedBreakpoints, NEW j \in DOMAIN tokens', tokens'[j].id = v.token
        PROVE  j \in DOMAIN tokens /\ tokens'[j] = tokens[j]
    <3>1. v.token \in Nat /\ ~(v.token >= nextTokenID)
      BY FiredType
    <3>2. tokens'[j] # t
      BY <2>1, <2>2, <2>6, <3>1
    <3> QED BY <2>5, <3>2
  <2>7. FiredIsStopped'
    <3> SUFFICES ASSUME NEW v \in firedBreakpoints, VisitHolds(v, tokens')
                 PROVE  v \in stopped
      BY <1>1 DEF FiredIsStopped
    <3>1. VisitHolds(v, tokens)
      BY <2>6 DEF VisitHolds
    <3> QED BY <3>1 DEF StopInv, FiredIsStopped
  <2>8. NoTokenJoins'
    <3>1. graph.kind[t.loc] # "join"
      BY <2>1, <2>2 DEF JoinsNothing
    <3> QED BY <1>1, <2>5, <3>1 DEF StopInv, NoTokenJoins
  <2> QED BY <1>1, <2>6, <2>7, <2>8 DEF StopInv, NoneFired, StoppedBelow
<1> QED BY <1>2, <1>3 DEF initialize

(* No step but a token's brings a token onto a breakpoint.                 *)
LEMMA OthersKeepStops ==
  ASSUME Inv, JoinsNothing(graph), StopInv, ~stepToken, [Next]_vars
  PROVE  StopInv'
<1>1. CASE RunLoop
  BY <1>1, LoopKeepsStops
<1>2. CASE initialize
  BY <1>2, InitializeKeepsStops
<1>3. ASSUME UNCHANGED <<action, tokens, firedBreakpoints, stopped>>,
             \/ breakpoints' = breakpoints
             \/ \E n \in Breakable : breakpoints' = breakpoints \cup {n},
             \/ pc' # "token" \/ call' \notin RunCalls
             \/ UNCHANGED <<pc, call, breakpoints>> /\ cursor' = cursor - 1
      PROVE  StopInv'
  <2>1. graph' = graph
    BY <1>3 DEF graph
  <2>2. \A i \in DOMAIN tokens : i \in Nat /\ cursor \in Nat
    <3>1. tokens \in Seq(Token) /\ cursor \in Nat
      BY DEF Inv, TypeOK
    <3> QED BY <3>1, LenProperties
  <2>3. NoTokenJoins' /\ NoneFired' /\ FiredIsStopped'
    BY <1>3, <2>1 DEF StopInv, NoTokenJoins, NoneFired, FiredIsStopped
  <2>4. StoppedBelow'
    <3>1. CASE pc' # "token" \/ call' \notin RunCalls
      BY <3>1 DEF StoppedBelow
    <3>2. CASE UNCHANGED <<pc, call, breakpoints>> /\ cursor' = cursor - 1
      <4>1. \A i \in DOMAIN tokens : i <= cursor' => i <= cursor
        BY <2>2, <3>2
      <4> QED BY <1>3, <3>2, <4>1 DEF StopInv, StoppedBelow
    <3> QED BY <1>3, <3>1, <3>2
  <2> QED BY <2>3, <2>4 DEF StopInv
<1>4. CASE ClearBreakpoints
  <2>1. /\ UNCHANGED <<action, tokens>> /\ firedBreakpoints' = {} /\ pc' = "idle"
        /\ graph' = graph
    BY <1>4 DEF ClearBreakpoints, execVars, callVars, graph
  <2> QED BY <2>1 DEF StopInv, NoTokenJoins, NoneFired, FiredIsStopped, StoppedBelow
<1>5. CASE SkipIndex \/ EndStep
  <2>1. /\ UNCHANGED <<action, tokens, firedBreakpoints, stopped, breakpoints>>
        /\ \/ pc' # "token"
           \/ UNCHANGED <<pc, call, breakpoints>> /\ cursor' = cursor - 1
    BY <1>5 DEF SkipIndex, EndStep, NextIndex, Return, execVars, debugVars
  <2> QED BY <1>3, <2>1
<1>6. CASE Step \/ Run
  <2>1. /\ UNCHANGED <<action, tokens, firedBreakpoints, stopped, breakpoints>>
        /\ pc' # "token" \/ call' \notin RunCalls
    BY <1>6 DEF Step, Run, BeginStep, Return, execVars, RunCalls
  <2> QED BY <1>3, <2>1
<1>7. CASE (\E n \in Breakable : SetBreakpoint(n)) \/ \E m \in Messages : PostMessage(m)
  <2>1. /\ UNCHANGED <<action, tokens, firedBreakpoints, stopped>> /\ pc' # "token"
        /\ \/ breakpoints' = breakpoints
           \/ \E n \in Breakable : breakpoints' = breakpoints \cup {n}
    BY <1>7 DEF SetBreakpoint, PostMessage, execVars, callVars, debugVars
  <2> QED BY <1>3, <2>1
<1>8. CASE UNCHANGED vars
  <2>1. UNCHANGED <<action, tokens, breakpoints, firedBreakpoints, stopped, pc, call, cursor>>
    BY <1>8 DEF vars, execVars, debugVars, callVars
  <2>2. graph' = graph
    BY <2>1 DEF graph
  <2> QED BY <2>1, <2>2 DEF StopInv, NoTokenJoins, NoneFired, FiredIsStopped, StoppedBelow
<1> QED BY <1>1, <1>2, <1>4, <1>5, <1>6, <1>7, <1>8 DEF Next, Proceed

-----------------------------------------------------------------------------
(* Why a token does not come back to a node it was stopped at *)

(* A token yet to be stepped is where each of its visits on record was.    *)
NotMoved ==
  pc = "token" =>
    \A v \in firedBreakpoints, i \in DOMAIN tokens :
      i <= cursor /\ tokens[i].id = v.token => tokens[i].loc = v.node

(* Runs alone: in the Step of a run a token is stepped once, and visits     *)
(* that are over were forgotten before it.                                 *)
LEMMA NextKeepsNotMoved ==
  ASSUME Inv, JoinsNothing(graph), StopInv, NotMoved, "Step" \notin DriverCalls, [Next]_vars
  PROVE  NotMoved'
<1>1. \A i \in DOMAIN tokens : i \in Nat /\ cursor \in Nat
  <2>1. tokens \in Seq(Token) /\ cursor \in Nat
    BY DEF Inv, TypeOK
  <2> QED BY <2>1, LenProperties
<1>2. CASE pc' # "token"
  BY <1>2 DEF NotMoved
<1>3. CASE stepToken /\ NextIndex
  <2>1. /\ graph.kind[Here] # "join" /\ firedBreakpoints' = firedBreakpoints /\ pc = "token"
        /\ cursor' = cursor - 1
    BY <1>3, NodeSteps DEF stepToken, debugVars, NextIndex, StopInv, NoTokenJoins, Here
  <2>2. Below
    BY <1>3, <2>1, TokenBelow
  <2>3. \A i \in DOMAIN tokens' : i \in Nat /\ cursor \in Nat
    <3>1. tokens' \in Seq(Token) /\ cursor \in Nat
      BY <1>3, NodeSteps DEF Inv, TypeOK, NodeStep, TokensStep, GoodTokens
    <3> QED BY <3>1, LenProperties
  <2>4. ASSUME NEW v \in firedBreakpoints, NEW i \in DOMAIN tokens',
               i <= cursor - 1, tokens'[i].id = v.token
        PROVE  tokens'[i].loc = v.node
    <3>1. i < cursor /\ i <= cursor
      BY <2>3, <2>4
    <3> QED BY <2>1, <2>2, <2>4, <3>1 DEF Below, NotMoved
  <2> QED BY <2>1, <2>4 DEF NotMoved
<1>4. CASE SkipIndex
  <2>1. UNCHANGED <<tokens, firedBreakpoints, pc>> /\ cursor' = cursor - 1
    BY <1>4 DEF SkipIndex, NextIndex, execVars, debugVars
  <2>2. \A i \in DOMAIN tokens : i <= cursor - 1 => i <= cursor
    BY <1>1
  <2> QED BY <2>1, <2>2 DEF NotMoved
<1>5. CASE RunLoop /\ pc' = "token"
  <2>1. tokens' = tokens /\ firedBreakpoints' = LiveVisits
    BY <1>5 DEF RunLoop, Return, BeginStep
  <2>2. ASSUME NEW v \in LiveVisits, NEW i \in DOMAIN tokens, tokens[i].id = v.token
        PROVE  tokens[i].loc = v.node
    <3>1. VisitHolds(v, tokens)
      BY DEF LiveVisits, StopInv, NoneFired
    <3>2. PICK j \in DOMAIN tokens : tokens[j].id = v.token /\ tokens[j].loc = v.node
      BY <3>1 DEF VisitHolds
    <3>3. i = j
      BY <2>2, <3>2 DEF Inv, TokenIdentity
    <3> QED BY <3>2, <3>3
  <2> QED BY <2>1, <2>2 DEF NotMoved
<1>6. CASE UNCHANGED vars
  BY <1>6 DEF vars, execVars, debugVars, callVars, NotMoved
<1>7. stepToken => pc' # "token" \/ NextIndex
  BY TokenReturns DEF Return
<1>8. CASE ~stepToken /\ ~SkipIndex /\ ~RunLoop
  <2>1. pc' # "token" \/ UNCHANGED vars
    BY <1>8 DEF Next, Proceed, EndStep, Return, initialize, Step, Calling, Run, SetBreakpoint,
                ClearBreakpoints, PostMessage, callVars
  <2> QED BY <1>2, <1>6, <2>1
<1> QED BY <1>2, <1>3, <1>4, <1>5, <1>7, <1>8

(* A token that has left a node it was stopped at has gone up.             *)
Above(rank) ==
  \A v \in firedBreakpoints, i \in DOMAIN tokens :
    tokens[i].id = v.token => tokens[i].loc = v.node \/ rank[v.node] < rank[tokens[i].loc]

(* In a graph without loops no succession leads back.                      *)
LEMMA TokenKeepsAbove ==
  ASSUME Inv, StopInv, NEW rank \in [Nodes -> Nat], Climbs(graph, rank), Above(rank), stepToken
  PROVE  NoReturn /\ Above(rank)'
<1>1. /\ cursor \in DOMAIN tokens /\ Here \in Nodes /\ graph.kind[Here] # "join"
      /\ firedBreakpoints' = firedBreakpoints
  BY NodeSteps, SteppingFacts DEF stepToken, debugVars, StopInv, NoTokenJoins, Here
<1>2. ASSUME NEW v \in firedBreakpoints, NEW j \in DOMAIN tokens', tokens'[j].id = v.token
      PROVE  \/ \E i \in DOMAIN tokens : tokens[i].id = v.token /\ tokens'[j].loc = tokens[i].loc
             \/ /\ tokens[cursor].id = v.token
                /\ \E i \in DOMAIN graph.edges[Here] : tokens'[j].loc = graph.edges[Here][i]
  <2>1. CASE NextIndex
    <3>1. Passes
      BY <1>1, <2>1, TokenBelow
    <3> QED BY <1>2, <3>1, FiredType DEF Passes
  <2>2. CASE \E e \in NodeErrors : Return(e)
    <3>1. pc = "token" /\ pc' = "idle"
      BY <2>2, NodeSteps DEF Return
    <3>2. \E ts \in {tokens, Resumed} : tokens' = ts
      BY <3>1, TokenEnds DEF TokenOutcome, Halts, StepFails, Waits, Stays, Ends, Moves, Advance,
                             Splits, Gathers, NextIndex
    <3>3. /\ DOMAIN tokens' = DOMAIN tokens
          /\ \A i \in DOMAIN tokens : tokens'[i].id = tokens[i].id /\ tokens'[i].loc = tokens[i].loc
      BY <1>1, <3>2, InvTokens, WaitChange DEF SameFlow
    <3> QED BY <1>2, <3>3
  <2> QED BY <2>1, <2>2, TokenReturns
<1>3. ASSUME NEW v \in firedBreakpoints, tokens[cursor].id = v.token,
             NEW i \in DOMAIN graph.edges[Here]
      PROVE  /\ rank[v.node] < rank[graph.edges[Here][i]]
             /\ graph.edges[Here][i] # v.node
  <2> DEFINE m == graph.edges[Here][i]
  <2>1. m \in Nodes /\ rank[Here] < rank[m]
    BY <1>1, EdgeNodes DEF Climbs
  <2>2. v.node = Here \/ rank[v.node] < rank[Here]
    BY <1>1, <1>3 DEF Above, Here
  <2>3. v.node \in Nodes
    BY FiredType
  <2> HIDE DEF m
  <2>4. rank[m] \in Nat /\ rank[Here] \in Nat /\ rank[v.node] \in Nat
    BY <1>1, <2>1, <2>3
  <2>5. rank[v.node] < rank[m]
    BY <2>1, <2>2, <2>4
  <2>6. m # v.node
    BY <2>4, <2>5
  <2> QED BY <2>5, <2>6 DEF m
<1>4. NoReturn
  <2> SUFFICES ASSUME NEW v \in firedBreakpoints, v.token = tokens[cursor].id,
                      NEW j \in DOMAIN tokens', tokens'[j].id = v.token, tokens'[j].loc = v.node
               PROVE  v.node = Here
    BY DEF NoReturn, VisitHolds
  <2>1. PICK i \in DOMAIN tokens : tokens[i].id = v.token /\ tokens'[j].loc = tokens[i].loc
    BY <1>2, <1>3
  <2>2. i = cursor
    BY <1>1, <2>1 DEF Inv, TokenIdentity
  <2> QED BY <2>1, <2>2 DEF Here
<1>5. Above(rank)'
  <2> SUFFICES ASSUME NEW v \in firedBreakpoints, NEW j \in DOMAIN tokens',
                      tokens'[j].id = v.token
               PROVE  tokens'[j].loc = v.node \/ rank[v.node] < rank[tokens'[j].loc]
    BY <1>1 DEF Above
  <2> QED BY <1>2, <1>3 DEF Above
<1> QED BY <1>4, <1>5

(* No step but a token's moves a token.                                    *)
LEMMA OthersKeepAbove ==
  ASSUME Inv, JoinsNothing(graph), StopInv, NEW rank, Above(rank), ~stepToken, [Next]_vars
  PROVE  Above(rank)'
<1>1. ASSUME NEW new, firedBreakpoints' \subseteq firedBreakpoints \cup new,
             \A v \in new : \E i \in DOMAIN tokens : v = VisitOf(tokens[i]),
             \A v \in firedBreakpoints', j \in DOMAIN tokens' :
               tokens'[j].id = v.token => j \in DOMAIN tokens /\ tokens'[j] = tokens[j]
      PROVE  Above(rank)'
  <2> SUFFICES ASSUME NEW v \in firedBreakpoints', NEW j \in DOMAIN tokens',
                      tokens'[j].id = v.token
               PROVE  tokens'[j].loc = v.node \/ rank[v.node] < rank[tokens'[j].loc]
    BY DEF Above
  <2>1. j \in DOMAIN tokens /\ tokens'[j] = tokens[j] /\ tokens[j].id = v.token
    BY <1>1
  <2>2. CASE v \in firedBreakpoints
    BY <2>1, <2>2 DEF Above
  <2>3. CASE v \in new
    <3>1. PICK i \in DOMAIN tokens : v = VisitOf(tokens[i])
      BY <1>1, <2>3
    <3>2. v.token = tokens[i].id /\ v.node = tokens[i].loc
      BY <3>1 DEF VisitOf
    <3>3. i = j
      BY <2>1, <3>2 DEF Inv, TokenIdentity
    <3> QED BY <2>1, <3>2, <3>3
  <2> QED BY <1>1, <2>2, <2>3
<1>2. ASSUME firedBreakpoints' \subseteq firedBreakpoints,
             \A v \in firedBreakpoints', j \in DOMAIN tokens' :
               tokens'[j].id = v.token => j \in DOMAIN tokens /\ tokens'[j] = tokens[j]
      PROVE  Above(rank)'
  <2> DEFINE new == {}
  <2>1. /\ firedBreakpoints' \subseteq firedBreakpoints \cup new
        /\ \A v \in new : \E i \in DOMAIN tokens : v = VisitOf(tokens[i])
    BY <1>2
  <2> HIDE DEF new
  <2> QED BY <1>1, <1>2, <2>1
<1>3. CASE initialize
  <2>1. firedBreakpoints' = firedBreakpoints
    BY <1>3 DEF initialize, debugVars
  <2>2. \A v \in firedBreakpoints, j \in DOMAIN tokens' :
          tokens'[j].id = v.token => j \in DOMAIN tokens /\ tokens'[j] = tokens[j]
    BY <1>3, InitializeKeepsStops
  <2> QED BY <1>2, <2>1, <2>2
<1>4. CASE RunLoop
  <2>1. tokens' = tokens
    BY <1>4 DEF RunLoop, BeginStep, execVars
  <2>2. \/ firedBreakpoints' \subseteq firedBreakpoints
        \/ \E i \in Unfired : firedBreakpoints' = LiveVisits \cup {VisitOf(tokens[i])}
    BY <1>4, LiveVisitsKeepsStopped DEF RunLoop, debugVars
  <2>3. CASE firedBreakpoints' \subseteq firedBreakpoints
    BY <1>2, <2>1, <2>3
  <2>4. ASSUME NEW i \in Unfired, firedBreakpoints' = LiveVisits \cup {VisitOf(tokens[i])}
        PROVE  Above(rank)'
    <3> DEFINE new == {VisitOf(tokens[i])}
    <3>1. firedBreakpoints' \subseteq firedBreakpoints \cup new
      BY <2>4, LiveVisitsKeepsStopped
    <3>2. \A v \in new : \E k \in DOMAIN tokens : v = VisitOf(tokens[k])
      BY DEF Unfired
    <3> HIDE DEF new
    <3> QED BY <1>1, <2>1, <3>1, <3>2
  <2> QED BY <2>2, <2>3, <2>4
<1>5. CASE ~initialize /\ ~RunLoop
  <2>1. tokens' = tokens /\ firedBreakpoints' \subseteq firedBreakpoints
    BY <1>5 DEF Next, Proceed, SkipIndex, EndStep, Step, Run, BeginStep, SetBreakpoint,
                ClearBreakpoints, PostMessage, execVars, debugVars, vars
  <2> QED BY <1>2, <2>1
<1> QED BY <1>3, <1>4, <1>5

(* At first there is no token and no visit.                                *)
LEMMA InitHasStops == Init => StopInv /\ NotMoved /\ \A rank : Above(rank)
<1> QED BY DEF Init, StopInv, NoTokenJoins, NoneFired, FiredIsStopped, StoppedBelow, NotMoved,
               Above

(* What StoppedBelow says of the token at the cursor.                      *)
LEMMA StopsHere == StopInv => (Inv => StopsAtEveryVisit)
<1> SUFFICES ASSUME Inv, StopInv, pc = "token", call \in RunCalls, cursor \in DOMAIN tokens,
                    Here \in breakpoints
             PROVE  VisitOf(tokens[cursor]) \in stopped
  BY DEF StopsAtEveryVisit
<1>1. cursor <= cursor
  BY DEF Inv, TypeOK
<1> QED BY <1>1 DEF StopInv, StoppedBelow, Here

(* A run stops before it steps a token that sits on a breakpoint            *)
(* (RunToCompletion: "A run stops as soon as a token sits on a node a       *)
(* breakpoint was set on"), in every graph without joins that runs alone    *)
(* drive.  A join that fires moves the tokens below it in the slice, and    *)
(* the same Step steps some of them again.                                 *)
THEOREM RunsStopAtEveryVisit ==
  ASSUME \A a \in Actions : JoinsNothing(Lowered[a]), "Step" \notin DriverCalls
  PROVE  Spec => []StopsAtEveryVisit
<1>1. Inv => JoinsNothing(graph)
  BY DEF Inv, TypeOK, graph
<1>2. Inv /\ StopInv /\ NotMoved /\ [Next]_vars => StopInv' /\ NotMoved'
  <2> SUFFICES ASSUME Inv, StopInv, NotMoved, [Next]_vars
               PROVE  StopInv' /\ NotMoved'
    OBVIOUS
  <2>1. NotMoved'
    BY <1>1, NextKeepsNotMoved
  <2>2. CASE stepToken
    <3>1. /\ pc = "token" /\ cursor \in DOMAIN tokens /\ cursor <= cursor
          /\ firedBreakpoints' = firedBreakpoints
      BY <2>2, NodeSteps DEF Inv, TypeOK, stepToken, debugVars
    <3>2. NoReturn
      BY <3>1 DEF NotMoved, NoReturn, Here
    <3> QED BY <1>1, <2>1, <2>2, <3>2, TokenKeepsStops
  <2>3. CASE ~stepToken
    BY <1>1, <2>1, <2>3, OthersKeepStops
  <2> QED BY <2>2, <2>3
<1> QED BY <1>2, InitHasStops, StopsHere, Invariance, PTL DEF Spec

ClimbsAbove == \E rank \in [Nodes -> Nat] : Climbs(graph, rank) /\ Above(rank)

(* The same where Step may be called between the runs, in graphs that have  *)
(* no loop either: visits are forgotten by runs only, and a token that a    *)
(* Step takes around a loop finds the old one on record.                   *)
THEOREM StepsAndRunsStopAtEveryVisit ==
  ASSUME \A a \in Actions : JoinsNothing(Lowered[a]) /\ LoopFree(Lowered[a])
  PROVE  Spec => []StopsAtEveryVisit
<1>1. Inv => JoinsNothing(graph)
  BY DEF Inv, TypeOK, graph
<1>2. Init => StopInv /\ ClimbsAbove
  <2> SUFFICES ASSUME Init PROVE StopInv /\ ClimbsAbove
    OBVIOUS
  <2>1. PICK rank \in [Nodes -> Nat] : Climbs(graph, rank)
    BY DEF Init, graph, LoopFree
  <2> QED BY <2>1, InitHasStops DEF ClimbsAbove
<1>3. Inv /\ StopInv /\ ClimbsAbove /\ [Next]_vars => StopInv' /\ ClimbsAbove'
  <2> SUFFICES ASSUME Inv, StopInv, ClimbsAbove, [Next]_vars
               PROVE  StopInv' /\ ClimbsAbove'
    OBVIOUS
  <2>1. PICK rank \in [Nodes -> Nat] : Climbs(graph, rank) /\ Above(rank)
    BY DEF ClimbsAbove
  <2>2. graph' = graph
    BY DEF Next, Proceed, stepToken, SkipIndex, EndStep, RunLoop, BeginStep, initialize, Step, Run,
           SetBreakpoint, ClearBreakpoints, PostMessage, vars, graph
  <2>3. Climbs(graph', rank)
    BY <2>1, <2>2
  <2>4. CASE stepToken
    <3>1. NoReturn /\ Above(rank)'
      BY <2>1, <2>4, TokenKeepsAbove
    <3>2. StopInv'
      BY <1>1, <2>4, <3>1, TokenKeepsStops
    <3> QED BY <2>3, <3>1, <3>2 DEF ClimbsAbove
  <2>5. CASE ~stepToken
    <3>1. StopInv' /\ Above(rank)'
      BY <1>1, <2>1, <2>5, OthersKeepStops, OthersKeepAbove
    <3> QED BY <2>3, <3>1 DEF ClimbsAbove
  <2> QED BY <2>4, <2>5
<1> QED BY <1>2, <1>3, StopsHere, Invariance, PTL DEF Spec
=============================================================================
