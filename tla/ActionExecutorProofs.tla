------------------------- MODULE ActionExecutorProofs -------------------------
(***************************************************************************)
(* What the token executor of an action keeps true, for every set of       *)
(* graphs, messages and data and for every budget and driver: its types,   *)
(* the identity of tokens, and what its state, its parked tokens and its   *)
(* breakpoints say of each other.                                          *)
(*                                                                         *)
(* The argument: a step of a token is described by NodeStep, which each    *)
(* kind of node is shown to satisfy; Inv is kept by NodeStep and by every  *)
(* other action, and implies the properties.                               *)
(***************************************************************************)
EXTENDS ActionExecutor, SequencesExt, SequenceTheorems, FiniteSetTheorems, TLAPS

----------------------------------------------------------------------------
(* What removing an entry from a Go slice leaves, index by index, and       *)
(* functions as slices.                                                     *)

(* append(s[:i], s[i+1:]...): the entries above i move down by one.         *)
LEMMA RemoveAtProperties ==
  ASSUME NEW S, NEW s \in Seq(S), NEW i \in 1..Len(s)
  PROVE  /\ RemoveAt(s, i) \in Seq(S)
         /\ Len(RemoveAt(s, i)) = Len(s) - 1
         /\ \A j \in 1..(Len(s) - 1) :
              RemoveAt(s, i)[j] = s[IF j < i THEN j ELSE j + 1]
<1> DEFINE l == SubSeq(s, 1, i - 1)
           r == SubSeq(s, i + 1, Len(s))
           c == l \o r
<1>0. Len(s) \in Nat
  BY LenProperties
<1>1. /\ l \in Seq(S) /\ Len(l) = i - 1
      /\ \A j \in 1..(i - 1) : l[j] = s[j]
  BY <1>0, SubSeqProperties, ElementOfSeq
<1>2. /\ r \in Seq(S) /\ Len(r) = Len(s) - i
      /\ \A j \in 1..(Len(s) - i) : r[j] = s[i + j]
  BY <1>0, SubSeqProperties, ElementOfSeq
<1> HIDE DEF l, r
<1>3. /\ c \in Seq(S)
      /\ Len(c) = Len(l) + Len(r)
      /\ \A j \in 1..(Len(l) + Len(r)) :
           c[j] = IF j <= Len(l) THEN l[j] ELSE r[j - Len(l)]
  BY <1>1, <1>2, ConcatProperties, Zenon
<1> HIDE DEF c
<1>4. Len(c) = Len(s) - 1
  BY <1>0, <1>1, <1>2, <1>3
<1>5. ASSUME NEW j \in 1..(Len(s) - 1)
      PROVE  c[j] = s[IF j < i THEN j ELSE j + 1]
  <2> DEFINE n == Len(s)
  <2>0. /\ n \in Nat /\ i \in 1..n /\ j \in 1..(n - 1)
        /\ Len(l) = i - 1 /\ Len(r) = n - i
    BY <1>0, <1>1, <1>2
  <2> HIDE DEF n
  <2>3. j \in 1..(Len(l) + Len(r))
    BY <2>0
  <2>4. c[j] = IF j <= Len(l) THEN l[j] ELSE r[j - Len(l)]
    BY <1>3, <2>3
  <2>1. CASE j < i
    <3>1. j <= Len(l) /\ j \in 1..(i - 1)
      BY <2>0, <2>1
    <3> QED BY <1>1, <2>1, <2>4, <3>1
  <2>2. CASE ~(j < i)
    <3>1. ~(j <= Len(l)) /\ i + (j - Len(l)) = j + 1
      BY <2>0, <2>2
    <3>2. j - Len(l) \in 1..(Len(s) - i)
      BY <2>0, <2>2 DEF n
    <3>3. c[j] = r[j - Len(l)]
      BY <2>4, <3>1
    <3>4. r[j - Len(l)] = s[i + (j - Len(l))]
      BY <1>2, <3>2
    <3> QED BY <2>2, <3>1, <3>3, <3>4
  <2> QED BY <2>1, <2>2
<1>6. RemoveAt(s, i) = c
  BY DEF RemoveAt, c, l, r
<1> QED BY <1>3, <1>4, <1>5, <1>6, Zenon

(* A function on 1..n is a slice of n entries.                             *)
LEMMA FunctionIsSlice ==
  ASSUME NEW S, NEW n \in Nat, NEW f \in [1..n -> S]
  PROVE  /\ f \in Seq(S) /\ Len(f) = n /\ DOMAIN f = 1..n
<1>1. f = [i \in 1..n |-> f[i]]
  OBVIOUS
<1>2. [i \in 1..n |-> f[i]] \in Seq(S)
  <2>1. \A i \in 1..n : f[i] \in S
    OBVIOUS
  <2> QED BY <2>1, IsASeq
<1> QED BY <1>1, <1>2, LenProperties

----------------------------------------------------------------------------
AcceptKinds == {"accept", "when"}

(* The slice ts holds distinct tokens, made before the counter was at next, *)
(* and parked only at the accepts of g.                                    *)
GoodTokens(g, ts, next) ==
  /\ ts \in Seq(Token)
  /\ \A i, j \in DOMAIN ts : ts[i].id = ts[j].id => i = j
  /\ \A i \in DOMAIN ts : ts[i].id < next
  /\ \A i \in DOMAIN ts : ts[i].wait => g.kind[ts[i].loc] \in AcceptKinds

(* us comes from ts by what may happen to the token at c: the others are    *)
(* where they were or gone, and what is new has an id of its own.          *)
From(ts, c, us, next) ==
  \A j \in DOMAIN us :
    \/ us[j].id >= next
    \/ \E i \in DOMAIN ts : /\ us[j].id = ts[i].id
                            /\ i # c => us[j].loc = ts[i].loc

-----------------------------------------------------------------------------
(* What each way of rebuilding the slice does to its tokens *)

(* A slice made of distinct entries of a good one is good.                 *)
LEMMA PartOfSlice ==
  ASSUME NEW g, NEW next \in Nat, NEW ts, GoodTokens(g, ts, next),
         NEW us \in Seq(Token),
         NEW f \in [DOMAIN us -> DOMAIN ts],
         \A i, j \in DOMAIN us : f[i] = f[j] => i = j,
         \A j \in DOMAIN us : us[j] = ts[f[j]]
  PROVE  /\ GoodTokens(g, us, next)
         /\ \A c : From(ts, c, us, next)
<1>1. \A i, j \in DOMAIN us : us[i].id = us[j].id => i = j
  BY DEF GoodTokens
<1>2. \A j \in DOMAIN us : us[j].id < next
  BY DEF GoodTokens
<1>3. \A j \in DOMAIN us : us[j].wait => g.kind[us[j].loc] \in AcceptKinds
  BY DEF GoodTokens
<1>4. \A c : From(ts, c, us, next)
  BY DEF From
<1> QED BY <1>1, <1>2, <1>3, <1>4 DEF GoodTokens

(* Taking the token at an index out of the slice, as retireToken does,      *)
(* leaves a part of it.                                                     *)
LEMMA RemoveToken ==
  ASSUME NEW g, NEW next \in Nat, NEW ts, GoodTokens(g, ts, next),
         NEW c \in DOMAIN ts
  PROVE  /\ GoodTokens(g, RemoveAt(ts, c), next)
         /\ From(ts, c, RemoveAt(ts, c), next)
         /\ \A j \in DOMAIN RemoveAt(ts, c) : RemoveAt(ts, c)[j].id # ts[c].id
<1> DEFINE us == RemoveAt(ts, c)
           f == [j \in 1..(Len(ts) - 1) |-> IF j < c THEN j ELSE j + 1]
<1>1. /\ ts \in Seq(Token) /\ Len(ts) \in Nat /\ DOMAIN ts = 1..Len(ts)
      /\ c \in 1..Len(ts)
  BY LenProperties DEF GoodTokens
<1>2. /\ us \in Seq(Token) /\ Len(us) = Len(ts) - 1
      /\ \A j \in 1..(Len(ts) - 1) : us[j] = ts[IF j < c THEN j ELSE j + 1]
  BY <1>1, RemoveAtProperties
<1> HIDE DEF us
<1>3. DOMAIN us = 1..(Len(ts) - 1)
  BY <1>2, LenProperties
<1>4. /\ f \in [DOMAIN us -> DOMAIN ts]
      /\ \A i, j \in DOMAIN us : f[i] = f[j] => i = j
      /\ \A j \in DOMAIN us : f[j] # c
  <2>1. \A j \in DOMAIN us : f[j] = IF j < c THEN j ELSE j + 1
    BY <1>3
  <2>2. \A j \in DOMAIN us : f[j] \in DOMAIN ts /\ f[j] # c
    BY <1>1, <1>3, <2>1
  <2>3. \A i, j \in DOMAIN us : f[i] = f[j] => i = j
    BY <1>1, <1>3, <2>1
  <2>4. f = [j \in DOMAIN us |-> f[j]]
    BY <1>3
  <2> HIDE DEF f
  <2> QED BY <2>2, <2>3, <2>4
<1>5. \A j \in DOMAIN us : us[j] = ts[f[j]]
  <2>1. \A j \in DOMAIN us : f[j] = IF j < c THEN j ELSE j + 1
    BY <1>3
  <2>2. \A j \in DOMAIN us : us[j] = ts[IF j < c THEN j ELSE j + 1]
    <3> TAKE j \in DOMAIN us
    <3> HIDE DEF f
    <3>1. j \in 1..(Len(ts) - 1)
      BY <1>3
    <3> QED BY <1>2, <3>1
  <2> HIDE DEF f
  <2> QED BY <2>1, <2>2
<1> HIDE DEF f
<1>6. GoodTokens(g, us, next) /\ From(ts, c, us, next)
  <2>1. us \in Seq(Token)
    BY <1>2
  <2>2. f \in [DOMAIN us -> DOMAIN ts]
    BY <1>4
  <2>3. \A i, j \in DOMAIN us : f[i] = f[j] => i = j
    BY <1>4
  <2>4. GoodTokens(g, us, next) /\ \A d : From(ts, d, us, next)
    BY <1>5, <2>1, <2>2, <2>3, PartOfSlice, Zenon
  <2> QED BY <2>4
<1>7. \A j \in DOMAIN us : us[j].id # ts[c].id
  BY <1>4, <1>5 DEF GoodTokens
<1> QED BY <1>6, <1>7 DEF us

(* Changing where the token at c is, or whether it waits.                  *)
LEMMA ReplaceToken ==
  ASSUME NEW g, NEW next \in Nat, NEW ts, GoodTokens(g, ts, next),
         NEW c \in DOMAIN ts, NEW t \in Token,
         t.id = ts[c].id,
         t.wait => g.kind[t.loc] \in AcceptKinds
  PROVE  /\ GoodTokens(g, [ts EXCEPT ![c] = t], next)
         /\ From(ts, c, [ts EXCEPT ![c] = t], next)
<1> DEFINE us == [ts EXCEPT ![c] = t]
<1>1. us \in Seq(Token) /\ DOMAIN us = DOMAIN ts
  BY ExceptSeq, LenProperties DEF GoodTokens
<1>2. \A j \in DOMAIN us : us[j].id = ts[j].id
  BY <1>1
<1>3. \A j \in DOMAIN us : us[j] = IF j = c THEN t ELSE ts[j]
  BY <1>1
<1> HIDE DEF us
<1>4. GoodTokens(g, us, next)
  <2>1. \A i, j \in DOMAIN us : us[i].id = us[j].id => i = j
    BY <1>1, <1>2 DEF GoodTokens
  <2>2. \A j \in DOMAIN us : us[j].id < next
    BY <1>1, <1>2 DEF GoodTokens
  <2>3. \A j \in DOMAIN us : us[j].wait => g.kind[us[j].loc] \in AcceptKinds
    BY <1>1, <1>3 DEF GoodTokens
  <2> QED BY <1>1, <2>1, <2>2, <2>3 DEF GoodTokens
<1>5. From(ts, c, us, next)
  BY <1>1, <1>2, <1>3 DEF From
<1> QED BY <1>4, <1>5 DEF us

(* us has every entry of ts where it was, and perhaps more behind them.     *)
Extends(us, ts) == \A i \in DOMAIN ts : i \in DOMAIN us /\ us[i] = ts[i]

(* Appending new tokens with the ids the counter is at, as a fork and a     *)
(* join do, keeps every id distinct and below the counter.                  *)
LEMMA AddTokens ==
  ASSUME NEW g, NEW next \in Nat, NEW old, NEW c, NEW ts,
         GoodTokens(g, ts, next), From(old, c, ts, next),
         NEW k \in Nat, NEW new \in [1..k -> Token],
         \A j \in 1..k : new[j].id = next + j - 1 /\ new[j].wait = FALSE
  PROVE  /\ GoodTokens(g, ts \o new, next + k)
         /\ From(old, c, ts \o new, next)
         /\ Extends(ts \o new, ts)
<1> DEFINE us == ts \o new
<1>1. /\ ts \in Seq(Token) /\ Len(ts) \in Nat /\ DOMAIN ts = 1..Len(ts)
  BY LenProperties DEF GoodTokens
<1>2. \A x \in DOMAIN ts : ts[x].id \in Nat /\ ts[x].id < next
  <2>1. \A x \in DOMAIN ts : ts[x] \in Token
    BY <1>1, ElementOfSeq
  <2> QED BY <2>1 DEF Token, GoodTokens
<1>3. new \in Seq(Token) /\ Len(new) = k
  BY FunctionIsSlice
<1>4. /\ us \in Seq(Token)
      /\ Len(us) = Len(ts) + Len(new)
      /\ \A j \in 1..(Len(ts) + Len(new)) :
           us[j] = IF j <= Len(ts) THEN ts[j] ELSE new[j - Len(ts)]
  BY <1>1, <1>3, ConcatProperties, Zenon
<1> HIDE DEF us
<1>5. DOMAIN us = 1..(Len(ts) + k)
  BY <1>3, <1>4, LenProperties
<1>6. \A j \in DOMAIN ts : j \in DOMAIN us /\ us[j] = ts[j]
  BY <1>1, <1>3, <1>4, <1>5
<1>7. ASSUME NEW j \in DOMAIN us, j \notin DOMAIN ts
      PROVE  /\ us[j].id = next + (j - Len(ts)) - 1
             /\ us[j].id >= next
             /\ us[j].wait = FALSE
  <2>1. j \in Nat /\ j > Len(ts) /\ j <= Len(ts) + k
    BY <1>1, <1>5, <1>7
  <2>2. j \in 1..(Len(ts) + Len(new)) /\ ~(j <= Len(ts))
    BY <1>1, <1>3, <2>1
  <2>3. us[j] = new[j - Len(ts)]
    BY <1>4, <2>2, Zenon
  <2>4. j - Len(ts) \in 1..k
    BY <1>1, <2>1
  <2>5. us[j].id = next + (j - Len(ts)) - 1 /\ us[j].wait = FALSE
    BY <2>3, <2>4
  <2> QED BY <1>1, <2>1, <2>5
<1>8. GoodTokens(g, us, next + k)
  <2>1. \A j \in DOMAIN us \ DOMAIN ts : us[j].id >= next
    BY <1>7
  <2>2. ASSUME NEW i \in DOMAIN us, NEW j \in DOMAIN us, us[i].id = us[j].id
        PROVE  i = j
    <3>1. CASE i \in DOMAIN ts /\ j \in DOMAIN ts
      BY <1>6, <2>2, <3>1 DEF GoodTokens
    <3>2. CASE i \in DOMAIN ts /\ j \notin DOMAIN ts
      <4>1. us[i].id < next /\ us[i].id \in Nat
        BY <1>2, <1>6, <3>2
      <4>2. us[j].id >= next
        BY <2>1, <3>2
      <4> QED BY <2>2, <4>1, <4>2
    <3>3. CASE i \notin DOMAIN ts /\ j \in DOMAIN ts
      <4>1. us[j].id < next /\ us[j].id \in Nat
        BY <1>2, <1>6, <3>3
      <4>2. us[i].id >= next
        BY <2>1, <3>3
      <4> QED BY <2>2, <4>1, <4>2
    <3>4. CASE i \notin DOMAIN ts /\ j \notin DOMAIN ts
      <4>1. /\ us[i].id = next + (i - Len(ts)) - 1
            /\ us[j].id = next + (j - Len(ts)) - 1
        BY <1>7, <3>4
      <4>2. i \in Int /\ j \in Int
        BY <1>5
      <4>3. next + (i - Len(ts)) - 1 = next + (j - Len(ts)) - 1
        BY <2>2, <4>1
      <4>4. Len(ts) \in Nat
        BY <1>1
      <4> QED BY <4>2, <4>3, <4>4
    <3> QED BY <3>1, <3>2, <3>3, <3>4
  <2>3. ASSUME NEW j \in DOMAIN us
        PROVE  us[j].id < next + k
    <3>1. CASE j \in DOMAIN ts
      <4>1. us[j].id < next /\ us[j].id \in Nat
        BY <1>2, <1>6, <3>1
      <4> QED BY <4>1
    <3>2. CASE j \notin DOMAIN ts
      <4>1. us[j].id = next + (j - Len(ts)) - 1
        BY <1>7, <3>2
      <4> QED BY <1>1, <1>5, <4>1
    <3> QED BY <3>1, <3>2
  <2>4. ASSUME NEW j \in DOMAIN us, us[j].wait
        PROVE  g.kind[us[j].loc] \in AcceptKinds
    <3>1. j \in DOMAIN ts
      BY <1>7, <2>4
    <3> QED BY <1>6, <2>4, <3>1 DEF GoodTokens
  <2> QED BY <1>4, <2>2, <2>3, <2>4 DEF GoodTokens
<1>9. \A j \in DOMAIN us : j \in DOMAIN ts \/ us[j].id >= next
  BY <1>7
<1>10. From(old, c, us, next)
  BY <1>6, <1>9 DEF From
<1>11. Extends(us, ts)
  BY <1>6 DEF Extends
<1> QED BY <1>8, <1>10, <1>11 DEF us

(* The slice without the tokens at n.                                      *)
LEMMA RemainingTokens ==
  ASSUME NEW n \in Nodes, nextTokenID \in Nat,
         GoodTokens(graph, tokens, nextTokenID),
         NEW us \in Remaining(n)
  PROVE  /\ GoodTokens(graph, us, nextTokenID)
         /\ \A c : From(tokens, c, us, nextTokenID)
<1>1. /\ tokens \in Seq(Token) /\ Len(tokens) \in Nat
      /\ DOMAIN tokens = 1..Len(tokens)
  BY LenProperties DEF GoodTokens
<1> DEFINE left == DOMAIN tokens \ TokensAt(n)
<1>2. PICK keep \in InOrder(left) : us = [k \in DOMAIN keep |-> tokens[keep[k]]]
  BY DEF Remaining
<1>3. Cardinality(left) \in Nat
  <2>1. IsFiniteSet(1..Len(tokens))
    BY <1>1, FS_Interval
  <2>2. IsFiniteSet(left)
    BY <1>1, <2>1, FS_Subset
  <2> QED BY <2>2, FS_CardinalityType
<1> DEFINE m == Cardinality(left)
<1>4. /\ keep \in [1..m -> left] /\ DOMAIN keep = 1..m
      /\ \A i, j \in 1..m : i < j => keep[i] < keep[j]
  BY <1>2 DEF InOrder
<1> HIDE DEF m
<1>5. left \subseteq 1..Len(tokens)
  BY <1>1
<1>6. m \in Nat
  BY <1>3 DEF m
<1>7. us \in Seq(Token) /\ DOMAIN us = 1..m
  <2>1. us \in [1..m -> Token]
    BY <1>1, <1>2, <1>4, <1>5, ElementOfSeq
  <2> QED BY <1>6, <2>1, FunctionIsSlice
<1>8. keep \in [DOMAIN us -> DOMAIN tokens]
  BY <1>1, <1>4, <1>5, <1>7
<1>9. ASSUME NEW i \in DOMAIN us, NEW j \in DOMAIN us, keep[i] = keep[j]
      PROVE  i = j
  <2>1. keep[i] \in Nat /\ keep[j] \in Nat
    BY <1>1, <1>8
  <2> QED BY <1>4, <1>6, <1>7, <1>9, <2>1
<1>10. \A j \in DOMAIN us : us[j] = tokens[keep[j]]
  BY <1>2, <1>4, <1>7
<1> HIDE DEF left
<1> QED BY <1>7, <1>8, <1>9, <1>10, PartOfSlice

-----------------------------------------------------------------------------
(* The inductive invariant *)

MergeNodes == {n \in Nodes : graph.kind[n] = "merge"}

VisitedAreMerges == mergeVisited \subseteq MergeNodes

(* A Step steps tokens only of an action that runs or has just completed.   *)
SteppingRuns == pc = "token" => state \in {"Running", "Completed"}

(* A visit a run has stopped on is on record for as long as it lasts.       *)
StoppedIsFired ==
  \A v \in stopped : v \in firedBreakpoints /\ VisitHolds(v, tokens)

Inv ==
  /\ TypeOK
  /\ TokenIdentity
  /\ ParkedAtAccept
  /\ CompletedHoldsNoToken
  /\ SuspendedIffPaused
  /\ VisitedAreMerges
  /\ SteppingRuns
  /\ StoppedIsFired

(* The graph an executor walks is one that lowering builds. *)
LEMMA GraphType == TypeOK => IsGraph(graph)
<1> QED BY LoweredAssumption DEF TypeOK, graph

-----------------------------------------------------------------------------
(* The step of one token *)

(* A slice that differs from e.tokens in whose tokens wait at most.         *)
SameFlow(ts) ==
  /\ GoodTokens(graph, ts, nextTokenID)
  /\ DOMAIN ts = DOMAIN tokens
  /\ \A i \in DOMAIN ts : ts[i].id = tokens[i].id /\ ts[i].loc = tokens[i].loc

TokensStep ==
  /\ GoodTokens(graph, tokens', nextTokenID')
  /\ From(tokens, cursor, tokens', nextTokenID)
  /\ nextTokenID' \in Nat /\ nextTokenID' >= nextTokenID
  /\ state' = state \/ (state' = "Completed" /\ tokens' = <<>>)
  /\ NextIndex \/ \E e \in Errors : Return(e)

ValuesStep ==
  /\ data' \in Data
  /\ messages' \in Seq(Messages)
  /\ mergeVisited' \subseteq MergeNodes

(* Only a merge the token is dropped at takes a token off a traversed merge. *)
PassOnce == Here \in mergeVisited => tokens' = RemoveAt(tokens, cursor)

NodeStep == TokensStep /\ ValuesStep /\ PassOnce

(* What the invariant says of the tokens, in the form the slice lemmas ask  *)
(* for.                                                                     *)
LEMMA InvTokens ==
  ASSUME Inv
  PROVE  /\ GoodTokens(graph, tokens, nextTokenID)
         /\ SameFlow(tokens)
         /\ nextTokenID \in Nat
<1> QED
  BY DEF Inv, TypeOK, TokenIdentity, ParkedAtAccept, GoodTokens, SameFlow,
         AcceptKinds

(* Tokens an action leaves as they were keep whatever was true of them. *)
LEMMA SameFlowFrom ==
  ASSUME NEW ts, SameFlow(ts)
  PROVE  /\ From(tokens, cursor, ts, nextTokenID)
         /\ \A us : From(ts, cursor, us, nextTokenID)
                    => From(tokens, cursor, us, nextTokenID)
<1> QED BY DEF SameFlow, From

(* retireToken drops one token, and completes the action when it was the    *)
(* last.                                                                    *)
LEMMA RetireStep ==
  ASSUME Inv, NEW ts, SameFlow(ts), cursor \in DOMAIN tokens, retireToken(ts)
  PROVE  TokensStep
<1>1. cursor \in DOMAIN ts /\ nextTokenID \in Nat
  BY InvTokens DEF SameFlow
<1>2. /\ GoodTokens(graph, tokens', nextTokenID)
      /\ From(tokens, cursor, tokens', nextTokenID)
  BY <1>1, RemoveToken, SameFlowFrom DEF SameFlow, retireToken
<1> QED BY <1>1, <1>2 DEF retireToken, TokensStep

(* Moving the token at the cursor along a succession keeps the tokens well  *)
(* formed.                                                                  *)
LEMMA AdvanceStep ==
  ASSUME Inv, NEW ts, SameFlow(ts), cursor \in DOMAIN tokens,
         NEW m \in Nodes, ts[cursor].wait = FALSE, Advance(ts, m)
  PROVE  TokensStep
<1>1. cursor \in DOMAIN ts /\ nextTokenID \in Nat
  BY InvTokens DEF SameFlow
<1>2. ts[cursor] \in Token
  BY <1>1, ElementOfSeq, LenProperties DEF SameFlow, GoodTokens
<1> DEFINE t == [ts[cursor] EXCEPT !.loc = m]
<1>3. t \in Token /\ t.id = ts[cursor].id /\ t.wait = FALSE
  BY <1>2 DEF Token
<1>4. tokens' = [ts EXCEPT ![cursor] = t]
  BY DEF Advance
<1> HIDE DEF t
<1>5. /\ GoodTokens(graph, tokens', nextTokenID)
      /\ From(tokens, cursor, tokens', nextTokenID)
  BY <1>1, <1>3, <1>4, ReplaceToken, SameFlowFrom DEF SameFlow
<1> QED BY <1>1, <1>5 DEF Advance, TokensStep

(* A token that waits changes nothing but, at an accept, its own mark. *)
LEMMA StaysStep ==
  ASSUME Inv, NEW ts, SameFlow(ts), Stays(ts)
  PROVE  TokensStep /\ ValuesStep
<1>1. nextTokenID \in Nat
  BY InvTokens
<1>2. ValuesStep
  BY DEF Stays, Inv, TypeOK, VisitedAreMerges, ValuesStep
<1>3. TokensStep
  BY <1>1, SameFlowFrom DEF Stays, SameFlow, TokensStep
<1> QED BY <1>2, <1>3

(* A step that reports an error ends the call and leaves the slice as it    *)
(* was handed over.                                                         *)
LEMMA FailStep ==
  ASSUME Inv, NEW ts, SameFlow(ts), NEW e \in Errors, StepFails(ts, e)
  PROVE  TokensStep /\ mergeVisited' \subseteq MergeNodes
<1>1. nextTokenID \in Nat
  BY InvTokens
<1>2. mergeVisited' \subseteq MergeNodes
  BY DEF StepFails, Inv, VisitedAreMerges
<1>3. TokensStep
  BY <1>1, SameFlowFrom DEF StepFails, SameFlow, TokensStep
<1> QED BY <1>2, <1>3

(* The statements of a node leave features' data and messages of the right  *)
(* types, whether or not one of them fails.                                 *)
LEMMA BodyValues ==
  ASSUME Inv, NEW n \in Nodes, NEW bus \in Seq(Messages)
  PROVE  /\ AfterBody(n) \in Data \cup {Fails}
         /\ \A d \in Data \cup {Fails} :
              BodyRuns(n, bus, d) => d \in Data /\ messages' \in Seq(Messages)
         /\ \A ts, d : SameFlow(ts) /\ BodyFails(ts, n, bus, d)
                         => TokensStep /\ ValuesStep
<1>1. IsGraph(graph) /\ data \in Data
  BY GraphType DEF Inv, TypeOK
<1>2. AfterBody(n) \in Data \cup {Fails}
  BY <1>1 DEF IsGraph, AfterBody
<1>3. graph.sends[n] \in Seq(Messages)
  BY <1>1 DEF IsGraph
<1>4. \A d \in Data \cup {Fails} :
        BodyRuns(n, bus, d) => d \in Data /\ messages' \in Seq(Messages)
  BY <1>3, ConcatProperties DEF BodyRuns
<1>5. ASSUME NEW ts, NEW d, SameFlow(ts), BodyFails(ts, n, bus, d)
      PROVE  TokensStep /\ ValuesStep
  <2>1. PICK k \in 0..Len(graph.sends[n]) :
          messages' = bus \o SubSeq(graph.sends[n], 1, k)
    BY <1>5 DEF BodyFails
  <2>2. Len(graph.sends[n]) \in Nat
    BY <1>3, LenProperties
  <2>3. SubSeq(graph.sends[n], 1, k) \in Seq(Messages)
    <3>1. \A i \in 1..k : graph.sends[n][i] \in Messages
      BY <1>3, <2>2, ElementOfSeq
    <3> QED BY <2>1, <2>2, <3>1, SubSeqProperties
  <2>4. messages' \in Seq(Messages)
    BY <2>1, <2>3, ConcatProperties
  <2>5. TokensStep /\ mergeVisited' \subseteq MergeNodes
    BY <1>5, FailStep DEF BodyFails, Errors
  <2> QED BY <1>5, <2>4, <2>5 DEF BodyFails, ValuesStep
<1> QED BY <1>2, <1>4, <1>5

(* A succession leads to a node. *)
LEMMA EdgeNodes ==
  ASSUME Inv, NEW n \in Nodes, NEW i \in DOMAIN graph.edges[n]
  PROVE  graph.edges[n][i] \in Nodes
<1>1. graph.edges[n] \in Seq(Nodes)
  BY GraphType DEF Inv, IsGraph
<1> QED BY <1>1, ElementOfSeq, LenProperties

(* What a case of stepToken may count on: its token is at a node, parked    *)
(* only at an accept, and not at a traversed merge unless the node is one.  *)
LEMMA SteppingFacts ==
  ASSUME Inv, cursor \in DOMAIN tokens
  PROVE  /\ tokens[cursor] \in Token
         /\ Here \in Nodes
         /\ graph.kind[Here] \notin AcceptKinds => tokens[cursor].wait = FALSE
         /\ graph.kind[Here] # "merge" => PassOnce
<1>1. tokens[cursor] \in Token
  BY ElementOfSeq, LenProperties DEF Inv, TypeOK
<1>2. Here \in Nodes
  BY <1>1 DEF Here, Token
<1>3. ASSUME graph.kind[Here] \notin AcceptKinds
      PROVE  tokens[cursor].wait = FALSE
  <2>1. ~tokens[cursor].wait
    BY <1>3 DEF Inv, ParkedAtAccept, AcceptKinds, Here
  <2>2. tokens[cursor].wait \in BOOLEAN
    BY <1>1 DEF Token
  <2> QED BY <2>1, <2>2
<1>4. ASSUME graph.kind[Here] # "merge"
      PROVE  PassOnce
  BY <1>4 DEF PassOnce, Inv, VisitedAreMerges, MergeNodes
<1> QED BY <1>1, <1>2, <1>3, <1>4

(* Data and messages that are left alone keep their types. *)
LEMMA UnchangedValues ==
  ASSUME Inv, UNCHANGED <<data, messages, mergeVisited>>
  PROVE  ValuesStep
<1> QED BY DEF Inv, TypeOK, VisitedAreMerges, ValuesStep

(* Every node whose body has run ends its step in one of four ways.        *)
Outcome(ts, n, bus, d) ==
  \/ \E e \in Errors : StepFails(ts, e) /\ UNCHANGED <<data, messages>>
  \/ BodyFails(ts, n, bus, d)
  \/ /\ BodyRuns(n, bus, d) /\ data' \in Data
     /\ \E e \in Errors : StepFails(ts, e)
  \/ /\ BodyRuns(n, bus, d) /\ data' \in Data /\ UNCHANGED mergeVisited
     /\ \/ retireToken(ts)
        \/ \E m \in Nodes : ts[cursor].wait = FALSE /\ Advance(ts, m)

(* However the step of one token ends, in a move, an end of flow, a wait or *)
(* an error, it is a step the invariant allows.                             *)
LEMMA OutcomeStep ==
  ASSUME Inv, PassOnce, cursor \in DOMAIN tokens, NEW ts, SameFlow(ts),
         NEW n \in Nodes, NEW bus \in Seq(Messages),
         NEW d \in Data \cup {Fails}, Outcome(ts, n, bus, d)
  PROVE  NodeStep
<1>1. CASE \E e \in Errors : StepFails(ts, e) /\ UNCHANGED <<data, messages>>
  BY <1>1, FailStep, UnchangedValues DEF StepFails, NodeStep
<1>2. CASE BodyFails(ts, n, bus, d)
  BY <1>2, BodyValues DEF NodeStep
<1>3. CASE /\ BodyRuns(n, bus, d) /\ data' \in Data
           /\ \E e \in Errors : StepFails(ts, e)
  <2>1. messages' \in Seq(Messages)
    BY <1>3, BodyValues
  <2>2. TokensStep /\ mergeVisited' \subseteq MergeNodes
    BY <1>3, FailStep
  <2> QED BY <1>3, <2>1, <2>2 DEF NodeStep, ValuesStep
<1>4. CASE /\ BodyRuns(n, bus, d) /\ data' \in Data /\ UNCHANGED mergeVisited
           /\ \/ retireToken(ts)
              \/ \E m \in Nodes : ts[cursor].wait = FALSE /\ Advance(ts, m)
  <2>1. messages' \in Seq(Messages)
    BY <1>4, BodyValues
  <2>2. TokensStep
    BY <1>4, RetireStep, AdvanceStep
  <2> QED BY <1>4, <2>1, <2>2 DEF NodeStep, ValuesStep, Inv, VisitedAreMerges
<1> QED BY <1>1, <1>2, <1>3, <1>4 DEF Outcome

(* stepInitialNode moves its token, ends it, or fails. *)
LEMMA InitialNodeStep == ASSUME Inv, stepInitialNode PROVE NodeStep
<1>1. cursor \in DOMAIN tokens /\ graph.kind[Here] = "initial"
  BY DEF stepInitialNode, Stepping, Here
<1>2. Here \in Nodes /\ PassOnce /\ tokens[cursor].wait = FALSE
  BY <1>1, SteppingFacts DEF AcceptKinds
<1>3. SameFlow(tokens) /\ messages \in Seq(Messages)
  BY InvTokens DEF Inv, TypeOK
<1>4. /\ AfterBody(Here) \in Data \cup {Fails}
      /\ BodyRuns(Here, messages, AfterBody(Here)) => AfterBody(Here) \in Data
  BY <1>2, <1>3, BodyValues
<1>5. Outcome(tokens, Here, messages, AfterBody(Here))
  BY <1>2, <1>4, EdgeNodes
     DEF stepInitialNode, Outcome, Errors, enabledSuccessions
<1> QED BY <1>1, <1>2, <1>3, <1>4, <1>5, OutcomeStep

(* stepFinalNode ends its token. *)
LEMMA FinalNodeStep == ASSUME Inv, stepFinalNode PROVE NodeStep
<1>1. cursor \in DOMAIN tokens /\ PassOnce
  <2>1. cursor \in DOMAIN tokens /\ graph.kind[Here] = "final"
    BY DEF stepFinalNode, Stepping, Here
  <2> QED BY <2>1, SteppingFacts
<1>2. TokensStep
  BY <1>1, InvTokens, RetireStep DEF stepFinalNode
<1>3. ValuesStep
  BY UnchangedValues DEF stepFinalNode
<1> QED BY <1>1, <1>2, <1>3 DEF NodeStep

(* stepForkNode replaces its token by one with a fresh id for each enabled  *)
(* branch.                                                                  *)
LEMMA ForkNodeStep == ASSUME Inv, stepForkNode PROVE NodeStep
<1> DEFINE n == Here
           d == AfterBody(n)
           enabled == enabledSuccessions(n, d)
           rest == RemoveAt(tokens, cursor)
<1>1. cursor \in DOMAIN tokens /\ n \in Nodes /\ PassOnce
  <2>1. cursor \in DOMAIN tokens /\ graph.kind[n] = "fork"
    BY DEF stepForkNode, Stepping, Here
  <2> QED BY <2>1, SteppingFacts
<1>2. /\ SameFlow(tokens) /\ nextTokenID \in Nat
      /\ messages \in Seq(Messages) /\ mergeVisited \subseteq MergeNodes
  BY InvTokens DEF Inv, TypeOK, VisitedAreMerges
<1>3. /\ d \in Data \cup {Fails}
      /\ BodyRuns(n, messages, d) => d \in Data /\ messages' \in Seq(Messages)
  BY <1>1, <1>2, BodyValues
<1>4. CASE Outcome(tokens, n, messages, d)
  BY <1>1, <1>2, <1>3, <1>4, OutcomeStep
<1>5. ASSUME BodyRuns(n, messages, d), data' = d,
             NEW branch \in InOrder(enabled),
             tokens' = rest \o [k \in DOMAIN branch |->
                         NewToken(nextTokenID + k - 1, graph.edges[n][branch[k]])],
             Allocate(Cardinality(enabled)), NextIndex,
             UNCHANGED <<state, mergeVisited>>
      PROVE  NodeStep
  <2> DEFINE c == Cardinality(enabled)
             new == [k \in DOMAIN branch |->
                       NewToken(nextTokenID + k - 1, graph.edges[n][branch[k]])]
  <2>1. c \in Nat
    <3>1. graph.edges[n] \in Seq(Nodes)
      BY <1>1, GraphType DEF Inv, IsGraph
    <3>2. IsFiniteSet(DOMAIN graph.edges[n])
      BY <3>1, LenProperties, FS_Interval
    <3>3. enabled \subseteq DOMAIN graph.edges[n]
      BY DEF enabledSuccessions
    <3> QED BY <3>2, <3>3, FS_Subset, FS_CardinalityType
  <2>2. branch \in [1..c -> enabled] /\ DOMAIN branch = 1..c
    BY <1>5 DEF InOrder
  <2>3. \A k \in 1..c : graph.edges[n][branch[k]] \in Nodes
    BY <1>1, <2>2, EdgeNodes DEF enabledSuccessions
  <2>4. new \in [1..c -> Token]
    BY <1>2, <2>1, <2>2, <2>3 DEF NewToken, Token
  <2>5. \A k \in 1..c : new[k].id = nextTokenID + k - 1 /\ new[k].wait = FALSE
    BY <1>2, <2>2 DEF NewToken
  <2>6. tokens' = rest \o new
    BY <1>5
  <2> HIDE DEF new, c
  <2>7. /\ GoodTokens(graph, rest, nextTokenID)
        /\ From(tokens, cursor, rest, nextTokenID)
    BY <1>1, <1>2, RemoveToken DEF SameFlow
  <2> HIDE DEF rest
  <2>8. /\ GoodTokens(graph, rest \o new, nextTokenID + c)
        /\ From(tokens, cursor, rest \o new, nextTokenID)
    BY <1>2, <2>1, <2>4, <2>5, <2>7, AddTokens, Zenon
  <2> DEFINE us == rest \o new
  <2>9. GoodTokens(graph, us, nextTokenID + c) /\ From(tokens, cursor, us, nextTokenID)
    BY <2>8
  <2> HIDE DEF us
  <2>10. nextTokenID' = nextTokenID + c
    BY <1>5 DEF Allocate, c
  <2>11. TokensStep
    <3>1. tokens' = us
      BY <2>6 DEF us
    <3>2. nextTokenID' \in Nat /\ nextTokenID' >= nextTokenID
      BY <1>2, <2>1, <2>10
    <3> QED BY <1>5, <2>9, <2>10, <3>1, <3>2 DEF TokensStep
  <2> QED BY <1>1, <1>2, <1>3, <1>5, <2>11 DEF NodeStep, ValuesStep
<1>6. \/ Outcome(tokens, n, messages, d)
      \/ /\ BodyRuns(n, messages, d) /\ data' = d
         /\ \E branch \in InOrder(enabled) :
              tokens' = rest \o [k \in DOMAIN branch |->
                          NewToken(nextTokenID + k - 1, graph.edges[n][branch[k]])]
         /\ Allocate(Cardinality(enabled)) /\ NextIndex
         /\ UNCHANGED <<state, mergeVisited>>
  BY <1>3 DEF stepForkNode, Outcome, Errors
<1> QED BY <1>4, <1>5, <1>6

(* stepJoinNode waits, or rebuilds the slice without the tokens it joins    *)
(* and with at most one new one.                                            *)
LEMMA JoinNodeStep == ASSUME Inv, stepJoinNode PROVE NodeStep
<1> DEFINE n == Here
           d == AfterBody(n)
<1>1. cursor \in DOMAIN tokens /\ n \in Nodes /\ PassOnce
  <2>1. cursor \in DOMAIN tokens /\ graph.kind[n] = "join"
    BY DEF stepJoinNode, Stepping, Here
  <2> QED BY <2>1, SteppingFacts
<1>2. /\ SameFlow(tokens) /\ nextTokenID \in Nat
      /\ GoodTokens(graph, tokens, nextTokenID)
      /\ messages \in Seq(Messages) /\ mergeVisited \subseteq MergeNodes
  BY InvTokens DEF Inv, TypeOK, VisitedAreMerges
<1>3. /\ d \in Data \cup {Fails}
      /\ BodyRuns(n, messages, d) => d \in Data /\ messages' \in Seq(Messages)
  BY <1>1, <1>2, BodyValues
<1>4. CASE Outcome(tokens, n, messages, d)
  BY <1>1, <1>2, <1>3, <1>4, OutcomeStep
<1>5. CASE Stays(tokens)
  BY <1>1, <1>2, <1>5, StaysStep DEF NodeStep
<1>6. ASSUME BodyRuns(n, messages, d), data' = d,
             tokens' \in Remaining(n),
             state' = IF tokens' = <<>> THEN "Completed" ELSE state,
             NextIndex, UNCHANGED <<nextTokenID, mergeVisited>>
      PROVE  NodeStep
  <2>1. /\ GoodTokens(graph, tokens', nextTokenID)
        /\ From(tokens, cursor, tokens', nextTokenID)
    BY <1>1, <1>2, <1>6, RemainingTokens
  <2>2. TokensStep
    BY <1>2, <1>6, <2>1 DEF TokensStep
  <2> QED BY <1>1, <1>2, <1>3, <1>6, <2>2 DEF NodeStep, ValuesStep
<1>7. ASSUME BodyRuns(n, messages, d), data' = d, NEW ts \in Remaining(n),
             Len(graph.edges[n]) = 1,
             tokens' = Append(ts, NewToken(nextTokenID, graph.edges[n][1])),
             Allocate(1), NextIndex, UNCHANGED <<state, mergeVisited>>
      PROVE  NodeStep
  <2> DEFINE t == NewToken(nextTokenID, graph.edges[n][1])
             new == [k \in 1..1 |-> t]
             us == ts \o new
  <2>1. /\ GoodTokens(graph, ts, nextTokenID)
        /\ From(tokens, cursor, ts, nextTokenID)
    BY <1>1, <1>2, RemainingTokens
  <2>2. graph.edges[n] \in Seq(Nodes)
    BY <1>1, GraphType DEF Inv, IsGraph
  <2>3. graph.edges[n][1] \in Nodes
    BY <1>7, <2>2, ElementOfSeq
  <2>4. t \in Token /\ t.id = nextTokenID /\ t.wait = FALSE
    BY <1>2, <2>3 DEF NewToken, Token
  <2>5. tokens' = Append(ts, t)
    BY <1>7
  <2> HIDE DEF t
  <2>6. new \in [1..1 -> Token] /\ new = <<t>>
    BY <2>4
  <2>7. \A j \in 1..1 : new[j].id = nextTokenID + j - 1 /\ new[j].wait = FALSE
    BY <1>2, <2>4
  <2>8. tokens' = us
    BY <2>1, <2>4, <2>5, <2>6, AppendIsConcat DEF GoodTokens
  <2> HIDE DEF new
  <2>9. /\ GoodTokens(graph, us, nextTokenID + 1)
        /\ From(tokens, cursor, us, nextTokenID)
    <3>1. 1 \in Nat
      OBVIOUS
    <3> QED BY <1>2, <2>1, <2>6, <2>7, <3>1, AddTokens, Zenon
  <2> HIDE DEF us
  <2>10. nextTokenID' = nextTokenID + 1
    BY <1>7 DEF Allocate
  <2>11. TokensStep
    BY <1>2, <1>7, <2>8, <2>9, <2>10 DEF TokensStep
  <2> QED BY <1>1, <1>2, <1>3, <1>7, <2>11 DEF NodeStep, ValuesStep
<1>8. CASE /\ BodyRuns(n, messages, d) /\ data' = d
           /\ tokens' \in Remaining(n)
           /\ state' = IF tokens' = <<>> THEN "Completed" ELSE state
           /\ NextIndex /\ UNCHANGED <<nextTokenID, mergeVisited>>
  BY <1>6, <1>8
<1>9. CASE /\ BodyRuns(n, messages, d) /\ data' = d /\ Len(graph.edges[n]) = 1
           /\ \E ts \in Remaining(n) :
                tokens' = Append(ts, NewToken(nextTokenID, graph.edges[n][1]))
           /\ Allocate(1) /\ NextIndex /\ UNCHANGED <<state, mergeVisited>>
  BY <1>7, <1>9
<1> QED BY <1>3, <1>4, <1>5, <1>8, <1>9 DEF stepJoinNode, Outcome, Errors

(* stepMergeNode lets a token by only at a merge no token has traversed,    *)
(* and records it.                                                          *)
LEMMA MergeNodeStep == ASSUME Inv, stepMergeNode PROVE NodeStep
<1> DEFINE n == Here
<1>1. cursor \in DOMAIN tokens /\ graph.kind[n] = "merge"
  BY DEF stepMergeNode, Stepping, Here
<1>2. n \in Nodes /\ tokens[cursor].wait = FALSE
  BY <1>1, SteppingFacts DEF AcceptKinds
<1>3. /\ SameFlow(tokens) /\ nextTokenID \in Nat
      /\ GoodTokens(graph, tokens, nextTokenID)
      /\ messages \in Seq(Messages) /\ mergeVisited \subseteq MergeNodes
  BY InvTokens DEF Inv, TypeOK, VisitedAreMerges
<1>4. CASE Traversed(n)
  <2>1. /\ tokens' = RemoveAt(tokens, cursor) /\ NextIndex
        /\ UNCHANGED <<state, nextTokenID, mergeVisited, data, messages>>
    BY <1>4 DEF stepMergeNode
  <2>2. TokensStep
    <3>1. /\ GoodTokens(graph, tokens', nextTokenID)
          /\ From(tokens, cursor, tokens', nextTokenID)
      BY <1>1, <1>3, <2>1, RemoveToken
    <3> QED BY <1>3, <2>1, <3>1 DEF TokensStep
  <2> QED BY <2>1, <2>2, UnchangedValues DEF NodeStep, PassOnce
<1>5. CASE ~Traversed(n)
  <2>1. PassOnce
    BY <1>5 DEF Traversed, PassOnce
  <2>2. /\ AfterBody(n) \in Data \cup {Fails}
        /\ BodyRuns(n, messages, AfterBody(n))
             => AfterBody(n) \in Data /\ messages' \in Seq(Messages)
    BY <1>2, <1>3, BodyValues
  <2>3. CASE Outcome(tokens, n, messages, AfterBody(n))
    BY <1>1, <1>2, <1>3, <2>1, <2>2, <2>3, OutcomeStep
  <2>4. CASE retireToken(tokens) /\ UNCHANGED <<mergeVisited, data, messages>>
    BY <1>1, <1>3, <2>1, <2>4, RetireStep, UnchangedValues DEF NodeStep
  <2>5. CASE /\ BodyRuns(n, messages, AfterBody(n)) /\ data' = AfterBody(n)
             /\ Len(graph.edges[n]) = 1
             /\ mergeVisited' = mergeVisited \cup {n}
             /\ Advance(tokens, graph.edges[n][1])
    <3>1. graph.edges[n][1] \in Nodes
      <4>1. graph.edges[n] \in Seq(Nodes)
        BY <1>2, GraphType DEF Inv, IsGraph
      <4> QED BY <2>5, <4>1, ElementOfSeq
    <3>2. TokensStep
      BY <1>1, <1>2, <1>3, <2>5, <3>1, AdvanceStep
    <3>3. mergeVisited' \subseteq MergeNodes
      BY <1>1, <1>2, <1>3, <2>5 DEF MergeNodes
    <3> QED BY <2>1, <2>2, <2>5, <3>2, <3>3 DEF NodeStep, ValuesStep
  <2> QED
    BY <1>5, <2>3, <2>4, <2>5 DEF stepMergeNode, Outcome, Errors
<1> QED BY <1>4, <1>5

(* stepDecisionNode moves its token along one succession, or fails. *)
LEMMA DecisionNodeStep == ASSUME Inv, stepDecisionNode PROVE NodeStep
<1>1. cursor \in DOMAIN tokens /\ graph.kind[Here] = "decision"
  BY DEF stepDecisionNode, Stepping, Here
<1>2. Here \in Nodes /\ PassOnce /\ tokens[cursor].wait = FALSE
  BY <1>1, SteppingFacts DEF AcceptKinds
<1>3. SameFlow(tokens) /\ messages \in Seq(Messages)
  BY InvTokens DEF Inv, TypeOK
<1>4. /\ AfterBody(Here) \in Data \cup {Fails}
      /\ BodyRuns(Here, messages, AfterBody(Here)) => AfterBody(Here) \in Data
  BY <1>2, <1>3, BodyValues
<1>5. Outcome(tokens, Here, messages, AfterBody(Here))
  BY <1>2, <1>4, EdgeNodes DEF stepDecisionNode, Outcome, Errors
<1> QED BY <1>1, <1>2, <1>3, <1>4, <1>5, OutcomeStep

(* A node that performs something fails, ends its token or moves it along   *)
(* one succession.                                                          *)
LEMMA PerformStep ==
  ASSUME Inv, PassOnce, cursor \in DOMAIN tokens, NEW ts, SameFlow(ts),
         ts[cursor].wait = FALSE, NEW n \in Nodes,
         NEW bus \in Seq(Messages), NEW given \in Data,
         Perform(ts, n, bus, given)
  PROVE  NodeStep
<1> DEFINE d == graph.body[n][given]
<1>1. /\ d \in Data \cup {Fails}
      /\ graph.flow[n][d] # Fails /\ d \in Data => graph.flow[n][d] \in Data
  BY GraphType DEF Inv, IsGraph
<1>2. BodyRuns(n, bus, d) => d \in Data
  BY <1>1, BodyValues
<1>3. Outcome(ts, n, bus, d)
  BY <1>1, <1>2, EdgeNodes DEF Perform, Outcome, Errors, enabledSuccessions
<1> HIDE DEF d
<1> QED BY <1>1, <1>3, OutcomeStep

(* stepActionNode performs its node with the bus as it is. *)
LEMMA ActionNodeStep == ASSUME Inv, stepActionNode PROVE NodeStep
<1>1. cursor \in DOMAIN tokens /\ graph.kind[Here] = "action"
  BY DEF stepActionNode, Stepping, Here
<1>2. Here \in Nodes /\ PassOnce /\ tokens[cursor].wait = FALSE
  BY <1>1, SteppingFacts DEF AcceptKinds
<1>3. SameFlow(tokens) /\ messages \in Seq(Messages)
  BY InvTokens DEF Inv, TypeOK
<1> QED BY <1>1, <1>2, <1>3, PerformStep DEF stepActionNode, Inv, TypeOK

(* Parking a token at an accept, or letting it go on, moves no token.       *)
LEMMA WaitChange ==
  ASSUME Inv, cursor \in DOMAIN tokens
  PROVE  /\ SameFlow(Resumed) /\ Resumed[cursor].wait = FALSE
         /\ graph.kind[Here] \in AcceptKinds => SameFlow(Parked)
<1>1. /\ GoodTokens(graph, tokens, nextTokenID) /\ nextTokenID \in Nat
      /\ tokens[cursor] \in Token
  BY InvTokens, SteppingFacts
<1> DEFINE r == [tokens[cursor] EXCEPT !.wait = FALSE]
           p == [tokens[cursor] EXCEPT !.wait = TRUE]
<1>2. /\ r \in Token /\ r.id = tokens[cursor].id /\ r.loc = Here
      /\ r.wait = FALSE
      /\ p \in Token /\ p.id = tokens[cursor].id /\ p.loc = Here
  BY <1>1 DEF Token, Here
<1>3. /\ Resumed = [tokens EXCEPT ![cursor] = r]
      /\ Parked = [tokens EXCEPT ![cursor] = p]
  BY DEF Resumed, Parked
<1> HIDE DEF r, p
<1>4. SameFlow(Resumed) /\ Resumed[cursor].wait = FALSE
  <2>1. GoodTokens(graph, Resumed, nextTokenID)
    BY <1>1, <1>2, <1>3, ReplaceToken
  <2> QED BY <1>2, <1>3, <2>1 DEF SameFlow, Here
<1>5. ASSUME graph.kind[Here] \in AcceptKinds PROVE SameFlow(Parked)
  <2>1. GoodTokens(graph, Parked, nextTokenID)
    BY <1>1, <1>2, <1>3, <1>5, ReplaceToken
  <2> QED BY <1>2, <1>3, <2>1 DEF SameFlow, Here
<1> QED BY <1>4, <1>5

(* stepAcceptNode parks its token, or clears its mark before the node is    *)
(* performed.                                                               *)
LEMMA AcceptNodeStep == ASSUME Inv, stepAcceptNode PROVE NodeStep
<1>1. cursor \in DOMAIN tokens /\ graph.kind[Here] = "accept"
  BY DEF stepAcceptNode, Stepping, Here
<1>2. Here \in Nodes /\ PassOnce
  BY <1>1, SteppingFacts
<1>3. /\ SameFlow(Resumed) /\ Resumed[cursor].wait = FALSE /\ SameFlow(Parked)
  BY <1>1, WaitChange DEF AcceptKinds
<1>4. CASE Stays(Parked)
  BY <1>2, <1>3, <1>4, StaysStep DEF NodeStep
<1>5. ASSUME NEW i \in Acceptable(Here)
      PROVE  RemoveAt(messages, i) \in Seq(Messages)
  <2>1. messages \in Seq(Messages) /\ i \in DOMAIN messages
    BY DEF Inv, TypeOK, Acceptable
  <2>2. i \in 1..Len(messages)
    BY <2>1, LenProperties
  <2> QED BY <2>1, <2>2, RemoveAtProperties
<1>6. ASSUME NEW i \in Acceptable(Here),
             messages' = RemoveAt(messages, i),
             StepFails(Resumed, "eval"), UNCHANGED data
      PROVE  NodeStep
  <2>1. TokensStep /\ mergeVisited' \subseteq MergeNodes
    BY <1>3, <1>6, FailStep DEF Errors
  <2>2. messages' \in Seq(Messages)
    BY <1>5, <1>6
  <2> QED BY <1>2, <1>6, <2>1, <2>2 DEF NodeStep, ValuesStep, Inv, TypeOK
<1>7. ASSUME NEW i \in Acceptable(Here), NEW given \in Data,
             Perform(Resumed, Here, RemoveAt(messages, i), given)
      PROVE  NodeStep
  BY <1>1, <1>2, <1>3, <1>5, <1>7, PerformStep
<1>8. ASSUME NEW i \in Acceptable(Here)
      PROVE  graph.binds[Here][messages[i]][data] \in Data \cup {Fails}
  <2>1. messages[i] \in Messages
    BY LenProperties, ElementOfSeq DEF Inv, TypeOK, Acceptable
  <2> QED BY <1>2, <2>1, GraphType DEF Inv, TypeOK, IsGraph
<1> QED BY <1>4, <1>6, <1>7, <1>8 DEF stepAcceptNode

(* A change trigger parks its token, or clears its mark before the node is  *)
(* performed.                                                               *)
LEMMA WhenNodeStep == ASSUME Inv, stepWhenNode PROVE NodeStep
<1>1. cursor \in DOMAIN tokens /\ graph.kind[Here] = "when"
  BY DEF stepWhenNode, Stepping, Here
<1>2. Here \in Nodes /\ PassOnce
  BY <1>1, SteppingFacts
<1>3. /\ SameFlow(Resumed) /\ Resumed[cursor].wait = FALSE /\ SameFlow(Parked)
      /\ SameFlow(tokens) /\ messages \in Seq(Messages)
  BY <1>1, WaitChange, InvTokens DEF AcceptKinds, Inv, TypeOK
<1>4. CASE StepFails(tokens, "eval") /\ UNCHANGED <<data, messages>>
  BY <1>2, <1>3, <1>4, FailStep, UnchangedValues DEF StepFails, Errors, NodeStep
<1>5. CASE Stays(Parked)
  BY <1>2, <1>3, <1>5, StaysStep DEF NodeStep
<1>6. CASE Perform(Resumed, Here, messages, data)
  BY <1>1, <1>2, <1>3, <1>6, PerformStep DEF Inv, TypeOK
<1> QED BY <1>4, <1>5, <1>6 DEF stepWhenNode

(* A time trigger only fails: the executor has no clock. *)
LEMMA TimeNodeStep == ASSUME Inv, stepTimeNode PROVE NodeStep
<1>1. cursor \in DOMAIN tokens /\ graph.kind[Here] = "after"
  BY DEF stepTimeNode, Stepping, Here
<1>2. PassOnce
  BY <1>1, SteppingFacts
<1>3. SameFlow(tokens)
  BY InvTokens
<1> QED
  BY <1>2, <1>3, FailStep, UnchangedValues
     DEF stepTimeNode, StepFails, Errors, NodeStep

-----------------------------------------------------------------------------
(* Inv is inductive *)

(* Every case of stepToken does no more to the slice than one token's step  *)
(* may.                                                                    *)
LEMMA NodeSteps ==
  ASSUME Inv, stepToken
  PROVE  NodeStep /\ pc = "token" /\ cursor \in DOMAIN tokens
<1>1. pc = "token" /\ cursor \in DOMAIN tokens
  BY DEF stepToken, Stepping, stepInitialNode, stepFinalNode, stepForkNode,
         stepJoinNode, stepMergeNode, stepDecisionNode, stepActionNode,
         stepAcceptNode, stepWhenNode, stepTimeNode
<1>2. NodeStep
  BY InitialNodeStep, FinalNodeStep, ForkNodeStep, JoinNodeStep, MergeNodeStep,
     DecisionNodeStep, ActionNodeStep, AcceptNodeStep, WhenNodeStep, TimeNodeStep
     DEF stepToken
<1> QED BY <1>1, <1>2

(* The types of what a call keeps between two actions.                     *)
CallTypes ==
  /\ call \in Calls /\ pc \in {"idle", "loop", "token"} /\ cursor \in Nat
  /\ before \in Seq(Token) /\ steps \in Nat /\ err \in Errors

(* A call that ends leaves its own variables of the right types. *)
LEMMA ReturnTypes ==
  ASSUME NEW e \in Errors, Return(e)
  PROVE  CallTypes'
<1>1. <<>> \in Seq(Token)
  BY EmptySeq
<1> QED BY <1>1 DEF Return, CallTypes, Calls

(* The step of a token keeps the invariant, whichever node it is at. *)
LEMMA TokenKeepsInv == ASSUME Inv, stepToken PROVE Inv'
<1>1. NodeStep /\ pc = "token" /\ cursor \in DOMAIN tokens
  BY NodeSteps
<1>2. /\ UNCHANGED <<action, breakpoints, firedBreakpoints, pausedAt, calls, posts>>
      /\ stopped' = {v \in stopped : VisitHolds(v, tokens')}
  BY DEF stepToken, debugVars, boundVars
<1>3. graph' = graph
  BY <1>2 DEF graph
<1>4. tokens' \in Seq(Token) /\ GoodTokens(graph, tokens', nextTokenID')
  BY <1>1 DEF NodeStep, TokensStep, GoodTokens
<1>5. cursor \in Nat \ {0}
  BY <1>1, LenProperties DEF Inv, TypeOK
<1>6. state = "Running" /\ state' \in {"Running", "Completed"}
  BY <1>1 DEF NodeStep, TokensStep, Inv, SteppingRuns, CompletedHoldsNoToken
<1>7. TypeOK'
  <2>1. CallTypes'
    <3>1. CASE NextIndex
      BY <1>5, <3>1 DEF NextIndex, Inv, TypeOK, CallTypes
    <3>2. CASE \E e \in Errors : Return(e)
      BY <3>2, ReturnTypes
    <3> QED BY <1>1, <3>1, <3>2 DEF NodeStep, TokensStep
  <2>2. /\ data' \in Data /\ messages' \in Seq(Messages)
        /\ mergeVisited' \subseteq Nodes /\ nextTokenID' \in Nat
    BY <1>1 DEF NodeStep, TokensStep, ValuesStep, MergeNodes
  <2>3. stopped' \subseteq Visit
    BY <1>2 DEF Inv, TypeOK
  <2> QED BY <1>2, <1>4, <1>6, <2>1, <2>2, <2>3 DEF Inv, TypeOK, CallTypes, States
<1>8. TokenIdentity'
  <2>1. ASSUME NEW v \in firedBreakpoints' \cup stopped'
        PROVE  v.token < nextTokenID'
    <3>1. v \in firedBreakpoints \cup stopped /\ v.token \in Nat
      BY <1>2 DEF Inv, TypeOK, Visit
    <3>2. v.token < nextTokenID
      BY <3>1 DEF Inv, TokenIdentity
    <3>3. nextTokenID \in Nat /\ nextTokenID' \in Nat /\ nextTokenID' >= nextTokenID
      BY <1>1, InvTokens DEF NodeStep, TokensStep
    <3> QED BY <3>1, <3>2, <3>3
  <2> QED BY <1>4, <2>1 DEF GoodTokens, TokenIdentity
<1>9. ParkedAtAccept'
  BY <1>3, <1>4 DEF GoodTokens, AcceptKinds, ParkedAtAccept
<1>10. CompletedHoldsNoToken'
  BY <1>1, <1>6 DEF NodeStep, TokensStep, CompletedHoldsNoToken
<1>11. SuspendedIffPaused'
  BY <1>2, <1>6 DEF Inv, SuspendedIffPaused
<1>12. VisitedAreMerges'
  BY <1>1, <1>3 DEF NodeStep, ValuesStep, VisitedAreMerges, MergeNodes
<1>13. SteppingRuns'
  BY <1>6 DEF SteppingRuns
<1>14. StoppedIsFired'
  BY <1>2 DEF Inv, StoppedIsFired
<1> QED
  BY <1>7, <1>8, <1>9, <1>10, <1>11, <1>12, <1>13, <1>14 DEF Inv

(* What leaves the tokens and the breakpoint records alone keeps the rest.  *)
LEMMA SameTokens ==
  ASSUME Inv,
         UNCHANGED <<action, tokens, nextTokenID, mergeVisited,
                     firedBreakpoints, stopped>>
  PROVE  /\ TokenIdentity' /\ ParkedAtAccept' /\ VisitedAreMerges'
         /\ StoppedIsFired'
<1> QED
  BY DEF Inv, TokenIdentity, ParkedAtAccept, VisitedAreMerges, MergeNodes,
         StoppedIsFired, VisitHolds, graph

(* Passing over an index that is no longer in the slice keeps the           *)
(* invariant.                                                               *)
LEMMA SkipIndexKeepsInv == ASSUME Inv, SkipIndex PROVE Inv'
<1>1. cursor \in Nat \ {0}
  <2>1. Len(tokens) \in Nat /\ cursor \in Nat
    BY LenProperties DEF Inv, TypeOK
  <2> QED BY <2>1 DEF SkipIndex
<1>2. TypeOK'
  BY <1>1 DEF SkipIndex, NextIndex, execVars, debugVars, boundVars, Inv, TypeOK
<1>3. /\ CompletedHoldsNoToken' /\ SuspendedIffPaused' /\ SteppingRuns'
  BY DEF SkipIndex, NextIndex, execVars, debugVars, Inv, CompletedHoldsNoToken,
         SuspendedIffPaused, SteppingRuns
<1>4. /\ TokenIdentity' /\ ParkedAtAccept' /\ VisitedAreMerges' /\ StoppedIsFired'
  BY SameTokens DEF SkipIndex, execVars, debugVars
<1> QED BY <1>2, <1>3, <1>4 DEF Inv

(* The end of Step, with progress, a deadlock or a suspension, keeps the    *)
(* invariant.                                                               *)
LEMMA EndStepKeepsInv == ASSUME Inv, EndStep PROVE Inv'
<1>1. /\ UNCHANGED <<action, tokens, nextTokenID, mergeVisited, data, messages,
                     breakpoints, firedBreakpoints, pausedAt, calls, posts, stopped>>
      /\ pc = "token"
  BY DEF EndStep, debugVars, boundVars
<1>2. /\ \/ Return("none") \/ Return("deadlock") \/ Return("acceptDeadlock")
         \/ /\ pc' = "loop" /\ steps' = steps + 1 /\ before' = <<>>
            /\ UNCHANGED <<call, cursor, err>>
      /\ state' = state \/ (state' = "Waiting" /\ tokens # <<>>)
  BY DEF EndStep, StepTaken, Progress
<1>3. state \in {"Running", "Completed"} /\ pc' # "token"
  BY <1>1, <1>2 DEF Inv, SteppingRuns, Return
<1>4. TypeOK'
  <2>1. CallTypes'
    <3>1. CASE Return("none") \/ Return("deadlock") \/ Return("acceptDeadlock")
      BY <3>1, ReturnTypes DEF Errors
    <3>2. CASE /\ pc' = "loop" /\ steps' = steps + 1 /\ before' = <<>>
               /\ UNCHANGED <<call, cursor, err>>
      <4>1. <<>> \in Seq(Token)
        BY EmptySeq
      <4> QED BY <3>2, <4>1 DEF CallTypes, Inv, TypeOK
    <3> QED BY <1>2, <3>1, <3>2
  <2>2. state' \in States
    BY <1>2 DEF Inv, TypeOK, States
  <2> QED BY <1>1, <2>1, <2>2 DEF CallTypes, Inv, TypeOK
<1>5. CompletedHoldsNoToken' /\ SuspendedIffPaused' /\ SteppingRuns'
  BY <1>1, <1>2, <1>3
     DEF Inv, CompletedHoldsNoToken, SuspendedIffPaused, SteppingRuns
<1>6. /\ TokenIdentity' /\ ParkedAtAccept' /\ VisitedAreMerges' /\ StoppedIsFired'
  BY <1>1, SameTokens
<1> QED BY <1>4, <1>5, <1>6 DEF Inv

(* The beginning of Step, which lifts a suspension, keeps the invariant. *)
LEMMA BeginStepKeepsInv ==
  ASSUME Inv, NEW c \in Calls, BeginStep(c), state \notin {"Ready", "Completed"},
         firedBreakpoints' = firedBreakpoints \/ firedBreakpoints' = LiveVisits,
         UNCHANGED breakpoints, steps' \in Nat, err' \in Errors, calls' \in Nat
  PROVE  Inv'
<1>1. /\ UNCHANGED <<action, tokens, nextTokenID, mergeVisited, data, messages,
                     posts, stopped>>
      /\ call' = c /\ pc' = "token" /\ cursor' = Len(tokens) /\ before' = tokens
  BY DEF BeginStep
<1>2. firedBreakpoints' \subseteq firedBreakpoints
  BY DEF LiveVisits
<1>3. state' = "Running" /\ pausedAt' = None
  BY DEF BeginStep, Inv, TypeOK, States, SuspendedIffPaused
<1>4. TypeOK'
  <2>1. Len(tokens) \in Nat
    BY LenProperties DEF Inv, TypeOK
  <2> QED BY <1>1, <1>2, <1>3, <2>1 DEF Inv, TypeOK, States
<1>5. TokenIdentity'
  BY <1>1, <1>2 DEF Inv, TokenIdentity
<1>6. ParkedAtAccept' /\ VisitedAreMerges'
  BY <1>1 DEF Inv, ParkedAtAccept, VisitedAreMerges, MergeNodes, graph
<1>7. CompletedHoldsNoToken' /\ SuspendedIffPaused' /\ SteppingRuns'
  BY <1>3 DEF CompletedHoldsNoToken, SuspendedIffPaused, SteppingRuns
<1>8. StoppedIsFired'
  BY <1>1 DEF Inv, StoppedIsFired, VisitHolds, LiveVisits
<1> QED BY <1>4, <1>5, <1>6, <1>7, <1>8 DEF Inv

(* When breakpointHit forgets the visits of tokens that have left, it still *)
(* remembers every visit a run has stopped on whose token has not.         *)
LEMMA LiveVisitsKeepsStopped ==
  ASSUME Inv
  PROVE  stopped \subseteq LiveVisits /\ LiveVisits \subseteq firedBreakpoints
<1> QED BY DEF Inv, StoppedIsFired, LiveVisits

(* The head of the run loop, breakpoint check included, keeps the           *)
(* invariant.                                                               *)
LEMMA RunLoopKeepsInv == ASSUME Inv, RunLoop PROVE Inv'
<1>1. CASE /\ Return("none")
           /\ UNCHANGED <<action, execVars, debugVars, calls, posts, stopped>>
  <2>1. UNCHANGED <<action, tokens, state, nextTokenID, mergeVisited, data, messages,
                    breakpoints, firedBreakpoints, pausedAt, calls, posts, stopped>>
    BY <1>1 DEF execVars, debugVars
  <2>2. CallTypes' /\ pc' = "idle"
    BY <1>1, ReturnTypes DEF Errors, Return
  <2>3. TypeOK'
    BY <2>1, <2>2 DEF Inv, TypeOK, CallTypes
  <2>4. CompletedHoldsNoToken' /\ SuspendedIffPaused' /\ SteppingRuns'
    BY <2>1, <2>2 DEF Inv, CompletedHoldsNoToken, SuspendedIffPaused, SteppingRuns
  <2> QED BY <2>1, <2>3, <2>4, SameTokens DEF Inv
<1>2. ASSUME state \in {"Running", "Waiting"}, NEW i \in Unfired,
             firedBreakpoints' = LiveVisits \cup {VisitOf(tokens[i])},
             stopped' = stopped \cup {VisitOf(tokens[i])},
             pausedAt' = tokens[i].loc, state' = "Suspended", Return("none"),
             UNCHANGED <<action, tokens, nextTokenID, mergeVisited, data,
                         messages, breakpoints, calls, posts>>
      PROVE  Inv'
  <2>1. i \in DOMAIN tokens /\ tokens[i] \in Token
    BY <1>2, ElementOfSeq, LenProperties DEF Unfired, Inv, TypeOK
  <2> DEFINE v == VisitOf(tokens[i])
  <2>2. /\ v \in Visit /\ v.token = tokens[i].id /\ v.node = tokens[i].loc
        /\ v.node \in Nodes
    BY <2>1 DEF VisitOf, Visit, Token
  <2>3. firedBreakpoints' = LiveVisits \cup {v} /\ stopped' = stopped \cup {v}
    BY <1>2
  <2> HIDE DEF v
  <2>4. CallTypes' /\ pc' = "idle"
    BY <1>2, ReturnTypes DEF Errors, Return
  <2>5. pausedAt' \in Nodes
    BY <1>2, <2>2
  <2>6. TypeOK'
    BY <1>2, <2>2, <2>3, <2>4, <2>5, LiveVisitsKeepsStopped
       DEF Inv, TypeOK, CallTypes, States
  <2>7. TokenIdentity'
    BY <1>2, <2>1, <2>2, <2>3, LiveVisitsKeepsStopped DEF Inv, TokenIdentity
  <2>8. ParkedAtAccept' /\ VisitedAreMerges'
    BY <1>2 DEF Inv, ParkedAtAccept, VisitedAreMerges, MergeNodes, graph
  <2>9. CompletedHoldsNoToken' /\ SuspendedIffPaused' /\ SteppingRuns'
    BY <1>2, <2>4, <2>5, NodesAssumption
       DEF CompletedHoldsNoToken, SuspendedIffPaused, SteppingRuns
  <2>10. StoppedIsFired'
    <3>1. VisitHolds(v, tokens)
      BY <2>1, <2>2 DEF VisitHolds
    <3> QED BY <1>2, <2>3, <3>1, LiveVisitsKeepsStopped
            DEF Inv, StoppedIsFired, VisitHolds
  <2> QED BY <2>6, <2>7, <2>8, <2>9, <2>10 DEF Inv
<1>3. ASSUME firedBreakpoints' = LiveVisits, Return("budget"),
             UNCHANGED <<action, execVars, pausedAt, posts, stopped, breakpoints,
                         calls>>
      PROVE  Inv'
  <2>1. UNCHANGED <<action, tokens, state, nextTokenID, mergeVisited, data, messages,
                    breakpoints, pausedAt, calls, posts, stopped>>
    BY <1>3 DEF execVars
  <2>2. CallTypes' /\ pc' = "idle"
    BY <1>3, ReturnTypes DEF Errors, Return
  <2>3. firedBreakpoints' \subseteq firedBreakpoints /\ stopped \subseteq firedBreakpoints'
    BY <1>3, LiveVisitsKeepsStopped
  <2>4. TypeOK'
    BY <2>1, <2>2, <2>3 DEF Inv, TypeOK, CallTypes
  <2>5. CompletedHoldsNoToken' /\ SuspendedIffPaused' /\ SteppingRuns'
    BY <2>1, <2>2 DEF Inv, CompletedHoldsNoToken, SuspendedIffPaused, SteppingRuns
  <2>6. TokenIdentity' /\ StoppedIsFired'
    BY <2>1, <2>3 DEF Inv, TokenIdentity, StoppedIsFired, VisitHolds
  <2>7. ParkedAtAccept' /\ VisitedAreMerges'
    BY <2>1 DEF Inv, ParkedAtAccept, VisitedAreMerges, MergeNodes, graph
  <2> QED BY <2>4, <2>5, <2>6, <2>7 DEF Inv
<1>4. ASSUME state \in {"Running", "Waiting"}, firedBreakpoints' = LiveVisits,
             BeginStep(call), UNCHANGED <<steps, err, breakpoints, calls>>
      PROVE  Inv'
  BY <1>4, BeginStepKeepsInv DEF Inv, TypeOK
<1> QED BY <1>1, <1>2, <1>3, <1>4 DEF RunLoop

(* initialize, which puts the first token on the initial node, keeps the    *)
(* invariant.                                                               *)
LEMMA InitializeKeepsInv == ASSUME Inv, initialize PROVE Inv'
<1>1. /\ UNCHANGED <<action, mergeVisited, messages, breakpoints, firedBreakpoints,
                     pausedAt, calls, posts, stopped>>
      /\ state = "Ready"
  BY DEF initialize, debugVars, boundVars
<1>2. \E e \in Errors : Return(e)
  BY DEF initialize, Errors
<1>3. CallTypes' /\ pc' = "idle"
  BY <1>2, ReturnTypes DEF Return
<1>4. IsGraph(graph)
  BY GraphType DEF Inv
<1>5. data' \in Data
  BY <1>4 DEF initialize, Inv, TypeOK, IsGraph
<1>6. CASE UNCHANGED <<tokens, state, nextTokenID>>
  <2>1. TypeOK'
    BY <1>1, <1>3, <1>5, <1>6 DEF Inv, TypeOK, CallTypes
  <2>2. CompletedHoldsNoToken' /\ SuspendedIffPaused' /\ SteppingRuns'
    BY <1>1, <1>3, <1>6
       DEF Inv, CompletedHoldsNoToken, SuspendedIffPaused, SteppingRuns
  <2> QED BY <1>1, <1>6, <2>1, <2>2, SameTokens DEF Inv
<1>7. ASSUME graph.initial # None, Allocate(1), state' = "Running",
             tokens' = Append(tokens, NewToken(nextTokenID, graph.initial))
      PROVE  Inv'
  <2> DEFINE t == NewToken(nextTokenID, graph.initial)
             new == [k \in 1..1 |-> t]
             us == tokens \o new
  <2>1. GoodTokens(graph, tokens, nextTokenID) /\ nextTokenID \in Nat
    BY InvTokens
  <2>2. t \in Token /\ t.id = nextTokenID /\ t.wait = FALSE
    BY <1>4, <1>7, <2>1 DEF NewToken, Token, IsGraph
  <2>3. tokens' = Append(tokens, t)
    BY <1>7
  <2> HIDE DEF t
  <2>4. new \in [1..1 -> Token] /\ new = <<t>>
    BY <2>2
  <2>5. \A j \in 1..1 : new[j].id = nextTokenID + j - 1 /\ new[j].wait = FALSE
    BY <2>1, <2>2
  <2>6. tokens' = us
    BY <2>1, <2>2, <2>3, <2>4, AppendIsConcat DEF GoodTokens
  <2> HIDE DEF new
  <2>7. GoodTokens(graph, us, nextTokenID + 1) /\ Extends(us, tokens)
    <3>1. 1 \in Nat
      OBVIOUS
    <3>2. From(tokens, 0, tokens, nextTokenID)
      BY DEF From
    <3> QED BY <2>1, <2>4, <2>5, <3>1, <3>2, AddTokens, Zenon
  <2> HIDE DEF us
  <2>8. nextTokenID' = nextTokenID + 1 /\ graph' = graph
    BY <1>1, <1>7 DEF Allocate, graph
  <2>9. TypeOK'
    BY <1>1, <1>3, <1>5, <1>7, <2>1, <2>6, <2>7, <2>8
       DEF Inv, TypeOK, CallTypes, States, GoodTokens
  <2>10. TokenIdentity'
    <3>1. ASSUME NEW v \in firedBreakpoints' \cup stopped'
          PROVE  v.token < nextTokenID'
      <4>1. v \in firedBreakpoints \cup stopped /\ v.token \in Nat
        BY <1>1, <3>1 DEF Inv, TypeOK, Visit
      <4>2. v.token < nextTokenID
        BY <4>1 DEF Inv, TokenIdentity
      <4> QED BY <2>1, <2>8, <4>1, <4>2
    <3> QED BY <2>6, <2>7, <2>8, <3>1 DEF TokenIdentity, GoodTokens
  <2>11. ParkedAtAccept'
    BY <2>6, <2>7, <2>8 DEF ParkedAtAccept, GoodTokens, AcceptKinds
  <2>12. VisitedAreMerges'
    BY <1>1, <2>8 DEF Inv, VisitedAreMerges, MergeNodes
  <2>13. CompletedHoldsNoToken' /\ SuspendedIffPaused' /\ SteppingRuns'
    BY <1>1, <1>7 DEF Inv, CompletedHoldsNoToken, SuspendedIffPaused, SteppingRuns
  <2>14. StoppedIsFired'
    BY <1>1, <2>6, <2>7 DEF Inv, StoppedIsFired, VisitHolds, Extends
  <2> QED BY <2>9, <2>10, <2>11, <2>12, <2>13, <2>14 DEF Inv
<1> QED BY <1>6, <1>7 DEF initialize

(* A call of Step keeps the invariant, refused or begun. *)
LEMMA StepKeepsInv == ASSUME Inv, Step PROVE Inv'
<1>1. /\ pc = "idle" /\ calls' = calls + 1 /\ UNCHANGED <<breakpoints, firedBreakpoints>>
      /\ calls' \in Nat
  BY DEF Step, Calling, Inv, TypeOK
<1>2. ASSUME NEW e \in Errors, Return(e),
             UNCHANGED <<action, execVars, pausedAt, posts, stopped>>
      PROVE  Inv'
  <2>1. UNCHANGED <<action, tokens, state, nextTokenID, mergeVisited, data, messages,
                    pausedAt, posts, stopped>>
    BY <1>2 DEF execVars
  <2>2. CallTypes' /\ pc' = "idle"
    BY <1>2, ReturnTypes DEF Return
  <2>3. TypeOK'
    BY <1>1, <2>1, <2>2 DEF Inv, TypeOK, CallTypes
  <2>4. CompletedHoldsNoToken' /\ SuspendedIffPaused' /\ SteppingRuns'
    BY <2>1, <2>2 DEF Inv, CompletedHoldsNoToken, SuspendedIffPaused, SteppingRuns
  <2> QED BY <1>1, <2>1, <2>3, <2>4, SameTokens DEF Inv
<1>3. ASSUME state \notin {"Completed", "Ready"}, BeginStep("Step"),
             steps' = 0, err' = "none"
      PROVE  Inv'
  BY <1>1, <1>3, BeginStepKeepsInv DEF Calls, Errors
<1> QED BY <1>2, <1>3 DEF Step, Errors

(* A call of RunToCompletion or RunToQuiescence keeps the invariant. *)
LEMMA RunKeepsInv == ASSUME Inv, Run PROVE Inv'
<1>1. /\ UNCHANGED <<action, tokens, nextTokenID, mergeVisited, data, messages,
                     breakpoints, firedBreakpoints, cursor, before, posts, stopped>>
      /\ call' \in RunCalls /\ pc' = "loop" /\ steps' = 0 /\ err' = "none"
      /\ calls' = calls + 1
      /\ pausedAt' = None
      /\ state' = IF state = "Suspended" THEN "Running" ELSE state
  BY DEF Run, Calling, Resume
<1>2. TypeOK'
  BY <1>1 DEF Inv, TypeOK, RunCalls, Calls, States, Errors
<1>3. CompletedHoldsNoToken' /\ SuspendedIffPaused' /\ SteppingRuns'
  BY <1>1 DEF Inv, CompletedHoldsNoToken, SuspendedIffPaused, SteppingRuns
<1> QED BY <1>1, <1>2, <1>3, SameTokens DEF Inv

(* Between two calls: breakpoints and messages change, the run does not.    *)
LEMMA DriverKeepsInv ==
  ASSUME Inv, \/ \E n \in Breakable : SetBreakpoint(n)
              \/ ClearBreakpoints
              \/ \E m \in Messages : PostMessage(m)
  PROVE  Inv'
<1>1. UNCHANGED <<action, tokens, state, nextTokenID, mergeVisited, data, pausedAt,
                  call, pc, cursor, before, steps, err, calls>>
  BY DEF SetBreakpoint, ClearBreakpoints, PostMessage, execVars, debugVars,
         callVars, boundVars
<1>2. /\ breakpoints' \subseteq Nodes
      /\ firedBreakpoints' \subseteq firedBreakpoints
      /\ messages' \in Seq(Messages) /\ posts' \in Nat
      /\ \/ stopped' = stopped /\ firedBreakpoints' = firedBreakpoints
         \/ stopped' = {}
  <2>1. CASE \E n \in Breakable : SetBreakpoint(n)
    BY <2>1, DriverAssumption DEF SetBreakpoint, execVars, boundVars, Inv, TypeOK
  <2>2. CASE ClearBreakpoints
    BY <2>2 DEF ClearBreakpoints, execVars, boundVars, Inv, TypeOK
  <2>3. CASE \E m \in Messages : PostMessage(m)
    BY <2>3, AppendProperties DEF PostMessage, debugVars, Inv, TypeOK
  <2> QED BY <2>1, <2>2, <2>3
<1>3. TypeOK'
  BY <1>1, <1>2 DEF Inv, TypeOK
<1>4. TokenIdentity' /\ StoppedIsFired'
  BY <1>1, <1>2 DEF Inv, TokenIdentity, StoppedIsFired, VisitHolds
<1>5. ParkedAtAccept' /\ VisitedAreMerges'
  BY <1>1 DEF Inv, ParkedAtAccept, VisitedAreMerges, MergeNodes, graph
<1>6. CompletedHoldsNoToken' /\ SuspendedIffPaused' /\ SteppingRuns'
  BY <1>1 DEF Inv, CompletedHoldsNoToken, SuspendedIffPaused, SteppingRuns
<1> QED BY <1>3, <1>4, <1>5, <1>6 DEF Inv

(* A newly made executor satisfies the invariant. *)
LEMMA InitHasInv == Init => Inv
<1> SUFFICES ASSUME Init PROVE Inv
  OBVIOUS
<1>1. tokens = <<>> /\ DOMAIN tokens = {} /\ <<>> \in Seq(Token) /\ <<>> \in Seq(Messages)
  BY EmptySeq DEF Init
<1>2. TypeOK
  BY <1>1, DataAssumption DEF Init, TypeOK, States, Calls, Errors
<1>3. TokenIdentity /\ ParkedAtAccept /\ CompletedHoldsNoToken
  BY <1>1 DEF Init, TokenIdentity, ParkedAtAccept, CompletedHoldsNoToken
<1>4. SuspendedIffPaused /\ VisitedAreMerges /\ SteppingRuns /\ StoppedIsFired
  BY DEF Init, SuspendedIffPaused, VisitedAreMerges, SteppingRuns, StoppedIsFired
<1> QED BY <1>2, <1>3, <1>4 DEF Inv

(* Every step of the specification keeps the invariant. *)
LEMMA NextKeepsInv == Inv /\ [Next]_vars => Inv'
<1> SUFFICES ASSUME Inv, [Next]_vars PROVE Inv'
  OBVIOUS
<1>1. CASE Proceed
  BY <1>1, TokenKeepsInv, SkipIndexKeepsInv, EndStepKeepsInv, RunLoopKeepsInv
     DEF Proceed
<1>2. CASE initialize \/ Step \/ Run
  BY <1>2, InitializeKeepsInv, StepKeepsInv, RunKeepsInv
<1>3. CASE \/ \E n \in Breakable : SetBreakpoint(n)
           \/ ClearBreakpoints
           \/ \E m \in Messages : PostMessage(m)
  BY <1>3, DriverKeepsInv
<1>4. CASE UNCHANGED vars
  <2>1. UNCHANGED <<action, tokens, state, nextTokenID, mergeVisited, data, messages,
                    breakpoints, firedBreakpoints, pausedAt, call, pc, cursor,
                    before, steps, err, calls, posts, stopped>>
    BY <1>4 DEF vars, execVars, debugVars, callVars, boundVars
  <2>2. TypeOK' /\ CompletedHoldsNoToken' /\ SuspendedIffPaused' /\ SteppingRuns'
    BY <2>1 DEF Inv, TypeOK, CompletedHoldsNoToken, SuspendedIffPaused, SteppingRuns
  <2> QED BY <2>1, <2>2, SameTokens DEF Inv
<1> QED BY <1>1, <1>2, <1>3, <1>4 DEF Next

-----------------------------------------------------------------------------
(* What follows for every behavior *)

(* The inductive invariant holds in every state an executor can reach,      *)
(* whatever graph it walks and whatever its driver calls and posts.        *)
THEOREM Invariance == Spec => []Inv
<1> QED BY InitHasInv, NextKeepsInv, PTL DEF Spec

(* Every variable keeps its type: no step of a token indexes the slice      *)
(* outside of it, and no token ever sits on no node.                       *)
THEOREM TypeCorrect == Spec => []TypeOK
<1>1. Inv => TypeOK
  BY DEF Inv
<1> QED BY <1>1, Invariance, PTL

(* No two tokens share an id, and no id is handed out twice                *)
(* (nextTokenID in initialize, stepForkNode and stepJoinNode).             *)
THEOREM IdentityKept == Spec => []TokenIdentity
<1>1. Inv => TokenIdentity
  BY DEF Inv
<1> QED BY <1>1, Invariance, PTL

(* Token.Wait is set at accepts only: what EndStep takes for a suspension   *)
(* is one (anyTokenWaiting).                                               *)
THEOREM ParkedKept == Spec => []ParkedAtAccept
<1>1. Inv => ParkedAtAccept
  BY DEF Inv
<1> QED BY <1>1, Invariance, PTL

(* StateCompleted is reported with no token left (retireToken,             *)
(* stepJoinNode), however many tokens the step has still to look at.       *)
THEOREM CompletionKept == Spec => []CompletedHoldsNoToken
<1>1. Inv => CompletedHoldsNoToken
  BY DEF Inv
<1> QED BY <1>1, Invariance, PTL

(* PausedAt and StateSuspended agree, whichever of Step and the runs        *)
(* resumes the action.                                                     *)
THEOREM PauseKept == Spec => []SuspendedIffPaused
<1>1. Inv => SuspendedIffPaused
  BY DEF Inv
<1> QED BY <1>1, Invariance, PTL

(* A merge lets one token through in the whole run (stepMergeNode): a token *)
(* that finds the merge traversed leaves the slice, and no other node can   *)
(* take a token off a merge.                                               *)
THEOREM MergePassesOneToken == Spec => MergePassesOnce
<1>1. Inv /\ [Next]_vars => [StaysAtPassedMerge]_vars
  <2> SUFFICES ASSUME Inv, Next PROVE StaysAtPassedMerge
    BY DEF vars
  <2>1. CASE stepToken
    <3> SUFFICES ASSUME NEW i \in DOMAIN tokens, tokens[i].loc \in mergeVisited,
                        NEW j \in DOMAIN tokens', tokens'[j].id = tokens[i].id
                 PROVE  tokens'[j].loc = tokens[i].loc
      BY DEF StaysAtPassedMerge
    <3>1. /\ GoodTokens(graph, tokens, nextTokenID) /\ nextTokenID \in Nat
          /\ cursor \in DOMAIN tokens /\ PassOnce
          /\ From(tokens, cursor, tokens', nextTokenID)
      BY <2>1, InvTokens, NodeSteps DEF NodeStep, TokensStep
    <3>2. tokens[i].id \in Nat /\ tokens[i].id < nextTokenID
      <4>1. tokens[i] \in Token
        BY ElementOfSeq, LenProperties DEF Inv, TypeOK
      <4> QED BY <3>1, <4>1 DEF GoodTokens, Token
    <3>3. PICK k \in DOMAIN tokens : /\ tokens'[j].id = tokens[k].id
                                     /\ k # cursor => tokens'[j].loc = tokens[k].loc
      BY <3>1, <3>2 DEF From
    <3>4. k = i
      BY <3>1, <3>3 DEF GoodTokens
    <3>5. CASE i # cursor
      BY <3>3, <3>4, <3>5
    <3>6. CASE i = cursor
      <4>1. tokens' = RemoveAt(tokens, cursor)
        BY <3>1, <3>6 DEF PassOnce, Here
      <4>2. tokens'[j].id # tokens[cursor].id
        BY <3>1, <4>1, RemoveToken
      <4> QED BY <3>6, <4>2
    <3> QED BY <3>5, <3>6
  <2>2. CASE UNCHANGED tokens
    BY <2>2 DEF StaysAtPassedMerge, Inv, TokenIdentity
  <2>3. CASE initialize /\ tokens' # tokens
    <3>1. /\ tokens' = Append(tokens, NewToken(nextTokenID, graph.initial))
          /\ graph.initial # None
      BY <2>3 DEF initialize
    <3>2. graph.initial \in Nodes /\ nextTokenID \in Nat
      BY <3>1, GraphType DEF Inv, TypeOK, IsGraph
    <3> DEFINE t == NewToken(nextTokenID, graph.initial)
    <3>3. t \in Token /\ t.id = nextTokenID
      BY <3>2 DEF NewToken, Token
    <3>4. tokens' = Append(tokens, t)
      BY <3>1
    <3> HIDE DEF t
    <3>5. /\ Len(tokens) \in Nat /\ DOMAIN tokens = 1..Len(tokens)
          /\ DOMAIN tokens' = 1..(Len(tokens) + 1)
          /\ \A j \in DOMAIN tokens : tokens'[j] = tokens[j]
          /\ tokens'[Len(tokens) + 1].id = nextTokenID
      BY <3>3, <3>4, AppendProperties, LenProperties DEF Inv, TypeOK
    <3>6. \A i \in DOMAIN tokens : tokens[i].id \in Nat /\ tokens[i].id < nextTokenID
      <4>1. \A i \in DOMAIN tokens : tokens[i] \in Token
        BY ElementOfSeq, LenProperties DEF Inv, TypeOK
      <4> QED BY <4>1 DEF Inv, TokenIdentity, Token
    <3>7. ASSUME NEW i \in DOMAIN tokens, NEW j \in DOMAIN tokens',
                 tokens'[j].id = tokens[i].id
          PROVE  tokens'[j].loc = tokens[i].loc
      <4>1. CASE j \in DOMAIN tokens
        BY <3>5, <3>7, <4>1 DEF Inv, TokenIdentity
      <4>2. CASE j \notin DOMAIN tokens
        <5>1. j = Len(tokens) + 1
          BY <3>5, <4>2
        <5> QED BY <3>2, <3>5, <3>6, <3>7, <5>1
      <4> QED BY <4>1, <4>2
    <3> QED BY <3>7 DEF StaysAtPassedMerge
  <2>4. stepToken \/ UNCHANGED tokens \/ initialize
    BY DEF Next, Proceed, SkipIndex, EndStep, RunLoop, BeginStep, Step, Run,
           SetBreakpoint, ClearBreakpoints, PostMessage, execVars
  <2> QED BY <2>1, <2>2, <2>3, <2>4
<1> QED BY <1>1, Invariance, PTL DEF Spec, MergePassesOnce

(* No visit of a token at a breakpoint stops two runs (firedBreakpoints in  *)
(* breakpointHit), so a resumed run always gets past the node it is at.     *)
THEOREM VisitStopsOneRun == Spec => StopsOncePerVisit
<1>1. Inv /\ [Next]_vars => [StopsAnew]_vars
  <2> SUFFICES ASSUME Inv, Next, state' = "Suspended", state # "Suspended"
               PROVE  stopped' # stopped
    BY DEF StopsAnew, vars
  <2>1. ~stepToken
    BY NodeSteps DEF NodeStep, TokensStep
  <2>2. RunLoop
    BY <2>1 DEF Next, Proceed, SkipIndex, EndStep, Step, Run, Resume, BeginStep,
                initialize, SetBreakpoint, ClearBreakpoints, PostMessage, execVars,
                Inv, TypeOK, States
  <2>3. PICK i \in Unfired : stopped' = stopped \cup {VisitOf(tokens[i])}
    BY <2>2 DEF RunLoop, BeginStep, execVars
  <2>4. VisitOf(tokens[i]) \notin LiveVisits
    BY DEF Unfired
  <2>5. VisitOf(tokens[i]) \notin stopped
    BY <2>4, LiveVisitsKeepsStopped
  <2> QED BY <2>3, <2>5
<1> QED BY <1>1, Invariance, PTL DEF Spec, StopsOncePerVisit
=============================================================================
