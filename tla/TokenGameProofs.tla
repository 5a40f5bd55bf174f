--------------------------- MODULE TokenGameProofs ---------------------------
(***************************************************************************)
(* The executor of ActionExecutor plays TokenGame, for every graph, driver *)
(* and message: each step of a token is one node firing, whatever order    *)
(* forks and joins leave the slice in, and no other step of a call moves,  *)
(* makes or loses a token or a message.                                    *)
(*                                                                         *)
(* The argument: a marking counts the locations in the slice, and the      *)
(* counting lemmas say what each way of rebuilding a slice does to a count; *)
(* a lemma per transition of the game says when it is taken, one per node   *)
(* kind that the node's step takes it.                                     *)
(***************************************************************************)
EXTENDS ActionExecutorProofs, FunctionTheorems

-----------------------------------------------------------------------------
(* Counting the entries of a sequence *)

Holding(s, x) == {i \in DOMAIN s : s[i] = x}

Count(s, x) == Cardinality(Holding(s, x))

(* Sets between which a function is one to one and onto are of a size.      *)
LEMMA SameSize ==
  ASSUME NEW X, NEW Y, IsFiniteSet(X), NEW f \in [X -> Y],
         \A a, b \in X : f[a] = f[b] => a = b,
         \A y \in Y : \E a \in X : f[a] = y
  PROVE  IsFiniteSet(Y) /\ Cardinality(Y) = Cardinality(X)
<1>1. f \in Bijection(X, Y)
  BY Fun_IsBij
<1>2. ExistsBijection(X, Y)
  BY <1>1 DEF ExistsBijection
<1> QED BY <1>2, FS_Bijection

(* A count is a natural number.                                            *)
LEMMA CountType ==
  ASSUME NEW S, NEW s \in Seq(S), NEW x
  PROVE  IsFiniteSet(Holding(s, x)) /\ Count(s, x) \in Nat
<1>1. Len(s) \in Nat /\ DOMAIN s = 1..Len(s)
  BY LenProperties
<1>2. IsFiniteSet(1..Len(s))
  BY <1>1, FS_Interval
<1>3. Holding(s, x) \in SUBSET (1..Len(s))
  BY <1>1 DEF Holding
<1>4. IsFiniteSet(Holding(s, x))
  BY <1>2, <1>3, FS_Subset
<1> QED BY <1>4, FS_CardinalityType DEF Count

(* append(s[:c], s[c+1:]...): one less of the entry that was at c.          *)
LEMMA CountRemoved ==
  ASSUME NEW S, NEW s \in Seq(S), NEW c \in 1..Len(s), NEW x
  PROVE  Count(RemoveAt(s, c), x) = IF s[c] = x THEN Count(s, x) - 1 ELSE Count(s, x)
<1> DEFINE u == RemoveAt(s, c)
           X == Holding(u, x)
           Y == Holding(s, x) \ {c}
           f == [j \in X |-> IF j < c THEN j ELSE j + 1]
<1>0. Len(s) \in Nat /\ DOMAIN s = 1..Len(s)
  BY LenProperties
<1>1. /\ u \in Seq(S) /\ Len(u) = Len(s) - 1
      /\ \A j \in 1..(Len(s) - 1) : u[j] = s[IF j < c THEN j ELSE j + 1]
  BY <1>0, RemoveAtProperties
<1> HIDE DEF u
<1>2. DOMAIN u = 1..(Len(s) - 1)
  BY <1>1, LenProperties
<1>3. IsFiniteSet(X)
  BY <1>1, CountType
<1>4. ASSUME NEW j \in X
      PROVE  /\ j \in 1..(Len(s) - 1) /\ f[j] = (IF j < c THEN j ELSE j + 1)
             /\ f[j] \in Y
  <2>1. j \in 1..(Len(s) - 1) /\ u[j] = x
    BY <1>2 DEF Holding
  <2>2. f[j] = IF j < c THEN j ELSE j + 1
    OBVIOUS
  <2> HIDE DEF f
  <2>3. s[f[j]] = x
    BY <1>1, <2>1, <2>2
  <2>4. f[j] \in 1..Len(s) /\ f[j] # c
    BY <1>0, <2>1, <2>2
  <2> QED BY <1>0, <2>1, <2>2, <2>3, <2>4 DEF Holding
<1>5. f \in [X -> Y]
  BY <1>4
<1>6. \A a, b \in X : f[a] = f[b] => a = b
  <2> TAKE a, b \in X
  <2>1. /\ a \in 1..(Len(s) - 1) /\ f[a] = (IF a < c THEN a ELSE a + 1)
        /\ b \in 1..(Len(s) - 1) /\ f[b] = (IF b < c THEN b ELSE b + 1)
    BY <1>4
  <2> HIDE DEF f, X
  <2> QED BY <1>0, <2>1
<1>7. \A y \in Y : \E a \in X : f[a] = y
  <2> TAKE y \in Y
  <2>1. y \in 1..Len(s) /\ s[y] = x /\ y # c
    BY <1>0 DEF Holding
  <2> DEFINE a == IF y < c THEN y ELSE y - 1
  <2>2. a \in 1..(Len(s) - 1) /\ (IF a < c THEN a ELSE a + 1) = y
    BY <1>0, <2>1
  <2> HIDE DEF a
  <2>3. u[a] = x
    BY <1>1, <2>1, <2>2
  <2>4. a \in X
    BY <1>2, <2>2, <2>3 DEF Holding
  <2> QED BY <1>4, <2>2, <2>4
<1> HIDE DEF f, X
<1>8. Cardinality(Y) = Cardinality(X)
  BY <1>3, <1>5, <1>6, <1>7, SameSize
<1>9. Cardinality(Y) = IF c \in Holding(s, x) THEN Count(s, x) - 1 ELSE Count(s, x)
  BY CountType, FS_RemoveElement DEF Count
<1>10. c \in Holding(s, x) <=> s[c] = x
  BY <1>0 DEF Holding
<1> QED BY <1>8, <1>9, <1>10 DEF Count, X, u

(* append(s, t...): the entries of both.                                   *)
LEMMA CountAdded ==
  ASSUME NEW S, NEW s \in Seq(S), NEW t \in Seq(S), NEW x
  PROVE  Count(s \o t, x) = Count(s, x) + Count(t, x)
<1> DEFINE u == s \o t
           X == Holding(t, x)
           Y == Holding(u, x) \ Holding(s, x)
           f == [j \in X |-> j + Len(s)]
<1>0. /\ Len(s) \in Nat /\ DOMAIN s = 1..Len(s)
      /\ Len(t) \in Nat /\ DOMAIN t = 1..Len(t)
  BY LenProperties
<1>1. /\ u \in Seq(S) /\ Len(u) = Len(s) + Len(t)
      /\ \A j \in 1..(Len(s) + Len(t)) : u[j] = IF j <= Len(s) THEN s[j] ELSE t[j - Len(s)]
  BY <1>0, ConcatProperties, Zenon
<1> HIDE DEF u
<1>2. DOMAIN u = 1..(Len(s) + Len(t))
  BY <1>1, LenProperties
<1>a. \A j \in 1..Len(s) : j \in DOMAIN u /\ u[j] = s[j]
  <2> TAKE j \in 1..Len(s)
  <2>1. j \in 1..(Len(s) + Len(t)) /\ j <= Len(s)
    BY <1>0
  <2> QED BY <1>1, <1>2, <2>1
<1>b. \A j \in 1..Len(t) : j + Len(s) \in DOMAIN u /\ u[j + Len(s)] = t[j]
  <2> TAKE j \in 1..Len(t)
  <2>1. j + Len(s) \in 1..(Len(s) + Len(t)) /\ ~(j + Len(s) <= Len(s)) /\ (j + Len(s)) - Len(s) = j
    BY <1>0
  <2> QED BY <1>1, <1>2, <2>1
<1>3. Holding(s, x) \subseteq Holding(u, x)
  BY <1>0, <1>a DEF Holding
<1>4. ASSUME NEW j \in X PROVE j \in 1..Len(t) /\ f[j] = j + Len(s) /\ f[j] \in Y
  <2>1. j \in 1..Len(t) /\ t[j] = x
    BY <1>0 DEF Holding
  <2>2. f[j] = j + Len(s)
    OBVIOUS
  <2>3. f[j] \in Holding(u, x)
    BY <1>b, <2>1, <2>2 DEF Holding
  <2>4. f[j] \notin 1..Len(s)
    BY <1>0, <2>1, <2>2
  <2> QED BY <1>0, <2>1, <2>2, <2>3, <2>4 DEF Holding
<1>5. f \in [X -> Y]
  BY <1>4
<1>6. \A a, b \in X : f[a] = f[b] => a = b
  <2> TAKE a, b \in X
  <2>1. a \in 1..Len(t) /\ f[a] = a + Len(s) /\ b \in 1..Len(t) /\ f[b] = b + Len(s)
    BY <1>4
  <2> HIDE DEF f, X
  <2> QED BY <1>0, <2>1
<1>7. \A y \in Y : \E a \in X : f[a] = y
  <2> TAKE y \in Y
  <2>1. y \in 1..(Len(s) + Len(t)) /\ u[y] = x
    BY <1>2 DEF Holding
  <2>2. ~(y <= Len(s))
    <3>1. ASSUME y <= Len(s) PROVE FALSE
      <4>1. y \in 1..Len(s)
        BY <1>0, <2>1, <3>1
      <4>2. s[y] = x
        BY <1>a, <2>1, <4>1
      <4> QED BY <1>0, <4>1, <4>2 DEF Holding
    <3> QED BY <3>1
  <2> DEFINE a == y - Len(s)
  <2>3. a \in 1..Len(t) /\ a + Len(s) = y
    BY <1>0, <2>1, <2>2
  <2> HIDE DEF a
  <2>4. t[a] = x
    BY <1>b, <2>1, <2>3
  <2>5. a \in X
    BY <1>0, <2>3, <2>4 DEF Holding
  <2> QED BY <1>4, <2>3, <2>5
<1>8. IsFiniteSet(X)
  BY CountType
<1>9. IsFiniteSet(Y) /\ Cardinality(Y) = Count(t, x)
  <2> HIDE DEF f
  <2>1. IsFiniteSet(Y) /\ Cardinality(Y) = Cardinality(X)
    <3> HIDE DEF X, Y
    <3> QED BY <1>5, <1>6, <1>7, <1>8, SameSize
  <2> QED BY <2>1 DEF Count
<1> HIDE DEF f
<1>10. Cardinality(Holding(u, x)) = Count(s, x) + Count(t, x)
  <2> DEFINE A == Holding(s, x)
             B == Holding(u, x) \ A
  <2>1. /\ IsFiniteSet(A) /\ IsFiniteSet(B) /\ Cardinality(B) = Count(t, x)
        /\ A \cup B = Holding(u, x) /\ A \cap B = {}
    BY <1>3, <1>9, CountType
  <2>2. Count(s, x) = Cardinality(A) /\ Count(s, x) \in Nat /\ Count(t, x) \in Nat
    BY CountType DEF Count
  <2> HIDE DEF A, B
  <2>3. Cardinality(A \cup B) = Cardinality(A) + Cardinality(B) - Cardinality(A \cap B)
    BY <2>1, FS_Union
  <2>4. Cardinality(A \cap B) = 0
    BY <2>1, FS_EmptySet
  <2>5. Cardinality(A \cup B) = Count(s, x) + Count(t, x)
    BY <2>1, <2>2, <2>3, <2>4
  <2> QED BY <2>1, <2>5, Zenon
<1> QED BY <1>10 DEF Count, u

(* s[c] = y.                                                               *)
LEMMA CountReplaced ==
  ASSUME NEW S, NEW s \in Seq(S), NEW c \in 1..Len(s), NEW y \in S, NEW x
  PROVE  Count([s EXCEPT ![c] = y], x) =
           (IF s[c] = x THEN Count(s, x) - 1 ELSE Count(s, x)) + (IF y = x THEN 1 ELSE 0)
<1> DEFINE u == [s EXCEPT ![c] = y]
           R == Holding(s, x) \ {c}
<1>0. Len(s) \in Nat /\ DOMAIN s = 1..Len(s)
  BY LenProperties
<1>1. DOMAIN u = DOMAIN s /\ \A j \in DOMAIN s : u[j] = IF j = c THEN y ELSE s[j]
  BY <1>0
<1> HIDE DEF u
<1>2. /\ IsFiniteSet(R)
      /\ Cardinality(R) = IF c \in Holding(s, x) THEN Count(s, x) - 1 ELSE Count(s, x)
  BY CountType, FS_RemoveElement DEF Count
<1>3. c \in Holding(s, x) <=> s[c] = x
  BY <1>0 DEF Holding
<1>4. Holding(u, x) = IF y = x THEN R \cup {c} ELSE R
  BY <1>0, <1>1 DEF Holding
<1>5. c \notin R
  OBVIOUS
<1> HIDE DEF R
<1>6. Cardinality(R \cup {c}) = Cardinality(R) + 1
  BY <1>2, <1>5, FS_AddElement
<1>7. Cardinality(R) \in Nat
  BY <1>2, FS_CardinalityType
<1> QED BY <1>2, <1>3, <1>4, <1>6, <1>7 DEF Count, u

(* A slice of no entry and of one.                                         *)
LEMMA CountSmall ==
  ASSUME NEW x, NEW y
  PROVE  Count(<<>>, x) = 0 /\ Count(<<y>>, x) = (IF x = y THEN 1 ELSE 0)
<1>1. Holding(<<>>, x) = {} /\ Holding(<<y>>, x) = IF x = y THEN {1} ELSE {}
  BY DEF Holding
<1> QED BY <1>1, FS_EmptySet, FS_Singleton DEF Count

-----------------------------------------------------------------------------
(* Counting the tokens of a slice *)

Locs(ts) == [i \in DOMAIN ts |-> ts[i].loc]

Marked(ts, n) == Count(Locs(ts), n)

(* The locations of a slice, in its order.                                 *)
LEMMA LocsType ==
  ASSUME NEW ts \in Seq(Token)
  PROVE  /\ Locs(ts) \in Seq(Nodes) /\ Len(Locs(ts)) = Len(ts)
         /\ DOMAIN Locs(ts) = 1..Len(ts) /\ DOMAIN ts = 1..Len(ts) /\ Len(ts) \in Nat
         /\ \A i \in DOMAIN ts : Locs(ts)[i] = ts[i].loc
         /\ \A n : Marked(ts, n) \in Nat
<1>1. DOMAIN ts = 1..Len(ts) /\ Len(ts) \in Nat
  BY LenProperties
<1>2. Locs(ts) \in [1..Len(ts) -> Nodes]
  <2>1. \A i \in 1..Len(ts) : ts[i].loc \in Nodes
    <3> TAKE i \in 1..Len(ts)
    <3>1. ts[i] \in Token
      BY ElementOfSeq
    <3> QED BY <3>1 DEF Token
  <2> QED BY <1>1, <2>1 DEF Locs
<1>3. Locs(ts) \in Seq(Nodes) /\ Len(Locs(ts)) = Len(ts) /\ DOMAIN Locs(ts) = 1..Len(ts)
  BY <1>1, <1>2, FunctionIsSlice
<1>4. \A i \in DOMAIN ts : Locs(ts)[i] = ts[i].loc
  BY DEF Locs
<1> QED BY <1>1, <1>3, <1>4, CountType DEF Marked

(* How many tokens a node holds is a question of locations.                *)
LEMMA MarkedIs ==
  ASSUME NEW ts, NEW n
  PROVE  Marked(ts, n) = Cardinality({i \in DOMAIN ts : ts[i].loc = n})
<1>1. Holding(Locs(ts), n) = {i \in DOMAIN ts : ts[i].loc = n}
  BY DEF Holding, Locs
<1> QED BY <1>1 DEF Marked, Count

(* Tokens that only wait, or stop waiting, stay where they are.             *)
LEMMA MarkedSame ==
  ASSUME NEW ts, NEW us, DOMAIN us = DOMAIN ts, \A i \in DOMAIN ts : us[i].loc = ts[i].loc
  PROVE  \A n : Marked(us, n) = Marked(ts, n)
<1>1. Locs(us) = Locs(ts)
  BY DEF Locs
<1> QED BY <1>1 DEF Marked

(* A token leaves the slice.                                               *)
LEMMA MarkedRemoved ==
  ASSUME NEW ts \in Seq(Token), NEW c \in DOMAIN ts, NEW n
  PROVE  Marked(RemoveAt(ts, c), n) = IF ts[c].loc = n THEN Marked(ts, n) - 1 ELSE Marked(ts, n)
<1> DEFINE us == RemoveAt(ts, c)
           ls == RemoveAt(Locs(ts), c)
<1>1. /\ DOMAIN ts = 1..Len(ts) /\ Len(ts) \in Nat /\ c \in 1..Len(ts)
      /\ Locs(ts) \in Seq(Nodes) /\ Len(Locs(ts)) = Len(ts) /\ \A i \in 1..Len(ts) : Locs(ts)[i] = ts[i].loc
  BY LocsType
<1>2. /\ us \in Seq(Token) /\ Len(us) = Len(ts) - 1
      /\ \A j \in 1..(Len(ts) - 1) : us[j] = ts[IF j < c THEN j ELSE j + 1]
  BY <1>1, RemoveAtProperties
<1>3. /\ ls \in Seq(Nodes) /\ Len(ls) = Len(ts) - 1
      /\ \A j \in 1..(Len(ts) - 1) : ls[j] = Locs(ts)[IF j < c THEN j ELSE j + 1]
  <2> DEFINE whole == Locs(ts)
  <2>1. whole \in Seq(Nodes) /\ c \in 1..Len(whole) /\ Len(whole) = Len(ts)
    BY <1>1
  <2> HIDE DEF whole
  <2>2. /\ RemoveAt(whole, c) \in Seq(Nodes) /\ Len(RemoveAt(whole, c)) = Len(whole) - 1
        /\ \A j \in 1..(Len(whole) - 1) :
             RemoveAt(whole, c)[j] = whole[IF j < c THEN j ELSE j + 1]
    BY <2>1, RemoveAtProperties, Zenon
  <2> QED BY <2>1, <2>2 DEF whole
<1> HIDE DEF us, ls
<1>4. Locs(us) \in Seq(Nodes) /\ Len(Locs(us)) = Len(ts) - 1
      /\ \A j \in 1..(Len(ts) - 1) : Locs(us)[j] = us[j].loc
  BY <1>2, LocsType
<1>5. \A j \in 1..(Len(ts) - 1) : Locs(us)[j] = ls[j]
  <2> TAKE j \in 1..(Len(ts) - 1)
  <2> DEFINE i == IF j < c THEN j ELSE j + 1
  <2>1. i \in 1..Len(ts)
    BY <1>1
  <2>2. us[j] = ts[i] /\ ls[j] = Locs(ts)[i] /\ Locs(us)[j] = us[j].loc
    BY <1>2, <1>3, <1>4
  <2> HIDE DEF i
  <2> QED BY <1>1, <2>1, <2>2
<1>6. Locs(us) = ls
  BY <1>3, <1>4, <1>5, SeqEqual
<1>7. Count(ls, n) = IF Locs(ts)[c] = n THEN Count(Locs(ts), n) - 1 ELSE Count(Locs(ts), n)
  BY <1>1, CountRemoved DEF ls
<1> QED BY <1>1, <1>6, <1>7 DEF Marked, us

(* A token goes to m.                                                      *)
LEMMA MarkedMoved ==
  ASSUME NEW ts \in Seq(Token), NEW c \in DOMAIN ts, NEW m \in Nodes, NEW n
  PROVE  Marked([ts EXCEPT ![c].loc = m], n) =
           (IF ts[c].loc = n THEN Marked(ts, n) - 1 ELSE Marked(ts, n)) + Count(<<m>>, n)
<1> DEFINE us == [ts EXCEPT ![c].loc = m]
<1>1. /\ DOMAIN ts = 1..Len(ts) /\ Len(ts) \in Nat /\ c \in 1..Len(ts)
      /\ Locs(ts) \in Seq(Nodes) /\ Len(Locs(ts)) = Len(ts) /\ \A i \in 1..Len(ts) : Locs(ts)[i] = ts[i].loc
      /\ DOMAIN Locs(ts) = DOMAIN ts
  BY LocsType
<1>2. ts[c] \in Token
  BY <1>1, ElementOfSeq
<1>3. DOMAIN us = DOMAIN ts /\ \A i \in DOMAIN ts : us[i].loc = IF i = c THEN m ELSE ts[i].loc
  BY <1>2 DEF Token
<1> HIDE DEF us
<1>4. Locs(us) = [Locs(ts) EXCEPT ![c] = m]
  BY <1>1, <1>3 DEF Locs
<1>5. Count([Locs(ts) EXCEPT ![c] = m], n) =
        (IF Locs(ts)[c] = n THEN Count(Locs(ts), n) - 1 ELSE Count(Locs(ts), n)) + (IF m = n THEN 1 ELSE 0)
  <2> DEFINE ls == Locs(ts)
  <2>1. ls \in Seq(Nodes) /\ c \in 1..Len(ls)
    BY <1>1
  <2> HIDE DEF ls
  <2>2. Count([ls EXCEPT ![c] = m], n) =
          (IF ls[c] = n THEN Count(ls, n) - 1 ELSE Count(ls, n)) + (IF m = n THEN 1 ELSE 0)
    BY <2>1, CountReplaced
  <2> QED BY <2>2 DEF ls
<1> QED BY <1>1, <1>4, <1>5, CountSmall DEF Marked, us

(* Tokens are appended.                                                    *)
LEMMA MarkedAdded ==
  ASSUME NEW ts \in Seq(Token), NEW us \in Seq(Token), NEW n
  PROVE  Marked(ts \o us, n) = Marked(ts, n) + Marked(us, n)
<1> DEFINE vs == ts \o us
           ls == Locs(ts) \o Locs(us)
<1>1. /\ Len(ts) \in Nat /\ Len(us) \in Nat
      /\ Locs(ts) \in Seq(Nodes) /\ Len(Locs(ts)) = Len(ts) /\ \A i \in 1..Len(ts) : Locs(ts)[i] = ts[i].loc
      /\ Locs(us) \in Seq(Nodes) /\ Len(Locs(us)) = Len(us) /\ \A i \in 1..Len(us) : Locs(us)[i] = us[i].loc
  BY LocsType
<1>2. /\ vs \in Seq(Token) /\ Len(vs) = Len(ts) + Len(us)
      /\ \A i \in 1..(Len(ts) + Len(us)) : vs[i] = IF i <= Len(ts) THEN ts[i] ELSE us[i - Len(ts)]
  BY ConcatProperties, Zenon
<1>3. /\ ls \in Seq(Nodes) /\ Len(ls) = Len(Locs(ts)) + Len(Locs(us))
      /\ \A i \in 1..(Len(Locs(ts)) + Len(Locs(us))) :
           ls[i] = IF i <= Len(Locs(ts)) THEN Locs(ts)[i] ELSE Locs(us)[i - Len(Locs(ts))]
  <2>1. Locs(ts) \in Seq(Nodes) /\ Locs(us) \in Seq(Nodes)
    BY <1>1
  <2> QED BY <2>1, ConcatProperties, Zenon
<1> HIDE DEF vs, ls
<1>4. /\ Locs(vs) \in Seq(Nodes) /\ Len(Locs(vs)) = Len(ts) + Len(us)
      /\ \A i \in 1..(Len(ts) + Len(us)) : Locs(vs)[i] = vs[i].loc
  BY <1>2, LocsType
<1>5. \A i \in 1..(Len(ts) + Len(us)) : Locs(vs)[i] = ls[i]
  <2> TAKE i \in 1..(Len(ts) + Len(us))
  <2>0. /\ vs[i] = (IF i <= Len(ts) THEN ts[i] ELSE us[i - Len(ts)]) /\ Locs(vs)[i] = vs[i].loc
        /\ ls[i] = (IF i <= Len(ts) THEN Locs(ts)[i] ELSE Locs(us)[i - Len(ts)])
    BY <1>1, <1>2, <1>3, <1>4
  <2>1. CASE i <= Len(ts)
    <3>1. i \in 1..Len(ts)
      BY <1>1, <2>1
    <3> QED BY <1>1, <2>0, <2>1, <3>1
  <2>2. CASE ~(i <= Len(ts))
    <3>1. i - Len(ts) \in 1..Len(us)
      BY <1>1, <2>2
    <3> QED BY <1>1, <2>0, <2>2, <3>1
  <2> QED BY <2>1, <2>2
<1>6. Locs(vs) = ls
  BY <1>1, <1>3, <1>4, <1>5, SeqEqual
<1>7. Count(ls, n) = Count(Locs(ts), n) + Count(Locs(us), n)
  BY <1>1, CountAdded DEF ls
<1> QED BY <1>6, <1>7 DEF Marked, vs

(* S in increasing order has each member of S at one place.                *)
LEMMA OrderOnto ==
  ASSUME NEW S, IsFiniteSet(S), S \subseteq Int, NEW f \in InOrder(S)
  PROVE  /\ Cardinality(S) \in Nat /\ f \in [1..Cardinality(S) -> S] /\ DOMAIN f = 1..Cardinality(S)
         /\ \A a, b \in DOMAIN f : f[a] = f[b] => a = b
         /\ \A x \in S : \E a \in DOMAIN f : f[a] = x
<1> DEFINE m == Cardinality(S)
<1>1. m \in Nat
  BY FS_CardinalityType
<1>2. /\ f \in [1..m -> S] /\ DOMAIN f = 1..m
      /\ \A a, b \in 1..m : a < b => f[a] < f[b]
  BY DEF InOrder
<1>3. IsFiniteSet(1..m) /\ Cardinality(1..m) = m
  BY <1>1, FS_Interval
<1> HIDE DEF m
<1>4. \A a, b \in 1..m : f[a] = f[b] => a = b
  <2> SUFFICES ASSUME NEW a \in 1..m, NEW b \in 1..m, f[a] = f[b] PROVE a = b
    OBVIOUS
  <2>1. f[a] \in Int /\ f[b] \in Int
    BY <1>2
  <2> QED BY <1>1, <1>2, <2>1
<1>5. f \in Injection(1..m, S)
  BY <1>2, <1>4, Fun_IsInj
<1>6. f \in Surjection(1..m, S)
  BY <1>3, <1>5, FS_Injection DEF m
<1>7. \A x \in S : \E a \in 1..m : f[a] = x
  BY <1>6 DEF Surjection
<1> QED BY <1>1, <1>2, <1>4, <1>7 DEF m


-----------------------------------------------------------------------------
(* What a step of the executor is in the game *)

(* A count as the refinement mapping writes it.                            *)
LEMMA GameCounts ==
  /\ \A n : Cardinality(TokensAt(n)) = Marked(tokens, n)
  /\ \A n : Cardinality(TokensAt(n)') = Marked(tokens', n)
  /\ \A seq, x : TokenGame!CountOf(seq, x) = Count(seq, x)
  /\ \A x : Cardinality({i \in DOMAIN messages : messages[i] = x}) = Count(messages, x)
  /\ \A x : Cardinality({i \in DOMAIN messages' : messages'[i] = x}) = Count(messages', x)
<1>1. \A n : Cardinality(TokensAt(n)) = Marked(tokens, n)
  BY MarkedIs DEF TokensAt
<1>2. \A n : Cardinality(TokensAt(n)') = Marked(tokens', n)
  BY MarkedIs DEF TokensAt
<1>3. \A S : TokenGame!Cardinality(S) = Cardinality(S)
  BY DEF TokenGame!Cardinality, Cardinality
<1>4. \A seq, x : TokenGame!CountOf(seq, x) = Count(seq, x)
  BY <1>3 DEF TokenGame!CountOf, Count, Holding
<1> QED BY <1>1, <1>2, <1>4 DEF Count, Holding

(* A token leaves n, and next is where to.                                 *)
Leaving(n, next) ==
  /\ Marked(tokens, n) > 0
  /\ \A m \in Nodes :
       Marked(tokens', m) =
         (IF m = n THEN Marked(tokens, m) - 1 ELSE Marked(tokens, m)) + Count(next, m)

(* Where a token at n may go.                                              *)
Onward(n) == {<<>>} \cup {<<graph.edges[n][i]>> : i \in DOMAIN graph.edges[n]}

(* The bus is bus, with k of what n sends behind it.                       *)
Sent(n, bus, k) == messages' = bus \o SubSeq(graph.sends[n], 1, k)

(* What Leaving says in the terms of the game.                             *)
LEMMA GameLeave ==
  ASSUME NEW n \in Nodes, NEW next \in Onward(n), Leaving(n, next)
  PROVE  TokenGame!Leave(n, next)
<1>1. Cardinality(TokensAt(n)) > 0
  BY GameCounts DEF Leaving
<1>2. [m \in Nodes |-> Cardinality(TokensAt(m))]'
        = TokenGame!With(TokenGame!Without([m \in Nodes |-> Cardinality(TokensAt(m))], n), next)
  BY GameCounts DEF Leaving, TokenGame!With, TokenGame!Without
<1> QED BY <1>1, <1>2 DEF TokenGame!Leave, Onward


(* The messages in flight as the game counts them.                          *)
Inbox == [m \in Messages |-> Cardinality({i \in DOMAIN messages : messages[i] = m})]

(* What was posted is in flight too.                                       *)
LEMMA GamePosted ==
  ASSUME messages \in Seq(Messages), NEW sent \in Seq(Messages),
         messages' = messages \o sent
  PROVE  Inbox' = TokenGame!With(Inbox, sent)
<1>1. \A m : Count(messages', m) = Count(messages, m) + Count(sent, m)
  BY CountAdded
<1>2. \A m \in Messages : Inbox[m] = Count(messages, m)
  BY GameCounts DEF Inbox
<1>3. Inbox' = [m \in Messages |-> Count(messages', m)]
  BY GameCounts DEF Inbox
<1>4. TokenGame!With(Inbox, sent) = [m \in Messages |-> Inbox[m] + Count(sent, m)]
  BY GameCounts DEF Inbox, TokenGame!With
<1> QED BY <1>1, <1>2, <1>3, <1>4

(* The message an accept takes was in flight, and no longer is.             *)
LEMMA GameTaken ==
  ASSUME messages \in Seq(Messages), NEW sent \in Seq(Messages),
         NEW i \in DOMAIN messages, messages' = RemoveAt(messages, i) \o sent
  PROVE  /\ messages[i] \in Messages /\ Inbox[messages[i]] > 0
         /\ Inbox' = TokenGame!With(TokenGame!Without(Inbox, messages[i]), sent)
<1> DEFINE bus == RemoveAt(messages, i)
           x == messages[i]
<1>1. i \in 1..Len(messages) /\ Len(messages) \in Nat
  BY LenProperties
<1>2. x \in Messages
  BY <1>1, ElementOfSeq
<1>3. bus \in Seq(Messages)
  BY <1>1, RemoveAtProperties
<1>4. \A m : Count(bus, m) = IF x = m THEN Count(messages, m) - 1 ELSE Count(messages, m)
  BY <1>1, CountRemoved
<1> HIDE DEF bus
<1>5. \A m : Count(messages', m) = Count(bus, m) + Count(sent, m)
  BY <1>3, CountAdded DEF bus
<1>6. \A m \in Messages : Inbox[m] = Count(messages, m)
  BY GameCounts DEF Inbox
<1>7. Inbox' = [m \in Messages |-> Count(messages', m)]
  BY GameCounts DEF Inbox
<1>8. /\ DOMAIN Inbox = Messages
      /\ \A f : TokenGame!With(f, sent) = [m \in DOMAIN f |-> f[m] + Count(sent, m)]
  BY GameCounts DEF Inbox, TokenGame!With
<1>9. Inbox[x] > 0
  <2>1. Inbox[x] = Count(messages, x) /\ Count(messages, x) \in Nat
    BY <1>2, <1>6, CountType
  <2>2. Count(bus, x) = Count(messages, x) - 1 /\ Count(bus, x) \in Nat
    BY <1>3, <1>4, CountType
  <2> QED BY <2>1, <2>2
<1> HIDE DEF x
<1>10. TokenGame!Without(Inbox, x)
         = [m \in Messages |-> IF x = m THEN Inbox[m] - 1 ELSE Inbox[m]]
  BY <1>8 DEF TokenGame!Without, Inbox
<1>11. TokenGame!With(TokenGame!Without(Inbox, x), sent)
         = [m \in Messages |-> (IF x = m THEN Inbox[m] - 1 ELSE Inbox[m]) + Count(sent, m)]
  BY <1>8, <1>10
<1>12. Inbox' = [m \in Messages |-> (IF x = m THEN Inbox[m] - 1 ELSE Inbox[m]) + Count(sent, m)]
  BY <1>4, <1>5, <1>6, <1>7
<1> QED BY <1>2, <1>9, <1>11, <1>12 DEF x

(* All that a sequence holds, and none of it.                              *)
LEMMA WholeAndNone ==
  ASSUME NEW S, NEW s \in Seq(S)
  PROVE  SubSeq(s, 1, Len(s)) = s /\ SubSeq(s, 1, 0) = <<>>
<1>1. Len(s) \in Nat /\ \A i \in 1..Len(s) : s[i] \in S
  BY LenProperties, ElementOfSeq
<1> DEFINE u == SubSeq(s, 1, Len(s))
           v == SubSeq(s, 1, 0)
<1>2. u \in Seq(S) /\ Len(u) = Len(s) /\ \A i \in 1..Len(s) : u[i] = s[i]
  BY <1>1, SubSeqProperties
<1>3. v = <<>>
  BY SubSeqEmpty
<1> HIDE DEF u, v
<1>4. u = s
  BY <1>2, SeqEqual
<1> QED BY <1>3, <1>4 DEF u, v


(* A step of the game, or none.                                            *)
Plays == TokenGame!Next \/ UNCHANGED TokenGame!gameVars

(* No token has moved.                                                     *)
Unmoved == \A n : Marked(tokens', n) = Marked(tokens, n)

(* The marking as the refinement mapping writes it.                        *)
LEMMA UnmovedMarking ==
  ASSUME Unmoved
  PROVE  UNCHANGED [n \in Nodes |-> Cardinality(TokensAt(n))]
<1> QED BY GameCounts DEF Unmoved

(* Nothing the game tells apart has changed.                               *)
LEMMA GameStutters ==
  ASSUME Unmoved, UNCHANGED <<action, mergeVisited, messages>>
  PROVE  Plays
<1>1. UNCHANGED graph
  BY DEF graph
<1> QED BY <1>1, UnmovedMarking DEF Plays, TokenGame!gameVars

(* A node reports an error.                                                *)
LEMMA GameFails ==
  ASSUME NEW n \in Nodes, Marked(tokens, n) > 0, Unmoved,
         UNCHANGED <<action, mergeVisited>>,
         NEW k \in 0..Len(graph.sends[n]), NEW sent, sent = SubSeq(graph.sends[n], 1, k),
         \/ Inbox' = TokenGame!With(Inbox, sent)
         \/ \E m \in graph.accepts[n] :
              /\ Inbox[m] > 0
              /\ Inbox' = TokenGame!With(TokenGame!Without(Inbox, m), sent)
  PROVE  Plays
<1>1. UNCHANGED graph
  BY DEF graph
<1>2. [m \in Nodes |-> Cardinality(TokensAt(m))][n] > 0
  BY GameCounts
<1>3. TokenGame!Fail(n)
  BY <1>2, UnmovedMarking DEF TokenGame!Fail, Inbox
<1> QED BY <1>1, <1>3 DEF Plays, TokenGame!Next, TokenGame!Fire

(* A token leaves a node that is no fork, join, merge or accept.            *)
LEMMA GameActs ==
  ASSUME Inv, NEW n \in Nodes, graph.kind[n] \in {"initial", "decision", "action", "when"},
         NEW next \in Onward(n), Leaving(n, next),
         Inbox' = TokenGame!With(Inbox, graph.sends[n]),
         UNCHANGED <<action, mergeVisited>>
  PROVE  Plays
<1>1. UNCHANGED graph
  BY DEF graph
<1>2. TokenGame!Leave(n, next)
  BY GameLeave
<1>3. next \in TokenGame!Nexts
  BY EdgeNodes DEF Onward, TokenGame!Nexts
<1>4. TokenGame!Act(n)
  BY <1>2, <1>3 DEF TokenGame!Act, Inbox
<1> QED BY <1>1, <1>4 DEF Plays, TokenGame!Next, TokenGame!Fire


(* A token passes an accept.                                               *)
LEMMA GameReceives ==
  ASSUME Inv, NEW n \in Nodes, graph.kind[n] = "accept",
         NEW next \in Onward(n), Leaving(n, next),
         NEW m \in graph.accepts[n], Inbox[m] > 0,
         Inbox' = TokenGame!With(TokenGame!Without(Inbox, m), graph.sends[n]),
         UNCHANGED <<action, mergeVisited>>
  PROVE  Plays
<1>1. UNCHANGED graph
  BY DEF graph
<1>2. TokenGame!Leave(n, next)
  BY GameLeave
<1>3. next \in TokenGame!Nexts
  BY EdgeNodes DEF Onward, TokenGame!Nexts
<1>4. TokenGame!Receive(n)
  BY <1>2, <1>3 DEF TokenGame!Receive, Inbox
<1> QED BY <1>1, <1>4 DEF Plays, TokenGame!Next, TokenGame!Fire

(* A token ends at a final node, or before or after a merge was passed.     *)
LEMMA GameEnds ==
  ASSUME NEW n \in Nodes, graph.kind[n] \in {"final", "merge"}, Leaving(n, <<>>),
         UNCHANGED <<action, mergeVisited, messages>>
  PROVE  Plays
<1>1. UNCHANGED graph
  BY DEF graph
<1>2. TokenGame!Leave(n, <<>>)
  BY GameLeave DEF Onward
<1>3. TokenGame!End(n) \/ TokenGame!Merge(n)
  BY <1>2 DEF TokenGame!End, TokenGame!Merge
<1> QED BY <1>1, <1>3 DEF Plays, TokenGame!Next, TokenGame!Fire

(* A token passes a merge.                                                 *)
LEMMA GameMerges ==
  ASSUME Inv, NEW n \in Nodes, graph.kind[n] = "merge", n \notin mergeVisited,
         NEW i \in DOMAIN graph.edges[n], Leaving(n, <<graph.edges[n][i]>>),
         Inbox' = TokenGame!With(Inbox, graph.sends[n]),
         mergeVisited' = mergeVisited \cup {n}, UNCHANGED action
  PROVE  Plays
<1>1. UNCHANGED graph
  BY DEF graph
<1> DEFINE m == graph.edges[n][i]
<1>2. m \in Nodes
  BY EdgeNodes
<1>3. TokenGame!Leave(n, <<m>>)
  BY GameLeave DEF Onward
<1> HIDE DEF m
<1>4. TokenGame!Merge(n)
  BY <1>2, <1>3 DEF TokenGame!Merge, Inbox
<1> QED BY <1>1, <1>4 DEF Plays, TokenGame!Next, TokenGame!Fire

(* A fork splits its token.                                                *)
LEMMA GameSplits ==
  ASSUME NEW n \in Nodes, graph.kind[n] = "fork", Marked(tokens, n) > 0,
         NEW branches \in SUBSET (DOMAIN graph.edges[n]),
         \A m \in Nodes :
           Marked(tokens', m) = (IF m = n THEN Marked(tokens, m) - 1 ELSE Marked(tokens, m))
                                  + Cardinality({i \in branches : graph.edges[n][i] = m}),
         Inbox' = TokenGame!With(Inbox, graph.sends[n]),
         UNCHANGED <<action, mergeVisited>>
  PROVE  Plays
<1>1. UNCHANGED graph
  BY DEF graph
<1>2. [m \in Nodes |-> Cardinality(TokensAt(m))][n] > 0
  BY GameCounts
<1>3. \A S : TokenGame!Cardinality(S) = Cardinality(S)
  BY DEF TokenGame!Cardinality, Cardinality
<1>4. [m \in Nodes |-> Cardinality(TokensAt(m))]'
        = [m \in Nodes |->
             TokenGame!Without([k \in Nodes |-> Cardinality(TokensAt(k))], n)[m]
               + TokenGame!Cardinality({i \in branches : graph.edges[n][i] = m})]
  BY <1>3, GameCounts DEF TokenGame!Without
<1>5. TokenGame!Split(n)
  BY <1>2, <1>4 DEF TokenGame!Split, Inbox
<1> QED BY <1>1, <1>5 DEF Plays, TokenGame!Next, TokenGame!Fire

(* A join fires.                                                           *)
LEMMA GameJoins ==
  ASSUME NEW n \in Nodes, graph.kind[n] = "join", Marked(tokens, n) > 0,
         Marked(tokens, n) >= Cardinality(getIncomingEdges(n)),
         NEW next \in Onward(n),
         \A m \in Nodes :
           Marked(tokens', m) = (IF m = n THEN 0 ELSE Marked(tokens, m)) + Count(next, m),
         Inbox' = TokenGame!With(Inbox, graph.sends[n]),
         UNCHANGED <<action, mergeVisited>>
  PROVE  Plays
<1>1. UNCHANGED graph
  BY DEF graph
<1> DEFINE M == [m \in Nodes |-> Cardinality(TokensAt(m))]
<1>2. M[n] > 0 /\ M[n] >= Cardinality(getIncomingEdges(n))
  BY GameCounts
<1>3. \A S : TokenGame!Cardinality(S) = Cardinality(S)
  BY DEF TokenGame!Cardinality, Cardinality
<1>4. TokenGame!Incoming(n) = getIncomingEdges(n)
  BY DEF TokenGame!Incoming, getIncomingEdges
<1>5. M[n] >= TokenGame!Cardinality(TokenGame!Incoming(n))
  BY <1>2, <1>3, <1>4
<1>6. M' = TokenGame!With([M EXCEPT ![n] = 0], next)
  BY GameCounts DEF TokenGame!With
<1>7. TokenGame!Synchronize(n)
  BY <1>2, <1>5, <1>6 DEF TokenGame!Synchronize, Inbox, Onward
<1> QED BY <1>1, <1>7 DEF Plays, TokenGame!Next, TokenGame!Fire

(* A message is posted from outside.                                       *)
LEMMA GamePosts ==
  ASSUME Unmoved, NEW m \in Messages, Inbox' = TokenGame!With(Inbox, <<m>>),
         UNCHANGED <<action, mergeVisited>>
  PROVE  Plays
<1>1. UNCHANGED graph
  BY DEF graph
<1>2. TokenGame!Post
  BY UnmovedMarking DEF TokenGame!Post, Inbox
<1> QED BY <1>1, <1>2 DEF Plays, TokenGame!Next

(* The flow starts.                                                        *)
LEMMA GameStarts ==
  ASSUME graph.initial # None, \A m \in Nodes : Marked(tokens, m) = 0,
         \A m \in Nodes : Marked(tokens', m) = Count(<<graph.initial>>, m),
         UNCHANGED <<action, mergeVisited, messages>>
  PROVE  Plays
<1>1. UNCHANGED graph
  BY DEF graph
<1>2. [m \in Nodes |-> Cardinality(TokensAt(m))] = [m \in Nodes |-> 0]
  BY GameCounts
<1>3. \A m \in Nodes : 0 + Count(<<graph.initial>>, m) = Count(<<graph.initial>>, m)
  BY CountSmall
<1>4. [m \in Nodes |-> Cardinality(TokensAt(m))]'
        = TokenGame!With([m \in Nodes |-> Cardinality(TokensAt(m))], <<graph.initial>>)
  BY <1>2, <1>3, GameCounts DEF TokenGame!With
<1>5. TokenGame!Start
  BY <1>2, <1>4 DEF TokenGame!Start
<1> QED BY <1>1, <1>5 DEF Plays, TokenGame!Next


-----------------------------------------------------------------------------
(* The executor's steps as steps of the game *)

(* The token at the cursor is one of those at its node.                    *)
LEMMA HereIsMarked ==
  ASSUME Inv, cursor \in DOMAIN tokens
  PROVE  Marked(tokens, Here) > 0
<1>1. tokens \in Seq(Token)
  BY DEF Inv, TypeOK
<1> DEFINE S == {i \in DOMAIN tokens : tokens[i].loc = Here}
<1>2. cursor \in S
  BY DEF Here
<1>3. DOMAIN tokens = 1..Len(tokens) /\ Len(tokens) \in Nat /\ Marked(tokens, Here) \in Nat
  BY <1>1, LocsType
<1>4. IsFiniteSet(DOMAIN tokens)
  BY <1>3, FS_Interval
<1>5. IsFiniteSet(S)
  BY <1>4, FS_Subset
<1>6. Marked(tokens, Here) = Cardinality(S)
  BY MarkedIs
<1> HIDE DEF S
<1>7. Cardinality(S) # 0
  BY <1>2, <1>5, FS_EmptySet
<1> QED BY <1>3, <1>6, <1>7

(* Tokens that wait, or stop waiting, hold the nodes they held.             *)
LEMMA SameFlowMarked ==
  ASSUME NEW ts, SameFlow(ts)
  PROVE  \A n : Marked(ts, n) = Marked(tokens, n)
<1> QED BY MarkedSame DEF SameFlow

(* The token at the cursor leaves the slice.                               *)
LEMMA RetireLeaves ==
  ASSUME Inv, cursor \in DOMAIN tokens, NEW ts, SameFlow(ts), tokens' = RemoveAt(ts, cursor)
  PROVE  Leaving(Here, <<>>)
<1>1. ts \in Seq(Token) /\ cursor \in DOMAIN ts /\ ts[cursor].loc = Here
  BY DEF SameFlow, GoodTokens, Here
<1>2. \A m : Marked(RemoveAt(ts, cursor), m)
               = IF ts[cursor].loc = m THEN Marked(ts, m) - 1 ELSE Marked(ts, m)
  BY <1>1, MarkedRemoved
<1>3. \A m : Marked(tokens, m) \in Nat
  BY LocsType DEF Inv, TypeOK
<1>4. \A m : Count(<<>>, m) = 0
  BY CountSmall
<1> QED BY <1>1, <1>2, <1>3, <1>4, HereIsMarked, SameFlowMarked DEF Leaving

(* The token at the cursor goes to m.                                      *)
LEMMA AdvanceLeaves ==
  ASSUME Inv, cursor \in DOMAIN tokens, NEW ts, SameFlow(ts), NEW m \in Nodes, Advance(ts, m)
  PROVE  Leaving(Here, <<m>>)
<1>1. ts \in Seq(Token) /\ cursor \in DOMAIN ts /\ ts[cursor].loc = Here
  BY DEF SameFlow, GoodTokens, Here
<1>2. \A x : Marked([ts EXCEPT ![cursor].loc = m], x)
               = (IF ts[cursor].loc = x THEN Marked(ts, x) - 1 ELSE Marked(ts, x)) + Count(<<m>>, x)
  BY <1>1, MarkedMoved
<1>3. \A x : Marked(tokens', x)
               = (IF Here = x THEN Marked(tokens, x) - 1 ELSE Marked(tokens, x)) + Count(<<m>>, x)
  BY <1>1, <1>2, SameFlowMarked DEF Advance
<1> QED BY <1>3, HereIsMarked DEF Leaving

(* The bus the node at the cursor works with: its own message taken off.    *)
Bus(bus) == bus = messages \/ \E i \in Acceptable(Here) : bus = RemoveAt(messages, i)

(* One of its messages was in flight, unless it took none, and sent is now. *)
Delivers(sent) ==
  \/ Inbox' = TokenGame!With(Inbox, sent)
  \/ \E m \in graph.accepts[Here] :
       /\ Inbox[m] > 0
       /\ Inbox' = TokenGame!With(TokenGame!Without(Inbox, m), sent)

(* What a node makes of the bus is a delivery of the game.                 *)
LEMMA BusDelivers ==
  ASSUME Inv, NEW bus, Bus(bus), NEW sent \in Seq(Messages), messages' = bus \o sent
  PROVE  Delivers(sent)
<1>1. messages \in Seq(Messages)
  BY DEF Inv, TypeOK
<1>2. CASE bus = messages
  BY <1>1, <1>2, GamePosted DEF Delivers
<1>3. ASSUME NEW i \in Acceptable(Here), bus = RemoveAt(messages, i)
      PROVE  Delivers(sent)
  <2>1. i \in DOMAIN messages /\ messages[i] \in graph.accepts[Here]
    BY DEF Acceptable
  <2>2. messages' = RemoveAt(messages, i) \o sent
    BY <1>3
  <2>3. /\ Inbox[messages[i]] > 0
        /\ Inbox' = TokenGame!With(TokenGame!Without(Inbox, messages[i]), sent)
    BY <1>1, <2>1, <2>2, GameTaken
  <2> QED BY <2>1, <2>3 DEF Delivers
<1> QED BY <1>2, <1>3 DEF Bus

(* What a node's step can report.                                           *)
NodeErrors == {"invalidFlow", "ambiguous", "noEnabled", "eval", "noClock"}

(* How the step of a node at which an error is met ends.                    *)
Failing(ts, bus, d) ==
  \/ \E e \in NodeErrors : StepFails(ts, e) /\ UNCHANGED messages
  \/ BodyFails(ts, Here, bus, d)
  \/ BodyRuns(Here, bus, d) /\ \E e \in NodeErrors : StepFails(ts, e)

(* A failing step is the game's Fail.                                      *)
LEMMA FailingPlays ==
  ASSUME Inv, cursor \in DOMAIN tokens, UNCHANGED action, NEW ts, SameFlow(ts),
         NEW bus, Bus(bus), NEW d, Failing(ts, bus, d)
  PROVE  Plays
<1>1. UNCHANGED mergeVisited /\ tokens' = ts
  BY DEF Failing, StepFails, BodyFails
<1>2. Unmoved
  BY <1>1, SameFlowMarked DEF Unmoved
<1>3. Here \in Nodes /\ Marked(tokens, Here) > 0
  BY SteppingFacts, HereIsMarked
<1>4. graph.sends[Here] \in Seq(Messages)
  BY <1>3, GraphType DEF Inv, IsGraph
<1>5. Len(graph.sends[Here]) \in Nat
  BY <1>4, LenProperties
<1>6. ASSUME NEW k \in 0..Len(graph.sends[Here]),
             messages' = bus \o SubSeq(graph.sends[Here], 1, k)
      PROVE  Plays
  <2> DEFINE sent == SubSeq(graph.sends[Here], 1, k)
  <2>1. sent \in Seq(Messages)
    <3>1. \A i \in 1..k : graph.sends[Here][i] \in Messages
      BY <1>4, <1>5, ElementOfSeq
    <3> QED BY <1>5, <3>1, SubSeqProperties
  <2>2. messages' = bus \o sent
    BY <1>6
  <2>a. sent = SubSeq(graph.sends[Here], 1, k)
    OBVIOUS
  <2> HIDE DEF sent
  <2>3. Delivers(sent)
    BY <2>1, <2>2, BusDelivers
  <2> QED BY <1>1, <1>2, <1>3, <2>a, <2>3, GameFails DEF Delivers
<1>7. CASE UNCHANGED messages
  BY <1>1, <1>2, <1>7, GameStutters
<1>8. CASE BodyFails(ts, Here, bus, d)
  BY <1>6, <1>8 DEF BodyFails
<1>9. CASE BodyRuns(Here, bus, d)
  <2>1. messages' = bus \o SubSeq(graph.sends[Here], 1, Len(graph.sends[Here]))
    BY <1>4, <1>9, WholeAndNone DEF BodyRuns
  <2>2. Len(graph.sends[Here]) \in 0..Len(graph.sends[Here])
    BY <1>5
  <2> QED BY <1>6, <2>1, <2>2
<1> QED BY <1>7, <1>8, <1>9 DEF Failing


(* How the step of a node that moves or ends its token ends.                *)
Moving(ts, bus, d) ==
  /\ BodyRuns(Here, bus, d)
  /\ UNCHANGED mergeVisited
  /\ \/ retireToken(ts)
     \/ \E i \in DOMAIN graph.edges[Here] : Advance(ts, graph.edges[Here][i])

(* A moving token leaves its node, and its messages are delivered.         *)
LEMMA MovingLeaves ==
  ASSUME Inv, cursor \in DOMAIN tokens, NEW ts, SameFlow(ts), NEW bus, Bus(bus),
         NEW d, Moving(ts, bus, d)
  PROVE  /\ \E next \in Onward(Here) : Leaving(Here, next)
         /\ Delivers(graph.sends[Here])
<1>1. Here \in Nodes /\ graph.sends[Here] \in Seq(Messages)
  BY SteppingFacts, GraphType DEF Inv, IsGraph
<1>2. Delivers(graph.sends[Here])
  BY <1>1, BusDelivers DEF Moving, BodyRuns
<1>3. CASE retireToken(ts)
  <2>1. Leaving(Here, <<>>)
    BY <1>3, RetireLeaves DEF retireToken
  <2> QED BY <1>2, <2>1 DEF Onward
<1>4. ASSUME NEW i \in DOMAIN graph.edges[Here], Advance(ts, graph.edges[Here][i])
      PROVE  \E next \in Onward(Here) : Leaving(Here, next)
  <2> DEFINE m == graph.edges[Here][i]
  <2>1. m \in Nodes
    BY <1>1, EdgeNodes
  <2>2. Advance(ts, m) /\ <<m>> \in Onward(Here)
    BY <1>4 DEF Onward
  <2> HIDE DEF m
  <2>3. Leaving(Here, <<m>>)
    BY <2>1, <2>2, AdvanceLeaves
  <2> QED BY <2>2, <2>3
<1> QED BY <1>2, <1>3, <1>4 DEF Moving

(* A node of the plain kinds, on the bus as it is.                          *)
LEMMA PlainPlays ==
  ASSUME Inv, cursor \in DOMAIN tokens, UNCHANGED action, NEW ts, SameFlow(ts), NEW d,
         graph.kind[Here] \in {"initial", "decision", "action", "when"},
         Moving(ts, messages, d)
  PROVE  Plays
<1>1. Here \in Nodes /\ graph.sends[Here] \in Seq(Messages)
  BY SteppingFacts, GraphType DEF Inv, IsGraph
<1>2. messages \in Seq(Messages) /\ messages' = messages \o graph.sends[Here]
  BY DEF Inv, TypeOK, Moving, BodyRuns
<1>3. Inbox' = TokenGame!With(Inbox, graph.sends[Here])
  BY <1>1, <1>2, GamePosted
<1>4. PICK next \in Onward(Here) : Leaving(Here, next)
  BY MovingLeaves DEF Bus
<1> QED BY <1>1, <1>3, <1>4, GameActs DEF Moving

(* stepInitialNode is the firing of an initial node. *)
LEMMA InitialNodePlays == ASSUME Inv, stepInitialNode, UNCHANGED action PROVE Plays
<1>1. cursor \in DOMAIN tokens /\ graph.kind[Here] = "initial"
  BY DEF stepInitialNode, Stepping, Here
<1>2. SameFlow(tokens) /\ Bus(messages)
  BY InvTokens DEF Bus
<1>3. \/ Failing(tokens, messages, AfterBody(Here))
      \/ Moving(tokens, messages, AfterBody(Here))
  BY DEF stepInitialNode, Failing, Moving, NodeErrors, enabledSuccessions
<1> QED BY <1>1, <1>2, <1>3, FailingPlays, PlainPlays

(* stepDecisionNode is the firing of a decision. *)
LEMMA DecisionNodePlays == ASSUME Inv, stepDecisionNode, UNCHANGED action PROVE Plays
<1>1. cursor \in DOMAIN tokens /\ graph.kind[Here] = "decision"
  BY DEF stepDecisionNode, Stepping, Here
<1>2. SameFlow(tokens) /\ Bus(messages)
  BY InvTokens DEF Bus
<1>3. \/ Failing(tokens, messages, AfterBody(Here))
      \/ Moving(tokens, messages, AfterBody(Here))
  BY DEF stepDecisionNode, Failing, Moving, NodeErrors
<1> QED BY <1>1, <1>2, <1>3, FailingPlays, PlainPlays

(* A node that performs something fails, or moves or ends its token.        *)
LEMMA PerformOutcome ==
  ASSUME NEW ts, NEW bus, NEW given, Perform(ts, Here, bus, given)
  PROVE  Failing(ts, bus, graph.body[Here][given]) \/ Moving(ts, bus, graph.body[Here][given])
<1> QED BY DEF Perform, Failing, Moving, NodeErrors, enabledSuccessions

(* stepActionNode is the firing of an action. *)
LEMMA ActionNodePlays == ASSUME Inv, stepActionNode, UNCHANGED action PROVE Plays
<1>1. cursor \in DOMAIN tokens /\ graph.kind[Here] = "action"
  BY DEF stepActionNode, Stepping, Here
<1>2. SameFlow(tokens) /\ Bus(messages)
  BY InvTokens DEF Bus
<1>3. \E d : Failing(tokens, messages, d) \/ Moving(tokens, messages, d)
  BY PerformOutcome DEF stepActionNode
<1> QED BY <1>1, <1>2, <1>3, FailingPlays, PlainPlays

(* A token only waits: the game does not move.                             *)
LEMMA WaitingPlays ==
  ASSUME UNCHANGED action, NEW ts, SameFlow(ts), Stays(ts)
  PROVE  Plays
<1>1. UNCHANGED <<action, mergeVisited, messages>> /\ tokens' = ts
  BY DEF Stays
<1>2. Unmoved
  BY <1>1, SameFlowMarked DEF Unmoved
<1> QED BY <1>1, <1>2, GameStutters

(* stepWhenNode waits, fails, or is the firing of an accept when. *)
LEMMA WhenNodePlays == ASSUME Inv, stepWhenNode, UNCHANGED action PROVE Plays
<1>1. cursor \in DOMAIN tokens /\ graph.kind[Here] = "when"
  BY DEF stepWhenNode, Stepping, Here
<1>2. SameFlow(tokens) /\ SameFlow(Resumed) /\ SameFlow(Parked) /\ Bus(messages)
  BY <1>1, InvTokens, WaitChange DEF Bus, AcceptKinds
<1>3. \/ Failing(tokens, messages, Fails)
      \/ Stays(Parked)
      \/ Perform(Resumed, Here, messages, data)
  BY DEF stepWhenNode, Failing, NodeErrors
<1>4. CASE Perform(Resumed, Here, messages, data)
  <2>1. \E d : Failing(Resumed, messages, d) \/ Moving(Resumed, messages, d)
    BY <1>4, PerformOutcome
  <2> QED BY <1>1, <1>2, <2>1, FailingPlays, PlainPlays
<1> QED BY <1>1, <1>2, <1>3, <1>4, FailingPlays, WaitingPlays

(* stepTimeNode has no clock to go by. *)
LEMMA TimeNodePlays == ASSUME Inv, stepTimeNode, UNCHANGED action PROVE Plays
<1>1. cursor \in DOMAIN tokens /\ SameFlow(tokens) /\ Bus(messages)
  BY InvTokens DEF stepTimeNode, Stepping, Bus
<1>2. Failing(tokens, messages, Fails)
  BY DEF stepTimeNode, Failing, NodeErrors
<1> QED BY <1>1, <1>2, FailingPlays


(* stepFinalNode ends a token. *)
LEMMA FinalNodePlays == ASSUME Inv, stepFinalNode, UNCHANGED action PROVE Plays
<1>1. cursor \in DOMAIN tokens /\ graph.kind[Here] = "final" /\ SameFlow(tokens)
  BY InvTokens DEF stepFinalNode, Stepping, Here
<1>2. tokens' = RemoveAt(tokens, cursor) /\ UNCHANGED <<mergeVisited, messages>>
  BY DEF stepFinalNode, retireToken
<1>3. Here \in Nodes /\ Leaving(Here, <<>>)
  BY <1>1, <1>2, SteppingFacts, RetireLeaves
<1> QED BY <1>1, <1>2, <1>3, GameEnds

(* stepAcceptNode waits, fails with or without a message taken, or is the   *)
(* firing of an accept.                                                     *)
LEMMA AcceptNodePlays == ASSUME Inv, stepAcceptNode, UNCHANGED action PROVE Plays
<1>1. cursor \in DOMAIN tokens /\ graph.kind[Here] = "accept"
  BY DEF stepAcceptNode, Stepping, Here
<1>2. SameFlow(Resumed) /\ SameFlow(Parked)
  BY <1>1, WaitChange DEF AcceptKinds
<1>3. /\ Here \in Nodes /\ graph.sends[Here] \in Seq(Messages)
      /\ messages \in Seq(Messages) /\ Marked(tokens, Here) > 0
  BY <1>1, SteppingFacts, HereIsMarked, GraphType DEF Inv, TypeOK, IsGraph
<1>4. CASE Stays(Parked)
  BY <1>2, <1>4, WaitingPlays
<1>5. ASSUME NEW i \in Acceptable(Here),
             messages' = RemoveAt(messages, i), StepFails(Resumed, "eval")
      PROVE  Plays
  <2>1. i \in DOMAIN messages /\ messages[i] \in graph.accepts[Here]
    BY DEF Acceptable
  <2>2. RemoveAt(messages, i) \in Seq(Messages) /\ <<>> \in Seq(Messages)
    <3>1. i \in 1..Len(messages)
      BY <1>3, <2>1, LenProperties
    <3> QED BY <1>3, <3>1, RemoveAtProperties, EmptySeq
  <2>3. messages' = RemoveAt(messages, i) \o <<>>
    <3> DEFINE bus == RemoveAt(messages, i)
    <3>1. bus \in Seq(Messages)
      BY <2>2
    <3> HIDE DEF bus
    <3>2. bus \o <<>> = bus
      BY <3>1, ConcatEmptySeq
    <3> QED BY <1>5, <3>2 DEF bus
  <2>4. Delivers(<<>>)
    BY <2>2, <2>3, BusDelivers DEF Bus
  <2>5. 0 \in 0..Len(graph.sends[Here]) /\ <<>> = SubSeq(graph.sends[Here], 1, 0)
    BY <1>3, LenProperties, WholeAndNone
  <2>6. Unmoved /\ UNCHANGED mergeVisited
    BY <1>2, <1>5, SameFlowMarked DEF StepFails, Unmoved
  <2> QED BY <1>3, <2>4, <2>5, <2>6, GameFails DEF Delivers
<1>6. ASSUME NEW i \in Acceptable(Here), NEW d, Failing(Resumed, RemoveAt(messages, i), d)
      PROVE  Plays
  <2>1. Bus(RemoveAt(messages, i))
    BY DEF Bus
  <2> QED BY <1>1, <1>2, <1>6, <2>1, FailingPlays
<1>7. ASSUME NEW i \in Acceptable(Here), NEW d, Moving(Resumed, RemoveAt(messages, i), d)
      PROVE  Plays
  <2>1. i \in DOMAIN messages /\ messages[i] \in graph.accepts[Here]
    BY DEF Acceptable
  <2>2. Bus(RemoveAt(messages, i)) /\ UNCHANGED mergeVisited
    BY <1>7 DEF Bus, Moving
  <2>3. messages' = RemoveAt(messages, i) \o graph.sends[Here]
    BY <1>7 DEF Moving, BodyRuns
  <2>4. /\ Inbox[messages[i]] > 0
        /\ Inbox' = TokenGame!With(TokenGame!Without(Inbox, messages[i]), graph.sends[Here])
    BY <1>3, <2>1, <2>3, GameTaken
  <2>5. PICK next \in Onward(Here) : Leaving(Here, next)
    BY <1>1, <1>2, <1>7, <2>2, MovingLeaves
  <2> QED BY <1>1, <1>3, <2>1, <2>2, <2>4, <2>5, GameReceives
<1>8. ASSUME NEW i \in Acceptable(Here), NEW given,
             Perform(Resumed, Here, RemoveAt(messages, i), given)
      PROVE  Plays
  BY <1>6, <1>7, <1>8, PerformOutcome
<1> QED BY <1>4, <1>5, <1>8 DEF stepAcceptNode

(* stepMergeNode fails, ends a token or lets the one token by. *)
LEMMA MergeNodePlays == ASSUME Inv, stepMergeNode, UNCHANGED action PROVE Plays
<1>1. cursor \in DOMAIN tokens /\ graph.kind[Here] = "merge"
  BY DEF stepMergeNode, Stepping, Here
<1>2. SameFlow(tokens) /\ Bus(messages) /\ Here \in Nodes
  BY <1>1, InvTokens, SteppingFacts DEF Bus
<1>3. CASE /\ tokens' = RemoveAt(tokens, cursor)
           /\ UNCHANGED <<mergeVisited, messages>>
  <2>1. Leaving(Here, <<>>)
    BY <1>1, <1>2, <1>3, RetireLeaves
  <2> QED BY <1>1, <1>2, <1>3, <2>1, GameEnds
<1>4. CASE Failing(tokens, messages, AfterBody(Here))
  BY <1>1, <1>2, <1>4, FailingPlays
<1>5. CASE /\ Here \notin mergeVisited
           /\ Len(graph.edges[Here]) = 1
           /\ BodyRuns(Here, messages, AfterBody(Here))
           /\ mergeVisited' = mergeVisited \cup {Here}
           /\ Advance(tokens, graph.edges[Here][1])
  <2>1. graph.edges[Here] \in Seq(Nodes) /\ graph.sends[Here] \in Seq(Messages)
    BY <1>2, GraphType DEF Inv, IsGraph
  <2>2. 1 \in DOMAIN graph.edges[Here]
    BY <1>5, <2>1, LenProperties
  <2> DEFINE m == graph.edges[Here][1]
  <2>3. m \in Nodes
    BY <1>2, <2>2, EdgeNodes
  <2>4. Advance(tokens, m)
    BY <1>5
  <2> HIDE DEF m
  <2>5. Leaving(Here, <<m>>)
    BY <1>1, <1>2, <2>3, <2>4, AdvanceLeaves
  <2>6. Inbox' = TokenGame!With(Inbox, graph.sends[Here])
    BY <1>5, <2>1, GamePosted DEF BodyRuns, Inv, TypeOK
  <2> QED BY <1>1, <1>2, <1>5, <2>2, <2>5, <2>6, GameMerges DEF m
<1>6. CASE Traversed(Here)
  BY <1>3, <1>6 DEF stepMergeNode
<1>7. CASE ~Traversed(Here)
  BY <1>3, <1>4, <1>5, <1>7 DEF stepMergeNode, Traversed, Failing, NodeErrors, retireToken
<1> QED BY <1>6, <1>7


(* What each member of S holds, in the order f has S in; and which hold m.  *)
Through(f, loc) == [k \in DOMAIN f |-> loc[f[k]]]

Where(S, loc, m) == {i \in S : loc[i] = m}

(* However S is ordered, m is held by as many.                              *)
LEMMA OrderCount ==
  ASSUME NEW S, IsFiniteSet(S), S \subseteq Int, NEW f \in InOrder(S), NEW loc, NEW m
  PROVE  Count(Through(f, loc), m) = Cardinality(Where(S, loc, m))
<1> DEFINE X == {k \in DOMAIN f : loc[f[k]] = m}
           Y == {i \in S : loc[i] = m}
           g == [k \in X |-> f[k]]
<1>1. /\ Cardinality(S) \in Nat /\ f \in [1..Cardinality(S) -> S]
      /\ DOMAIN f = 1..Cardinality(S)
      /\ \A a, b \in DOMAIN f : f[a] = f[b] => a = b
      /\ \A x \in S : \E a \in DOMAIN f : f[a] = x
  <2> HIDE DEF X, Y, g
  <2> QED BY OrderOnto, Zenon
<1>2. IsFiniteSet(X)
  <2>1. IsFiniteSet(DOMAIN f)
    BY <1>1, FS_Interval
  <2> QED BY <2>1, FS_Subset
<1>3. g \in [X -> Y]
  BY <1>1
<1>4. \A a, b \in X : g[a] = g[b] => a = b
  BY <1>1
<1>5. \A y \in Y : \E a \in X : g[a] = y
  <2> TAKE y \in Y
  <2>1. PICK a \in DOMAIN f : f[a] = y
    BY <1>1
  <2>2. a \in X
    BY <2>1
  <2> QED BY <2>1, <2>2
<1>6. Holding(Through(f, loc), m) = X /\ Where(S, loc, m) = Y
  BY DEF Holding, Through, Where
<1>7. Cardinality(Y) = Cardinality(X)
  <2> HIDE DEF X, Y, g
  <2> QED BY <1>2, <1>3, <1>4, <1>5, SameSize
<1> QED BY <1>6, <1>7 DEF Count

(* Only the tokens at n are gone from the rest of the slice.                *)
LEMMA RemainingMarked ==
  ASSUME Inv, NEW n, NEW us \in Remaining(n), NEW m
  PROVE  Marked(us, m) = IF m = n THEN 0 ELSE Marked(tokens, m)
<1> DEFINE left == DOMAIN tokens \ TokensAt(n)
<1>1. tokens \in Seq(Token)
  BY DEF Inv, TypeOK
<1>2. DOMAIN tokens = 1..Len(tokens) /\ Len(tokens) \in Nat
  BY <1>1, LenProperties
<1>3. PICK keep \in InOrder(left) : us = [k \in DOMAIN keep |-> tokens[keep[k]]]
  BY DEF Remaining
<1>4. IsFiniteSet(left) /\ left \subseteq Int
  <2>1. IsFiniteSet(DOMAIN tokens)
    BY <1>2, FS_Interval
  <2> QED BY <1>2, <2>1, FS_Subset
<1> DEFINE loc == [i \in DOMAIN tokens |-> tokens[i].loc]
<1>5. Locs(us) = [k \in DOMAIN keep |-> loc[keep[k]]]
  <2>1. keep \in [1..Cardinality(left) -> left]
    BY <1>3 DEF InOrder
  <2> QED BY <1>3, <2>1 DEF Locs
<1>6. {i \in left : loc[i] = m}
        = IF m = n THEN {} ELSE {i \in DOMAIN tokens : tokens[i].loc = m}
  BY DEF TokensAt
<1> HIDE DEF left, loc
<1>7. Marked(us, m) = Cardinality({i \in left : loc[i] = m})
  <2>1. Count(Through(keep, loc), m) = Cardinality(Where(left, loc, m))
    BY <1>3, <1>4, OrderCount
  <2> QED BY <1>5, <2>1 DEF Marked, Through, Where
<1> QED BY <1>6, <1>7, MarkedIs, FS_EmptySet

(* stepForkNode fails, ends its token or splits it. *)
LEMMA ForkNodePlays == ASSUME Inv, stepForkNode, UNCHANGED action PROVE Plays
<1> DEFINE n == Here
           enabled == enabledSuccessions(n, AfterBody(n))
           rest == RemoveAt(tokens, cursor)
<1>1. cursor \in DOMAIN tokens /\ graph.kind[n] = "fork"
  BY DEF stepForkNode, Stepping, Here
<1>2. /\ SameFlow(tokens) /\ Bus(messages) /\ n \in Nodes /\ nextTokenID \in Nat
      /\ GoodTokens(graph, tokens, nextTokenID)
  BY <1>1, InvTokens, SteppingFacts DEF Bus
<1>3. /\ graph.edges[n] \in Seq(Nodes) /\ graph.sends[n] \in Seq(Messages)
      /\ tokens \in Seq(Token) /\ messages \in Seq(Messages)
  BY <1>2, GraphType DEF Inv, TypeOK, IsGraph
<1>4. \A m : Marked(rest, m) = IF m = n THEN Marked(tokens, m) - 1 ELSE Marked(tokens, m)
  BY <1>1, <1>3, MarkedRemoved DEF Here
<1>5. Marked(tokens, n) > 0
  BY <1>1, HereIsMarked
<1>6. BodyRuns(n, messages, AfterBody(n)) => Inbox' = TokenGame!With(Inbox, graph.sends[n])
  BY <1>3, GamePosted DEF BodyRuns
<1>7. CASE Failing(tokens, messages, AfterBody(n))
  BY <1>1, <1>2, <1>7, FailingPlays
<1>8. CASE /\ BodyRuns(n, messages, AfterBody(n)) /\ tokens' = rest
           /\ UNCHANGED mergeVisited
  <2>1. \A m \in Nodes :
          Marked(tokens', m) = (IF m = n THEN Marked(tokens, m) - 1 ELSE Marked(tokens, m))
                                 + Cardinality({i \in {} : graph.edges[n][i] = m})
    <3> TAKE m \in Nodes
    <3>1. {i \in {} : graph.edges[n][i] = m} = {}
      OBVIOUS
    <3>2. Marked(tokens, m) \in Nat
      BY <1>3, LocsType
    <3> QED BY <1>4, <1>8, <3>1, <3>2, FS_EmptySet
  <2>2. {} \in SUBSET (DOMAIN graph.edges[n])
    OBVIOUS
  <2> QED BY <1>1, <1>2, <1>5, <1>6, <1>8, <2>1, <2>2, GameSplits
<1>9. ASSUME BodyRuns(n, messages, AfterBody(n)), NEW branch \in InOrder(enabled),
             tokens' = rest \o [k \in DOMAIN branch |->
                         NewToken(nextTokenID + k - 1, graph.edges[n][branch[k]])],
             UNCHANGED mergeVisited
      PROVE  Plays
  <2> DEFINE new == [k \in DOMAIN branch |->
                       NewToken(nextTokenID + k - 1, graph.edges[n][branch[k]])]
             loc == graph.edges[n]
  <2>1. enabled \subseteq DOMAIN loc
    BY DEF enabledSuccessions
  <2>2. IsFiniteSet(enabled) /\ enabled \subseteq Int
    <3>1. DOMAIN loc = 1..Len(loc) /\ Len(loc) \in Nat
      BY <1>3, LenProperties
    <3>2. IsFiniteSet(DOMAIN loc)
      BY <3>1, FS_Interval
    <3> HIDE DEF enabled
    <3> QED BY <2>1, <3>1, <3>2, FS_Subset
  <2>3. Locs(new) = [k \in DOMAIN branch |-> loc[branch[k]]]
    BY DEF NewToken, Locs
  <2>4. new \in Seq(Token)
    <3>1. /\ Cardinality(enabled) \in Nat /\ DOMAIN branch = 1..Cardinality(enabled)
          /\ branch \in [1..Cardinality(enabled) -> enabled]
      BY <2>2, OrderOnto
    <3>2. \A k \in DOMAIN branch : loc[branch[k]] \in Nodes
      BY <1>2, <2>1, <3>1, EdgeNodes
    <3>3. new \in [1..Cardinality(enabled) -> Token]
      BY <1>2, <3>1, <3>2 DEF NewToken, Token
    <3> HIDE DEF new, enabled
    <3> QED BY <3>1, <3>3, FunctionIsSlice
  <2>5. tokens' = rest \o new
    BY <1>9
  <2> HIDE DEF new
  <2>6. \A m : Marked(new, m) = Cardinality({i \in enabled : loc[i] = m})
    <3> HIDE DEF enabled, loc
    <3>1. \A m : Count(Through(branch, loc), m) = Cardinality(Where(enabled, loc, m))
      BY <1>9, <2>2, OrderCount
    <3> QED BY <2>3, <3>1 DEF Marked, Through, Where
  <2>7. rest \in Seq(Token)
    <3>1. cursor \in 1..Len(tokens)
      BY <1>1, <1>3, LenProperties
    <3> QED BY <1>3, <3>1, RemoveAtProperties
  <2>8. \A m : Marked(tokens', m) = Marked(rest, m) + Marked(new, m)
    BY <2>4, <2>5, <2>7, MarkedAdded
  <2>9. \A m \in Nodes :
          Marked(tokens', m) = (IF m = n THEN Marked(tokens, m) - 1 ELSE Marked(tokens, m))
                                 + Cardinality({i \in enabled : graph.edges[n][i] = m})
    BY <1>4, <2>6, <2>8
  <2>10. enabled \in SUBSET (DOMAIN graph.edges[n])
    BY <2>1
  <2> HIDE DEF enabled, rest
  <2> QED BY <1>1, <1>2, <1>5, <1>6, <1>9, <2>9, <2>10, GameSplits
<1>10. \/ Failing(tokens, messages, AfterBody(n))
       \/ /\ BodyRuns(n, messages, AfterBody(n)) /\ tokens' = rest
          /\ UNCHANGED mergeVisited
       \/ /\ BodyRuns(n, messages, AfterBody(n))
          /\ \E branch \in InOrder(enabled) :
               tokens' = rest \o [k \in DOMAIN branch |->
                           NewToken(nextTokenID + k - 1, graph.edges[n][branch[k]])]
          /\ UNCHANGED mergeVisited
  BY DEF stepForkNode, Failing, NodeErrors, retireToken
<1> QED BY <1>7, <1>8, <1>9, <1>10


(* stepJoinNode waits, fails or is the firing of a join. *)
LEMMA JoinNodePlays == ASSUME Inv, stepJoinNode, UNCHANGED action PROVE Plays
<1> DEFINE n == Here
           enabled == enabledSuccessions(n, AfterBody(n))
<1>1. cursor \in DOMAIN tokens /\ graph.kind[n] = "join"
  BY DEF stepJoinNode, Stepping, Here
<1>2. SameFlow(tokens) /\ Bus(messages) /\ n \in Nodes
  BY <1>1, InvTokens, SteppingFacts DEF Bus
<1>3. /\ graph.edges[n] \in Seq(Nodes) /\ graph.sends[n] \in Seq(Messages)
      /\ tokens \in Seq(Token) /\ messages \in Seq(Messages)
      /\ nextTokenID \in Nat /\ GoodTokens(graph, tokens, nextTokenID)
  BY <1>2, GraphType, InvTokens DEF Inv, TypeOK, IsGraph
<1>4. Marked(tokens, n) > 0
  BY <1>1, HereIsMarked
<1>5. BodyRuns(n, messages, AfterBody(n)) => Inbox' = TokenGame!With(Inbox, graph.sends[n])
  BY <1>3, GamePosted DEF BodyRuns
<1>6. \A m : Marked(tokens, m) \in Nat
  BY <1>3, LocsType
<1>7. CASE Failing(tokens, messages, AfterBody(n))
  BY <1>1, <1>2, <1>7, FailingPlays
<1>8. CASE Stays(tokens)
  BY <1>2, <1>8, WaitingPlays
<1>9. CASE /\ Marked(tokens, n) >= Cardinality(getIncomingEdges(n))
           /\ BodyRuns(n, messages, AfterBody(n))
           /\ tokens' \in Remaining(n) /\ UNCHANGED mergeVisited
  <2>1. \A m \in Nodes :
          Marked(tokens', m) = (IF m = n THEN 0 ELSE Marked(tokens, m)) + Count(<<>>, m)
    <3> TAKE m \in Nodes
    <3>1. Marked(tokens', m) = IF m = n THEN 0 ELSE Marked(tokens, m)
      BY <1>9, RemainingMarked
    <3>2. Count(<<>>, m) = 0
      BY CountSmall
    <3> QED BY <1>6, <3>1, <3>2
  <2>2. <<>> \in Onward(n)
    BY DEF Onward
  <2> QED BY <1>1, <1>2, <1>4, <1>5, <1>9, <2>1, <2>2, GameJoins
<1>10. ASSUME Marked(tokens, n) >= Cardinality(getIncomingEdges(n)),
              BodyRuns(n, messages, AfterBody(n)), Len(graph.edges[n]) = 1,
              NEW ts \in Remaining(n),
              tokens' = Append(ts, NewToken(nextTokenID, graph.edges[n][1])),
              UNCHANGED mergeVisited
       PROVE  Plays
  <2> DEFINE m == graph.edges[n][1]
             t == NewToken(nextTokenID, m)
  <2>1. 1 \in DOMAIN graph.edges[n] /\ m \in Nodes
    <3>1. 1 \in DOMAIN graph.edges[n]
      BY <1>3, <1>10, LenProperties
    <3> QED BY <1>2, <3>1, EdgeNodes
  <2>2. <<m>> \in Onward(n)
    BY <2>1 DEF Onward
  <2>3. t \in Token /\ t.loc = m
    BY <1>3, <2>1 DEF NewToken, Token
  <2>4. tokens' = Append(ts, t)
    BY <1>10
  <2> HIDE DEF t, m
  <2>5. ts \in Seq(Token)
    BY <1>2, <1>3, RemainingTokens DEF GoodTokens
  <2>6. tokens' = ts \o <<t>> /\ <<t>> \in Seq(Token)
    BY <2>3, <2>4, <2>5, AppendIsConcat
  <2>7. \A x : Marked(tokens', x) = Marked(ts, x) + Marked(<<t>>, x)
    BY <2>5, <2>6, MarkedAdded
  <2>8. \A x : Marked(<<t>>, x) = Count(<<m>>, x)
    <3>1. Locs(<<t>>) = <<m>>
      BY <2>3 DEF Locs
    <3> QED BY <3>1 DEF Marked
  <2>9. \A x : Marked(ts, x) = IF x = n THEN 0 ELSE Marked(tokens, x)
    BY RemainingMarked
  <2>10. \A x \in Nodes :
           Marked(tokens', x) = (IF x = n THEN 0 ELSE Marked(tokens, x)) + Count(<<m>>, x)
    BY <2>7, <2>8, <2>9
  <2> QED BY <1>1, <1>2, <1>4, <1>5, <1>10, <2>2, <2>10, GameJoins
<1>11. Cardinality(TokensAt(n)) = Marked(tokens, n)
  BY GameCounts
<1>12. \/ Stays(tokens)
       \/ Failing(tokens, messages, AfterBody(n))
       \/ /\ Cardinality(TokensAt(n)) >= Cardinality(getIncomingEdges(n))
          /\ BodyRuns(n, messages, AfterBody(n)) /\ UNCHANGED mergeVisited
          /\ \/ tokens' \in Remaining(n)
             \/ /\ Len(graph.edges[n]) = 1
                /\ \E ts \in Remaining(n) :
                     tokens' = Append(ts, NewToken(nextTokenID, graph.edges[n][1]))
  BY DEF stepJoinNode, Failing, NodeErrors
<1> QED BY <1>7, <1>8, <1>9, <1>10, <1>11, <1>12

(* The step of one token is one firing. *)
LEMMA TokenPlays == ASSUME Inv, stepToken PROVE Plays
<1>1. UNCHANGED action
  BY DEF stepToken
<1> QED
  BY <1>1, InitialNodePlays, FinalNodePlays, ForkNodePlays, JoinNodePlays, MergeNodePlays,
     DecisionNodePlays, ActionNodePlays, AcceptNodePlays, WhenNodePlays, TimeNodePlays
     DEF stepToken

-----------------------------------------------------------------------------
(* The other steps of a call, and the driver's *)

(* An executor that has not been initialized holds no token. *)
ReadyHoldsNoToken == state = "Ready" => tokens = <<>>

(* Every step keeps ReadyHoldsNoToken.                                     *)
LEMMA ReadyKept ==
  ASSUME Inv, ReadyHoldsNoToken, [Next]_vars
  PROVE  ReadyHoldsNoToken'
<1>1. CASE stepToken
  <2>1. pc = "token"
    BY <1>1, NodeSteps
  <2>2. state' \in {"Running", "Completed"}
    BY <1>1, <2>1, NodeSteps DEF NodeStep, TokensStep, Inv, SteppingRuns
  <2> QED BY <2>2 DEF ReadyHoldsNoToken
<1>2. CASE initialize
  BY <1>2 DEF initialize, ReadyHoldsNoToken
<1>3. CASE SkipIndex \/ EndStep \/ RunLoop \/ Step \/ Run
  <2>1. UNCHANGED tokens /\ (state' = "Ready" => state = "Ready")
    BY <1>3 DEF SkipIndex, EndStep, RunLoop, BeginStep, Step, Run, Resume, execVars
  <2> QED BY <2>1 DEF ReadyHoldsNoToken
<1>4. CASE \/ \E n \in Breakable : SetBreakpoint(n)
           \/ ClearBreakpoints
           \/ \E m \in Messages : PostMessage(m)
           \/ UNCHANGED vars
  <2>1. UNCHANGED <<tokens, state>>
    BY <1>4 DEF SetBreakpoint, ClearBreakpoints, PostMessage, execVars, vars
  <2> QED BY <2>1 DEF ReadyHoldsNoToken
<1> QED BY <1>1, <1>2, <1>3, <1>4 DEF Next, Proceed

(* initialize starts the flow, or does nothing the game tells apart. *)
LEMMA InitializePlays == ASSUME Inv, ReadyHoldsNoToken, initialize PROVE Plays
<1>1. UNCHANGED <<action, mergeVisited, messages>> /\ tokens = <<>>
  BY DEF initialize, ReadyHoldsNoToken
<1>2. CASE UNCHANGED tokens
  BY <1>1, <1>2, GameStutters DEF Unmoved
<1>3. CASE /\ graph.initial # None
           /\ tokens' = Append(tokens, NewToken(nextTokenID, graph.initial))
  <2> DEFINE t == NewToken(nextTokenID, graph.initial)
  <2>1. tokens' = <<t>> /\ t.loc = graph.initial
    BY <1>1, <1>3 DEF NewToken
  <2> HIDE DEF t
  <2>2. Locs(tokens) = <<>> /\ Locs(tokens') = <<graph.initial>>
    BY <1>1, <2>1 DEF Locs
  <2>3. /\ \A m : Marked(tokens, m) = 0
        /\ \A m : Marked(tokens', m) = Count(<<graph.initial>>, m)
    BY <2>2, CountSmall DEF Marked
  <2> QED BY <1>1, <1>3, <2>3, GameStarts
<1> QED BY <1>2, <1>3 DEF initialize

(* PostMessage puts one message in flight. *)
LEMMA PostPlays == ASSUME Inv, NEW m \in Messages, PostMessage(m) PROVE Plays
<1>1. messages \in Seq(Messages) /\ <<m>> \in Seq(Messages)
  BY DEF Inv, TypeOK
<1>2. messages' = messages \o <<m>>
  BY <1>1, AppendIsConcat DEF PostMessage
<1>3. Inbox' = TokenGame!With(Inbox, <<m>>)
  BY <1>1, <1>2, GamePosted
<1> QED BY <1>3, GamePosts DEF PostMessage, Unmoved

(* Every step of the specification plays. *)
LEMMA NextPlays == Inv /\ ReadyHoldsNoToken /\ [Next]_vars => Plays
<1> SUFFICES ASSUME Inv, ReadyHoldsNoToken, [Next]_vars PROVE Plays
  OBVIOUS
<1>1. CASE UNCHANGED <<action, tokens, mergeVisited, messages>>
  BY <1>1, GameStutters DEF Unmoved
<1>2. CASE \/ SkipIndex \/ EndStep \/ RunLoop \/ Step \/ Run
           \/ \E n \in Breakable : SetBreakpoint(n)
           \/ ClearBreakpoints
           \/ UNCHANGED vars
  <2>1. UNCHANGED <<action, tokens, mergeVisited, messages>>
    BY <1>2 DEF SkipIndex, EndStep, RunLoop, BeginStep, Step, Run, SetBreakpoint,
                ClearBreakpoints, execVars, vars
  <2> QED BY <1>1, <2>1
<1> QED BY <1>2, TokenPlays, InitializePlays, PostPlays DEF Next, Proceed

(* The executor's initial states are the game's. *)
LEMMA InitPlays == Init => TokenGame!Init
<1> SUFFICES ASSUME Init PROVE TokenGame!Init
  OBVIOUS
<1>1. tokens = <<>> /\ messages = <<>> /\ mergeVisited = {}
  BY DEF Init
<1>2. \A n : Marked(tokens, n) = 0 /\ Count(messages, n) = 0
  <2>1. Locs(<<>>) = <<>>
    BY DEF Locs
  <2> QED BY <1>1, <2>1, CountSmall DEF Marked
<1> QED BY <1>1, <1>2, GameCounts DEF TokenGame!Init

(* The executor refines the token game, for every graph, driver and        *)
(* message: however forks, joins, merges and ends of flow rebuild the slice *)
(* the index walks (stepToken), each step of a token is one node firing,   *)
(* and no other step moves, makes or loses a token or a message.           *)
THEOREM PlaysTheGame == Spec => PlaysTheTokenGame
<1>1. Spec => [](Inv /\ ReadyHoldsNoToken)
  <2>1. Init => ReadyHoldsNoToken
    BY DEF Init, ReadyHoldsNoToken
  <2>2. Inv /\ ReadyHoldsNoToken /\ [Next]_vars => ReadyHoldsNoToken'
    BY ReadyKept
  <2> QED BY <2>1, <2>2, Invariance, PTL DEF Spec
<1>2. Inv /\ ReadyHoldsNoToken /\ [Next]_vars => [TokenGame!Next]_(TokenGame!gameVars)
  BY NextPlays DEF Plays
<1> QED BY <1>1, <1>2, InitPlays, PTL DEF Spec, PlaysTheTokenGame, TokenGame!Game
=============================================================================
