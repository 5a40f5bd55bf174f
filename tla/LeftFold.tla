------------------------------ MODULE LeftFold ------------------------------
(***************************************************************************)
(* A loop over a sequence that carries a value: Over(base, seq) starts     *)
(* from base and applies Op to the value so far and each element in turn.  *)
(* A module instantiates this one for every loop body it has.              *)
(***************************************************************************)
EXTENDS Integers, Sequences, TLAPS

CONSTANT Op(_, _)

Over(base, seq) ==
    LET acc[i \in 0..Len(seq)] == IF i = 0 THEN base ELSE Op(acc[i - 1], seq[i])
    IN  acc[Len(seq)]

\* Induction over the numbers up to n, which the results below rest on.  It is a
\* hypothesis of theirs and proved where they are used, since each instance of
\* this module would repeat everything it is proved from.
Induction ==
    \A n \in Nat : \A S \in SUBSET (0..n) :
        0 \in S /\ (\A i \in 1..n : i - 1 \in S => i \in S) => n \in S

\* What acc has to be to hold the values of the loop over n elements of seq.
Values(acc, base, seq, n) ==
    acc = [i \in 0..n |-> IF i = 0 THEN base ELSE Op(acc[i - 1], seq[i])]

\* The values the loop goes through exist: there is a function acc that starts
\* with base and takes each value from the one before.
LEMMA LoopExists ==
    ASSUME NEW base, NEW seq, NEW n \in Nat, Induction
    PROVE  \E acc : Values(acc, base, seq, n)
<1> DEFINE S == {k \in 0..n : \E f : Values(f, base, seq, k)}
<1>1. 0 \in S
  <2>1. Values([i \in 0..0 |-> base], base, seq, 0)
    BY DEF Values
  <2> QED BY <2>1
<1>2. ASSUME NEW k \in 1..n, k - 1 \in S
      PROVE  k \in S
  <2>1. PICK f : Values(f, base, seq, k - 1)
    BY <1>2
  <2> USE DEF Values
  <2> DEFINE g == [i \in 0..k |-> IF i = k THEN Op(f[k - 1], seq[k]) ELSE f[i]]
  <2>2. \A i \in 0..(k - 1) : g[i] = f[i]
    OBVIOUS
  <2>3. \A i \in 0..k : g[i] = IF i = 0 THEN base ELSE Op(g[i - 1], seq[i])
    <3> SUFFICES ASSUME NEW i \in 0..k PROVE g[i] = IF i = 0 THEN base ELSE Op(g[i - 1], seq[i])
      OBVIOUS
    <3>1. CASE i = 0
      BY <2>1, <2>2, <3>1
    <3>2. CASE i = k
      <4>1. g[i - 1] = f[i - 1]
        BY <2>2, <3>2
      <4> QED BY <3>2, <4>1
    <3>3. CASE i \in 1..(k - 1)
      <4>1. g[i] = f[i] /\ g[i - 1] = f[i - 1]
        BY <2>2, <3>3
      <4>2. f[i] = Op(f[i - 1], seq[i])
        BY <2>1, <3>3
      <4> QED BY <3>3, <4>1, <4>2
    <3> QED BY <3>1, <3>2, <3>3
  <2>4. Values(g, base, seq, k)
    BY <2>3
  <2> HIDE DEF Values, g
  <2> QED BY <2>4
<1> HIDE DEF S
<1>3. S \in SUBSET (0..n)
  BY DEF S
<1>4. n \in S
  BY <1>1, <1>2, <1>3 DEF Induction
<1> QED BY <1>4 DEF S

\* The loop's value is the last of a chain of values linked by its body.
LEMMA LoopValues ==
    ASSUME NEW base, NEW seq, Len(seq) \in Nat, Induction
    PROVE  \E acc : /\ acc[0] = base
                    /\ \A i \in 1..Len(seq) : acc[i] = Op(acc[i - 1], seq[i])
                    /\ Over(base, seq) = acc[Len(seq)]
<1> DEFINE acc == CHOOSE f : Values(f, base, seq, Len(seq))
<1>1. \E f : Values(f, base, seq, Len(seq))
  BY LoopExists
<1>2. Values(acc, base, seq, Len(seq))
  BY <1>1
<1>3. Over(base, seq) = acc[Len(seq)]
  BY DEF Over, Values
<1> HIDE DEF acc
<1>4. acc[0] = base /\ \A i \in 1..Len(seq) : acc[i] = Op(acc[i - 1], seq[i])
  BY <1>2 DEF Values
<1> QED BY <1>3, <1>4

\* The value after i elements is in V[i] when the first is in V[0] and the body
\* takes the values of V[i - 1] to values of V[i].
THEOREM LoopSteps ==
    ASSUME NEW V, NEW base, NEW seq, Len(seq) \in Nat, Induction, base \in V[0],
           \A i \in 1..Len(seq) : \A v \in V[i - 1] : Op(v, seq[i]) \in V[i]
    PROVE  Over(base, seq) \in V[Len(seq)]
<1>1. PICK acc : /\ acc[0] = base
                 /\ \A i \in 1..Len(seq) : acc[i] = Op(acc[i - 1], seq[i])
                 /\ Over(base, seq) = acc[Len(seq)]
  BY LoopValues
<1> DEFINE S == {i \in 0..Len(seq) : acc[i] \in V[i]}
<1>2. 0 \in S
  BY <1>1
<1>3. \A i \in 1..Len(seq) : i - 1 \in S => i \in S
  BY <1>1
<1>4. S \in SUBSET (0..Len(seq))
  OBVIOUS
<1> HIDE DEF S
<1>5. Len(seq) \in S
  BY <1>2, <1>3, <1>4 DEF Induction
<1> QED BY <1>1, <1>5 DEF S

\* What the body keeps, the loop keeps: a set with the first value, and with
\* the body's value for every value of the set and element of the sequence,
\* has the last.
THEOREM LoopKeeps ==
    ASSUME NEW V, NEW base \in V, NEW seq, Len(seq) \in Nat, Induction,
           \A v \in V : \A i \in 1..Len(seq) : Op(v, seq[i]) \in V
    PROVE  Over(base, seq) \in V
<1> DEFINE Vs == [i \in 0..Len(seq) |-> V]
<1>1. base \in Vs[0]
  OBVIOUS
<1>2. \A i \in 1..Len(seq) : \A v \in Vs[i - 1] : Op(v, seq[i]) \in Vs[i]
  OBVIOUS
<1>3. V = Vs[Len(seq)]
  OBVIOUS
<1> HIDE DEF Vs
<1> QED BY <1>1, <1>2, <1>3, LoopSteps
=============================================================================
