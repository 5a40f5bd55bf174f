-------------------------- MODULE ModelServiceProofs --------------------------
(***************************************************************************)
(* What ModelService keeps for any number of handlers, documents, indexes  *)
(* and calls, and any sizes of pool and cache.                             *)
(***************************************************************************)
EXTENDS ModelService, SequencesExt, SequenceTheorems, FiniteSetTheorems, TLAPS

(* At most one build was started for the room there is, so it fits.         *)
BuildHasRoom ==
  ~closed /\ builders > 0 => Len(ready) < target

ClosingIsClosed ==
  closed <=> closing # "open"

PoolInv ==
  /\ PoolTypeOK
  /\ OneBuildAtATime
  /\ RefillUnderWay
  /\ BuildHasRoom
  /\ ClosingIsClosed
  /\ ClosedHoldsNothing

PoolStep ==
  \/ prewarm \/ fillOne \/ BuilderDone \/ CloseBegins \/ CloseEnds
  \/ GetNone \/ (\E i \in ToSet(ready) : GetPooled(i)) \/ BuildInline(built + 1)
  \/ UNCHANGED pool

----------------------------------------------------------------------------
(* append(s[:i], s[i+1:]...): the entries above i move down by one.         *)
LEMMA RemoveAtProperties ==
  ASSUME NEW S, NEW s \in Seq(S), NEW i \in 1..Len(s)
  PROVE  /\ RemoveAt(s, i) \in Seq(S)
         /\ Len(RemoveAt(s, i)) = Len(s) - 1
         /\ \A j \in 1..(Len(s) - 1) :
              RemoveAt(s, i)[j] = s[IF j < i THEN j ELSE j + 1]
<1> DEFINE l == SubSeq(s, 1, i - 1)
           r == SubSeq(s, i + 1, Len(s))
           c == l \o r
<1>0. Len(s) \in Nat
  BY LenProperties
<1>1. /\ l \in Seq(S) /\ Len(l) = i - 1
      /\ \A j \in 1..(i - 1) : l[j] = s[j]
  BY <1>0, SubSeqProperties, ElementOfSeq
<1>2. /\ r \in Seq(S) /\ Len(r) = Len(s) - i
      /\ \A j \in 1..(Len(s) - i) : r[j] = s[i + j]
  BY <1>0, SubSeqProperties, ElementOfSeq
<1> HIDE DEF l, r
<1>3. /\ c \in Seq(S)
      /\ Len(c) = Len(l) + Len(r)
      /\ \A j \in 1..(Len(l) + Len(r)) :
           c[j] = IF j <= Len(l) THEN l[j] ELSE r[j - Len(l)]
  BY <1>1, <1>2, ConcatProperties, Zenon
<1> HIDE DEF c
<1>4. Len(c) = Len(s) - 1
  BY <1>0, <1>1, <1>2, <1>3
<1>5. ASSUME NEW j \in 1..(Len(s) - 1)
      PROVE  c[j] = s[IF j < i THEN j ELSE j + 1]
  <2> DEFINE n == Len(s)
  <2>0. /\ n \in Nat /\ i \in 1..n /\ j \in 1..(n - 1)
        /\ Len(l) = i - 1 /\ Len(r) = n - i
    BY <1>0, <1>1, <1>2
  <2> HIDE DEF n
  <2>3. j \in 1..(Len(l) + Len(r))
    BY <2>0
  <2>4. c[j] = IF j <= Len(l) THEN l[j] ELSE r[j - Len(l)]
    BY <1>3, <2>3
  <2>1. CASE j < i
    <3>1. j <= Len(l) /\ j \in 1..(i - 1)
      BY <2>0, <2>1
    <3> QED BY <1>1, <2>1, <2>4, <3>1
  <2>2. CASE ~(j < i)
    <3>1. ~(j <= Len(l)) /\ i + (j - Len(l)) = j + 1
      BY <2>0, <2>2
    <3>2. j - Len(l) \in 1..(Len(s) - i)
      BY <2>0, <2>2 DEF n
    <3>3. c[j] = r[j - Len(l)]
      BY <2>4, <3>1
    <3>4. r[j - Len(l)] = s[i + (j - Len(l))]
      BY <1>2, <3>2
    <3> QED BY <2>2, <3>1, <3>3, <3>4
  <2> QED BY <2>1, <2>2
<1>6. RemoveAt(s, i) = c
  BY DEF RemoveAt, c, l, r
<1> QED BY <1>3, <1>4, <1>5, <1>6, Zenon

(* Taking the last entry of a slice, and adding one.                       *)
LEMMA FrontProperties ==
  ASSUME NEW S, NEW s \in Seq(S), s # <<>>
  PROVE  /\ Len(s) \in Nat \ {0}
         /\ Front(s) \in Seq(S)
         /\ Len(Front(s)) = Len(s) - 1
         /\ \A j \in 1..(Len(s) - 1) : Front(s)[j] = s[j]
         /\ Last(s) = s[Len(s)] /\ Last(s) \in S
<1>1. Len(s) \in Nat \ {0}
  BY EmptySeq, LenProperties
<1>2. /\ Front(s) \in Seq(S)
      /\ Len(Front(s)) = Len(s) - 1
      /\ \A j \in 1..(Len(s) - 1) : Front(s)[j] = s[j]
  <2>1. \A j \in 1..(Len(s) - 1) : s[j] \in S
    BY <1>1, ElementOfSeq
  <2> DEFINE n == Len(s) - 1
  <2>2. n \in Nat
    BY <1>1
  <2> HIDE DEF n
  <2>3. /\ SubSeq(s, 1, n) \in Seq(S)
        /\ Len(SubSeq(s, 1, n)) = IF 1 <= n THEN n - 1 + 1 ELSE 0
        /\ \A j \in 1..(n - 1 + 1) : SubSeq(s, 1, n)[j] = s[1 + j - 1]
    BY <2>1, <2>2, SubSeqProperties DEF n
  <2>4. n - 1 + 1 = n /\ \A j \in 1..n : 1 + j - 1 = j
    BY <2>2, SMT
  <2>5. Len(SubSeq(s, 1, n)) = n
    BY <2>2, <2>3
  <2>6. \A j \in 1..n : SubSeq(s, 1, n)[j] = s[j]
    BY <2>3, <2>4
  <2> QED BY <2>3, <2>5, <2>6 DEF Front, n
<1>3. Last(s) = s[Len(s)] /\ Last(s) \in S
  BY <1>1, ElementOfSeq DEF Last
<1> QED BY <1>1, <1>2, <1>3

(* fillLocked, called with the counters as the caller leaves them.          *)
LEMMA FillStep ==
  ASSUME NEW S, NEW r \in Seq(S), NEW n \in Int, NEW b \in Int, NEW t \in Nat,
         wg \in Nat, closed \in BOOLEAN, n = b, fillLocked(r, n, b, t)
  PROVE  /\ inflight' = builders'
         /\ \/ builders' = b + 1 /\ wg' = wg + 1 /\ ~closed /\ b <= 0 /\ Len(r) < t
            \/ builders' = b /\ wg' = wg /\ (closed \/ b > 0 \/ Len(r) >= t)
<1>1. Len(r) \in Nat
  BY LenProperties
<1>2. CASE Short(r, n, t)
  BY <1>1, <1>2 DEF fillLocked, Short
<1>3. CASE ~Short(r, n, t)
  BY <1>1, <1>3 DEF fillLocked, Short
<1> QED BY <1>2, <1>3

(* The pool's invariant across prewarm.                                     *)
LEMMA PrewarmKeeps ==
  ASSUME PoolInv, prewarm PROVE PoolInv'
<1> USE PoolAssumption
<1>1. /\ inflight' = builders'
      /\ \/ builders' = builders + 1 /\ wg' = wg + 1 /\ ~closed /\ builders <= 0 /\ Len(ready) < PoolSize
         \/ builders' = builders /\ wg' = wg /\ (closed \/ builders > 0 \/ Len(ready) >= PoolSize)
  BY FillStep DEF prewarm, PoolInv, PoolTypeOK, OneBuildAtATime
<1>2. Len(ready) \in Nat
  BY LenProperties DEF PoolInv, PoolTypeOK
<1>3. PoolTypeOK'
  BY <1>1 DEF prewarm, PoolInv, PoolTypeOK, OneBuildAtATime
<1>4. OneBuildAtATime'
  BY <1>1 DEF prewarm, PoolInv, PoolTypeOK, OneBuildAtATime
<1>5. RefillUnderWay' /\ BuildHasRoom'
  BY <1>1, <1>2 DEF prewarm, PoolInv, PoolTypeOK, RefillUnderWay, BuildHasRoom
<1>6. ClosingIsClosed' /\ ClosedHoldsNothing'
  BY <1>1 DEF prewarm, PoolInv, PoolTypeOK, ClosingIsClosed, ClosedHoldsNothing
<1> QED BY <1>3, <1>4, <1>5, <1>6 DEF PoolInv

(* ... across a checkout that finds an index ready,                         *)
LEMMA GetPooledKeeps ==
  ASSUME PoolInv, NEW i, GetPooled(i) PROVE PoolInv'
<1> USE PoolAssumption
<1>1. /\ Front(ready) \in Seq(Nat) /\ Len(Front(ready)) = Len(ready) - 1
      /\ Len(ready) \in Nat \ {0}
  BY FrontProperties DEF GetPooled, PoolInv, PoolTypeOK
<1>2. /\ inflight' = builders'
      /\ \/ builders' = builders + 1 /\ wg' = wg + 1 /\ ~closed /\ builders <= 0
            /\ Len(Front(ready)) < target
         \/ builders' = builders /\ wg' = wg /\ (closed \/ builders > 0 \/ Len(Front(ready)) >= target)
  <2>1. fillLocked(Front(ready), inflight, builders, target)
    BY DEF GetPooled
  <2>2. /\ inflight \in Int /\ builders \in Int /\ target \in Nat
        /\ wg \in Nat /\ closed \in BOOLEAN /\ inflight = builders
    BY DEF PoolInv, PoolTypeOK, OneBuildAtATime
  <2> QED BY <1>1, <2>1, <2>2, FillStep
<1>3. stats' \in PoolStats
  <2>1. stats \in PoolStats
    BY DEF PoolInv, PoolTypeOK
  <2>2. [stats EXCEPT !.Pooled = @ + 1] \in PoolStats
    BY <2>1 DEF PoolStats
  <2> QED BY <2>2 DEF GetPooled
<1>4. closing # "closed"
  BY DEF GetPooled, PoolInv, ClosedHoldsNothing
<1>5. PoolTypeOK'
  <2>1. ready' = Front(ready) /\ UNCHANGED <<target, closed, leaving, closing, built>>
    BY DEF GetPooled
  <2>2. builders \in Nat /\ wg \in Nat
    BY DEF PoolInv, PoolTypeOK
  <2>3. builders' \in Nat /\ wg' \in Nat /\ inflight' \in Nat
    BY <1>2, <2>2
  <2> QED BY <1>1, <1>3, <2>1, <2>3 DEF PoolInv, PoolTypeOK
<1>6. OneBuildAtATime'
  BY <1>2 DEF GetPooled, PoolInv, PoolTypeOK, OneBuildAtATime
<1>7. RefillUnderWay' /\ BuildHasRoom'
  BY <1>1, <1>2 DEF GetPooled, PoolInv, PoolTypeOK, RefillUnderWay, BuildHasRoom
<1>8. ClosingIsClosed' /\ ClosedHoldsNothing'
  BY <1>4 DEF GetPooled, PoolInv, ClosingIsClosed, ClosedHoldsNothing
<1> QED BY <1>5, <1>6, <1>7, <1>8 DEF PoolInv

(* ... across one that finds none,                                          *)
LEMMA GetNoneKeeps ==
  ASSUME PoolInv, GetNone PROVE PoolInv'
<1> USE PoolAssumption
<1>1. Len(ready) \in Nat
  BY LenProperties DEF PoolInv, PoolTypeOK
<1>2. /\ inflight' = builders'
      /\ \/ builders' = builders + 1 /\ wg' = wg + 1 /\ ~closed /\ builders <= 0 /\ Len(ready) < target
         \/ builders' = builders /\ wg' = wg /\ (closed \/ builders > 0 \/ Len(ready) >= target)
  <2>1. fillLocked(ready, inflight, builders, target)
    BY DEF GetNone
  <2>2. /\ ready \in Seq(Nat) /\ inflight \in Int /\ builders \in Int /\ target \in Nat
        /\ wg \in Nat /\ closed \in BOOLEAN /\ inflight = builders
    BY DEF PoolInv, PoolTypeOK, OneBuildAtATime
  <2> QED BY <2>1, <2>2, FillStep
<1>3. stats' \in PoolStats
  <2>1. stats \in PoolStats
    BY DEF PoolInv, PoolTypeOK
  <2>2. [stats EXCEPT !.Inline = @ + 1] \in PoolStats
    BY <2>1 DEF PoolStats
  <2> QED BY <2>2 DEF GetNone
<1>4. PoolTypeOK'
  BY <1>2, <1>3 DEF GetNone, PoolInv, PoolTypeOK, OneBuildAtATime
<1>5. OneBuildAtATime'
  BY <1>2 DEF GetNone, PoolInv, PoolTypeOK, OneBuildAtATime
<1>6. RefillUnderWay' /\ BuildHasRoom'
  BY <1>1, <1>2 DEF GetNone, PoolInv, PoolTypeOK, RefillUnderWay, BuildHasRoom
<1>7. ClosingIsClosed' /\ ClosedHoldsNothing'
  BY <1>2 DEF GetNone, PoolInv, PoolTypeOK, ClosingIsClosed, ClosedHoldsNothing
<1> QED BY <1>4, <1>5, <1>6, <1>7 DEF PoolInv

(* ... across the end of a background build,                                *)
LEMMA FillOneKeeps ==
  ASSUME PoolInv, fillOne PROVE PoolInv'
<1> USE PoolAssumption
<1>1. Len(ready) \in Nat /\ builders = 1 /\ inflight = 1 /\ wg = 1 + leaving
  BY LenProperties DEF fillOne, PoolInv, PoolTypeOK, OneBuildAtATime
<1>2. stats' \in PoolStats /\ built' \in Nat
  <2>1. built' = built + 1 /\ stats' = [stats EXCEPT !.Built = @ + 1]
    BY DEF fillOne
  <2>2. built \in Nat /\ stats \in PoolStats
    BY DEF PoolInv, PoolTypeOK
  <2>3. stats' \in PoolStats
    BY <2>1, <2>2 DEF PoolStats
  <2> QED BY <2>1, <2>2, <2>3
<1>3. CASE Unwanted /\ inflight' = inflight - 1 /\ builders' = builders - 1
           /\ UNCHANGED <<ready, wg>>
  <2>1. closed
    BY <1>1, <1>3 DEF Unwanted, PoolInv, PoolTypeOK, BuildHasRoom
  <2>2. closing # "closed"
    BY <1>1 DEF PoolInv, ClosedHoldsNothing
  <2> QED BY <1>1, <1>2, <1>3, <2>1, <2>2 DEF fillOne, PoolInv, PoolTypeOK,
       OneBuildAtATime, RefillUnderWay, BuildHasRoom, ClosingIsClosed, ClosedHoldsNothing
<1>4. CASE ~Unwanted /\ ready' = Append(ready, built + 1)
           /\ fillLocked(ready', inflight - 1, builders - 1, target)
  <2>1. ~closed /\ closing = "open"
    BY <1>4 DEF Unwanted, PoolInv, PoolTypeOK, ClosingIsClosed
  <2>2. ready' \in Seq(Nat) /\ Len(ready') = Len(ready) + 1
    BY <1>4, AppendProperties DEF PoolInv, PoolTypeOK
  <2>3. /\ inflight' = builders'
        /\ \/ builders' = 0 + 1 /\ wg' = wg + 1 /\ ~closed /\ 0 <= 0 /\ Len(ready') < target
           \/ builders' = 0 /\ wg' = wg /\ (closed \/ 0 > 0 \/ Len(ready') >= target)
    <3>1. fillLocked(ready', 0, 0, target)
      BY <1>1, <1>4
    <3> HIDE DEF Unwanted
    <3> QED BY <2>2, <3>1, FillStep DEF PoolInv, PoolTypeOK
  <2>4. leaving' = leaving + 1 /\ UNCHANGED <<target, closed, closing>>
    BY DEF fillOne
  <2>5. PoolTypeOK'
    BY <1>1, <1>2, <2>2, <2>3, <2>4 DEF PoolInv, PoolTypeOK
  <2>6. OneBuildAtATime'
    BY <1>1, <2>3, <2>4 DEF PoolInv, PoolTypeOK, OneBuildAtATime
  <2>7. RefillUnderWay' /\ BuildHasRoom'
    BY <1>1, <2>2, <2>3, <2>4 DEF PoolInv, PoolTypeOK, RefillUnderWay, BuildHasRoom
  <2>8. ClosingIsClosed' /\ ClosedHoldsNothing'
    BY <2>1, <2>4 DEF PoolInv, ClosingIsClosed, ClosedHoldsNothing
  <2> QED BY <2>5, <2>6, <2>7, <2>8 DEF PoolInv
<1> QED BY <1>3, <1>4 DEF fillOne

(* ... and across the steps that start no build.                            *)
LEMMA OtherPoolStepsKeep ==
  ASSUME PoolInv,
         BuilderDone \/ CloseBegins \/ CloseEnds \/ BuildInline(built + 1) \/ UNCHANGED pool
  PROVE  PoolInv'
<1>a. BuildInline(built + 1) => stats' \in PoolStats
  <2>1. stats \in PoolStats
    BY DEF PoolInv, PoolTypeOK
  <2>2. BuildInline(built + 1) => stats' = [stats EXCEPT !.Built = @ + 1]
    BY DEF BuildInline
  <2>3. [stats EXCEPT !.Built = @ + 1] \in PoolStats
    BY <2>1 DEF PoolStats
  <2> QED BY <2>2, <2>3
<1> USE PoolAssumption DEF PoolInv, PoolTypeOK, OneBuildAtATime, RefillUnderWay,
       BuildHasRoom, ClosingIsClosed, ClosedHoldsNothing
<1>0. Len(ready) \in Nat
  BY LenProperties
<1>1. CASE BuilderDone
  BY <1>0, <1>1 DEF BuilderDone
<1>2. CASE CloseBegins
  BY <1>0, <1>2 DEF CloseBegins
<1>3. CASE CloseEnds
  <2>1. ready' = <<>> /\ <<>> \in Seq(Nat) /\ Len(<<>>) = 0
    BY <1>3, EmptySeq DEF CloseEnds
  <2> QED BY <1>0, <1>3, <2>1 DEF CloseEnds
<1>4. CASE BuildInline(built + 1)
  <2>1. stats' \in PoolStats
    BY <1>4, <1>a
  <2>2. /\ built' = built + 1
        /\ UNCHANGED <<ready, inflight, target, closed, wg, builders, leaving, closing>>
    BY <1>4 DEF BuildInline
  <2>3. built' \in Nat
    BY <2>2
  <2>4. PoolTypeOK'
    BY <2>1, <2>2, <2>3
  <2> QED BY <2>2, <2>4
<1>5. CASE UNCHANGED pool
  BY <1>0, <1>5 DEF pool
<1> QED BY <1>1, <1>2, <1>3, <1>4, <1>5

(* Whatever the pool does keeps its invariant.                              *)
LEMMA PoolStepKeeps ==
  ASSUME PoolInv, PoolStep PROVE PoolInv'
BY PrewarmKeeps, GetPooledKeeps, GetNoneKeeps, FillOneKeeps, OtherPoolStepsKeep
   DEF PoolStep

(* Every step of the service is a step of the pool or leaves it alone.      *)
LEMMA NextIsPoolStep ==
  ASSUME [Next]_vars PROVE PoolStep
<1> USE DEF PoolStep
<1>1. CASE Background
  BY <1>1 DEF Background
<1>2. CASE \E c \in Clients : Serve(c)
  BY <1>2 DEF Serve, Miss, Hit, Reparse, TakeReady, TakeNone, Build, CacheModel,
     Judged, Respond
<1>3. CASE UNCHANGED vars
  BY <1>3 DEF vars
<1> QED BY <1>1, <1>2, <1>3 DEF Next

----------------------------------------------------------------------------
(* The set of a slice's entries, when they are distinct.                   *)
LEMMA AppendSet ==
  ASSUME NEW S, NEW s \in Seq(S), NEW e \in S
  PROVE  /\ ToSet(Append(s, e)) = ToSet(s) \cup {e}
         /\ IsInjective(s) /\ e \notin ToSet(s) => IsInjective(Append(s, e))
<1>1. /\ Len(s) \in Nat /\ DOMAIN s = 1..Len(s)
      /\ Append(s, e) \in Seq(S) /\ Len(Append(s, e)) = Len(s) + 1
      /\ \A i \in 1..Len(s) : Append(s, e)[i] = s[i]
      /\ Append(s, e)[Len(s) + 1] = e
  BY LenProperties, AppendProperties
<1> DEFINE a == Append(s, e)
<1>2. DOMAIN a = 1..(Len(s) + 1)
  BY <1>1, LenProperties
<1>3. /\ \A i \in 1..Len(s) : a[i] = s[i]
      /\ a[Len(s) + 1] = e
  BY <1>1
<1> HIDE DEF a
<1>4. ToSet(a) = ToSet(s) \cup {e}
  BY <1>1, <1>2, <1>3 DEF ToSet
<1>5. IsInjective(s) /\ e \notin ToSet(s) => IsInjective(a)
  BY <1>1, <1>2, <1>3 DEF ToSet, IsInjective
<1> QED BY <1>4, <1>5 DEF a

(* Taking the last entry takes its value out of the set.                    *)
LEMMA FrontSet ==
  ASSUME NEW S, NEW s \in Seq(S), s # <<>>, IsInjective(s)
  PROVE  /\ ToSet(Front(s)) = ToSet(s) \ {Last(s)}
         /\ IsInjective(Front(s))
         /\ Last(s) \in ToSet(s)
<1>1. /\ Len(s) \in Nat \ {0} /\ DOMAIN s = 1..Len(s)
      /\ DOMAIN Front(s) = 1..(Len(s) - 1)
      /\ \A j \in 1..(Len(s) - 1) : Front(s)[j] = s[j]
      /\ Last(s) = s[Len(s)]
  BY FrontProperties, LenProperties
<1>2. ToSet(Front(s)) = ToSet(s) \ {Last(s)}
  BY <1>1 DEF ToSet, IsInjective
<1>3. IsInjective(Front(s))
  BY <1>1 DEF IsInjective
<1>4. Last(s) \in ToSet(s)
  BY <1>1 DEF ToSet
<1> QED BY <1>2, <1>3, <1>4

(* What a step of the pool does to the indexes it holds: at most one new    *)
(* one joins them.                                                         *)
LEMMA ReadyStep ==
  ASSUME PoolInv, IsInjective(ready), built + 1 \notin ToSet(ready),
         prewarm \/ fillOne \/ BuilderDone \/ CloseBegins \/ CloseEnds
  PROVE  /\ IsInjective(ready')
         /\ \/ ToSet(ready') \subseteq ToSet(ready) /\ built' \in {built, built + 1}
            \/ ToSet(ready') = ToSet(ready) \cup {built + 1} /\ built' = built + 1
<1>1. CASE fillOne
  <2>1. built' = built + 1
    BY <1>1 DEF fillOne
  <2>2. CASE ready' = ready
    BY <2>1, <2>2
  <2>3. CASE ready' = Append(ready, built + 1)
    BY <2>1, <2>3, AppendSet DEF PoolInv, PoolTypeOK
  <2> QED BY <1>1, <2>2, <2>3 DEF fillOne
<1>2. CASE CloseEnds
  <2>1. ready' = <<>> /\ built' = built
    BY <1>2 DEF CloseEnds
  <2>2. DOMAIN <<>> = {}
    BY EmptySeq, LenProperties
  <2> QED BY <2>1, <2>2 DEF ToSet, IsInjective
<1>3. CASE prewarm \/ BuilderDone \/ CloseBegins
  <2>1. ready' = ready /\ built' = built
    BY <1>3 DEF prewarm, BuilderDone, CloseBegins
  <2> QED BY <2>1
<1> QED BY <1>1, <1>2, <1>3

----------------------------------------------------------------------------
(* Indexes are numbered as they are built.                                 *)
Known ==
  /\ \A i \in ToSet(ready) : i \in 1..built
  /\ \A c \in Clients : calls[c].own \in 0..built /\ calls[c].model \in 0..built
  /\ \A k \in DOMAIN items : items[k] \in 1..built

(* A call has an index exactly while it fills it, and a parse knows where   *)
(* the model goes.                                                         *)
Sensible(r) ==
  /\ r.own # None <=> r.at = "owning"
  /\ r.op = "parse" /\ r.at # "reading" => r.key \in Keys
  /\ r.at \in {"missed", "building", "owning"} => r.op \in {"parse", "edit"}

CallsMakeSense == \A c \in Clients : Sensible(calls[c])

(* IndexHasOneOwner, element by element. *)
Owners ==
  /\ IsInjective(ready) /\ IsInjective(items)
  /\ \A c, d \in Clients : calls[c].own = calls[d].own => c = d \/ calls[c].own = None
  /\ \A c \in Clients :
       /\ calls[c].model \notin ToSet(ready)
       /\ calls[c].own \notin ToSet(ready)
       /\ \A d \in Clients : calls[c].model = calls[d].own => calls[d].own = None
  /\ \A k \in DOMAIN items :
       /\ items[k] \notin ToSet(ready)
       /\ \A c \in Clients : items[k] # calls[c].own

(* Owners says what IndexHasOneOwner says.                                  *)
LEMMA OwnersAreOwners ==
  ASSUME Known, Owners PROVE IndexHasOneOwner
<1>1. \A c \in Clients : calls[c].model \notin ToSet(ready) \cup Owned
  BY DEF Owners, Owned
<1>2. Owned \cap ToSet(ready) = {}
  BY DEF Owners, Owned
<1>3. Cached \cap (ToSet(ready) \cup Owned) = {}
  BY DEF Owners, Owned, Cached
<1> QED BY <1>1, <1>2, <1>3 DEF Owners, IndexHasOneOwner

(* Builders and close hand nothing to anybody.                              *)
LEMMA BackgroundKeepsOwners ==
  ASSUME PoolInv, Known, Owners, Background PROVE Known' /\ Owners'
<1>1. built \in Nat /\ built + 1 \notin ToSet(ready)
  BY DEF PoolInv, PoolTypeOK, Known
<1>2. /\ IsInjective(ready')
      /\ \/ ToSet(ready') \subseteq ToSet(ready) /\ built' \in {built, built + 1}
         \/ ToSet(ready') = ToSet(ready) \cup {built + 1} /\ built' = built + 1
  BY <1>1, ReadyStep DEF Background, Owners
<1>3. calls' = calls /\ items' = items
  BY DEF Background, cache
<1>4. ToSet(ready)' = ToSet(ready')
  BY DEF ToSet
<1>5. Known'
  BY <1>1, <1>2, <1>3, <1>4 DEF Known
<1>6. Owners'
  BY <1>1, <1>2, <1>3, <1>4 DEF Known, Owners
<1> QED BY <1>5, <1>6

(* A call takes index i, which nobody else can reach.                       *)
LEMMA TakingKeepsOwners ==
  ASSUME Known, Owners, calls \in [Clients -> Call], built \in Nat,
         NEW c \in Clients, NEW i \in 1..built', built' \in {built, built + 1},
         \A d \in Clients : calls[d].own # i /\ calls[d].model # i,
         \A k \in DOMAIN items : items[k] # i,
         IsInjective(ready'), ToSet(ready') \subseteq ToSet(ready) \ {i},
         items' = items,
         calls' = [calls EXCEPT ![c].at = "owning", ![c].own = i]
  PROVE  Known' /\ Owners'
<1>1. ToSet(ready)' = ToSet(ready')
  BY DEF ToSet
<1>2. \A d \in Clients :
        /\ calls'[d].model = calls[d].model
        /\ calls'[d].own = IF d = c THEN i ELSE calls[d].own
  BY DEF Call
<1> HIDE DEF Call
<1>3. Known'
  BY <1>1, <1>2 DEF Known
<1>4. Owners'
  BY <1>1, <1>2 DEF Known, Owners, None
<1> QED BY <1>3, <1>4

(* A call goes on, perhaps letting an index go, perhaps reading a model     *)
(* from the cache.                                                         *)
LEMMA GoingOnKeepsOwners ==
  ASSUME Known, Owners, built \in Nat, calls \in [Clients -> Call],
         NEW c \in Clients, NEW r \in Call,
         r.own \in {None, calls[c].own},
         r.model \in {None, calls[c].model} \cup Cached,
         ready' = ready, built' = built, items' = items,
         calls' = [calls EXCEPT ![c] = r]
  PROVE  Known' /\ Owners'
<1>1. \A d \in Clients : calls'[d] = IF d = c THEN r ELSE calls[d]
  OBVIOUS
<1>2. r.model # None /\ r.model # calls[c].model =>
        \E k \in DOMAIN items : r.model = items[k]
  BY DEF Cached
<1>3. ToSet(ready)' = ToSet(ready) /\ None \notin ToSet(ready)
  BY DEF ToSet, Known, None
<1>4. Known'
  BY <1>1, <1>2, <1>3 DEF Known, None
<1>5. \A d \in Clients : calls'[d].own = calls[d].own \/ calls'[d].own = None
  BY <1>1
<1>6. \A d \in Clients : calls[d].own = None \/ calls[d].own \in 1..built
  BY DEF Known, None
<1>7. \A d, e \in Clients :
        calls'[d].model = calls'[e].own => calls'[e].own = None
  <2> SUFFICES ASSUME NEW d \in Clients, NEW e \in Clients,
                      calls'[d].model = calls'[e].own, calls'[e].own # None
               PROVE  FALSE
    OBVIOUS
  <2>1. calls'[e].own = calls[e].own
    BY <1>5
  <2>2. calls'[d].model # calls[d].model
    BY <2>1 DEF Owners
  <2>3. d = c /\ calls'[d].model = r.model
    BY <1>1, <2>2
  <2>4. PICK k \in DOMAIN items : r.model = items[k]
    BY <1>2, <2>2, <2>3
  <2> QED BY <2>1, <2>3, <2>4 DEF Owners
<1>8. \A d \in Clients :
        calls'[d].model \notin ToSet(ready) /\ calls'[d].own \notin ToSet(ready)
  BY <1>1, <1>2, <1>3, <1>5 DEF Owners
<1>9. \A k \in DOMAIN items : \A d \in Clients : items[k] # calls'[d].own
  <2>1. \A k \in DOMAIN items : items[k] # None
    BY DEF Known, None
  <2> QED BY <1>5, <2>1 DEF Owners
<1>10. \A d, e \in Clients : calls'[d].own = calls'[e].own => d = e \/ calls'[d].own = None
  BY <1>5 DEF Owners
<1>11. Owners'
  BY <1>3, <1>7, <1>8, <1>9, <1>10 DEF Owners
<1> QED BY <1>4, <1>11

(* The model of key k becomes the one call c filled: what the cache holds   *)
(* is that index and some of what it held.                                 *)
LEMMA CachingKeepsOwners ==
  ASSUME Known, Owners, built \in Nat, calls \in [Clients -> Call],
         NEW c \in Clients, NEW k, calls[c].own # None,
         k \in DOMAIN items', items'[k] = calls[c].own,
         \A l \in DOMAIN items' : l # k => l \in DOMAIN items /\ items'[l] = items[l],
         ready' = ready, built' = built,
         \A d \in Clients : d # c => calls'[d] = calls[d],
         calls'[c].own = None, calls'[c].model = calls[c].own
  PROVE  Known' /\ Owners'
<1>1. ToSet(ready)' = ToSet(ready) /\ None \notin ToSet(ready)
  BY DEF ToSet, Known, None
<1>2. \A d \in Clients : calls[d].own \in 0..built /\ calls[d].model \in 0..built
  BY DEF Known
<1>3. \A l \in DOMAIN items' :
        \/ items'[l] = calls[c].own
        \/ l \in DOMAIN items /\ items'[l] = items[l]
  OBVIOUS
<1>4. Known'
  BY <1>1, <1>2, <1>3 DEF Known, None
<1>5. IsInjective(items')
  BY <1>3 DEF IsInjective, Owners
<1>6. \A l \in DOMAIN items' :
        items'[l] \notin ToSet(ready) /\ \A d \in Clients : items'[l] # calls'[d].own
  <2> TAKE l \in DOMAIN items'
  <2>1. CASE items'[l] = calls[c].own
    BY <2>1 DEF Owners
  <2>2. CASE l \in DOMAIN items /\ items'[l] = items[l]
    <3>1. items[l] # None
      BY <2>2 DEF Known, None
    <3> QED BY <2>2, <3>1 DEF Owners
  <2> QED BY <1>3, <2>1, <2>2
<1>7. \A d, e \in Clients : calls'[d].own = calls'[e].own => d = e \/ calls'[d].own = None
  BY DEF Owners
<1>8. \A d \in Clients :
       /\ calls'[d].model \notin ToSet(ready)
       /\ calls'[d].own \notin ToSet(ready)
       /\ \A e \in Clients : calls'[d].model = calls'[e].own => calls'[e].own = None
  BY <1>1 DEF Owners
<1> QED BY <1>1, <1>4, <1>5, <1>6, <1>7, <1>8 DEF Owners

----------------------------------------------------------------------------
(* An entry put at the front of a list.                                    *)
LEMMA PushProperties ==
  ASSUME NEW S, NEW s \in Seq(S), NEW k \in S
  PROVE  /\ <<k>> \o s \in Seq(S)
         /\ Len(<<k>> \o s) = Len(s) + 1
         /\ (<<k>> \o s)[1] = k
         /\ \A j \in 2..(Len(s) + 1) : (<<k>> \o s)[j] = s[j - 1]
<1>1. <<k>> \in Seq(S) /\ Len(<<k>>) = 1 /\ <<k>>[1] = k
  OBVIOUS
<1>2. Len(s) \in Nat
  BY LenProperties
<1> DEFINE f == <<k>>
           u == f \o s
<1>3. f \in Seq(S) /\ Len(f) = 1 /\ f[1] = k
  BY <1>1
<1> HIDE DEF f
<1>4. /\ u \in Seq(S) /\ Len(u) = Len(f) + Len(s)
      /\ \A i \in 1..(Len(f) + Len(s)) :
           u[i] = IF i <= Len(f) THEN f[i] ELSE s[i - Len(f)]
  BY <1>3, ConcatProperties, Zenon
<1> HIDE DEF u
<1>5. /\ u \in Seq(S) /\ Len(u) = Len(s) + 1 /\ u[1] = k
      /\ \A j \in 2..(Len(s) + 1) : u[j] = s[j - 1]
  BY <1>2, <1>3, <1>4
<1> QED BY <1>5 DEF u, f

(* What Used returns: k first, the entries before k's old place moved down  *)
(* by one, the others where they were.                                     *)
LEMMA UsedProperties ==
  ASSUME NEW S, NEW s \in Seq(S), NEW k \in S, IsInjective(s)
  PROVE  \E at \in 1..(Len(s) + 1) :
           /\ IF k \in ToSet(s) THEN at <= Len(s) /\ s[at] = k ELSE at = Len(s) + 1
           /\ Used(k, s) \in Seq(S)
           /\ Len(Used(k, s)) = IF k \in ToSet(s) THEN Len(s) ELSE Len(s) + 1
           /\ Used(k, s)[1] = k
           /\ \A j \in 2..Len(Used(k, s)) :
                Used(k, s)[j] = s[IF j <= at THEN j - 1 ELSE j]
<1>0. Len(s) \in Nat /\ DOMAIN s = 1..Len(s)
  BY LenProperties
<1>1. CASE k \in ToSet(s)
  <2> DEFINE at == CHOOSE i \in DOMAIN s : s[i] = k
             r == RemoveAt(s, at)
             u == <<k>> \o r
  <2>1. \E i \in DOMAIN s : s[i] = k
    BY <1>1 DEF ToSet
  <2>2. at \in 1..Len(s) /\ s[at] = k
    BY <1>0, <2>1
  <2>3. Used(k, s) = u
    BY <1>1 DEF Used
  <2> HIDE DEF at
  <2>4. /\ r \in Seq(S) /\ Len(r) = Len(s) - 1
        /\ \A j \in 1..(Len(s) - 1) : r[j] = s[IF j < at THEN j ELSE j + 1]
    BY <2>2, RemoveAtProperties
  <2> HIDE DEF r
  <2>5. /\ u \in Seq(S) /\ Len(u) = Len(r) + 1 /\ u[1] = k
        /\ \A j \in 2..(Len(r) + 1) : u[j] = r[j - 1]
    BY <2>4, PushProperties
  <2> HIDE DEF u
  <2>6. Len(u) = Len(s)
    BY <1>0, <2>4, <2>5
  <2>7. \A j \in 2..Len(u) : u[j] = s[IF j <= at THEN j - 1 ELSE j]
    <3> TAKE j \in 2..Len(u)
    <3>1. j - 1 \in 1..(Len(s) - 1) /\ u[j] = r[j - 1]
      BY <1>0, <2>4, <2>5, <2>6
    <3>2. r[j - 1] = s[IF j - 1 < at THEN j - 1 ELSE j - 1 + 1]
      BY <2>4, <3>1
    <3>3. CASE j <= at
      BY <1>0, <2>2, <3>1, <3>2, <3>3
    <3>4. CASE ~(j <= at)
      <4>1. ~(j - 1 < at) /\ j - 1 + 1 = j
        BY <1>0, <2>2, <3>4
      <4> QED BY <3>1, <3>2, <3>4, <4>1
    <3> QED BY <3>3, <3>4
  <2>8. at \in 1..(Len(s) + 1) /\ at <= Len(s)
    BY <1>0, <2>2
  <2>9. /\ Used(k, s) \in Seq(S) /\ Len(Used(k, s)) = Len(s) /\ Used(k, s)[1] = k
        /\ \A j \in 2..Len(Used(k, s)) : Used(k, s)[j] = s[IF j <= at THEN j - 1 ELSE j]
    BY <2>3, <2>5, <2>6, <2>7
  <2> USE <2>8
  <2> WITNESS at \in 1..(Len(s) + 1)
  <2> QED BY <1>1, <2>2, <2>9
<1>2. CASE k \notin ToSet(s)
  <2>1. Used(k, s) = <<k>> \o s
    BY <1>2 DEF Used
  <2> DEFINE u == <<k>> \o s
  <2>2. /\ u \in Seq(S) /\ Len(u) = Len(s) + 1 /\ u[1] = k
        /\ \A j \in 2..(Len(s) + 1) : u[j] = s[j - 1]
    BY PushProperties
  <2> HIDE DEF u
  <2>3. \A j \in 2..Len(u) : u[j] = s[IF j <= Len(s) + 1 THEN j - 1 ELSE j]
    BY <1>0, <2>2
  <2>4. Used(k, s) = u
    BY <2>1 DEF u
  <2> WITNESS Len(s) + 1 \in 1..(Len(s) + 1)
  <2> QED BY <1>0, <1>2, <2>2, <2>3, <2>4
<1> QED BY <1>1, <1>2

(* Used adds k, once.                                                       *)
LEMMA UsedSet ==
  ASSUME NEW S, NEW s \in Seq(S), NEW k \in S, IsInjective(s)
  PROVE  IsInjective(Used(k, s)) /\ ToSet(Used(k, s)) = ToSet(s) \cup {k}
<1> DEFINE u == Used(k, s)
<1>0. Len(s) \in Nat /\ DOMAIN s = 1..Len(s)
  BY LenProperties
<1>1. PICK at \in 1..(Len(s) + 1) :
        /\ IF k \in ToSet(s) THEN at <= Len(s) /\ s[at] = k ELSE at = Len(s) + 1
        /\ u \in Seq(S)
        /\ Len(u) = IF k \in ToSet(s) THEN Len(s) ELSE Len(s) + 1
        /\ u[1] = k
        /\ \A j \in 2..Len(u) : u[j] = s[IF j <= at THEN j - 1 ELSE j]
  BY UsedProperties
<1> HIDE DEF u
<1>2. DOMAIN u = 1..Len(u) /\ Len(u) \in Nat
  BY <1>1, LenProperties
<1> DEFINE old(j) == IF j <= at THEN j - 1 ELSE j
<1>3. \A j \in 2..Len(u) : old(j) \in 1..Len(s) /\ u[j] = s[old(j)] /\ s[old(j)] # k
  <2> TAKE j \in 2..Len(u)
  <2>1. old(j) \in 1..Len(s) /\ old(j) # at
    BY <1>0, <1>1, <1>2
  <2>2. CASE k \in ToSet(s)
    <3>1. at \in 1..Len(s) /\ s[at] = k
      BY <1>0, <1>1, <2>2
    <3> QED BY <1>0, <1>1, <2>1, <3>1 DEF IsInjective
  <2>3. CASE k \notin ToSet(s)
    <3>1. s[old(j)] \in ToSet(s)
      BY <1>0, <2>1 DEF ToSet
    <3> QED BY <1>1, <2>1, <2>3, <3>1
  <2> QED BY <2>2, <2>3
<1>4. \A i, j \in 2..Len(u) : old(i) = old(j) => i = j
  BY <1>0, <1>1, <1>2
<1>5. IsInjective(u)
  <2> SUFFICES ASSUME NEW i \in 1..Len(u), NEW j \in 1..Len(u), u[i] = u[j]
               PROVE  i = j
    BY <1>2 DEF IsInjective
  <2> HIDE DEF old
  <2>1. CASE i = 1 \/ j = 1
    BY <1>1, <1>2, <1>3, <2>1
  <2>2. CASE i # 1 /\ j # 1
    <3>1. i \in 2..Len(u) /\ j \in 2..Len(u)
      BY <1>2, <2>2
    <3> QED BY <1>0, <1>3, <1>4, <3>1 DEF IsInjective
  <2> QED BY <2>1, <2>2
<1>6. ASSUME NEW x \in ToSet(u) PROVE x \in ToSet(s) \cup {k}
  <2>1. PICK j \in 1..Len(u) : u[j] = x
    BY <1>2 DEF ToSet
  <2>2. CASE j = 1
    BY <1>1, <2>1, <2>2
  <2>3. CASE j # 1
    <3>1. j \in 2..Len(u)
      BY <1>2, <2>3
    <3> QED BY <1>0, <1>3, <2>1, <3>1 DEF ToSet
  <2> QED BY <2>2, <2>3
<1>7. ASSUME NEW x \in ToSet(s) \cup {k} PROVE x \in ToSet(u)
  <2>1. CASE x = k
    <3>1. 1 \in 1..Len(u)
      BY <1>0, <1>1, <1>2
    <3> QED BY <1>1, <1>2, <2>1, <3>1 DEF ToSet
  <2>2. CASE x # k
    <3>1. PICK i \in 1..Len(s) : s[i] = x
      BY <1>0, <2>2 DEF ToSet
    <3>2. i # at
      BY <1>0, <1>1, <2>2, <3>1
    <3>3. CASE i < at
      <4>1. i + 1 \in 2..Len(u) /\ old(i + 1) = i
        BY <1>0, <1>1, <1>2, <3>1, <3>3
      <4> QED BY <1>2, <1>3, <3>1, <4>1 DEF ToSet
    <3>4. CASE i > at
      <4>1. i \in 2..Len(u) /\ old(i) = i
        BY <1>0, <1>1, <1>2, <3>1, <3>4
      <4> QED BY <1>2, <1>3, <3>1, <4>1 DEF ToSet
    <3> QED BY <1>0, <3>2, <3>3, <3>4
  <2> QED BY <2>1, <2>2
<1>8. ToSet(u) = ToSet(s) \cup {k}
  BY <1>6, <1>7
<1> QED BY <1>5, <1>8 DEF u

----------------------------------------------------------------------------
(* KeepsTheLastUsed, entry by entry.                                       *)
CacheInv ==
  /\ lruList \in Seq(Keys) /\ uses \in Seq(Keys)
  /\ IsInjective(uses)
  /\ Len(lruList) = IF Len(uses) < CacheSize THEN Len(uses) ELSE CacheSize
  /\ \A j \in 1..Len(lruList) : lruList[j] = uses[j]
  /\ DOMAIN items = ToSet(lruList)

(* CacheInv says what KeepsTheLastUsed says.                                *)
LEMMA CacheInvKeepsTheLastUsed ==
  ASSUME CacheInv PROVE KeepsTheLastUsed
<1> USE CacheAssumption
<1> DEFINE n == IF Len(uses) < CacheSize THEN Len(uses) ELSE CacheSize
           p == SubSeq(uses, 1, n)
<1>1. Len(uses) \in Nat
  BY LenProperties DEF CacheInv
<1>2. n \in Nat /\ n <= Len(uses)
  BY <1>1
<1>3. \A j \in 1..n : uses[j] \in Keys
  BY <1>1, <1>2, ElementOfSeq DEF CacheInv
<1>4. Len(lruList) = n
  BY DEF CacheInv
<1> HIDE DEF n
<1>5. /\ p \in Seq(Keys) /\ Len(p) = IF 1 <= n THEN n - 1 + 1 ELSE 0
      /\ \A j \in 1..(n - 1 + 1) : p[j] = uses[1 + j - 1]
  BY <1>2, <1>3, SubSeqProperties
<1> HIDE DEF p
<1>6. Len(p) = n
  BY <1>2, <1>5
<1>7. n - 1 + 1 = n /\ \A j \in 1..n : 1 + j - 1 = j
  BY <1>2
<1>8. \A j \in 1..n : p[j] = uses[j]
  BY <1>5, <1>7
<1>9. lruList = p
  BY <1>4, <1>5, <1>6, <1>8, SeqEqual DEF CacheInv
<1> QED BY <1>9 DEF KeepsTheLastUsed, CacheInv, p, n

(* The list holds a key once, and is no longer than the history.            *)
LEMMA ListedOnce ==
  ASSUME CacheInv PROVE IsInjective(lruList) /\ Len(lruList) <= Len(uses)
                        /\ Len(lruList) \in Nat /\ Len(uses) \in Nat
                        /\ DOMAIN lruList = 1..Len(lruList) /\ DOMAIN uses = 1..Len(uses)
<1>1. /\ Len(lruList) \in Nat /\ Len(uses) \in Nat
      /\ DOMAIN lruList = 1..Len(lruList) /\ DOMAIN uses = 1..Len(uses)
  BY LenProperties DEF CacheInv
<1>2. Len(lruList) <= Len(uses)
  BY <1>1, CacheAssumption DEF CacheInv
<1> QED BY <1>1, <1>2 DEF CacheInv, IsInjective

(* A key that is there is used: list and history move it alike.             *)
LEMMA HitKeepsCacheInv ==
  ASSUME CacheInv, NEW k \in Keys, Has(k),
         lruList' = MoveToFront(k), uses' = Used(k, uses), DOMAIN items' = DOMAIN items
  PROVE  CacheInv'
<1> DEFINE l == Used(k, lruList)
           u == Used(k, uses)
<1>0. /\ IsInjective(lruList) /\ Len(lruList) <= Len(uses)
      /\ Len(lruList) \in Nat /\ Len(uses) \in Nat
      /\ DOMAIN lruList = 1..Len(lruList) /\ DOMAIN uses = 1..Len(uses)
  BY ListedOnce
<1>1. k \in ToSet(lruList)
  BY DEF CacheInv, Has
<1>2. k \in ToSet(uses)
  BY <1>0, <1>1 DEF CacheInv, ToSet
<1>3. lruList' = l /\ uses' = u
  BY <1>1 DEF MoveToFront
<1>4. PICK i \in 1..(Len(lruList) + 1) :
        /\ i <= Len(lruList) /\ lruList[i] = k
        /\ l \in Seq(Keys) /\ Len(l) = Len(lruList) /\ l[1] = k
        /\ \A j \in 2..Len(l) : l[j] = lruList[IF j <= i THEN j - 1 ELSE j]
  BY <1>0, <1>1, UsedProperties DEF CacheInv
<1>5. PICK h \in 1..(Len(uses) + 1) :
        /\ h <= Len(uses) /\ uses[h] = k
        /\ u \in Seq(Keys) /\ Len(u) = Len(uses) /\ u[1] = k
        /\ \A j \in 2..Len(u) : u[j] = uses[IF j <= h THEN j - 1 ELSE j]
  BY <1>2, UsedProperties DEF CacheInv
<1>6. IsInjective(u) /\ ToSet(l) = ToSet(lruList) \cup {k}
  BY <1>0, UsedSet DEF CacheInv
<1> HIDE DEF l, u
<1>7. h = i
  <2> DEFINE n == Len(lruList)
             v == Len(uses)
  <2>0. n \in Nat /\ v \in Nat /\ n <= v /\ i <= n /\ h <= v
    BY <1>0, <1>4, <1>5
  <2>1. i \in 1..n /\ i \in 1..v /\ h \in 1..v
    <3> HIDE DEF n, v
    <3> QED BY <2>0
  <2>2. lruList[i] = uses[i]
    BY <2>1 DEF CacheInv
  <2>3. uses[i] = uses[h]
    BY <1>4, <1>5, <2>2
  <2>4. IsInjective(uses)
    BY DEF CacheInv
  <2> QED BY <1>0, <2>1, <2>3, <2>4 DEF IsInjective
<1>8. \A j \in 1..Len(l) : l[j] = u[j]
  <2> TAKE j \in 1..Len(l)
  <2>1. CASE j = 1
    BY <1>4, <1>5, <2>1
  <2>2. CASE j # 1
    <3> DEFINE o == IF j <= i THEN j - 1 ELSE j
    <3>1. j \in 2..Len(l) /\ j \in 2..Len(u) /\ o \in 1..Len(lruList)
      BY <1>0, <1>4, <1>5, <2>2
    <3>2. l[j] = lruList[o] /\ u[j] = uses[o]
      BY <1>4, <1>5, <1>7, <3>1
    <3> QED BY <3>1, <3>2 DEF CacheInv
  <2> QED BY <2>1, <2>2
<1>9. ToSet(l) = DOMAIN items'
  BY <1>1, <1>6 DEF CacheInv
<1>10. ToSet(lruList)' = ToSet(l)
  BY <1>3 DEF ToSet
<1> QED BY <1>3, <1>4, <1>5, <1>6, <1>8, <1>9, <1>10 DEF CacheInv

(* A key that is not there is put, and the one unused for longest evicted.  *)
LEMMA PutNewKeepsCacheInv ==
  ASSUME CacheInv, NEW k \in Keys, NEW m, PutNew(k, m)
  PROVE  CacheInv'
<1> USE CacheAssumption
<1>0. /\ IsInjective(lruList) /\ Len(lruList) <= Len(uses)
      /\ Len(lruList) \in Nat /\ Len(uses) \in Nat
      /\ DOMAIN lruList = 1..Len(lruList) /\ DOMAIN uses = 1..Len(uses)
  BY ListedOnce
<1>1. /\ Full => Len(lruList) = CacheSize
      /\ ~Full => Len(lruList) = Len(uses) /\ Len(uses) < CacheSize
  <2> DEFINE n == Len(lruList)
             v == Len(uses)
  <2>1. n \in Nat /\ v \in Nat
    BY <1>0
  <2>2. n = IF v < CacheSize THEN v ELSE CacheSize
    BY DEF CacheInv
  <2>3. Full <=> n >= CacheSize
    BY DEF Full
  <2> HIDE DEF n, v
  <2>4. /\ Full => n = CacheSize
        /\ ~Full => n = v /\ v < CacheSize
    BY <2>1, <2>2, <2>3
  <2> QED BY <2>4 DEF n, v
<1> DEFINE b == IF Full THEN Front(lruList) ELSE lruList
           l == <<k>> \o b
           u == Used(k, uses)
<1>2. k \notin ToSet(lruList)
  BY DEF PutNew, Has, CacheInv
<1>3. lruList' = l /\ uses' = u /\ DOMAIN items' = (DOMAIN items \ Evicted) \cup {k}
  BY DEF PutNew
<1>4. /\ b \in Seq(Keys) /\ Len(b) \in Nat
      /\ Len(b) = IF Full THEN CacheSize - 1 ELSE Len(lruList)
      /\ Len(b) <= Len(lruList)
      /\ \A j \in 1..Len(b) : b[j] = lruList[j]
      /\ ToSet(b) = ToSet(lruList) \ Evicted
  <2>1. CASE Full
    <3>1. lruList # <<>>
      <4>1. Len(<<>>) = 0
        BY EmptySeq
      <4>2. Len(lruList) # 0
        BY <1>0, <2>1 DEF Full
      <4> QED BY <4>1, <4>2
    <3>2. Len(lruList) = CacheSize
      BY <1>1, <2>1
    <3>3. /\ Front(lruList) \in Seq(Keys) /\ Len(Front(lruList)) = Len(lruList) - 1
          /\ \A j \in 1..(Len(lruList) - 1) : Front(lruList)[j] = lruList[j]
      BY <3>1, FrontProperties DEF CacheInv
    <3>4. ToSet(Front(lruList)) = ToSet(lruList) \ {Last(lruList)}
      BY <1>0, <3>1, FrontSet DEF CacheInv
    <3> QED BY <1>0, <2>1, <3>2, <3>3, <3>4 DEF Evicted
  <2>2. CASE ~Full
    BY <1>0, <2>2 DEF Evicted, CacheInv
  <2> QED BY <2>1, <2>2
<1> HIDE DEF b
<1>5. /\ l \in Seq(Keys) /\ Len(l) = Len(b) + 1 /\ l[1] = k
      /\ \A j \in 2..(Len(b) + 1) : l[j] = b[j - 1]
  BY <1>4, PushProperties
<1>6. PICK h \in 1..(Len(uses) + 1) :
        /\ IF k \in ToSet(uses) THEN h <= Len(uses) /\ uses[h] = k ELSE h = Len(uses) + 1
        /\ u \in Seq(Keys)
        /\ Len(u) = IF k \in ToSet(uses) THEN Len(uses) ELSE Len(uses) + 1
        /\ u[1] = k
        /\ \A j \in 2..Len(u) : u[j] = uses[IF j <= h THEN j - 1 ELSE j]
  BY UsedProperties DEF CacheInv
<1>7. IsInjective(u)
  BY UsedSet DEF CacheInv
<1> HIDE DEF l, u
<1>8. h > Len(lruList)
  <2>1. CASE k \in ToSet(uses)
    <3>1. h \in 1..Len(uses) /\ uses[h] = k
      BY <1>0, <1>6, <2>1
    <3>2. \A j \in 1..Len(lruList) : uses[j] # k
      BY <1>0, <1>2 DEF CacheInv, ToSet
    <3> QED BY <1>0, <3>1, <3>2
  <2>2. CASE k \notin ToSet(uses)
    BY <1>0, <1>6, <2>2
  <2> QED BY <2>1, <2>2
<1>9. Len(l) = IF Len(u) < CacheSize THEN Len(u) ELSE CacheSize
  <2>1. CASE Full
    <3>1. Len(lruList) = CacheSize /\ Len(uses) >= CacheSize
      BY <1>0, <1>1, <2>1
    <3>2. Len(l) = CacheSize
      BY <1>4, <1>5, <2>1
    <3>3. Len(u) = Len(uses) \/ Len(u) = Len(uses) + 1
      BY <1>6
    <3>4. ~(Len(u) < CacheSize)
      BY <1>0, <3>1, <3>3
    <3> QED BY <3>2, <3>4
  <2>2. CASE ~Full
    <3>1. Len(lruList) = Len(uses) /\ Len(uses) < CacheSize
      BY <1>1, <2>2
    <3>2. k \notin ToSet(uses)
      BY <1>0, <1>6, <1>8, <3>1
    <3> QED BY <1>0, <1>4, <1>5, <1>6, <2>2, <3>1, <3>2
  <2> QED BY <2>1, <2>2
<1>10. Len(l) \in Nat /\ Len(u) \in Nat /\ Len(l) <= Len(u)
  BY <1>0, <1>4, <1>5, <1>6, <1>9
<1>11. \A j \in 1..Len(l) : l[j] = u[j]
  <2> TAKE j \in 1..Len(l)
  <2>1. CASE j = 1
    BY <1>5, <1>6, <2>1
  <2>2. CASE j # 1
    <3>1. /\ j \in 2..(Len(b) + 1) /\ j \in 2..Len(u) /\ j <= h
          /\ j - 1 \in 1..Len(b) /\ j - 1 \in 1..Len(lruList)
      BY <1>0, <1>4, <1>5, <1>8, <1>10, <2>2
    <3>2. l[j] = lruList[j - 1] /\ u[j] = uses[j - 1]
      BY <1>4, <1>5, <1>6, <3>1
    <3> QED BY <3>1, <3>2 DEF CacheInv
  <2> QED BY <2>1, <2>2
<1>12. ToSet(l) = ToSet(b) \cup {k}
  <2>1. DOMAIN l = 1..(Len(b) + 1) /\ DOMAIN b = 1..Len(b)
    BY <1>4, <1>5, LenProperties
  <2>2. \A x \in ToSet(b) : x \in ToSet(l)
    <3> SUFFICES ASSUME NEW i \in 1..Len(b) PROVE b[i] \in ToSet(l)
      BY <2>1 DEF ToSet
    <3>1. i + 1 \in 2..(Len(b) + 1) /\ i + 1 - 1 = i /\ i + 1 \in DOMAIN l
      BY <1>4, <2>1
    <3>2. l[i + 1] = b[i]
      BY <1>5, <3>1
    <3> QED BY <3>1, <3>2 DEF ToSet
  <2>3. k \in ToSet(l)
    <3>1. 1 \in DOMAIN l
      BY <1>4, <2>1
    <3> QED BY <1>5, <3>1 DEF ToSet
  <2>4. \A x \in ToSet(l) : x \in ToSet(b) \cup {k}
    <3> SUFFICES ASSUME NEW j \in 1..(Len(b) + 1) PROVE l[j] \in ToSet(b) \cup {k}
      BY <2>1 DEF ToSet
    <3>1. CASE j = 1
      BY <1>5, <3>1
    <3>2. CASE j # 1
      <4>1. j \in 2..(Len(b) + 1) /\ j - 1 \in DOMAIN b
        BY <1>4, <2>1, <3>2
      <4> QED BY <1>5, <4>1 DEF ToSet
    <3> QED BY <3>1, <3>2
  <2> QED BY <2>2, <2>3, <2>4
<1>13. DOMAIN items' = ToSet(l)
  BY <1>3, <1>4, <1>12 DEF CacheInv
<1>14. ToSet(lruList)' = ToSet(l)
  BY <1>3 DEF ToSet
<1> QED BY <1>3, <1>5, <1>6, <1>7, <1>9, <1>11, <1>13, <1>14 DEF CacheInv

----------------------------------------------------------------------------
(* The invariant of the service, and that every step keeps it.             *)
CallsInv ==
  /\ calls \in [Clients -> Call]
  /\ CallsMakeSense /\ Known /\ Owners

ItemsTyped == DOMAIN items \subseteq Keys /\ items \in [DOMAIN items -> Nat]

Inv == PoolInv /\ CallsInv /\ CacheInv /\ ItemsTyped

(* NewService establishes the invariant.                                    *)
LEMMA InitInv ==
  ASSUME Init PROVE Inv
<1> USE PoolAssumption, CacheAssumption DEF Init, PoolInit, CacheInit
<1>1. <<>> \in Seq(Nat) /\ <<>> \in Seq(Keys) /\ Len(<<>>) = 0 /\ DOMAIN <<>> = {}
  BY EmptySeq, LenProperties
<1>2. ToSet(<<>>) = {} /\ IsInjective(<<>>)
  BY <1>1 DEF ToSet, IsInjective
<1>3. PoolTypeOK
  BY <1>1 DEF PoolTypeOK, PoolStats
<1>4. PoolInv
  BY <1>1, <1>3 DEF PoolInv, OneBuildAtATime, RefillUnderWay, BuildHasRoom,
     ClosingIsClosed, ClosedHoldsNothing
<1>5. \A c \in Clients : calls[c] = Idle
  OBVIOUS
<1>6. Idle \in Call
  BY DEF Idle, Call, None
<1>7. DOMAIN items = {} /\ items \in [DOMAIN items -> Nat]
  OBVIOUS
<1>8. ItemsTyped /\ calls \in [Clients -> Call]
  BY <1>6, <1>7 DEF ItemsTyped
<1>9. Known
  BY <1>2, <1>5, <1>7 DEF Known, Idle, None
<1>10. CallsMakeSense
  BY <1>5 DEF CallsMakeSense, Sensible, Idle, None
<1>11. IsInjective(items)
  BY <1>7 DEF IsInjective
<1>12. Owners
  BY <1>2, <1>5, <1>7, <1>11 DEF Owners, Idle, None
<1>13. CacheInv
  BY <1>1, <1>2, <1>7 DEF CacheInv
<1> QED BY <1>4, <1>8, <1>9, <1>10, <1>12, <1>13 DEF Inv, CallsInv

(* The invariant includes the types.                                        *)
LEMMA InvTypeOK ==
  ASSUME Inv PROVE TypeOK
BY DEF Inv, PoolInv, CallsInv, CacheInv, ItemsTyped, TypeOK

(* A step that changes one call's record to r.                             *)
LEMMA OneCall ==
  ASSUME Inv, NEW c \in Clients, NEW r \in Call, Sensible(r),
         calls' = [calls EXCEPT ![c] = r], Known', Owners'
  PROVE  CallsInv'
<1>1. \A d \in Clients : calls'[d] = IF d = c THEN r ELSE calls[d]
  BY DEF Inv, CallsInv
<1>2. calls' \in [Clients -> Call]
  BY DEF Inv, CallsInv
<1>3. \A d \in Clients : Sensible(calls'[d])
  BY <1>1 DEF Inv, CallsInv, CallsMakeSense
<1>4. CallsMakeSense'
  BY <1>3 DEF CallsMakeSense, Sensible
<1> QED BY <1>2, <1>4 DEF CallsInv

(* ... taking no index and leaving pool and items alone.                    *)
LEMMA OneCallGoesOn ==
  ASSUME Inv, NEW c \in Clients, NEW r \in Call, Sensible(r),
         r.own \in {None, calls[c].own},
         r.model \in {None, calls[c].model} \cup Cached,
         ready' = ready, built' = built, items' = items,
         calls' = [calls EXCEPT ![c] = r]
  PROVE  CallsInv'
<1>1. Known' /\ Owners'
  BY GoingOnKeepsOwners DEF Inv, CallsInv, PoolInv, PoolTypeOK
<1> QED BY <1>1, OneCall

(* What the invariant says of one call.                                     *)
LEMMA CallNow ==
  ASSUME Inv, NEW c \in Clients
  PROVE  /\ calls[c] \in Call /\ Sensible(calls[c])
         /\ calls \in [Clients -> Call]
         /\ calls[c].op \in {"none", "parse", "lookup", "edit"}
         /\ calls[c].key \in Keys \cup {NoKey}
         /\ calls[c].own \in Nat /\ calls[c].model \in Nat
BY DEF Inv, CallsInv, CallsMakeSense, Call

(* ParseFile misses.                                                        *)
LEMMA MissKeeps ==
  ASSUME Inv, NEW c \in Clients, NEW k \in Keys, Miss(c, k) PROVE CallsInv'
<1> DEFINE r == [op |-> "parse", at |-> "missed", key |-> k, own |-> None, model |-> None]
<1>1. r \in Call /\ Sensible(r) /\ r.own = None /\ r.model = None
  BY DEF Call, Sensible, None
<1>2. /\ calls' = [calls EXCEPT ![c] = r]
      /\ ready' = ready /\ built' = built /\ items' = items
  BY DEF Miss, GetMiss, pool, cache
<1> HIDE DEF r
<1> QED BY <1>1, <1>2, OneCallGoesOn

(* A handler finds its model.                                               *)
LEMMA HitKeeps ==
  ASSUME Inv, NEW c \in Clients, NEW op \in {"parse", "lookup", "edit"}, NEW k \in Keys,
         Hit(c, op, k)
  PROVE  CallsInv'
<1> DEFINE r == [op |-> op, at |-> "reading", key |-> NoKey, own |-> None,
                 model |-> items[k]]
<1>1. items[k] \in Nat /\ items[k] \in Cached
  BY DEF Inv, ItemsTyped, Hit, GetHit, Has, Cached
<1>2. r \in Call /\ Sensible(r) /\ r.own = None /\ r.model \in Cached
  BY <1>1 DEF Call, Sensible, None
<1>3. /\ calls' = [calls EXCEPT ![c] = r]
      /\ ready' = ready /\ built' = built /\ items' = items
  BY DEF Hit, GetHit, pool
<1> HIDE DEF r
<1> QED BY <1>2, <1>3, OneCallGoesOn

(* ApplyEdits wants an index.                                               *)
LEMMA ReparseKeeps ==
  ASSUME Inv, NEW c \in Clients, Reparse(c) PROVE CallsInv'
<1> DEFINE r == [calls[c] EXCEPT !.at = "missed"]
<1>1. r \in Call /\ Sensible(r) /\ r.own = calls[c].own /\ r.model = calls[c].model
  BY CallNow DEF Reparse, Call, Sensible
<1>2. /\ calls' = [calls EXCEPT ![c] = r]
      /\ ready' = ready /\ built' = built /\ items' = items
  BY DEF Reparse, Goes, pool, cache
<1> HIDE DEF r
<1> QED BY <1>1, <1>2, OneCallGoesOn

(* The pool is empty.                                                       *)
LEMMA TakeNoneKeeps ==
  ASSUME Inv, NEW c \in Clients, TakeNone(c) PROVE CallsInv'
<1> DEFINE r == [calls[c] EXCEPT !.at = "building"]
<1>1. r \in Call /\ Sensible(r) /\ r.own = calls[c].own /\ r.model = calls[c].model
  BY CallNow DEF TakeNone, Call, Sensible
<1>2. /\ calls' = [calls EXCEPT ![c] = r]
      /\ ready' = ready /\ built' = built /\ items' = items
  BY DEF TakeNone, Goes, GetNone, cache
<1> HIDE DEF r
<1> QED BY <1>1, <1>2, OneCallGoesOn

(* ApplyEdits lets its index go.                                            *)
LEMMA JudgedKeeps ==
  ASSUME Inv, NEW c \in Clients, Judged(c) PROVE CallsInv'
<1> DEFINE r == [calls[c] EXCEPT !.at = "reading", !.own = None]
<1>1. r \in Call /\ Sensible(r) /\ r.own = None /\ r.model = calls[c].model
  BY CallNow DEF Judged, Call, Sensible, None
<1>2. /\ calls' = [calls EXCEPT ![c] = r]
      /\ ready' = ready /\ built' = built /\ items' = items
  BY DEF Judged, pool, cache
<1> HIDE DEF r
<1> QED BY <1>1, <1>2, OneCallGoesOn

(* A call ends.                                                             *)
LEMMA RespondKeeps ==
  ASSUME Inv, NEW c \in Clients, Respond(c) PROVE CallsInv'
<1>1. Idle \in Call /\ Sensible(Idle) /\ Idle.own = None /\ Idle.model = None
  BY DEF Idle, Call, Sensible, None
<1>2. /\ calls' = [calls EXCEPT ![c] = Idle]
      /\ ready' = ready /\ built' = built /\ items' = items
  BY DEF Respond, pool, cache
<1> QED BY <1>1, <1>2, OneCallGoesOn

(* A call takes an index that was ready: it was the pool's alone.           *)
LEMMA TakeReadyKeeps ==
  ASSUME Inv, NEW c \in Clients, TakeReady(c) PROVE CallsInv'
<1>1. PICK i \in ToSet(ready) :
        GetPooled(i) /\ calls' = [calls EXCEPT ![c].at = "owning", ![c].own = i]
  BY DEF TakeReady
<1> DEFINE r == [calls[c] EXCEPT !.at = "owning", !.own = i]
<1>2. i \in 1..built /\ built \in Nat
  BY DEF Inv, CallsInv, Known, PoolInv, PoolTypeOK
<1>3. r \in Call /\ Sensible(r)
  <2>1. calls[c].at = "missed"
    BY DEF TakeReady
  <2>2. i \in Nat /\ i # 0
    BY <1>2
  <2> QED BY <2>1, <2>2, CallNow DEF Call, Sensible, None
<1>4. calls' = [calls EXCEPT ![c] = r]
  BY <1>1
<1>5. built' = built /\ items' = items
  BY <1>1 DEF TakeReady, GetPooled, cache
<1>6. IsInjective(ready') /\ ToSet(ready') \subseteq ToSet(ready) \ {i}
  BY <1>1, FrontSet DEF GetPooled, Inv, CallsInv, Owners, PoolInv, PoolTypeOK
<1>7. /\ \A d \in Clients : calls[d].own # i /\ calls[d].model # i
      /\ \A k \in DOMAIN items : items[k] # i
  BY DEF Inv, CallsInv, Owners
<1>8. Known' /\ Owners'
  BY <1>1, <1>2, <1>5, <1>6, <1>7, TakingKeepsOwners DEF Inv, CallsInv
<1> HIDE DEF r
<1> QED BY <1>3, <1>4, <1>8, OneCall

(* A call has built its own index: nobody has seen it.                      *)
LEMMA BuildKeeps ==
  ASSUME Inv, NEW c \in Clients, Build(c) PROVE CallsInv'
<1> DEFINE i == built + 1
           r == [calls[c] EXCEPT !.at = "owning", !.own = i]
<1>1. built \in Nat
  BY DEF Inv, PoolInv, PoolTypeOK
<1>2. /\ calls' = [calls EXCEPT ![c].at = "owning", ![c].own = i]
      /\ built' = built + 1 /\ ready' = ready /\ items' = items
  BY DEF Build, BuildInline, cache
<1>3. r \in Call /\ Sensible(r)
  BY <1>1, CallNow DEF Build, Call, Sensible, None
<1>4. calls' = [calls EXCEPT ![c] = r]
  BY <1>2
<1>5. /\ \A d \in Clients : calls[d].own # i /\ calls[d].model # i
      /\ \A k \in DOMAIN items : items[k] # i
      /\ i \notin ToSet(ready)
  BY <1>1 DEF Inv, CallsInv, Known
<1>6. i \in 1..built' /\ built' \in {built, built + 1}
  BY <1>1, <1>2
<1> HIDE DEF i, r
<1>7. Known' /\ Owners'
  <2>1. /\ Known /\ Owners /\ calls \in [Clients -> Call]
        /\ IsInjective(ready)
    BY DEF Inv, CallsInv, Owners
  <2>2. IsInjective(ready') /\ ToSet(ready') \subseteq ToSet(ready) \ {i}
    BY <1>2, <1>5, <2>1
  <2> QED BY <1>1, <1>2, <1>5, <1>6, <2>1, <2>2, TakingKeepsOwners
<1> QED BY <1>3, <1>4, <1>7, OneCall

(* The model goes into the cache, and its index with it.                    *)
LEMMA CacheModelKeeps ==
  ASSUME Inv, NEW c \in Clients, CacheModel(c) PROVE CallsInv' /\ ItemsTyped'
<1> DEFINE k == calls[c].key
           own == calls[c].own
           r == [calls[c] EXCEPT !.at = "reading", !.key = NoKey, !.model = own, !.own = None]
<1>1. own # None /\ own \in Nat /\ k \in Keys
  BY CallNow DEF CacheModel, Sensible
<1>2. r \in Call /\ Sensible(r)
  BY <1>1, CallNow DEF CacheModel, Call, Sensible, None
<1>3. calls' = [calls EXCEPT ![c] = r] /\ ready' = ready /\ built' = built
  BY DEF CacheModel, pool
<1>4. /\ \A d \in Clients : d # c => calls'[d] = calls[d]
      /\ calls'[c].own = None /\ calls'[c].model = own
  BY <1>3, CallNow DEF Call
<1>5. DOMAIN items \subseteq Keys /\ items \in [DOMAIN items -> Nat]
  BY DEF Inv, ItemsTyped
<1>6. Put(k, own)
  BY DEF CacheModel
<1> HIDE DEF k, own, r
<1>7. /\ k \in DOMAIN items' /\ items'[k] = own
      /\ \A l \in DOMAIN items' : l # k => l \in DOMAIN items /\ items'[l] = items[l]
      /\ items' \in [DOMAIN items' -> Nat]
  <2>1. CASE PutAgain(k, own)
    BY <1>1, <1>5, <2>1 DEF PutAgain, Has
  <2>2. CASE PutNew(k, own)
    BY <1>1, <1>5, <2>2 DEF PutNew, Has
  <2> QED BY <1>6, <2>1, <2>2 DEF Put
<1>8. Known' /\ Owners'
  <2>1. built \in Nat /\ Known /\ Owners /\ calls \in [Clients -> Call]
    BY DEF Inv, CallsInv, PoolInv, PoolTypeOK
  <2> QED BY <1>1, <1>3, <1>4, <1>7, <2>1, CachingKeepsOwners DEF own
<1>9. ItemsTyped'
  BY <1>1, <1>5, <1>7 DEF ItemsTyped
<1> QED BY <1>2, <1>3, <1>8, <1>9, OneCall

(* What a handler does, as the pool and the other calls see it.             *)
LEMMA ServeKeeps ==
  ASSUME Inv, NEW c \in Clients, Serve(c) PROVE CallsInv'
<1>1. CASE \E k \in Keys : Miss(c, k)
  BY <1>1, MissKeeps
<1>2. CASE \E k \in Keys : \E op \in {"parse", "lookup", "edit"} : Hit(c, op, k)
  BY <1>2, HitKeeps
<1>3. CASE Reparse(c) \/ TakeReady(c) \/ TakeNone(c) \/ Build(c)
  BY <1>3, ReparseKeeps, TakeReadyKeeps, TakeNoneKeeps, BuildKeeps
<1>4. CASE CacheModel(c) \/ Judged(c) \/ Respond(c)
  BY <1>4, CacheModelKeeps, JudgedKeeps, RespondKeeps
<1> QED BY <1>1, <1>2, <1>3, <1>4 DEF Serve

(* A step that leaves the cache as it is.                                   *)
LEMMA SameCache ==
  ASSUME CacheInv, ItemsTyped, UNCHANGED cache PROVE CacheInv' /\ ItemsTyped'
<1>1. items' = items /\ lruList' = lruList /\ uses' = uses
  BY DEF cache
<1>2. ToSet(lruList)' = ToSet(lruList)
  BY <1>1 DEF ToSet
<1>3. CacheInv'
  BY <1>1, <1>2 DEF CacheInv, IsInjective
<1>4. ItemsTyped'
  BY <1>1 DEF ItemsTyped
<1> QED BY <1>3, <1>4

(* What a handler does, as the cache sees it.                               *)
LEMMA ServeKeepsCache ==
  ASSUME Inv, NEW c \in Clients, Serve(c) PROVE CacheInv' /\ ItemsTyped'
<1>0. CacheInv /\ ItemsTyped
  BY DEF Inv
<1>1. CASE \E k \in Keys : Miss(c, k)
  BY <1>0, <1>1, SameCache DEF Miss, GetMiss
<1>2. CASE \E k \in Keys : \E op \in {"parse", "lookup", "edit"} : Hit(c, op, k)
  <2>1. PICK k \in Keys : GetHit(k)
    BY <1>2 DEF Hit
  <2>2. Has(k) /\ lruList' = MoveToFront(k) /\ uses' = Used(k, uses) /\ items' = items
    BY <2>1 DEF GetHit
  <2>3. CacheInv'
    BY <1>0, <2>2, HitKeepsCacheInv
  <2>4. ItemsTyped'
    BY <1>0, <2>2 DEF ItemsTyped
  <2> QED BY <2>3, <2>4
<1>3. CASE Reparse(c) \/ TakeReady(c) \/ TakeNone(c) \/ Build(c) \/ Judged(c) \/ Respond(c)
  <2>1. UNCHANGED cache
    BY <1>3 DEF Reparse, TakeReady, TakeNone, Build, Judged, Respond
  <2> QED BY <1>0, <2>1, SameCache
<1>4. CASE CacheModel(c)
  <2>1. ItemsTyped'
    BY <1>4, CacheModelKeeps
  <2> DEFINE k == calls[c].key
             m == calls[c].own
  <2>2. k \in Keys
    BY <1>4, CallNow DEF CacheModel, Sensible
  <2>3. Put(k, m)
    BY <1>4 DEF CacheModel
  <2> HIDE DEF k, m
  <2>4. CASE PutAgain(k, m)
    <3>1. /\ Has(k) /\ lruList' = MoveToFront(k) /\ uses' = Used(k, uses)
          /\ DOMAIN items' = DOMAIN items
      BY <1>0, <2>4 DEF PutAgain, ItemsTyped
    <3> QED BY <1>0, <2>1, <2>2, <3>1, HitKeepsCacheInv
  <2>5. CASE PutNew(k, m)
    BY <1>0, <2>1, <2>2, <2>5, PutNewKeepsCacheInv
  <2> QED BY <2>3, <2>4, <2>5 DEF Put
<1> QED BY <1>1, <1>2, <1>3, <1>4 DEF Serve

(* A step that leaves every call where it is.                               *)
LEMMA SameCalls ==
  ASSUME CallsInv, calls' = calls, Known', Owners' PROVE CallsInv'
<1>1. \A c \in Clients : Sensible(calls'[c])
  BY DEF CallsInv, CallsMakeSense
<1>2. CallsMakeSense'
  BY <1>1 DEF CallsMakeSense, Sensible
<1> QED BY <1>2 DEF CallsInv

(* Every step keeps the invariant.                                          *)
LEMMA NextKeepsInv ==
  ASSUME Inv, [Next]_vars PROVE Inv'
<1>1. PoolInv'
  BY NextIsPoolStep, PoolStepKeeps DEF Inv
<1>2. CASE Background
  <2>1. Known' /\ Owners'
    BY <1>2, BackgroundKeepsOwners DEF Inv, CallsInv
  <2>2. CallsInv'
    BY <1>2, <2>1, SameCalls DEF Inv, Background
  <2>3. CacheInv' /\ ItemsTyped'
    BY <1>2, SameCache DEF Inv, Background
  <2> QED BY <1>1, <2>2, <2>3 DEF Inv
<1>3. CASE \E c \in Clients : Serve(c)
  BY <1>1, <1>3, ServeKeeps, ServeKeepsCache DEF Inv
<1>4. CASE UNCHANGED vars
  <2>1. UNCHANGED pool /\ UNCHANGED cache /\ calls' = calls
    BY <1>4 DEF vars
  <2>2. ready' = ready /\ built' = built /\ items' = items
    BY <2>1 DEF pool, cache
  <2>3. ToSet(ready)' = ToSet(ready)
    BY <2>2 DEF ToSet
  <2>4. Known' /\ Owners'
    BY <2>1, <2>2, <2>3 DEF Inv, CallsInv, Known, Owners, IsInjective
  <2>5. CallsInv'
    BY <2>1, <2>4, SameCalls DEF Inv
  <2>6. CacheInv' /\ ItemsTyped'
    BY <2>1, SameCache DEF Inv
  <2> QED BY <1>1, <2>5, <2>6 DEF Inv
<1> QED BY <1>2, <1>3, <1>4 DEF Next

----------------------------------------------------------------------------
(* The inductive invariant of service.go, cache.go and libindex.go          *)
(* together: it holds whatever the handlers and the builders do.            *)
THEOREM InvHolds == Spec => []Inv
<1>1. Init => Inv
  BY InitInv
<1>2. Inv /\ [Next]_vars => Inv'
  BY NextKeepsInv
<1> QED BY <1>1, <1>2, PTL DEF Spec

(* The variables keep the types of the Go fields they stand for.            *)
THEOREM TypesHold == Spec => []TypeOK
<1>1. Inv => TypeOK
  BY InvTypeOK
<1> QED BY <1>1, InvHolds, PTL

(* fillLocked never has two goroutines building for the pool, and the two   *)
(* counters it keeps are right.                                            *)
THEOREM NeverTwoBuilds == Spec => []OneBuildAtATime
<1>1. Inv => OneBuildAtATime
  BY DEF Inv, PoolInv
<1> QED BY <1>1, InvHolds, PTL

(* get, prewarm and fillOne between them never leave an open pool short     *)
(* with nobody building.                                                   *)
THEOREM NeverLeftShort == Spec => []RefillUnderWay
<1>1. Inv => RefillUnderWay
  BY DEF Inv, PoolInv
<1> QED BY <1>1, InvHolds, PTL

(* Once close has returned the pool stays empty and nothing builds for it,  *)
(* whatever calls are still served.                                        *)
THEOREM NothingAfterClose == Spec => []ClosedHoldsNothing
<1>1. Inv => ClosedHoldsNothing
  BY DEF Inv, PoolInv
<1> QED BY <1>1, InvHolds, PTL

(* The cache is the front of the history of uses, for any maxSize.          *)
THEOREM LeastRecentlyUsedGoes == Spec => []KeepsTheLastUsed
<1>1. Inv => KeepsTheLastUsed
  BY CacheInvKeepsTheLastUsed DEF Inv
<1> QED BY <1>1, InvHolds, PTL

(* No index is filled by two calls, or filled while another call reads it,  *)
(* or held by the pool once it was handed out.                             *)
THEOREM IndexesAreNotShared == Spec => []IndexHasOneOwner
<1>1. Inv => IndexHasOneOwner
  BY OwnersAreOwners DEF Inv, CallsInv
<1> QED BY <1>1, InvHolds, PTL

(* A step of a closed pool adds nothing to it.                              *)
LEMMA ClosedStepShrinks ==
  ASSUME PoolInv, PoolStep, closed PROVE Len(ready') <= Len(ready)
<1>1. Len(ready) \in Nat
  BY LenProperties DEF PoolInv, PoolTypeOK
<1>2. CASE fillOne
  BY <1>1, <1>2 DEF fillOne, Unwanted
<1>3. CASE \E i \in ToSet(ready) : GetPooled(i)
  <2>1. ready # <<>> /\ ready' = Front(ready)
    BY <1>3 DEF GetPooled
  <2>2. Len(Front(ready)) = Len(ready) - 1
    BY <2>1, FrontProperties DEF PoolInv, PoolTypeOK
  <2> QED BY <1>1, <2>1, <2>2
<1>4. CASE CloseEnds
  <2>1. ready' = <<>> /\ Len(<<>>) = 0
    BY <1>4, EmptySeq DEF CloseEnds
  <2> QED BY <1>1, <2>1
<1>5. CASE prewarm \/ BuilderDone \/ CloseBegins \/ GetNone \/ BuildInline(built + 1)
           \/ UNCHANGED pool
  <2>1. ready' = ready
    BY <1>5 DEF prewarm, BuilderDone, CloseBegins, GetNone, BuildInline, pool
  <2> QED BY <1>1, <2>1
<1> QED BY <1>2, <1>3, <1>4, <1>5 DEF PoolStep

(* From the step in which close takes the lock, no builder adds an index.   *)
THEOREM NothingJoinsAClosedPool == Spec => ClosedPoolOnlyShrinks
<1>1. Inv /\ [Next]_vars => [closed => Len(ready') <= Len(ready)]_pool
  BY NextIsPoolStep, ClosedStepShrinks DEF Inv
<1> QED BY <1>1, InvHolds, PTL DEF Spec, ClosedPoolOnlyShrinks

----------------------------------------------------------------------------
(* The statistics count every index once.  Only finitely many calls build   *)
(* one inline, as they start one at a time.                                 *)
Accounted ==
  /\ IsFiniteSet(Building)
  /\ EveryIndexAccountedFor

(* Nothing has been built, and nobody builds.                               *)
LEMMA InitAccounted ==
  ASSUME Init PROVE Accounted
<1>1. Building = {}
  BY DEF Init, Building, Idle
<1>2. Len(ready) = 0
  BY EmptySeq DEF Init, PoolInit
<1>3. IsFiniteSet(Building) /\ Cardinality(Building) = 0
  BY <1>1, FS_EmptySet
<1> QED BY <1>2, <1>3 DEF Init, PoolInit, Accounted, EveryIndexAccountedFor

(* The builders of the pool, and close: an index that is built joins an     *)
(* open pool, since a build is under way only when there is room for it.    *)
LEMMA BackgroundAccounted ==
  ASSUME PoolInv, Accounted, Background PROVE Accounted'
<1>1. Building' = Building
  BY DEF Background, Building
<1>2. /\ Len(ready) \in Nat /\ Cardinality(Building) \in Nat
      /\ stats \in PoolStats /\ closed \in BOOLEAN /\ target \in Nat
  BY LenProperties, FS_CardinalityType, PoolAssumption
     DEF PoolInv, PoolTypeOK, Accounted
<1>3. CASE fillOne
  <2>1. stats' = [stats EXCEPT !.Built = @ + 1] /\ closed' = closed
    BY <1>3 DEF fillOne
  <2>2. /\ stats'.Built = stats.Built + 1 /\ stats'.Pooled = stats.Pooled
        /\ stats'.Inline = stats.Inline
    BY <1>2, <2>1 DEF PoolStats
  <2>3. ASSUME ~closed PROVE Len(ready') = Len(ready) + 1
    <3>1. target = PoolSize /\ Len(ready) < PoolSize
      BY <1>2, <1>3, <2>3, PoolAssumption
         DEF fillOne, PoolInv, PoolTypeOK, BuildHasRoom
    <3>2. ~Unwanted
      BY <1>2, <2>3, <3>1, PoolAssumption DEF Unwanted
    <3>3. ready' = Append(ready, built + 1)
      BY <1>3, <3>2 DEF fillOne
    <3> QED BY <3>3, AppendProperties DEF PoolInv, PoolTypeOK
  <2>4. Cardinality(Building)' = Cardinality(Building)
    BY <1>1
  <2>5. ASSUME ~closed
        PROVE  stats.Built + Cardinality(Building)
                 = Len(ready) + stats.Pooled + stats.Inline
    BY <2>5 DEF Accounted, EveryIndexAccountedFor
  <2>6. stats.Built \in Nat /\ stats.Pooled \in Nat /\ stats.Inline \in Nat
    BY <1>2 DEF PoolStats
  <2>7. EveryIndexAccountedFor'
    <3> SUFFICES ASSUME ~closed'
                 PROVE  stats'.Built + Cardinality(Building)'
                          = Len(ready') + stats'.Pooled + stats'.Inline
      BY DEF EveryIndexAccountedFor
    <3>1. Len(ready') = Len(ready) + 1
      BY <2>1, <2>3
    <3>2. stats.Built + Cardinality(Building) = Len(ready) + stats.Pooled + stats.Inline
      BY <2>1, <2>5
    <3> DEFINE n == Cardinality(Building)
    <3>3. n \in Nat /\ Cardinality(Building)' = n
      BY <1>2, <2>4
    <3>4. stats'.Built + n = Len(ready') + stats'.Pooled + stats'.Inline
      BY <1>2, <2>2, <2>6, <3>1, <3>2, <3>3, SMTT(60) DEF n
    <3> QED BY <3>3, <3>4
  <2>8. IsFiniteSet(Building)'
    BY <1>1 DEF Accounted
  <2> QED BY <2>7, <2>8 DEF Accounted
<1>4. CASE CloseBegins \/ CloseEnds
  <2>1. closed'
    BY <1>4 DEF CloseBegins, CloseEnds, PoolInv, ClosingIsClosed
  <2> QED BY <1>1, <2>1 DEF Accounted, EveryIndexAccountedFor
<1>5. CASE prewarm \/ BuilderDone
  <2>1. ready' = ready /\ stats' = stats /\ closed' = closed
    BY <1>5 DEF prewarm, BuilderDone
  <2> QED BY <1>1, <2>1 DEF Accounted, EveryIndexAccountedFor
<1> QED BY <1>3, <1>4, <1>5 DEF Background

(* A handler takes a ready index, begins to build one or comes back with    *)
(* it: what is counted on one side moves on the other.                      *)
LEMMA ServeAccounted ==
  ASSUME Inv, Accounted, NEW c \in Clients, Serve(c) PROVE Accounted'
<1>1. /\ Len(ready) \in Nat /\ Cardinality(Building) \in Nat
      /\ stats \in PoolStats /\ calls \in [Clients -> Call]
  BY LenProperties, FS_CardinalityType
     DEF Inv, PoolInv, PoolTypeOK, CallsInv, Accounted
<1>2. CASE TakeNone(c)
  <2>1. /\ stats' = [stats EXCEPT !.Inline = @ + 1]
        /\ ready' = ready /\ closed' = closed
        /\ calls[c].at = "missed" /\ calls' = [calls EXCEPT ![c].at = "building"]
    BY <1>2 DEF TakeNone, GetNone, Goes
  <2>2. Building' = Building \cup {c} /\ c \notin Building
    BY <1>1, <2>1 DEF Building, Call
  <2>3. IsFiniteSet(Building') /\ Cardinality(Building') = Cardinality(Building) + 1
    BY <2>2, FS_AddElement DEF Accounted
  <2>4. /\ stats'.Built = stats.Built /\ stats'.Pooled = stats.Pooled
        /\ stats'.Inline = stats.Inline + 1
    BY <1>1, <2>1 DEF PoolStats
  <2> QED
    BY <1>1, <2>1, <2>3, <2>4 DEF Accounted, EveryIndexAccountedFor, PoolStats
<1>3. CASE Build(c)
  <2>1. /\ stats' = [stats EXCEPT !.Built = @ + 1]
        /\ ready' = ready /\ closed' = closed
        /\ calls[c].at = "building"
        /\ calls' = [calls EXCEPT ![c].at = "owning", ![c].own = built + 1]
    BY <1>3 DEF Build, BuildInline
  <2>2. Building' = Building \ {c} /\ c \in Building
    BY <1>1, <2>1 DEF Building, Call
  <2>3. IsFiniteSet(Building') /\ Cardinality(Building') = Cardinality(Building) - 1
    BY <2>2, FS_RemoveElement DEF Accounted
  <2>4. /\ stats'.Built = stats.Built + 1 /\ stats'.Pooled = stats.Pooled
        /\ stats'.Inline = stats.Inline
    BY <1>1, <2>1 DEF PoolStats
  <2> QED
    BY <1>1, <2>1, <2>3, <2>4 DEF Accounted, EveryIndexAccountedFor, PoolStats
<1>4. CASE TakeReady(c)
  <2>1. PICK i : GetPooled(i) /\ calls[c].at = "missed"
                 /\ calls' = [calls EXCEPT ![c].at = "owning", ![c].own = i]
    BY <1>4 DEF TakeReady
  <2>2. /\ stats' = [stats EXCEPT !.Pooled = @ + 1] /\ closed' = closed
        /\ ready # <<>> /\ ready' = Front(ready)
    BY <2>1 DEF GetPooled
  <2>3. Building' = Building
    BY <1>1, <2>1 DEF Building, Call
  <2>4. /\ stats'.Built = stats.Built /\ stats'.Pooled = stats.Pooled + 1
        /\ stats'.Inline = stats.Inline
    BY <1>1, <2>2 DEF PoolStats
  <2>5. Len(ready') = Len(ready) - 1
    BY <2>2, FrontProperties DEF Inv, PoolInv, PoolTypeOK
  <2> QED
    BY <1>1, <2>2, <2>3, <2>4, <2>5
       DEF Accounted, EveryIndexAccountedFor, PoolStats
<1>5. CASE \/ \E k \in Keys : Miss(c, k) \/ \E op \in {"parse", "lookup", "edit"} : Hit(c, op, k)
           \/ Reparse(c) \/ CacheModel(c) \/ Judged(c) \/ Respond(c)
  <2>1. ready' = ready /\ stats' = stats /\ closed' = closed
    BY <1>5 DEF Miss, Hit, Reparse, CacheModel, Judged, Respond, pool
  <2>2. /\ \A d \in Clients : d # c => calls'[d] = calls[d]
        /\ calls[c].at # "building" /\ calls'[c].at # "building"
    BY <1>1, <1>5
       DEF Miss, Hit, Reparse, CacheModel, Judged, Respond, Goes, Call, Idle
  <2>3. Building' = Building
    BY <2>2 DEF Building
  <2> QED BY <2>1, <2>3 DEF Accounted, EveryIndexAccountedFor
<1> QED BY <1>2, <1>3, <1>4, <1>5 DEF Serve

(* No index of an open pool is built in vain, dropped or counted twice, for *)
(* any number of handlers: what was built, or is being built on a request   *)
(* path, is ready or was handed out (snapshot in libindex.go).              *)
THEOREM NoIndexIsLost == Spec => []EveryIndexAccountedFor
<1>1. Init => Accounted
  BY InitAccounted
<1>2. Inv /\ Accounted /\ [Next]_vars => Accounted'
  <2> SUFFICES ASSUME Inv, Accounted, [Next]_vars PROVE Accounted'
    OBVIOUS
  <2>1. CASE Background
    BY <2>1, BackgroundAccounted DEF Inv
  <2>2. CASE \E c \in Clients : Serve(c)
    BY <2>2, ServeAccounted
  <2>3. CASE UNCHANGED vars
    BY <2>3 DEF vars, pool, Accounted, EveryIndexAccountedFor, Building
  <2> QED BY <2>1, <2>2, <2>3 DEF Next
<1>3. Accounted => EveryIndexAccountedFor
  BY DEF Accounted
<1> QED BY <1>1, <1>2, <1>3, InvHolds, PTL DEF Spec
==============================================================================
