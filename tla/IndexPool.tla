------------------------------ MODULE IndexPool ------------------------------
(***************************************************************************)
(* The pool of prewarmed library indexes (src/internal/grpc/libindex.go).  *)
(*                                                                         *)
(* An index is handed out once.  A background goroutine builds one index   *)
(* at a time, keeping the pool at its target; a checkout of an empty pool  *)
(* builds one on the request path.  close stops the builders, waits for    *)
(* them and lets go of what is left.                                       *)
(*                                                                         *)
(* An action is one critical section of the pool's mutex together with the *)
(* private work before it.  An index is its serial number: the first one   *)
(* built is 1.  A definition named D_Variant is D with one slip, and no    *)
(* specification uses it.                                                  *)
(***************************************************************************)
EXTENDS Integers, Sequences, SequencesExt

CONSTANT PoolSize    \* p.size

ASSUME PoolAssumption == PoolSize \in Nat

VARIABLES
  ready,      \* p.ready, the indexes nobody took
  inflight,   \* p.inflight, as the pool counts its builders
  target,     \* p.target, 0 until prewarm
  closed,     \* p.closed
  stats,      \* p.stats
  wg,         \* the counter of p.wg
  builders,   \* goroutines in p.build() or about to lock after it
  leaving,    \* goroutines that have unlocked and still owe p.wg a Done
  closing,    \* where the caller of close is
  built       \* the number of indexes that exist or existed

pool == <<ready, inflight, target, closed, stats, wg, builders, leaving,
          closing, built>>

PoolStats == [Pooled : Nat, Inline : Nat, Built : Nat]

PoolTypeOK ==
  /\ ready \in Seq(Nat)
  /\ inflight \in Nat /\ wg \in Nat /\ builders \in Nat /\ leaving \in Nat
  /\ target \in {0, PoolSize}
  /\ closed \in BOOLEAN
  /\ stats \in PoolStats
  /\ closing \in {"open", "waiting", "closed"}
  /\ built \in Nat

PoolInit ==
  /\ ready = <<>>
  /\ inflight = 0 /\ wg = 0 /\ builders = 0 /\ leaving = 0
  /\ target = 0
  /\ closed = FALSE
  /\ stats = [Pooled |-> 0, Inline |-> 0, Built |-> 0]
  /\ closing = "open"
  /\ built = 0

----------------------------------------------------------------------------
(***************************************************************************)
(* fillLocked starts a builder when the pool, holding r with n builds under *)
(* way and b goroutines running, is short of its target t.                 *)
(***************************************************************************)
Short_SeveralBuilds(r, n, t) == ~closed /\ Len(r) < t
Short_OneMore(r, n, t) == ~closed /\ n <= 0 /\ Len(r) <= t
Short_EvenClosed(r, n, t) == n <= 0 /\ Len(r) < t
Short(r, n, t) == ~closed /\ n <= 0 /\ Len(r) < t

fillLocked(r, n, b, t) ==
  LET started == IF Short(r, n, t) THEN 1 ELSE 0
  IN /\ inflight' = n + started
     /\ builders' = b + started
     /\ wg' = wg + started

prewarm ==
  /\ target' = PoolSize
  /\ fillLocked(ready, inflight, builders, PoolSize)
  /\ UNCHANGED <<ready, closed, stats, leaving, closing, built>>

GetPooled_FillsFirst(i) ==
  /\ ready # <<>>
  /\ i = Last(ready)
  /\ ready' = Front(ready)
  /\ stats' = [stats EXCEPT !.Pooled = @ + 1]
  /\ fillLocked(ready, inflight, builders, target)
  /\ UNCHANGED <<target, closed, leaving, closing, built>>

GetPooled_KeepsIt(i) ==
  /\ ready # <<>>
  /\ i = Last(ready)
  /\ stats' = [stats EXCEPT !.Pooled = @ + 1]
  /\ fillLocked(ready, inflight, builders, target)
  /\ UNCHANGED <<ready, target, closed, leaving, closing, built>>

(* get when an index is ready: the newest one, i, goes to the caller. *)
GetPooled(i) ==
  /\ ready # <<>>
  /\ i = Last(ready)
  /\ ready' = Front(ready)
  /\ stats' = [stats EXCEPT !.Pooled = @ + 1]
  /\ fillLocked(Front(ready), inflight, builders, target)
  /\ UNCHANGED <<target, closed, leaving, closing, built>>

(* get when none is: the caller leaves the lock to build one itself, ... *)
GetNone ==
  /\ ready = <<>>
  /\ stats' = [stats EXCEPT !.Inline = @ + 1]
  /\ fillLocked(ready, inflight, builders, target)
  /\ UNCHANGED <<ready, target, closed, leaving, closing, built>>

(* ... and comes back to count it. *)
BuildInline(i) ==
  /\ i = built + 1
  /\ built' = i
  /\ stats' = [stats EXCEPT !.Built = @ + 1]
  /\ UNCHANGED <<ready, inflight, target, closed, wg, builders, leaving, closing>>

Unwanted_SizeOnly == Len(ready) >= PoolSize
Unwanted == closed \/ Len(ready) >= PoolSize

fillOne_DoneWhenKept ==
  /\ builders > 0
  /\ built' = built + 1
  /\ stats' = [stats EXCEPT !.Built = @ + 1]
  /\ \/ /\ Unwanted
        /\ inflight' = inflight - 1
        /\ builders' = builders - 1
        /\ UNCHANGED <<ready, wg, leaving>>
     \/ /\ ~Unwanted
        /\ ready' = Append(ready, built + 1)
        /\ fillLocked(ready', inflight - 1, builders - 1, target)
        /\ leaving' = leaving + 1
  /\ UNCHANGED <<target, closed, closing>>

(* A builder has its index and takes the lock. *)
fillOne ==
  /\ builders > 0
  /\ built' = built + 1
  /\ stats' = [stats EXCEPT !.Built = @ + 1]
  /\ \/ /\ Unwanted
        /\ inflight' = inflight - 1
        /\ builders' = builders - 1
        /\ UNCHANGED <<ready, wg>>
     \/ /\ ~Unwanted
        /\ ready' = Append(ready, built + 1)
        /\ fillLocked(ready', inflight - 1, builders - 1, target)
  /\ leaving' = leaving + 1
  /\ UNCHANGED <<target, closed, closing>>

BuilderDone_Twice ==
  /\ leaving > 0
  /\ leaving' = leaving - 1
  /\ wg' = wg - 2
  /\ UNCHANGED <<ready, inflight, target, closed, stats, builders, closing, built>>

(* The deferred wg.Done, which runs after the deferred Unlock. *)
BuilderDone ==
  /\ leaving > 0
  /\ leaving' = leaving - 1
  /\ wg' = wg - 1
  /\ UNCHANGED <<ready, inflight, target, closed, stats, builders, closing, built>>

(* close may be called again once it returned. *)
CloseBegins ==
  /\ closing # "waiting"
  /\ closed' = TRUE
  /\ closing' = "waiting"
  /\ UNCHANGED <<ready, inflight, target, stats, wg, builders, leaving, built>>

(* Once closed, nothing is added to wg: what held when Wait returned still  *)
(* holds when the lock is taken.                                           *)
CloseEnds ==
  /\ closing = "waiting"
  /\ wg = 0
  /\ ready' = <<>>
  /\ closing' = "closed"
  /\ UNCHANGED <<inflight, target, closed, stats, wg, builders, leaving, built>>

----------------------------------------------------------------------------
(* One background build at a time, however calls and builders interleave:  *)
(* overlapping builds would each parse what the other is about to cache,    *)
(* which fillLocked's comment rules out.  inflight, which guards it, counts *)
(* the goroutines, and wg counts those that close has to wait for.          *)
OneBuildAtATime ==
  /\ builders <= 1
  /\ inflight = builders
  /\ wg = builders + leaving

(* No wake-up is lost: an open pool below its target has a builder at work, *)
(* whoever took the last index and whenever (fillLocked is called by each   *)
(* section that takes an index or ends a build).                            *)
RefillUnderWay ==
  ~closed /\ Len(ready) < target => builders > 0

(* When close has returned no builder runs and no index is kept, and no     *)
(* later request or Prewarm starts one ("close stops prewarming, waits for  *)
(* the builds already running and releases the indexes nobody took").       *)
ClosedHoldsNothing ==
  closing = "closed" => ready = <<>> /\ builders = 0 /\ leaving = 0

(* From the moment close has begun no index joins the pool: a builder that  *)
(* finishes late drops the one it built.                                    *)
ClosedPoolOnlyShrinks ==
  [][closed => Len(ready') <= Len(ready)]_pool

(* close returns: the builders it waits for end and start no others.        *)
CloseReturns ==
  closing = "waiting" ~> closing = "closed"

(* A goroutine once started runs on; nothing is assumed of the callers.     *)
PoolFairness ==
  /\ WF_pool(fillOne)
  /\ WF_pool(BuilderDone)
  /\ WF_pool(CloseEnds)
==============================================================================
