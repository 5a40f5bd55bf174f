----------------------------- MODULE ModelService -----------------------------
(***************************************************************************)
(* The gRPC service's models (src/internal/grpc/service.go): handlers that *)
(* run concurrently, over the cache of parsed models and the pool of       *)
(* library indexes.                                                        *)
(*                                                                         *)
(* ParseFile looks in the cache, and on a miss takes an index, adds the    *)
(* document to it, analyses it and puts the model in the cache: three      *)
(* critical sections, with anything in between.  A model is its index: the *)
(* one it took stays with it.  Every other handler looks a model up and    *)
(* reads it; ApplyEdits also takes indexes to analyse the edited text in,  *)
(* one after the other: of several that one call has taken only the one it *)
(* is filling is kept in the state.                                        *)
(***************************************************************************)
EXTENDS IndexPool, ModelCache

CONSTANTS
  Clients,        \* the goroutines that serve calls
  NoKey,          \* a call that caches nothing has no key
  MaxCheckouts    \* bound on the indexes taken from the pool

ASSUME ServiceAssumption == NoKey \notin Keys /\ MaxCheckouts \in Nat

VARIABLE calls    \* the call each goroutine is serving

vars == <<pool, cache, calls>>

None == 0    \* no index

(* at: "missed" wants an index, "building" builds it inline, "owning" has it *)
(* and nobody else knows of it, "reading" converts a model into an answer.   *)
Call == [op : {"none", "parse", "lookup", "edit"},
         at : {"idle", "missed", "building", "owning", "reading"},
         key : Keys \cup {NoKey}, own : Nat, model : Nat]

Idle == [op |-> "none", at |-> "idle", key |-> NoKey, own |-> None, model |-> None]

TypeOK ==
  /\ PoolTypeOK
  /\ calls \in [Clients -> Call]
  /\ DOMAIN items \subseteq Keys
  /\ items \in [DOMAIN items -> Nat]
  /\ lruList \in Seq(Keys) /\ uses \in Seq(Keys)

Init ==
  /\ PoolInit
  /\ CacheInit
  /\ calls = [c \in Clients |-> Idle]

Waiting == {c \in Clients : calls[c].at = "missed"}

(* The bound on checkouts: made, and about to be made. *)
MayCheckOut == stats.Pooled + stats.Inline + Cardinality(Waiting) < MaxCheckouts

Goes(c, place) == calls' = [calls EXCEPT ![c].at = place]

----------------------------------------------------------------------------
(* ParseFile(k), or another handler, finds the model of k in the cache. *)
Hit(c, op, k) ==
  /\ calls[c].at = "idle"
  /\ GetHit(k)
  /\ calls' = [calls EXCEPT ![c] =
       [op |-> op, at |-> "reading", key |-> NoKey, own |-> None, model |-> items[k]]]
  /\ UNCHANGED pool

(* ParseFile(k) does not. *)
Miss(c, k) ==
  /\ calls[c].at = "idle"
  /\ MayCheckOut
  /\ GetMiss(k)
  /\ calls' = [calls EXCEPT ![c] =
       [op |-> "parse", at |-> "missed", key |-> k, own |-> None, model |-> None]]
  /\ UNCHANGED pool

(* ApplyEdits reparses the edited text, or validates it. *)
Reparse(c) ==
  /\ calls[c].at = "reading"
  /\ calls[c].op = "edit"
  /\ MayCheckOut
  /\ Goes(c, "missed")
  /\ UNCHANGED <<pool, cache>>

TakeReady(c) ==
  /\ calls[c].at = "missed"
  /\ \E i \in ToSet(ready) :
       /\ GetPooled(i)
       /\ calls' = [calls EXCEPT ![c].at = "owning", ![c].own = i]
  /\ UNCHANGED cache

TakeNone(c) ==
  /\ calls[c].at = "missed"
  /\ GetNone
  /\ Goes(c, "building")
  /\ UNCHANGED cache

Build(c) ==
  /\ calls[c].at = "building"
  /\ BuildInline(built + 1)
  /\ calls' = [calls EXCEPT ![c].at = "owning", ![c].own = built + 1]
  /\ UNCHANGED cache

(* The parsed document is in the index, and the model goes into the cache. *)
CacheModel(c) ==
  /\ calls[c].at = "owning"
  /\ calls[c].op = "parse"
  /\ Put(calls[c].key, calls[c].own)
  /\ calls' = [calls EXCEPT ![c].at = "reading", ![c].key = NoKey,
                            ![c].model = calls[c].own, ![c].own = None]
  /\ UNCHANGED pool

(* The edited text has been judged; its index goes out of scope. *)
Judged(c) ==
  /\ calls[c].at = "owning"
  /\ calls[c].op = "edit"
  /\ calls' = [calls EXCEPT ![c].at = "reading", ![c].own = None]
  /\ UNCHANGED <<pool, cache>>

Respond(c) ==
  /\ calls[c].at = "reading"
  /\ calls' = [calls EXCEPT ![c] = Idle]
  /\ UNCHANGED <<pool, cache>>

(* Calls that change nothing are left out: a lookup of a model that is no    *)
(* longer cached, an edit that is refused before it needs an index.          *)
Serve(c) ==
  \/ \E k \in Keys : Miss(c, k) \/ \E op \in {"parse", "lookup", "edit"} : Hit(c, op, k)
  \/ Reparse(c) \/ TakeReady(c) \/ TakeNone(c) \/ Build(c)
  \/ CacheModel(c) \/ Judged(c) \/ Respond(c)

(* Prewarm, Close, and the goroutines the pool starts. *)
Background ==
  /\ prewarm \/ fillOne \/ BuilderDone \/ CloseBegins \/ CloseEnds
  /\ UNCHANGED <<cache, calls>>

Next == Background \/ \E c \in Clients : Serve(c)

Spec == Init /\ [][Next]_vars

FairSpec == Spec /\ PoolFairness

----------------------------------------------------------------------------
Building == {c \in Clients : calls[c].at = "building"}

Cached == {items[k] : k \in DOMAIN items}

Owned == {calls[c].own : c \in Clients} \ {None}

(* "An index is handed out once and then belongs to the cached model that    *)
(* took it": the pool holds each index once, none a call has taken or a       *)
(* cached model or its readers can reach; no two calls fill one index, no     *)
(* call fills one that is read, and no two keys share a model.                *)
IndexHasOneOwner ==
  /\ IsInjective(ready) /\ IsInjective(items)
  /\ \A c, d \in Clients : calls[c].own = calls[d].own => c = d \/ calls[c].own = None
  /\ \A c \in Clients : calls[c].model \notin ToSet(ready) \cup Owned
  /\ Owned \cap ToSet(ready) = {}
  /\ Cached \cap (ToSet(ready) \cup Owned) = {}

(* While the pool is open no index is built in vain or lost: each one built  *)
(* is ready or was handed out, so none is dropped because the pool filled up *)
(* while it was building (fillOne provides for that), and the statistics the *)
(* tests rely on add up.                                                     *)
EveryIndexAccountedFor ==
  ~closed => stats.Built + Cardinality(Building)
               = Len(ready) + stats.Pooled + stats.Inline
==============================================================================
