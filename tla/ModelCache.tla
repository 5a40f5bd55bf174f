------------------------------ MODULE ModelCache ------------------------------
(***************************************************************************)
(* The LRU cache of parsed models (src/internal/grpc/cache.go).            *)
(*                                                                         *)
(* lruList holds the keys of its elements, the most recently used first;   *)
(* items maps a key to its element, here to the element's value.  Each     *)
(* operation is one critical section of the cache's mutex.                 *)
(***************************************************************************)
EXTENDS Integers, Sequences, FiniteSets, SequencesExt, Functions

CONSTANTS
  Keys,        \* the hashes of what clients ask to parse
  CacheSize    \* c.maxSize, which NewCache wants positive

ASSUME CacheAssumption == CacheSize \in Nat \ {0}

VARIABLES
  items,      \* c.items
  lruList,    \* c.lruList
  uses        \* history: every key used so far, the last used first

cache == <<items, lruList, uses>>

CacheInit ==
  /\ items = [k \in {} |-> 0]
  /\ lruList = <<>>
  /\ uses = <<>>

Has(k) == k \in DOMAIN items

(* The list with k moved, or added, to its front. *)
Used(k, list) ==
  LET at == CHOOSE i \in DOMAIN list : list[i] = k
  IN <<k>> \o (IF k \in ToSet(list) THEN RemoveAt(list, at) ELSE list)

MoveToFront_Not(k) == lruList

(* MoveToFront leaves a list alone that the element is not in. *)
MoveToFront(k) == IF k \in ToSet(lruList) THEN Used(k, lruList) ELSE lruList

GetHit(k) ==
  /\ Has(k)
  /\ lruList' = MoveToFront(k)
  /\ uses' = Used(k, uses)
  /\ UNCHANGED items

(* Get on a key that is not there reads only. *)
GetMiss(k) ==
  /\ ~Has(k)
  /\ UNCHANGED cache

(* Put replaces the model of a key another call has put meanwhile, ... *)
PutAgain(k, m) ==
  /\ Has(k)
  /\ lruList' = MoveToFront(k)
  /\ items' = [items EXCEPT ![k] = m]
  /\ uses' = Used(k, uses)

Full == Len(lruList) >= CacheSize
Evicted == IF Full THEN {Last(lruList)} ELSE {}

(* ... or adds it, evicting the least recently used at capacity. *)
PutNew(k, m) ==
  /\ ~Has(k)
  /\ lruList' = <<k>> \o (IF Full THEN Front(lruList) ELSE lruList)
  /\ items' = [j \in (DOMAIN items \ Evicted) \cup {k} |->
                 IF j = k THEN m ELSE items[j]]
  /\ uses' = Used(k, uses)

Put(k, m) == PutAgain(k, m) \/ PutNew(k, m)

----------------------------------------------------------------------------
(* The cache holds the CacheSize keys that were used last, a lookup being a *)
(* use as much as a parse, and map and list agree: a model evicted is gone  *)
(* from both, and the next to go is always the one unused for longest.      *)
KeepsTheLastUsed ==
  /\ lruList = SubSeq(uses, 1, IF Len(uses) < CacheSize THEN Len(uses)
                                                     ELSE CacheSize)
  /\ DOMAIN items = ToSet(lruList)
==============================================================================
