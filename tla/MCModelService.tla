---- MODULE MCModelService ----
(***************************************************************************)
(* Instances of ModelService for TLC.                                      *)
(***************************************************************************)
EXTENDS ModelService, TLC

(* Handlers are interchangeable, and so are documents: no definition and no *)
(* property names one or orders them.                                       *)
Interchangeable == Permutations(Clients) \cup Permutations(Keys)
====
