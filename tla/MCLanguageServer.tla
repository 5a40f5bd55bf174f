-------------------------- MODULE MCLanguageServer --------------------------
(***************************************************************************)
(* LanguageServer on two documents, one of them in a file at first.        *)
(***************************************************************************)
EXTENDS LanguageServer, TLC

MCFiles == [n \in Names |-> IF n = "main" THEN <<0>> ELSE Absent]
=============================================================================
