------------------------------ MODULE Workspace ------------------------------
(***************************************************************************)
(* The workspace behind the language server                                *)
(* (internal/core/model/workspace.go): documents with two possible         *)
(* sources, the editor's buffer and the file, under one lock.  Each action *)
(* below is one critical section.                                          *)
(*                                                                         *)
(* A text is the sequence of edits that made it, a whole text being one    *)
(* edit.  What an analysis finds depends on the whole document set and on  *)
(* the conformance mode, so it is identified by `revision`, the number of  *)
(* times the cached diagnostics have been invalidated.                     *)
(***************************************************************************)
EXTENDS Integers, Sequences, FiniteSets

CONSTANTS Names,    \* the documents
          Absent    \* no text

VARIABLES docs,       \* name -> the text served, or Absent
          onDisk,     \* name -> the file's text as last read, or Absent
          open,       \* the names with an authoritative buffer
          diagCache,  \* name -> the revision its cached diagnostics are of, 0 for none
          strict,     \* the conformance mode
          revision

workspace == <<docs, onDisk, open, diagCache, strict, revision>>

ASSUME NamesAssumption == Absent \notin Names

WorkspaceInit ==
    /\ docs = [n \in Names |-> Absent] /\ onDisk = [n \in Names |-> Absent]
    /\ open = {} /\ diagCache = [n \in Names |-> 0]
    /\ strict = FALSE /\ revision = 0

Invalidate ==
    /\ diagCache' = [n \in Names |-> 0]
    /\ revision' = revision + 1

Reindex_OwnOnly(n, text) ==
    /\ docs' = [docs EXCEPT ![n] = text]
    /\ diagCache' = [diagCache EXCEPT ![n] = 0]
    /\ revision' = revision + 1

\* reindexLocked, and removeLocked for Absent.
Reindex(n, text) == docs' = [docs EXCEPT ![n] = text] /\ Invalidate

\* The file's text counts only while there is no buffer.
ReindexUnlessOpen_Always(n, text) == Reindex(n, text)

ReindexUnlessOpen(n, text) ==
    IF n \in open THEN UNCHANGED <<docs, diagCache, revision>> ELSE Reindex(n, text)

\* Open and Update.
SetBuffer(n, text) ==
    /\ open' = open \cup {n}
    /\ Reindex(n, text)
    /\ UNCHANGED <<onDisk, strict>>

\* SetOnDisk, and DeleteOnDisk for Absent.
SetOnDisk(n, text) ==
    /\ onDisk' = [onDisk EXCEPT ![n] = text]
    /\ ReindexUnlessOpen(n, text)
    /\ UNCHANGED <<open, strict>>

CloseBuffer_StaysOpen(n) == Reindex(n, onDisk[n]) /\ UNCHANGED <<onDisk, open, strict>>

\* Close: the file's text is served again, if there is one.
CloseBuffer(n) ==
    /\ open' = open \ {n}
    /\ Reindex(n, onDisk[n])
    /\ UNCHANGED <<onDisk, strict>>

SetConformanceMode(mode) ==
    /\ strict' = mode
    /\ IF mode = strict THEN UNCHANGED <<diagCache, revision>> ELSE Invalidate
    /\ UNCHANGED <<docs, onDisk, open>>

\* AnalyzedContent: the revision of the diagnostics found, 0 for no document.
Analysis(n) ==
    IF docs[n] = Absent THEN 0 ELSE IF diagCache[n] # 0 THEN diagCache[n] ELSE revision

CacheAnalysis(n) ==
    /\ diagCache' = [diagCache EXCEPT ![n] = Analysis(n)]
    /\ UNCHANGED <<docs, onDisk, open, strict, revision>>
=============================================================================
