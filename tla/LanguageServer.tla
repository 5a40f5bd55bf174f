--------------------------- MODULE LanguageServer ---------------------------
(***************************************************************************)
(* The language server (internal/lsp) between an editor, the file system   *)
(* and the workspace.  Notifications are handled one after the other, in   *)
(* the order the client sent them; the refreshes they queue run on timer   *)
(* goroutines beside them.                                                 *)
(*                                                                         *)
(* A handler is the list of its critical sections still to do: `script` of *)
(* the handling thread.  A section [do, docs, edit] is done once for every *)
(* member of docs, in any order, as the code ranges over maps.             *)
(***************************************************************************)
EXTENDS Workspace, Debouncer

CONSTANTS Sweeps,      \* the timer goroutines that may sweep at one time
          MaxCalls,    \* what the client and other programs may do (bounds the model)
          Drawn,       \* the documents whose diagram some client draws
          FilesAtStart \* the files there at first: name -> text or Absent

ASSUME ServerAssumption ==
    /\ {"handler", "nobody"} \cap Sweeps = {}
    /\ MaxCalls \in Nat
    /\ Absent \notin Seq(Nat)
    /\ FilesAtStart \in [Names -> Seq(Nat) \cup {Absent}]

VARIABLES
    files,        \* the file system
    buffer,       \* name -> the text in the editor, Absent for no tab
    watch,        \* name -> the file events not reported yet, oldest first
    served,       \* the folder holding the files belongs to the session
    script,       \* thread -> the sections it still has to do
    pub,          \* who holds pubMu, and what it is about to send
    crossDoc, renderNotify,
    markers,      \* name -> the revision of the diagnostics shown, 0 for none
    rendered,     \* name -> the revision its diagram was last drawn from
    calls, fresh

editor == <<buffer, calls, fresh>>
disk == <<files, watch>>
screen == <<markers, rendered>>
vars == <<workspace, editor, disk, served, script, pub, crossDoc, renderNotify, screen>>

Threads == {"handler"} \cup Sweeps
Free == [by |-> "nobody", doc |-> Absent, analysed |-> FALSE, seen |-> 0]

NoEdit == [whole |-> FALSE, id |-> 0]
Section(what, names) == [do |-> what, docs |-> names, edit |-> NoEdit]

\* applyRawContentChange: a change without a range replaces the text.
Applied(text, edit) == IF edit.whole \/ text = Absent THEN <<edit.id>> ELSE Append(text, edit.id)

Existing == {n \in Names : files[n] # Absent}

\* Initialized: walk the session's folder.
Init ==
    /\ WorkspaceInit
    /\ files = FilesAtStart /\ watch = [n \in Names |-> <<>>]
    /\ buffer = [n \in Names |-> Absent] /\ calls = MaxCalls /\ fresh = 1
    /\ served = TRUE
    /\ script = [th \in Threads |->
                    IF th = "handler" THEN <<Section("load", Existing), Section("refresh", {Absent})>>
                    ELSE <<>>]
    /\ pub = Free
    /\ crossDoc = [n \in Names |-> NoTimer] /\ renderNotify = [n \in Names |-> NoTimer]
    /\ markers = [n \in Names |-> 0] /\ rendered = [n \in Names |-> 0]

---------------------------------------------------------------------------
(* The client.  A notification is handled once the one before it is done.  *)

Handle(sections) ==
    /\ script["handler"] = <<>>
    /\ script' = [script EXCEPT !["handler"] = sections]
    /\ UNCHANGED <<workspace, files, pub, crossDoc, renderNotify, screen>>

Call == calls > 0 /\ calls' = calls - 1

DidOpen(n) ==
    /\ Call /\ buffer[n] = Absent
    /\ \E text \in {<<fresh>>, files[n]} \ {Absent} : buffer' = [buffer EXCEPT ![n] = text]
    /\ fresh' = fresh + 1
    /\ Handle(<<Section("open", {n}), Section("publish", {n}), Section("queue", {n})>>)
    /\ UNCHANGED <<watch, served>>

DidChange(n) ==
    /\ Call /\ buffer[n] # Absent
    /\ \E whole \in BOOLEAN :
          LET edit == [whole |-> whole, id |-> fresh]
          IN  /\ buffer' = [buffer EXCEPT ![n] = Applied(@, edit)]
              /\ Handle(<<[Section("update", {n}) EXCEPT !.edit = edit],
                          Section("publish", {n}), Section("queue", {n})>>)
    /\ fresh' = fresh + 1
    /\ UNCHANGED <<watch, served>>

DidClose(n) ==
    /\ Call /\ buffer[n] # Absent
    /\ buffer' = [buffer EXCEPT ![n] = Absent]
    /\ Handle(<<Section("load", {n}), Section("close", {n}), Section("clear", {n}), Section("queue", {n})>>)
    /\ UNCHANGED <<fresh, watch, served>>

\* The file was written by the editor, which the watcher reports as well.
DidSave(n) ==
    /\ Call /\ buffer[n] # Absent
    /\ script["handler"] = <<>>
    /\ script' = [script EXCEPT !["handler"] = <<Section("publish", {n}), Section("refresh", {n})>>]
    /\ files' = [files EXCEPT ![n] = buffer[n]]
    /\ watch' = [watch EXCEPT ![n] = Append(@, "changed")]
    /\ UNCHANGED <<workspace, buffer, fresh, served, pub, crossDoc, renderNotify, screen>>

DidChangeWatchedFiles(n) ==
    /\ watch[n] # <<>>
    /\ watch' = [watch EXCEPT ![n] = Tail(@)]
    /\ Handle(IF Head(watch[n]) = "deleted"
              THEN <<Section("drop", {n}), Section("publish", {n}), Section("refresh", {Absent})>>
              ELSE <<Section("load", {n}), Section("refresh", {Absent})>>)
    /\ UNCHANGED <<editor, served>>

\* The session's folder is removed, or added again and walked.
DidChangeWorkspaceFolders ==
    /\ Call /\ served' = ~served
    /\ Handle(<<IF served THEN Section("drop", {n \in Names : docs[n] # Absent})
                ELSE Section("load", Existing),
                Section("refresh", {Absent})>>)
    /\ UNCHANGED <<buffer, fresh, watch>>

DidChangeConfiguration ==
    /\ Call
    /\ \E mode \in BOOLEAN :
          Handle(<<Section(IF mode THEN "strict" ELSE "lenient", {Absent}), Section("refresh", {Absent})>>)
    /\ UNCHANGED <<buffer, fresh, watch, served>>

\* Another program writes or deletes a file.
ChangeFile(n) ==
    /\ Call
    /\ \E text \in {Absent, <<fresh>>} \ {files[n]} :
          /\ files' = [files EXCEPT ![n] = text]
          /\ watch' = [watch EXCEPT ![n] = Append(@, IF text = Absent THEN "deleted" ELSE "changed")]
    /\ fresh' = fresh + 1
    /\ UNCHANGED <<workspace, buffer, served, script, pub, crossDoc, renderNotify, screen>>

Client == \/ \E n \in Names : \/ DidOpen(n) \/ DidChange(n) \/ DidClose(n) \/ DidSave(n)
                              \/ DidChangeWatchedFiles(n) \/ ChangeFile(n)
          \/ DidChangeWorkspaceFolders \/ DidChangeConfiguration

---------------------------------------------------------------------------
(* The sections.                                                           *)

\* What is left of a script once its first section is done for n.
Without(sections, n) ==
    IF Head(sections).docs \subseteq {n} THEN Tail(sections)
    ELSE <<[Head(sections) EXCEPT !.docs = @ \ {n}]>> \o Tail(sections)

At(th, what) == script[th] # <<>> /\ Head(script[th]).do = what

Docs(th, what) == IF At(th, what) THEN Head(script[th]).docs ELSE {}

Done(th, n) == script' = [script EXCEPT ![th] = Without(@, n)]

\* A section that touches the workspace alone.
InWorkspace == UNCHANGED <<editor, disk, served, pub, crossDoc, renderNotify, screen>>

DoOpen(th) == \E n \in Docs(th, "open") :
    SetBuffer(n, buffer[n]) /\ Done(th, n) /\ InWorkspace

\* applyDidChange: the changes are applied to the text the server has.
DoUpdate(th) == \E n \in Docs(th, "update") :
    /\ SetBuffer(n, Applied(docs[n], Head(script[th]).edit)) /\ Done(th, n) /\ InWorkspace

\* loadFromDisk: a file that is gone is forgotten, and so is one too large to scan,
\* which `files` has as Absent too.
DoLoad(th) == \E n \in Docs(th, "load") :
    SetOnDisk(n, files[n]) /\ Done(th, n) /\ InWorkspace

DoDrop(th) == \E n \in Docs(th, "drop") :
    SetOnDisk(n, Absent) /\ Done(th, n) /\ InWorkspace

DoClose(th) == \E n \in Docs(th, "close") :
    CloseBuffer(n) /\ Done(th, n) /\ InWorkspace

DoMode(th) ==
    /\ At(th, "strict") \/ At(th, "lenient")
    /\ SetConformanceMode(Head(script[th]).do = "strict") /\ Done(th, Absent) /\ InWorkspace

\* A walk or a removal that found no file.
DoNothing(th) ==
    /\ At(th, "load") \/ At(th, "drop")
    /\ Head(script[th]).docs = {}
    /\ Done(th, Absent) /\ UNCHANGED workspace /\ InWorkspace

\* queueOpenDiagnostics: the sweep's key is the name it leaves out.
DoQueue(th) == \E n \in Docs(th, "queue") :
    /\ crossDoc' = Trigger(crossDoc, n) /\ Done(th, n)
    /\ UNCHANGED <<workspace, editor, disk, served, pub, renderNotify, screen>>

\* refreshOpenDiagnostics: a snapshot of the open names is swept.
DoRefresh(th) == \E except \in Docs(th, "refresh") :
    LET names == open \ {except}
    IN  /\ script' = [script EXCEPT ![th] = (IF names = {} THEN <<>> ELSE <<Section("sweep", names)>>) \o Tail(@)]
        /\ UNCHANGED workspace /\ InWorkspace

\* clearDiagnostics.
DoClear(th) == \E n \in Docs(th, "clear") :
    /\ pub = Free
    /\ markers' = [markers EXCEPT ![n] = 0] /\ Done(th, n)
    /\ UNCHANGED <<workspace, editor, disk, served, pub, crossDoc, renderNotify, rendered>>

\* publishOpenDiagnostics, up to the test: a name closed by now is passed over.
SkipClosed_KeepsLock(th) == \E n \in Docs(th, "sweep") \ open :
    /\ pub = Free /\ pub' = [Free EXCEPT !.by = "gone"] /\ Done(th, n)
    /\ UNCHANGED <<workspace, editor, disk, served, crossDoc, renderNotify, screen>>

SkipClosed(th) == \E n \in Docs(th, "sweep") \ open :
    pub = Free /\ Done(th, n) /\ UNCHANGED workspace /\ InWorkspace

\* publishDiagnostics and publishOpenDiagnostics take pubMu.
Lock_Untested(th) == \E n \in Docs(th, "publish") \cup Docs(th, "sweep") :
    /\ pub = Free /\ pub' = [Free EXCEPT !.by = th, !.doc = n]
    /\ UNCHANGED <<workspace, editor, disk, served, script, crossDoc, renderNotify, screen>>

Lock_AfterAnalysis(th) == \E n \in Docs(th, "publish") \cup (Docs(th, "sweep") \cap open) :
    LET found == Head(script[th]).edit.id
    IN  /\ IF found = 0
           THEN /\ script' = [script EXCEPT ![th] = <<[Head(@) EXCEPT !.edit.id = Analysis(n)]>> \o Tail(@)]
                /\ UNCHANGED pub
           ELSE /\ pub = Free /\ UNCHANGED script
                /\ pub' = [by |-> th, doc |-> n, analysed |-> TRUE, seen |-> found]
        /\ UNCHANGED <<workspace, editor, disk, served, crossDoc, renderNotify, screen>>

Lock(th) == \E n \in Docs(th, "publish") \cup (Docs(th, "sweep") \cap open) :
    /\ pub = Free /\ pub' = [Free EXCEPT !.by = th, !.doc = n]
    /\ UNCHANGED <<workspace, editor, disk, served, script, crossDoc, renderNotify, screen>>

\* sendDiagnosticsLocked: analyse, then send, then queue the redraw.
Analyse(th) ==
    /\ pub.by = th /\ ~pub.analysed
    /\ pub' = [pub EXCEPT !.analysed = TRUE, !.seen = Analysis(pub.doc)]
    /\ CacheAnalysis(pub.doc)
    /\ UNCHANGED <<editor, disk, served, script, crossDoc, renderNotify, screen>>

Send(th) ==
    /\ pub.by = th /\ pub.analysed
    /\ markers' = [markers EXCEPT ![pub.doc] = pub.seen]
    /\ renderNotify' = IF pub.doc \in Drawn THEN Trigger(renderNotify, pub.doc) ELSE renderNotify
    /\ pub' = Free /\ Done(th, pub.doc)
    /\ UNCHANGED <<workspace, editor, disk, served, crossDoc, rendered>>

---------------------------------------------------------------------------
(* The timers.                                                             *)

SweepExpires(k) ==
    /\ Armed(crossDoc, k) /\ crossDoc' = Expired(crossDoc, k)
    /\ UNCHANGED <<workspace, editor, disk, served, script, pub, renderNotify, screen>>

StartSweep(k) == \E th \in Sweeps :
    /\ Due(crossDoc, k) /\ script[th] = <<>>
    /\ crossDoc' = Forget(crossDoc, k)
    /\ script' = [script EXCEPT ![th] = <<Section("refresh", {k})>>]
    /\ UNCHANGED <<workspace, editor, disk, served, pub, renderNotify, screen>>

RedrawExpires(k) ==
    /\ Armed(renderNotify, k) /\ renderNotify' = Expired(renderNotify, k)
    /\ UNCHANGED <<workspace, editor, disk, served, script, pub, crossDoc, screen>>

\* notifyRenderChanged: the client redraws from what the server has by then.
Redraw(k) ==
    /\ Due(renderNotify, k) /\ renderNotify' = Forget(renderNotify, k)
    /\ rendered' = [rendered EXCEPT ![k] = revision]
    /\ UNCHANGED <<workspace, editor, disk, served, script, pub, crossDoc, markers>>

Advance(th) ==
    \/ DoOpen(th) \/ DoUpdate(th) \/ DoLoad(th) \/ DoDrop(th) \/ DoClose(th) \/ DoMode(th) \/ DoNothing(th)
    \/ DoQueue(th) \/ DoRefresh(th) \/ DoClear(th)
    \/ SkipClosed(th) \/ Lock(th) \/ Analyse(th) \/ Send(th)

Timer(k) == SweepExpires(k) \/ StartSweep(k) \/ RedrawExpires(k) \/ Redraw(k)

Next == Client \/ (\E th \in Threads : Advance(th)) \/ (\E k \in Names : Timer(k))

Spec == Init /\ [][Next]_vars

\* Handlers, timers and their goroutines are scheduled; of the client, of other
\* programs and of the reports of file events nothing is assumed.
FairSpec ==
    /\ Spec
    /\ \A th \in Threads : WF_vars(Advance(th))
    /\ \A k \in Names : WF_vars(Timer(k))

---------------------------------------------------------------------------
(* Properties.                                                             *)

Instructions == {"open", "update", "load", "drop", "close", "strict", "lenient",
                 "queue", "refresh", "clear", "publish", "sweep"}

\* The variables have their types; an open document exists, and whoever holds
\* pubMu is at a section that sends the document it holds it for.
TypeOK ==
    /\ open \subseteq Names /\ \A n \in open : docs[n] # Absent
    /\ revision \in Nat /\ strict \in BOOLEAN
    /\ diagCache \in [Names -> 0..revision] /\ markers \in [Names -> 0..revision]
    /\ rendered \in [Names -> 0..revision]
    /\ \A th \in Threads : \A i \in DOMAIN script[th] :
          /\ script[th][i].do \in Instructions
          /\ script[th][i].docs \subseteq Names \cup {Absent}
    /\ pub # Free => /\ pub.by \in Threads /\ pub.doc \in Names /\ pub.seen \in 0..revision
                     /\ pub.doc \in Docs(pub.by, "publish") \cup Docs(pub.by, "sweep")
    /\ \A k \in Names : \A d \in {crossDoc, renderNotify} :
          /\ d[k].entry \in {"none", "armed", "fired"}
          /\ d[k].armed \in Nat /\ d[k].fired \in Nat

\* The handler has yet to bring the workspace up to date with the tab of n.
Pending(n) ==
    \E i \in DOMAIN script["handler"] :
        script["handler"][i].do \in {"open", "update", "close"} /\ n \in script["handler"][i].docs

\* While a tab is open the text served is the editor's, edit by edit, whatever
\* happens to the file; a closed document has its file's text once the events of
\* the file have been reported and the folder is part of the session.
TextsHaveTheirSource ==
    \A n \in Names : ~Pending(n) =>
        /\ n \in open <=> buffer[n] # Absent
        /\ n \in open => docs[n] = buffer[n]
        /\ n \notin open /\ served /\ watch[n] = <<>> /\ script["handler"] = <<>> => docs[n] = files[n]

\* The handler is closing n and has not withdrawn its markers.
Closing(n) ==
    \E i \in DOMAIN script["handler"] :
        script["handler"][i].do = "clear" /\ n \in script["handler"][i].docs

\* A document that is not open has no markers, from the moment its closing has
\* withdrawn them: no sweep that saw it open brings them back.
ClosedStaysWithdrawn ==
    \A n \in Names : n \notin open /\ ~Closing(n) => markers[n] = 0

\* No older set of diagnostics of a document replaces a newer one, whichever
\* goroutines sent them.
PublishedInOrder == [][\A n \in Names : markers'[n] # 0 => markers'[n] >= markers[n]]_vars

Settled ==
    /\ \A th \in Threads : script[th] = <<>>
    /\ \A k \in Names : Quiet(crossDoc, k) /\ Quiet(renderNotify, k)

\* When nothing is under way any more, what an open document shows is an analysis
\* of the workspace as it is, and so is what a diagram client drew of it: each
\* change was followed by a refresh of every document it may concern.
SettledScreensAreCurrent ==
    Settled => /\ \A n \in open : markers[n] = revision
               /\ \A n \in open \cap Drawn : rendered[n] = revision

\* What was begun is finished: handlers return, timers run out, sweeps end, and
\* nobody keeps pubMu.
ServerSettles == []<>Settled
=============================================================================
