------------------------- MODULE LanguageServerProofs -------------------------
(***************************************************************************)
(* What LanguageServer keeps for any documents, any number of sweeps, any  *)
(* files at the start and any number of calls.                             *)
(***************************************************************************)
EXTENDS LanguageServer, SequenceTheorems, TLAPS

Texts == Seq(Nat)
TextOrNone == Texts \cup {Absent}
Edits == [whole : BOOLEAN, id : Nat]
Sections == [do : Instructions, docs : SUBSET (Names \cup {Absent}), edit : Edits]
Timers == [entry : {"none", "armed", "fired"}, armed : Nat, fired : Nat]
Holders == [by : Threads \cup {"nobody"}, doc : Names \cup {Absent}, analysed : BOOLEAN, seen : Nat]

TypeInv ==
  /\ docs \in [Names -> TextOrNone] /\ onDisk \in [Names -> TextOrNone]
  /\ files \in [Names -> TextOrNone] /\ buffer \in [Names -> TextOrNone]
  /\ open \subseteq Names /\ strict \in BOOLEAN /\ revision \in Nat
  /\ diagCache \in [Names -> Nat] /\ markers \in [Names -> Nat] /\ rendered \in [Names -> Nat]
  /\ watch \in [Names -> Seq({"changed", "deleted"})]
  /\ served \in BOOLEAN /\ calls \in Nat /\ fresh \in Nat
  /\ script \in [Threads -> Seq(Sections)]
  /\ pub \in Holders
  /\ crossDoc \in [Names -> Timers] /\ renderNotify \in [Names -> Timers]

----------------------------------------------------------------------------
(* What a script can look like.                                            *)

\* The sections that change the workspace by something other than a close.
Opening == {"open", "update", "load", "drop", "strict", "lenient"}

\* Some section of s still has `what` to do for n.
Ahead(s, what, n) == \E i \in DOMAIN s : s[i].do = what /\ n \in s[i].docs

\* A section after the i-th refreshes n, or clears it.
FollowedUp(s, i, n) ==
  \E j \in DOMAIN s :
    /\ j > i
    /\ \/ s[j].do \in {"publish", "clear"} /\ n \in s[j].docs
       \/ s[j].do \in {"queue", "refresh"} /\ n \notin s[j].docs

\* A handler changes the workspace first, closes a document after a read of its
\* file at most and clears it afterwards, and refreshes what it changed.
HandlerScript(s) ==
  \A i \in DOMAIN s :
    /\ s[i].do \in Opening => i = 1
    /\ s[i].do = "close" => i = 1 \/ (i = 2 /\ s[1].do = "load")
    /\ s[i].do = "close" =>
         \A n \in s[i].docs : \E j \in DOMAIN s : j > i /\ s[j].do = "clear" /\ n \in s[j].docs
    /\ s[i].do = "publish" => \A j \in DOMAIN s : s[j].do \notin {"load", "close", "clear"}
    /\ s[i].do \in {"open", "update", "load", "drop", "close", "clear", "publish", "queue"} =>
         s[i].docs \subseteq Names
    /\ s[i].do \in Opening \cup {"close"} => \A n \in Names : FollowedUp(s, i, n)

SweepScript(s) == \A i \in DOMAIN s : s[i].do \in {"refresh", "sweep"}

ScriptInv ==
  /\ HandlerScript(script["handler"])
  /\ \A th \in Sweeps : SweepScript(script[th])
  /\ \A th \in Threads : pub.by = th => pub.doc \in Names /\ pub.doc \in Docs(th, "publish") \cup Docs(th, "sweep")
  /\ pub.by = "nobody" => pub = Free

----------------------------------------------------------------------------
(* Where a text comes from.                                                *)

Todo(what, n) == Ahead(script["handler"], what, n)

\* What the handler still has to do to a tab says what the editor shows of it.
TabInv ==
  \A n \in Names :
    /\ Todo("open", n) => buffer[n] # Absent
    /\ Todo("update", n) => n \in open
    /\ Todo("close", n) \/ Todo("clear", n) => buffer[n] = Absent
    /\ n \in open => docs[n] # Absent
    /\ ~Pending(n) => (n \in open <=> buffer[n] # Absent)
    /\ ~Pending(n) /\ n \in open => docs[n] = buffer[n]
    /\ n \in Docs("handler", "update") =>
         buffer[n] = Applied(docs[n], Head(script["handler"]).edit)

\* What has been read of a file is what it holds, unless an event of it is on
\* its way or the handler is about to read or forget it.
FileInv ==
  \A n \in Names :
    /\ watch[n] # <<>> => (watch[n][Len(watch[n])] = "deleted" <=> files[n] = Absent)
    /\ watch[n] = <<>> =>
         /\ served /\ Todo("drop", n) => files[n] = Absent
         /\ ~Todo("load", n) /\ ~Todo("drop", n) /\ n \notin open =>
              docs[n] = files[n] \/ (~served /\ docs[n] = Absent)
         /\ Todo("close", n) /\ ~Todo("load", n) => onDisk[n] = files[n]

----------------------------------------------------------------------------
(* What a screen shows.                                                    *)

\* Diagnostics are never of a revision to come; a cached set is of this one; and
\* the set about to be sent is no older than the one it replaces, or none, which
\* an open document has only while the handler is closing it.
OrderInv ==
  /\ \A n \in Names :
       /\ diagCache[n] \in {0, revision} /\ markers[n] <= revision /\ rendered[n] <= revision
       /\ docs[n] # Absent => revision > 0
  /\ pub.seen <= revision
  /\ pub.by # "nobody" /\ pub.analysed =>
       /\ pub.seen = 0 \/ pub.seen >= markers[pub.doc]
       /\ pub.seen = 0 /\ pub.doc \in open => Todo("clear", pub.doc)

\* A document that is not open has no markers, nothing to be sent for it, or its
\* markers still to be withdrawn.
ClosedInv ==
  /\ \A n \in Names :
       /\ n \notin open /\ ~Todo("clear", n) => markers[n] = 0
       /\ Todo("publish", n) /\ ~Todo("open", n) /\ ~Todo("drop", n) => n \in open \/ docs[n] = Absent
  /\ pub.by # "nobody" =>
       \/ pub.doc \in open
       \/ Todo("clear", pub.doc)
       \/ pub.by = "handler" /\ At("handler", "publish") /\ pub.seen = 0

\* The set of n about to be sent was found before the last change.
Outdated(n) == pub.doc = n /\ pub.analysed /\ pub.seen # revision

\* The section i of th leads to new diagnostics of n.
Refreshes(th, i, n) ==
  \/ /\ script[th][i].do \in {"publish", "sweep"} /\ n \in script[th][i].docs
     /\ ~(pub.by = th /\ i = 1 /\ Outdated(n))
  \/ script[th][i].do \in {"queue", "refresh"} /\ n \notin script[th][i].docs

Refreshing(n) ==
  \/ \E th \in Threads : \E i \in DOMAIN script[th] : Refreshes(th, i, n)
  \/ \E k \in Names \ {n} : ~Quiet(crossDoc, k)

\* An open document shows this revision or is about to be refreshed.
ScreenInv ==
  \A n \in open : ~Todo("clear", n) =>
    /\ markers[n] = revision \/ Refreshing(n)
    /\ n \in Drawn => rendered[n] = revision \/ ~Quiet(renderNotify, n) \/ Refreshing(n)

ServerInv == TypeInv /\ ScriptInv /\ TabInv /\ FileInv /\ OrderInv /\ ClosedInv /\ ScreenInv

----------------------------------------------------------------------------
(* Scripts after a step.                                                   *)

\* The script w is s with its first section done (k = 1) or replaced (k = 0).
Rest(w, s, first, k) ==
  /\ w \in Seq(Sections) /\ k \in {0, 1}
  /\ Len(s) \in Nat \ {0} /\ Len(w) = Len(s) - k
  /\ DOMAIN w = 1..Len(w) /\ DOMAIN s = 1..Len(s)
  /\ \A i \in 1..Len(w) : w[i] = IF k = 0 /\ i = 1 THEN first ELSE s[i + k]

(* The tail of a script, and a script whose first section is replaced.      *)
LEMMA TailRests ==
  ASSUME NEW s \in Seq(Sections), s # <<>>, NEW first
  PROVE  Rest(Tail(s), s, first, 1)
BY HeadTailProperties, EmptySeq, LenProperties DEF Rest

(* A script whose first section has been put in place of another.          *)
LEMMA ReplacedRests ==
  ASSUME NEW s \in Seq(Sections), s # <<>>, NEW first \in Sections
  PROVE  Rest(<<first>> \o Tail(s), s, first, 0)
<1>1. /\ Tail(s) \in Seq(Sections) /\ Len(Tail(s)) = Len(s) - 1
      /\ \A i \in 1..(Len(s) - 1) : Tail(s)[i] = s[i + 1]
  BY HeadTailProperties
<1>2. Len(s) \in Nat \ {0} /\ DOMAIN s = 1..Len(s)
  BY EmptySeq, LenProperties
<1>3. <<first>> \in Seq(Sections) /\ Len(<<first>>) = 1 /\ <<first>>[1] = first
  OBVIOUS
<1> DEFINE w == <<first>> \o Tail(s)
<1>4. /\ w \in Seq(Sections) /\ Len(w) = 1 + (Len(s) - 1)
      /\ \A i \in 1..(1 + (Len(s) - 1)) : w[i] = IF i <= 1 THEN <<first>>[i] ELSE Tail(s)[i - 1]
  BY <1>1, <1>3, ConcatProperties
<1>5. DOMAIN w = 1..Len(w)
  BY <1>4, LenProperties
<1> HIDE DEF w
<1>6. Len(w) = Len(s)
  BY <1>2, <1>4
<1>7. ASSUME NEW i \in 1..Len(w) PROVE w[i] = IF i = 1 THEN first ELSE s[i + 0]
  <2>1. CASE i = 1
    BY <2>1, <1>2, <1>3, <1>4, <1>6
  <2>2. CASE i # 1
    <3>1. i - 1 \in 1..(Len(s) - 1) /\ (i - 1) + 1 = i /\ i + 0 = i /\ ~(i <= 1) /\ i \in 1..(1 + (Len(s) - 1))
      BY <2>2, <1>2, <1>6
    <3> QED BY <3>1, <1>1, <1>4, <2>2
  <2> QED BY <2>1, <2>2
<1>8. Rest(w, s, first, 0)
  BY <1>2, <1>4, <1>5, <1>6, <1>7 DEF Rest
<1> QED BY <1>8 DEF w

(* What is left of a script once a section is done for one document.        *)
LEMMA WithoutRests ==
  ASSUME NEW s \in Seq(Sections), s # <<>>, NEW n
  PROVE  \E k \in {0, 1} :
           /\ Rest(Without(s, n), s, [s[1] EXCEPT !.docs = @ \ {n}], k)
           /\ k = 1 => s[1].docs \subseteq {n}
<1>1. s[1] \in Sections /\ Head(s) = s[1]
  BY EmptySeq, ElementOfSeq, HeadTailProperties
<1>2. [s[1] EXCEPT !.docs = @ \ {n}] \in Sections
  BY <1>1 DEF Sections
<1>3. CASE s[1].docs \subseteq {n}
  BY <1>1, <1>3, TailRests DEF Without
<1>4. CASE ~(s[1].docs \subseteq {n})
  <2>1. Without(s, n) = <<[s[1] EXCEPT !.docs = @ \ {n}]>> \o Tail(s)
    BY <1>1, <1>4 DEF Without
  <2>2. Rest(Without(s, n), s, [s[1] EXCEPT !.docs = @ \ {n}], 0)
    BY <1>2, <2>1, ReplacedRests
  <2> QED BY <2>2
<1> QED BY <1>3, <1>4

(* A section after the first survives.                                      *)
LEMMA LaterSections ==
  ASSUME NEW s, NEW w, NEW first, NEW k, Rest(w, s, first, k), NEW j \in DOMAIN s, j > 1
  PROVE  j - k \in DOMAIN w /\ w[j - k] = s[j]
<1>1. j - k \in 1..Len(w) /\ (j - k) + k = j /\ ~(k = 0 /\ j - k = 1) /\ DOMAIN w = 1..Len(w)
  <2>1. CASE k = 0
    BY <2>1 DEF Rest
  <2>2. CASE k = 1
    BY <2>2 DEF Rest
  <2> QED BY <2>1, <2>2 DEF Rest
<1>2. \A i \in 1..Len(w) : w[i] = IF k = 0 /\ i = 1 THEN first ELSE s[i + k]
  BY DEF Rest
<1>3. w[j - k] = s[(j - k) + k]
  BY <1>1, <1>2
<1> QED BY <1>1, <1>3

(* Every other section of what is left was there before.                    *)
LEMMA EarlierSections ==
  ASSUME NEW s, NEW w, NEW first, NEW k, Rest(w, s, first, k), NEW i \in DOMAIN w, ~(k = 0 /\ i = 1)
  PROVE  i + k \in DOMAIN s /\ i + k > 1 /\ w[i] = s[i + k]
<1>1. i + k \in 1..Len(s) /\ i + k > 1 /\ i \in 1..Len(w)
  <2>1. CASE k = 0
    BY <2>1 DEF Rest
  <2>2. CASE k = 1
    BY <2>2 DEF Rest
  <2> QED BY <2>1, <2>2 DEF Rest
<1> QED BY <1>1 DEF Rest

(* Doing a section for n leaves what the script has to do for others, and   *)
(* what its other sections do.                                              *)
LEMMA AheadDone ==
  ASSUME NEW s \in Seq(Sections), s # <<>>, NEW n, NEW what, NEW m
  PROVE  /\ Ahead(Without(s, n), what, m) => Ahead(s, what, m)
         /\ Ahead(s, what, m) /\ ~(s[1].do = what /\ m = n) => Ahead(Without(s, n), what, m)
<1> DEFINE w == Without(s, n)
           first == [s[1] EXCEPT !.docs = @ \ {n}]
<1>1. PICK k \in {0, 1} : Rest(w, s, first, k) /\ (k = 1 => s[1].docs \subseteq {n})
  BY WithoutRests
<1>2. s[1] \in Sections
  BY EmptySeq, ElementOfSeq
<1>3. first.do = s[1].do /\ first.docs = s[1].docs \ {n}
  BY <1>2 DEF Sections
<1> HIDE DEF w, first
<1>4. ASSUME NEW i \in DOMAIN w, w[i].do = what, m \in w[i].docs
      PROVE  Ahead(s, what, m)
  <2>1. CASE k = 0 /\ i = 1
    <3>1. s[1].do = what /\ m \in s[1].docs /\ 1 \in DOMAIN s
      BY <1>1, <1>3, <1>4, <2>1 DEF Rest
    <3> QED BY <3>1 DEF Ahead
  <2>2. CASE ~(k = 0 /\ i = 1)
    <3>1. i + k \in DOMAIN s /\ w[i] = s[i + k]
      BY <1>1, <2>2, EarlierSections
    <3> QED BY <1>4, <3>1 DEF Ahead
  <2> QED BY <2>1, <2>2
<1>5. ASSUME NEW i \in DOMAIN s, s[i].do = what, m \in s[i].docs, ~(s[1].do = what /\ m = n)
      PROVE  Ahead(w, what, m)
  <2>1. CASE i = 1
    <3>1. k = 0 /\ m # n
      BY <1>1, <1>5, <2>1
    <3>2. 1 \in DOMAIN w /\ w[1] = first
      BY <1>1, <3>1 DEF Rest
    <3> QED BY <1>3, <1>5, <2>1, <3>1, <3>2 DEF Ahead
  <2>2. CASE i # 1
    <3>0. i > 1
      BY <1>1, <2>2 DEF Rest
    <3>1. i - k \in DOMAIN w /\ w[i - k] = s[i]
      BY <1>1, <3>0, LaterSections
    <3> QED BY <1>5, <3>1 DEF Ahead
  <2> QED BY <2>1, <2>2
<1> QED BY <1>4, <1>5 DEF Ahead, w

(* A handler's script stays one as its first section is done, for a document *)
(* or all, or turns from a refresh into the sweep it asks for.               *)
LEMMA HandlerScriptRests ==
  ASSUME NEW s, NEW w, NEW first, NEW k, Rest(w, s, first, k), HandlerScript(s),
         \/ first.do = s[1].do /\ first.docs \subseteq s[1].docs
         \/ first.do = "sweep" /\ s[1].do = "refresh"
  PROVE  HandlerScript(w)
<1> SUFFICES ASSUME NEW i \in DOMAIN w
             PROVE  /\ w[i].do \in Opening => i = 1
                    /\ w[i].do = "close" => i = 1 \/ (i = 2 /\ w[1].do = "load")
                    /\ w[i].do = "close" =>
                         \A n \in w[i].docs : \E j \in DOMAIN w : j > i /\ w[j].do = "clear" /\ n \in w[j].docs
                    /\ w[i].do = "publish" => \A j \in DOMAIN w : w[j].do \notin {"load", "close", "clear"}
                    /\ w[i].do \in {"open", "update", "load", "drop", "close", "clear", "publish", "queue"} =>
                         w[i].docs \subseteq Names
                    /\ w[i].do \in Opening \cup {"close"} => \A n \in Names : FollowedUp(w, i, n)
  BY DEF HandlerScript
<1>a. k \in {0, 1} /\ i \in Nat /\ i >= 1
  BY DEF Rest
<1>b. ASSUME NEW j \in DOMAIN w, w[j].do # "sweep"
      PROVE  j + k \in DOMAIN s /\ w[j].do = s[j + k].do /\ w[j].docs \subseteq s[j + k].docs
  <2>1. CASE k = 0 /\ j = 1
    <3>1. w[j] = first /\ 1 \in DOMAIN s /\ j + k = 1
      BY <2>1 DEF Rest
    <3> QED BY <1>b, <3>1
  <2>2. CASE ~(k = 0 /\ j = 1)
    BY <2>2, EarlierSections
  <2> QED BY <2>1, <2>2
<1>0. CASE w[i].do = "sweep"
  BY <1>0 DEF Opening
<1>1. CASE w[i].do # "sweep"
  <2> DEFINE i0 == i + k
  <2>1. i0 \in DOMAIN s /\ w[i].do = s[i0].do /\ w[i].docs \subseteq s[i0].docs
    BY <1>1, <1>b
  <2>2. w[i].do \in Opening => i = 1
    BY <1>a, <2>1 DEF HandlerScript
  <2>3. w[i].do = "close" => i = 1 \/ (i = 2 /\ w[1].do = "load")
    <3> SUFFICES ASSUME w[i].do = "close", i # 1 PROVE i = 2 /\ w[1].do = "load"
      OBVIOUS
    <3>1. i0 = 1 \/ (i0 = 2 /\ s[1].do = "load")
      BY <2>1 DEF HandlerScript
    <3>2. i = 2 /\ k = 0 /\ s[1].do = "load"
      BY <1>a, <3>1
    <3>3. w[1] = first
      BY <3>2 DEF Rest
    <3> QED BY <3>2, <3>3
  <2>4. ASSUME w[i].do = "close", NEW n \in w[i].docs
        PROVE  \E j \in DOMAIN w : j > i /\ w[j].do = "clear" /\ n \in w[j].docs
    <3>1. PICK j \in DOMAIN s : j > i0 /\ s[j].do = "clear" /\ n \in s[j].docs
      BY <2>1, <2>4 DEF HandlerScript
    <3>2. j \in Nat /\ j > 1
      BY <1>a, <3>1 DEF Rest
    <3>3. j - k \in DOMAIN w /\ w[j - k] = s[j]
      BY <3>2, LaterSections
    <3>4. j - k > i
      BY <1>a, <3>1, <3>2
    <3> QED BY <3>1, <3>3, <3>4
  <2>5. ASSUME w[i].do = "publish", NEW j \in DOMAIN w
        PROVE  w[j].do \notin {"load", "close", "clear"}
    <3>1. CASE w[j].do = "sweep"
      BY <3>1
    <3>2. CASE w[j].do # "sweep"
      BY <1>b, <2>1, <2>5, <3>2 DEF HandlerScript
    <3> QED BY <3>1, <3>2
  <2>6. w[i].do \in {"open", "update", "load", "drop", "close", "clear", "publish", "queue"} =>
          w[i].docs \subseteq Names
    BY <2>1 DEF HandlerScript
  <2>7. ASSUME w[i].do \in Opening \cup {"close"}, NEW n \in Names
        PROVE  FollowedUp(w, i, n)
    <3>1. PICK j \in DOMAIN s :
            /\ j > i0
            /\ \/ s[j].do \in {"publish", "clear"} /\ n \in s[j].docs
               \/ s[j].do \in {"queue", "refresh"} /\ n \notin s[j].docs
      BY <2>1, <2>7 DEF HandlerScript, FollowedUp
    <3>2. j \in Nat /\ j > 1
      BY <1>a, <3>1 DEF Rest
    <3>3. j - k \in DOMAIN w /\ w[j - k] = s[j]
      BY <3>2, LaterSections
    <3>4. j - k > i
      BY <1>a, <3>1, <3>2
    <3> QED BY <3>1, <3>3, <3>4 DEF FollowedUp
  <2> QED BY <2>2, <2>3, <2>4, <2>5, <2>6, <2>7
<1> QED BY <1>0, <1>1

(* The scripts a handler starts with.                                       *)
LEMMA HandlerScripts ==
  /\ <<>> \in Seq(Sections) /\ HandlerScript(<<>>)
  /\ \A X \in SUBSET Names :
       LET s == <<Section("load", X), Section("refresh", {Absent})>>
       IN  s \in Seq(Sections) /\ HandlerScript(s)
  /\ \A X \in SUBSET Names :
       LET s == <<Section("drop", X), Section("refresh", {Absent})>>
       IN  s \in Seq(Sections) /\ HandlerScript(s)
  /\ \A mode \in {"strict", "lenient"} :
       LET s == <<Section(mode, {Absent}), Section("refresh", {Absent})>>
       IN  s \in Seq(Sections) /\ HandlerScript(s)
  /\ \A n \in Names :
       LET s == <<Section("open", {n}), Section("publish", {n}), Section("queue", {n})>>
       IN  s \in Seq(Sections) /\ HandlerScript(s)
  /\ \A n \in Names : \A e \in Edits :
       LET s == <<[Section("update", {n}) EXCEPT !.edit = e], Section("publish", {n}), Section("queue", {n})>>
       IN  s \in Seq(Sections) /\ HandlerScript(s)
  /\ \A n \in Names :
       LET s == <<Section("load", {n}), Section("close", {n}), Section("clear", {n}), Section("queue", {n})>>
       IN  s \in Seq(Sections) /\ HandlerScript(s)
  /\ \A n \in Names :
       LET s == <<Section("publish", {n}), Section("refresh", {n})>>
       IN  s \in Seq(Sections) /\ HandlerScript(s)
  /\ \A n \in Names :
       LET s == <<Section("drop", {n}), Section("publish", {n}), Section("refresh", {Absent})>>
       IN  s \in Seq(Sections) /\ HandlerScript(s)
<1> USE NamesAssumption
<1>0. /\ \A what \in Instructions : \A X \in SUBSET (Names \cup {Absent}) :
           /\ Section(what, X) \in Sections
           /\ Section(what, X).do = what /\ Section(what, X).docs = X
      /\ NoEdit \in Edits
  BY DEF Section, Sections, NoEdit, Edits
<1>1. <<>> \in Seq(Sections) /\ HandlerScript(<<>>)
  BY EmptySeq DEF HandlerScript
<1>a. ASSUME NEW s, NEW i \in DOMAIN s, NEW j \in DOMAIN s, NEW m, j > i,
             \/ s[j].do \in {"publish", "clear"} /\ m \in s[j].docs
             \/ s[j].do \in {"queue", "refresh"} /\ m \notin s[j].docs
      PROVE  FollowedUp(s, i, m)
  BY <1>a DEF FollowedUp
<1>2. ASSUME NEW what \in {"load", "drop", "strict", "lenient"}, NEW X \in SUBSET (Names \cup {Absent}),
             what \in {"load", "drop"} => X \subseteq Names,
             NEW s, s = <<Section(what, X), Section("refresh", {Absent})>>
      PROVE  s \in Seq(Sections) /\ HandlerScript(s)
  <2>1. /\ Section(what, X) \in Sections /\ Section("refresh", {Absent}) \in Sections
        /\ Section(what, X).do = what /\ Section(what, X).docs = X
        /\ Section("refresh", {Absent}).do = "refresh" /\ Section("refresh", {Absent}).docs = {Absent}
    BY <1>0 DEF Instructions
  <2>b. s \in Seq(Sections)
    BY <1>2, <2>1
  <2>2. DOMAIN s = {1, 2} /\ s[1] = Section(what, X) /\ s[2] = Section("refresh", {Absent})
    BY <1>2, <2>1
  <2>3. ASSUME NEW m \in Names PROVE FollowedUp(s, 1, m)
    BY <1>a, <2>1, <2>2
  <2>4. s[1].do = what /\ s[1].docs = X /\ s[2].do = "refresh"
    BY <2>1, <2>2
  <2> QED BY <2>b, <1>2, <2>2, <2>3, <2>4 DEF HandlerScript, Opening
<1>4. ASSUME NEW n \in Names, NEW first \in Sections, first.do \in {"open", "update"}, first.docs = {n},
             NEW s, s = <<first, Section("publish", {n}), Section("queue", {n})>>
      PROVE  s \in Seq(Sections) /\ HandlerScript(s)
  <2>1. /\ Section("publish", {n}) \in Sections /\ Section("queue", {n}) \in Sections
        /\ Section("publish", {n}).do = "publish" /\ Section("publish", {n}).docs = {n}
        /\ Section("queue", {n}).do = "queue" /\ Section("queue", {n}).docs = {n}
    BY <1>0 DEF Instructions
  <2>b. s \in Seq(Sections)
    BY <1>4, <2>1
  <2>2. DOMAIN s = {1, 2, 3}
        /\ s[1] = first /\ s[2] = Section("publish", {n}) /\ s[3] = Section("queue", {n})
    BY <1>4, <2>1
  <2>4. s[2].do = "publish" /\ s[2].docs = {n} /\ s[3].do = "queue" /\ s[3].docs = {n}
    BY <2>1, <2>2
  <2>3. ASSUME NEW m \in Names PROVE FollowedUp(s, 1, m)
    <3>1. CASE m = n
      <4>1. 1 \in DOMAIN s /\ 2 \in DOMAIN s /\ 2 > 1
        BY <2>2
      <4>2. m \in s[2].docs /\ s[2].do \in {"publish", "clear"}
        BY <2>4, <3>1
      <4> QED BY <1>a, <4>1, <4>2
    <3>2. CASE m # n
      <4>1. 1 \in DOMAIN s /\ 3 \in DOMAIN s /\ 3 > 1
        BY <2>2
      <4>2. m \notin s[3].docs /\ s[3].do \in {"queue", "refresh"}
        BY <2>4, <3>2
      <4> QED BY <1>a, <4>1, <4>2
    <3> QED BY <3>1, <3>2
  <2> QED BY <2>b, <1>4, <2>2, <2>3, <2>4 DEF HandlerScript, Opening
<1>5. ASSUME NEW n \in Names,
             NEW s, s = <<Section("load", {n}), Section("close", {n}), Section("clear", {n}), Section("queue", {n})>>
      PROVE  s \in Seq(Sections) /\ HandlerScript(s)
  <2>1. /\ Section("load", {n}) \in Sections /\ Section("close", {n}) \in Sections
        /\ Section("clear", {n}) \in Sections /\ Section("queue", {n}) \in Sections
        /\ Section("load", {n}).do = "load" /\ Section("load", {n}).docs = {n}
        /\ Section("close", {n}).do = "close" /\ Section("close", {n}).docs = {n}
        /\ Section("clear", {n}).do = "clear" /\ Section("clear", {n}).docs = {n}
        /\ Section("queue", {n}).do = "queue" /\ Section("queue", {n}).docs = {n}
    BY <1>0 DEF Instructions
  <2>b. s \in Seq(Sections)
    BY <1>5, <2>1
  <2>2. DOMAIN s = {1, 2, 3, 4}
        /\ s[1] = Section("load", {n}) /\ s[2] = Section("close", {n})
        /\ s[3] = Section("clear", {n}) /\ s[4] = Section("queue", {n})
    BY <1>5, <2>1
  <2>4. /\ s[1].do = "load" /\ s[1].docs = {n} /\ s[2].do = "close" /\ s[2].docs = {n}
        /\ s[3].do = "clear" /\ s[3].docs = {n} /\ s[4].do = "queue" /\ s[4].docs = {n}
    BY <2>1, <2>2
  <2>3. ASSUME NEW i \in {1, 2}, NEW m \in Names PROVE FollowedUp(s, i, m)
    <3>0. 3 \in DOMAIN s /\ 4 \in DOMAIN s /\ i \in DOMAIN s /\ 3 > i /\ 4 > i
      BY <2>2
    <3>1. CASE m = n
      BY <1>a, <2>4, <3>0, <3>1
    <3>2. CASE m # n
      BY <1>a, <2>4, <3>0, <3>2
    <3> QED BY <3>1, <3>2
  <2>5. ASSUME NEW i \in DOMAIN s
        PROVE  /\ s[i].do \in Opening => i = 1
               /\ s[i].do = "close" => i = 2
               /\ s[i].do # "publish" /\ s[i].docs \subseteq Names
               /\ s[i].do \in Opening \cup {"close"} => i \in {1, 2}
    BY <2>2, <2>4 DEF Opening
  <2>6. ASSUME NEW m \in s[2].docs PROVE \E j \in DOMAIN s : j > 2 /\ s[j].do = "clear" /\ m \in s[j].docs
    <3>1. 3 \in DOMAIN s /\ 3 > 2 /\ s[3].do = "clear" /\ m \in s[3].docs
      BY <2>2, <2>4, <2>6
    <3> QED BY <3>1
  <2> QED BY <2>b, <2>2, <2>3, <2>4, <2>5, <2>6 DEF HandlerScript
<1>6. ASSUME NEW n \in Names, NEW s, s = <<Section("publish", {n}), Section("refresh", {n})>>
      PROVE  s \in Seq(Sections) /\ HandlerScript(s)
  <2>1. /\ Section("publish", {n}) \in Sections /\ Section("refresh", {n}) \in Sections
        /\ Section("publish", {n}).do = "publish" /\ Section("publish", {n}).docs = {n}
        /\ Section("refresh", {n}).do = "refresh"
    BY <1>0 DEF Instructions
  <2>b. s \in Seq(Sections)
    BY <1>6, <2>1
  <2>2. DOMAIN s = {1, 2} /\ s[1] = Section("publish", {n}) /\ s[2] = Section("refresh", {n})
    BY <1>6, <2>1
  <2> QED BY <2>b, <2>1, <2>2 DEF HandlerScript, Opening
<1>7. ASSUME NEW n \in Names,
             NEW s, s = <<Section("drop", {n}), Section("publish", {n}), Section("refresh", {Absent})>>
      PROVE  s \in Seq(Sections) /\ HandlerScript(s)
  <2>1. /\ Section("drop", {n}) \in Sections /\ Section("publish", {n}) \in Sections
        /\ Section("refresh", {Absent}) \in Sections
        /\ Section("drop", {n}).do = "drop" /\ Section("drop", {n}).docs = {n}
        /\ Section("publish", {n}).do = "publish" /\ Section("publish", {n}).docs = {n}
        /\ Section("refresh", {Absent}).do = "refresh" /\ Section("refresh", {Absent}).docs = {Absent}
    BY <1>0 DEF Instructions
  <2>b. s \in Seq(Sections)
    BY <1>7, <2>1
  <2>2. DOMAIN s = {1, 2, 3}
        /\ s[1] = Section("drop", {n}) /\ s[2] = Section("publish", {n}) /\ s[3] = Section("refresh", {Absent})
    BY <1>7, <2>1
  <2>4. /\ s[1].do = "drop" /\ s[1].docs = {n} /\ s[2].do = "publish" /\ s[2].docs = {n}
        /\ s[3].do = "refresh" /\ s[3].docs = {Absent}
    BY <2>1, <2>2
  <2>3. ASSUME NEW m \in Names PROVE FollowedUp(s, 1, m)
    <3>1. 3 \in DOMAIN s /\ 1 \in DOMAIN s /\ 3 > 1 /\ m \notin s[3].docs
      BY <2>2, <2>4
    <3> QED BY <1>a, <2>4, <3>1
  <2> QED BY <2>b, <2>2, <2>3, <2>4 DEF HandlerScript, Opening
<1>8. ASSUME NEW n \in Names PROVE Section("open", {n}) \in Sections
                                   /\ Section("open", {n}).do = "open" /\ Section("open", {n}).docs = {n}
  BY <1>0 DEF Instructions
<1>9. ASSUME NEW n \in Names, NEW e \in Edits
      PROVE  LET u == [Section("update", {n}) EXCEPT !.edit = e]
             IN  u \in Sections /\ u.do = "update" /\ u.docs = {n}
  BY DEF Section, Sections, Instructions
<1> QED BY <1>1, <1>2, <1>4, <1>5, <1>6, <1>7, <1>8, <1>9

----------------------------------------------------------------------------
(* Steps that do a section.                                                *)

(* The first section of a script that has one to do for n.                  *)
LEMMA SectionFacts ==
  ASSUME TypeInv, NEW th \in Threads, NEW what, At(th, what) \/ \E n : n \in Docs(th, what)
  PROVE  /\ script[th] \in Seq(Sections) /\ script[th] # <<>> /\ 1 \in DOMAIN script[th]
         /\ Head(script[th]) = script[th][1] /\ script[th][1] \in Sections
         /\ script[th][1].do = what
         /\ Docs(th, what) = script[th][1].docs
<1>1. script[th] \in Seq(Sections) /\ script[th] # <<>> /\ Head(script[th]).do = what
      /\ Docs(th, what) = Head(script[th]).docs
  BY DEF TypeInv, At, Docs
<1>2. Len(script[th]) \in Nat \ {0} /\ DOMAIN script[th] = 1..Len(script[th])
  BY <1>1, EmptySeq, LenProperties
<1>3. 1 \in DOMAIN script[th]
  BY <1>2
<1> QED BY <1>1, <1>3, HeadTailProperties, ElementOfSeq

(* What only the handler does, and for which names.                         *)
LEMMA OnlyHandler ==
  ASSUME TypeInv, ScriptInv, NEW th \in Threads, NEW what \in Instructions \ {"refresh", "sweep"},
         At(th, what) \/ \E n : n \in Docs(th, what)
  PROVE  /\ th = "handler"
         /\ what \notin {"strict", "lenient"} => script[th][1].docs \subseteq Names
<1>1. 1 \in DOMAIN script[th] /\ script[th][1].do = what
  BY SectionFacts
<1>2. th = "handler"
  BY <1>1 DEF ScriptInv, SweepScript, Threads
<1>3. what \notin {"strict", "lenient"} => script[th][1].docs \subseteq Names
  BY <1>1, <1>2 DEF ScriptInv, HandlerScript, Instructions
<1> QED BY <1>2, <1>3

(* Whoever holds pubMu is at a section that sends diagnostics.              *)
LEMMA Unheld ==
  ASSUME ScriptInv, NEW th \in Threads, ~At(th, "publish"), ~At(th, "sweep")
  PROVE  pub.by # th
BY DEF ScriptInv, Docs

(* A step that does the first section of th for n.                          *)
LEMMA DoneStep ==
  ASSUME TypeInv, ScriptInv, NEW th \in Threads, script[th] # <<>>, NEW n, Done(th, n)
  PROVE  /\ script' \in [Threads -> Seq(Sections)]
         /\ HandlerScript(script'["handler"])
         /\ \A t \in Sweeps : SweepScript(script'[t])
         /\ \A t \in Threads \ {th} : script'[t] = script[t]
         /\ \E k \in {0, 1} : /\ Rest(script'[th], script[th], [script[th][1] EXCEPT !.docs = @ \ {n}], k)
                              /\ k = 1 => script[th][1].docs \subseteq {n}
         /\ \A what, m : /\ Todo(what, m)' => Todo(what, m)
                         /\ Todo(what, m) /\ ~(th = "handler" /\ script[th][1].do = what /\ m = n)
                              => Todo(what, m)'
<1> DEFINE s == script[th]
           first == [s[1] EXCEPT !.docs = @ \ {n}]
<1>1. s \in Seq(Sections) /\ s # <<>> /\ s[1] \in Sections
  BY EmptySeq, ElementOfSeq DEF TypeInv
<1>2. script' = [script EXCEPT ![th] = Without(s, n)]
  BY DEF Done
<1>3. /\ script'[th] = Without(s, n)
      /\ \A t \in Threads \ {th} : script'[t] = script[t]
  BY <1>2 DEF TypeInv
<1>4. PICK k \in {0, 1} : Rest(script'[th], s, first, k) /\ (k = 1 => s[1].docs \subseteq {n})
  BY <1>1, <1>3, WithoutRests
<1>5. first.do = s[1].do /\ first.docs \subseteq s[1].docs
  BY <1>1 DEF Sections
<1>6. script'[th] \in Seq(Sections)
  BY <1>4 DEF Rest
<1>7. script' \in [Threads -> Seq(Sections)]
  BY <1>2, <1>3, <1>6 DEF TypeInv
<1>8. HandlerScript(script'["handler"])
  <2>1. CASE th = "handler"
    <3>1. HandlerScript(s)
      BY <2>1 DEF ScriptInv
    <3> HIDE DEF first, s
    <3>2. HandlerScript(script'[th])
      BY <1>4, <1>5, <3>1, HandlerScriptRests
    <3> QED BY <2>1, <3>2
  <2>2. CASE th # "handler"
    BY <1>3, <2>2 DEF ScriptInv, Threads
  <2> QED BY <2>1, <2>2
<1>9. ASSUME NEW t \in Sweeps PROVE SweepScript(script'[t])
  <2>1. CASE t = th
    <3>1. SweepScript(s)
      BY <2>1 DEF ScriptInv
    <3> HIDE DEF first, s
    <3>2. ASSUME NEW i \in DOMAIN script'[th] PROVE script'[th][i].do \in {"refresh", "sweep"}
      <4>1. CASE k = 0 /\ i = 1
        <5>1. script'[th][i] = first /\ 1 \in DOMAIN s
          BY <1>4, <4>1 DEF Rest
        <5> QED BY <1>5, <3>1, <5>1 DEF SweepScript
      <4>2. CASE ~(k = 0 /\ i = 1)
        BY <1>4, <3>1, <4>2, EarlierSections DEF SweepScript
      <4> QED BY <4>1, <4>2
    <3> QED BY <2>1, <3>2 DEF SweepScript
  <2>2. CASE t # th
    BY <1>3, <2>2 DEF ScriptInv, Threads
  <2> QED BY <2>1, <2>2
<1>10. ASSUME NEW what, NEW m
       PROVE  /\ Todo(what, m)' => Todo(what, m)
              /\ Todo(what, m) /\ ~(th = "handler" /\ s[1].do = what /\ m = n) => Todo(what, m)'
  <2>1. CASE th = "handler"
    BY <1>1, <1>3, <2>1, AheadDone DEF Todo
  <2>2. CASE th # "handler"
    <3>1. script'["handler"] = script["handler"]
      BY <1>3, <2>2 DEF Threads
    <3> QED BY <2>2, <3>1 DEF Todo
  <2> QED BY <2>1, <2>2
<1> QED BY <1>3, <1>4, <1>7, <1>8, <1>9, <1>10

(* A handler that begins.                                                   *)
LEMMA StartStep ==
  ASSUME TypeInv, ScriptInv, script["handler"] = <<>>,
         NEW s, s \in Seq(Sections), HandlerScript(s),
         script' = [script EXCEPT !["handler"] = s], pub' = pub
  PROVE  /\ script' \in [Threads -> Seq(Sections)] /\ ScriptInv'
         /\ \A t \in Threads \ {"handler"} : script'[t] = script[t]
         /\ script'["handler"] = s
         /\ \A what, m : ~Todo(what, m) /\ (Todo(what, m)' <=> Ahead(s, what, m))
         /\ pub.by # "handler"
<1>1. "handler" \in Threads /\ \A t \in Sweeps : t \in Threads /\ t # "handler"
  BY ServerAssumption DEF Threads
<1>2. /\ script' \in [Threads -> Seq(Sections)]
      /\ \A t \in Threads \ {"handler"} : script'[t] = script[t]
      /\ script'["handler"] = s
  BY <1>1 DEF TypeInv
<1>3. pub.by # "handler"
  BY <1>1, Unheld DEF At
<1>4. \A what, m : ~Todo(what, m) /\ (Todo(what, m)' <=> Ahead(s, what, m))
  BY <1>2 DEF Todo, Ahead
<1>5. HandlerScript(script'["handler"]) /\ \A th \in Sweeps : SweepScript(script'[th])
  BY <1>1, <1>2 DEF ScriptInv
<1>6. ASSUME NEW th \in Threads, pub'.by = th
      PROVE  pub'.doc \in Names /\ pub'.doc \in Docs(th, "publish")' \cup Docs(th, "sweep")'
  <2>1. script'[th] = script[th]
    BY <1>2, <1>3, <1>6
  <2> QED BY <1>6, <2>1 DEF ScriptInv, Docs, At
<1>7. pub'.by = "nobody" => pub' = Free
  BY DEF ScriptInv
<1> QED BY <1>2, <1>3, <1>4, <1>5, <1>6, <1>7 DEF ScriptInv

(* What is ahead in a script of two sections.                              *)
LEMMA AheadOf2 ==
  ASSUME NEW a, NEW b, NEW what, NEW m
  PROVE  Ahead(<<a, b>>, what, m) <=>
              (a.do = what /\ m \in a.docs) \/ (b.do = what /\ m \in b.docs)
<1>1. DOMAIN <<a, b>> = {1, 2}
  OBVIOUS
<1>2. <<a, b>>[1] = a /\ <<a, b>>[2] = b
  OBVIOUS
<1> QED BY <1>1, <1>2 DEF Ahead

(* What is ahead in a script of three sections.                            *)
LEMMA AheadOf3 ==
  ASSUME NEW a, NEW b, NEW c, NEW what, NEW m
  PROVE  Ahead(<<a, b, c>>, what, m) <=>
              (a.do = what /\ m \in a.docs) \/ (b.do = what /\ m \in b.docs) \/ (c.do = what /\ m \in c.docs)
<1>1. DOMAIN <<a, b, c>> = {1, 2, 3}
  OBVIOUS
<1>2. <<a, b, c>>[1] = a /\ <<a, b, c>>[2] = b /\ <<a, b, c>>[3] = c
  OBVIOUS
<1> QED BY <1>1, <1>2 DEF Ahead

(* What is ahead in a script of four sections.                             *)
LEMMA AheadOf4 ==
  ASSUME NEW a, NEW b, NEW c, NEW d, NEW what, NEW m
  PROVE  Ahead(<<a, b, c, d>>, what, m) <=>
              (a.do = what /\ m \in a.docs) \/ (b.do = what /\ m \in b.docs) \/ (c.do = what /\ m \in c.docs)
              \/ (d.do = what /\ m \in d.docs)
<1>1. DOMAIN <<a, b, c, d>> = {1, 2, 3, 4}
  OBVIOUS
<1>2. <<a, b, c, d>>[1] = a /\ <<a, b, c, d>>[2] = b /\ <<a, b, c, d>>[3] = c /\ <<a, b, c, d>>[4] = d
  OBVIOUS
<1> QED BY <1>1, <1>2 DEF Ahead

(* The fields of a section.                                                 *)
LEMMA SectionOf ==
  ASSUME NEW what, NEW X
  PROVE  Section(what, X).do = what /\ Section(what, X).docs = X /\ Section(what, X).edit = NoEdit
BY DEF Section

(* A step of a section that does not touch pubMu.                           *)
LEMMA DoneUnheld ==
  ASSUME TypeInv, ScriptInv, NEW th \in Threads, script[th] # <<>>, NEW n, Done(th, n),
         pub' = pub, pub.by # th
  PROVE  ScriptInv'
<1>1. /\ HandlerScript(script'["handler"]) /\ \A t \in Sweeps : SweepScript(script'[t])
      /\ \A t \in Threads \ {th} : script'[t] = script[t]
  BY DoneStep
<1>2. ASSUME NEW t \in Threads, pub'.by = t
      PROVE  pub'.doc \in Names /\ pub'.doc \in Docs(t, "publish")' \cup Docs(t, "sweep")'
  <2>1. script'[t] = script[t]
    BY <1>1, <1>2
  <2> QED BY <1>2, <2>1 DEF ScriptInv, Docs, At
<1>3. pub'.by = "nobody" => pub' = Free
  BY DEF ScriptInv
<1> QED BY <1>1, <1>2, <1>3 DEF ScriptInv

(* The names of a debouncer.                                                *)
LEMMA TimerSteps ==
  ASSUME NEW d \in [Names -> Timers], NEW k \in Names
  PROVE  /\ Trigger(d, k) \in [Names -> Timers] /\ ~Quiet(Trigger(d, k), k)
         /\ Armed(d, k) => Expired(d, k) \in [Names -> Timers] /\ ~Quiet(Expired(d, k), k)
         /\ Due(d, k) => Forget(d, k) \in [Names -> Timers]
         /\ \A m \in Names \ {k} : /\ Trigger(d, k)[m] = d[m] /\ Expired(d, k)[m] = d[m]
                                   /\ Forget(d, k)[m] = d[m]
<1>1. d[k] \in Timers /\ d[k].entry \in {"none", "armed", "fired"} /\ d[k].armed \in Nat /\ d[k].fired \in Nat
  BY DEF Timers
<1>2. ASSUME NEW e PROVE d[k].armed + One(d[k].entry = e) \in Nat /\ d[k].fired + One(d[k].entry = e) \in Nat
  <2>1. CASE d[k].entry = e
    BY <1>1, <2>1 DEF One
  <2>2. CASE d[k].entry # e
    BY <1>1, <2>2 DEF One
  <2> QED BY <2>1, <2>2
<1>3. Trigger(d, k) \in [Names -> Timers] /\ ~Quiet(Trigger(d, k), k)
  <2>1. [entry |-> "armed", armed |-> d[k].armed, fired |-> d[k].fired + One(d[k].entry = "fired")] \in Timers
    BY <1>1, <1>2 DEF Timers
  <2> QED BY <2>1 DEF Trigger, Quiet, NoTimer
<1>4. ASSUME Armed(d, k) PROVE Expired(d, k) \in [Names -> Timers] /\ ~Quiet(Expired(d, k), k)
  <2>1. CASE d[k].entry = "armed"
    <3>1. Expired(d, k) = [d EXCEPT ![k] = [d[k] EXCEPT !.entry = "fired"]]
      BY <2>1 DEF Expired
    <3>2. [d[k] EXCEPT !.entry = "fired"] \in Timers /\ [d[k] EXCEPT !.entry = "fired"].entry = "fired"
      BY <1>1 DEF Timers
    <3>3. Expired(d, k)[k].entry = "fired"
      BY <3>1, <3>2
    <3> QED BY <3>1, <3>2, <3>3 DEF Quiet, NoTimer
  <2>2. CASE d[k].entry # "armed"
    <3> DEFINE t == [entry |-> d[k].entry, armed |-> d[k].armed - 1, fired |-> d[k].fired + 1]
    <3>1. Expired(d, k) = [d EXCEPT ![k] = t]
      <4>1. [[d[k] EXCEPT !.armed = @ - 1] EXCEPT !.fired = @ + 1] = t
        <5>1. [d[k] EXCEPT !.armed = @ - 1] = [entry |-> d[k].entry, armed |-> d[k].armed - 1, fired |-> d[k].fired]
          BY <1>1 DEF Timers
        <5>2. ASSUME NEW u, u = [entry |-> d[k].entry, armed |-> d[k].armed - 1, fired |-> d[k].fired]
              PROVE  [u EXCEPT !.fired = @ + 1] = t
          BY <5>2
        <5> QED BY <5>1, <5>2
      <4>2. Expired(d, k) = [d EXCEPT ![k] = [[d[k] EXCEPT !.armed = @ - 1] EXCEPT !.fired = @ + 1]]
        BY <2>2 DEF Expired
      <4> QED BY <4>1, <4>2
    <3>2. d[k].armed > 0
      BY <1>4, <2>2 DEF Armed
    <3>3. t \in Timers /\ t.fired = d[k].fired + 1
      BY <1>1, <3>2 DEF Timers
    <3> HIDE DEF t
    <3>4. Expired(d, k)[k].fired # 0
      BY <1>1, <3>1, <3>3
    <3> QED BY <3>1, <3>3, <3>4 DEF Quiet, NoTimer
  <2> QED BY <2>1, <2>2
<1>5. ASSUME Due(d, k) PROVE Forget(d, k) \in [Names -> Timers]
  <2>1. d[k].armed + One(d[k].entry = "armed") \in Nat
    BY <1>2
  <2>2. d[k].fired + One(d[k].entry = "fired") - 1 \in Nat
    <3>1. CASE d[k].entry = "fired"
      BY <1>1, <3>1 DEF One
    <3>2. CASE d[k].entry # "fired"
      BY <1>1, <1>5, <3>2 DEF Due, One
    <3> QED BY <3>1, <3>2
  <2>3. [entry |-> "none", armed |-> d[k].armed + One(d[k].entry = "armed"),
         fired |-> d[k].fired + One(d[k].entry = "fired") - 1] \in Timers
    BY <2>1, <2>2 DEF Timers
  <2> QED BY <2>3 DEF Forget
<1>6. \A m \in Names \ {k} : /\ Trigger(d, k)[m] = d[m] /\ Expired(d, k)[m] = d[m]
                             /\ Forget(d, k)[m] = d[m]
  BY DEF Trigger, Expired, Forget
<1> QED BY <1>3, <1>4, <1>5, <1>6

----------------------------------------------------------------------------
(* The client's steps.                                                     *)

(* What a handler that begins cannot disturb: the workspace, what is sent   *)
(* and what is shown stay as they are.                                      *)
LEMMA StartKeeps ==
  ASSUME ServerInv, script["handler"] = <<>>,
         NEW s, s \in Seq(Sections), HandlerScript(s),
         script' = [script EXCEPT !["handler"] = s],
         UNCHANGED <<workspace, pub, crossDoc, renderNotify, screen>>,
         \A n \in Names : Ahead(s, "publish", n) /\ ~Ahead(s, "open", n) /\ ~Ahead(s, "drop", n) =>
                            n \in open \/ docs[n] = Absent
  PROVE  ScriptInv' /\ OrderInv' /\ ClosedInv' /\ ScreenInv'
<1>0. TypeInv /\ ScriptInv /\ OrderInv /\ ClosedInv /\ ScreenInv
  BY DEF ServerInv
<1>1. pub' = pub /\ markers' = markers /\ rendered' = rendered /\ crossDoc' = crossDoc
      /\ renderNotify' = renderNotify /\ docs' = docs /\ open' = open
      /\ diagCache' = diagCache /\ revision' = revision
  BY DEF workspace, screen
<1>2. /\ ScriptInv' /\ pub.by # "handler"
      /\ \A t \in Threads \ {"handler"} : script'[t] = script[t]
      /\ \A what, m : ~Todo(what, m) /\ (Todo(what, m)' <=> Ahead(s, what, m))
  BY <1>0, <1>1, StartStep
<1>3. OrderInv'
  BY <1>0, <1>1, <1>2 DEF OrderInv
<1>4. ClosedInv'
  <2>1. \A n \in Names : n \notin open' /\ ~Todo("clear", n)' => markers'[n] = 0
    BY <1>0, <1>1, <1>2 DEF ClosedInv
  <2>2. \A n \in Names : Todo("publish", n)' /\ ~Todo("open", n)' /\ ~Todo("drop", n)' =>
                           n \in open' \/ docs'[n] = Absent
    BY <1>1, <1>2
  <2>3. pub'.by # "nobody" => pub'.doc \in open'
    BY <1>0, <1>1, <1>2 DEF ClosedInv
  <2> QED BY <2>1, <2>2, <2>3 DEF ClosedInv
<1>5. ASSUME NEW n \in Names, Refreshing(n)
      PROVE  Refreshing(n)'
  <2>1. CASE \E k \in Names \ {n} : ~Quiet(crossDoc, k)
    BY <1>1, <2>1 DEF Refreshing, Quiet
  <2>2. CASE \E th \in Threads : \E i \in DOMAIN script[th] : Refreshes(th, i, n)
    <3>0. PICK th \in Threads : \E i \in DOMAIN script[th] : Refreshes(th, i, n)
      BY <2>2
    <3>1. PICK i \in DOMAIN script[th] : Refreshes(th, i, n)
      BY <3>0
    <3>2. th # "handler"
      BY <3>1
    <3>3. script'[th] = script[th]
      BY <1>2, <3>2
    <3>4. Refreshes(th, i, n)'
      BY <1>1, <3>1, <3>3 DEF Refreshes, Outdated
    <3> QED BY <3>3, <3>4 DEF Refreshing
  <2> QED BY <1>5, <2>1, <2>2 DEF Refreshing
<1>6. ScreenInv'
  <2> SUFFICES ASSUME NEW n \in open', ~Todo("clear", n)'
               PROVE  /\ markers'[n] = revision' \/ Refreshing(n)'
                      /\ n \in Drawn => rendered'[n] = revision' \/ ~Quiet(renderNotify, n)' \/ Refreshing(n)'
    BY DEF ScreenInv
  <2>1. n \in open /\ n \in Names /\ ~Todo("clear", n)
    BY <1>0, <1>1, <1>2 DEF TypeInv
  <2> QED BY <1>0, <1>1, <1>5, <2>1 DEF ScreenInv, Quiet
<1> QED BY <1>2, <1>3, <1>4, <1>6

(* DidOpen: the text of a new tab is on its way to the workspace.           *)
LEMMA OpenKeeps ==
  ASSUME ServerInv, NEW n \in Names, DidOpen(n)
  PROVE  ServerInv'
<1> DEFINE s == <<Section("open", {n}), Section("publish", {n}), Section("queue", {n})>>
<1>0. TypeInv /\ ScriptInv /\ TabInv /\ FileInv
  BY DEF ServerInv
<1>1. s \in Seq(Sections) /\ HandlerScript(s)
  BY HandlerScripts
<1>2. ASSUME NEW what, NEW m PROVE Ahead(s, what, m) <=> what \in {"open", "publish", "queue"} /\ m = n
  <2>1. Ahead(s, what, m) <=> ("open" = what /\ m \in {n}) \/ ("publish" = what /\ m \in {n})
                              \/ ("queue" = what /\ m \in {n})
    BY AheadOf3, SectionOf
  <2> QED BY <2>1
<1>3. /\ script["handler"] = <<>> /\ script' = [script EXCEPT !["handler"] = s]
      /\ UNCHANGED <<workspace, files, pub, crossDoc, renderNotify, screen, watch, served>>
      /\ buffer[n] = Absent /\ fresh' = fresh + 1 /\ calls > 0 /\ calls' = calls - 1
      /\ \E text \in {<<fresh>>, files[n]} \ {Absent} : buffer' = [buffer EXCEPT ![n] = text]
  BY DEF DidOpen, Handle, Call
<1> HIDE DEF s
<1>4. /\ docs' = docs /\ onDisk' = onDisk /\ open' = open /\ files' = files /\ watch' = watch
      /\ served' = served /\ markers' = markers /\ rendered' = rendered /\ diagCache' = diagCache
      /\ strict' = strict /\ revision' = revision
  BY <1>3 DEF workspace, screen
<1>5. /\ script' \in [Threads -> Seq(Sections)]
      /\ script'["handler"] = s
      /\ \A what, m : ~Todo(what, m) /\ (Todo(what, m)' <=> Ahead(s, what, m))
  BY <1>0, <1>1, <1>3, StartStep
<1>6. PICK text \in TextOrNone \ {Absent} : buffer' = [buffer EXCEPT ![n] = text]
  <2>1. <<fresh>> \in Texts /\ files[n] \in TextOrNone
    BY <1>0 DEF TypeInv, Texts
  <2> QED BY <1>3, <2>1 DEF TextOrNone
<1>7. TypeInv'
  BY <1>0, <1>3, <1>4, <1>5, <1>6 DEF TypeInv
<1>8. ScriptInv' /\ OrderInv' /\ ClosedInv' /\ ScreenInv'
  <2>1. \A m \in Names : Ahead(s, "publish", m) /\ ~Ahead(s, "open", m) /\ ~Ahead(s, "drop", m) =>
                           m \in open \/ docs[m] = Absent
    BY <1>2
  <2> QED BY <1>1, <1>3, <2>1, StartKeeps
<1>9. TabInv'
  <2>1. \A m \in Names : /\ ~Pending(m)
                         /\ Pending(m)' <=> m = n
                         /\ ~(m \in Docs("handler", "update")')
    <3>1. \A m : /\ Pending(m) <=> Todo("open", m) \/ Todo("update", m) \/ Todo("close", m)
                 /\ Pending(m)' <=> Todo("open", m)' \/ Todo("update", m)' \/ Todo("close", m)'
      BY DEF Pending, Todo, Ahead
    <3>2. script'["handler"] # <<>> /\ Head(script'["handler"]).do = "open"
      BY <1>5 DEF s, Section
    <3> QED BY <1>2, <1>5, <3>1, <3>2 DEF Docs, At
  <2>2. buffer'[n] # Absent /\ \A m \in Names \ {n} : buffer'[m] = buffer[m]
    BY <1>0, <1>6 DEF TypeInv
  <2>3. ASSUME NEW m \in Names
        PROVE  /\ ~Todo("update", m)' /\ ~Todo("close", m)' /\ ~Todo("clear", m)'
               /\ Todo("open", m)' => m = n
    BY <1>2, <1>5
  <2> QED BY <1>0, <1>4, <2>1, <2>2, <2>3 DEF TabInv
<1>10. FileInv'
  BY <1>0, <1>2, <1>4, <1>5 DEF FileInv
<1> QED BY <1>7, <1>8, <1>9, <1>10 DEF ServerInv

(* A text that is changed is a text.                                        *)
LEMMA AppliedType ==
  ASSUME NEW text \in TextOrNone, NEW edit \in Edits
  PROVE  Applied(text, edit) \in TextOrNone /\ Applied(text, edit) # Absent
<1>1. edit.id \in Nat /\ <<edit.id>> \in Texts
  BY DEF Edits, Texts
<1>2. text # Absent => Append(text, edit.id) \in Texts
  BY <1>1 DEF Texts, TextOrNone
<1>3. Applied(text, edit) \in Texts
  BY <1>1, <1>2 DEF Applied
<1> QED BY <1>3, ServerAssumption DEF Texts, TextOrNone

(* Pending says what is ahead.                                              *)
LEMMA PendingTodo ==
  ASSUME NEW n
  PROVE  /\ Pending(n) <=> Todo("open", n) \/ Todo("update", n) \/ Todo("close", n)
         /\ Pending(n)' <=> Todo("open", n)' \/ Todo("update", n)' \/ Todo("close", n)'
BY DEF Pending, Todo, Ahead

(* DidChange: the change is on its way to the workspace.                    *)
LEMMA ChangeKeeps ==
  ASSUME ServerInv, NEW n \in Names, DidChange(n)
  PROVE  ServerInv'
<1>0. TypeInv /\ ScriptInv /\ TabInv /\ FileInv
  BY DEF ServerInv
<1>1. PICK whole \in BOOLEAN :
        /\ buffer' = [buffer EXCEPT ![n] = Applied(@, [whole |-> whole, id |-> fresh])]
        /\ Handle(<<[Section("update", {n}) EXCEPT !.edit = [whole |-> whole, id |-> fresh]],
                    Section("publish", {n}), Section("queue", {n})>>)
  BY DEF DidChange
<1> DEFINE edit == [whole |-> whole, id |-> fresh]
           first == [Section("update", {n}) EXCEPT !.edit = edit]
           s == <<first, Section("publish", {n}), Section("queue", {n})>>
<1>2. edit \in Edits
  BY <1>0 DEF TypeInv, Edits
<1>3. s \in Seq(Sections) /\ HandlerScript(s)
  BY <1>2, HandlerScripts
<1>4. first.do = "update" /\ first.docs = {n} /\ first.edit = edit
  BY DEF Section
<1>5. /\ script["handler"] = <<>> /\ script' = [script EXCEPT !["handler"] = s]
      /\ buffer' = [buffer EXCEPT ![n] = Applied(@, edit)]
      /\ UNCHANGED <<workspace, files, pub, crossDoc, renderNotify, screen, watch, served>>
      /\ buffer[n] # Absent /\ fresh' = fresh + 1 /\ calls > 0 /\ calls' = calls - 1
  BY <1>1 DEF DidChange, Handle, Call
<1> HIDE DEF edit, first
<1>6. ASSUME NEW what, NEW m PROVE Ahead(s, what, m) <=> what \in {"update", "publish", "queue"} /\ m = n
  <2>1. Ahead(s, what, m) <=> ("update" = what /\ m \in {n}) \/ ("publish" = what /\ m \in {n})
                              \/ ("queue" = what /\ m \in {n})
    BY <1>4, AheadOf3, SectionOf
  <2> QED BY <2>1
<1>7. s # <<>> /\ Head(s) = first
  OBVIOUS
<1> HIDE DEF s
<1>8. /\ docs' = docs /\ onDisk' = onDisk /\ open' = open /\ files' = files /\ watch' = watch
      /\ served' = served /\ markers' = markers /\ rendered' = rendered /\ diagCache' = diagCache
      /\ strict' = strict /\ revision' = revision
  BY <1>5 DEF workspace, screen
<1>9. /\ script' \in [Threads -> Seq(Sections)]
      /\ script'["handler"] = s
      /\ \A what, m : ~Todo(what, m) /\ (Todo(what, m)' <=> Ahead(s, what, m))
  BY <1>0, <1>3, <1>5, StartStep
<1>10. Applied(buffer[n], edit) \in TextOrNone /\ Applied(buffer[n], edit) # Absent
  BY <1>0, <1>2, AppliedType DEF TypeInv
<1>11. TypeInv'
  BY <1>0, <1>5, <1>8, <1>9, <1>10 DEF TypeInv
<1>12. \A m : ~Pending(m) /\ (Pending(m)' <=> m = n)
  BY <1>6, <1>9, PendingTodo
<1>13. n \in open /\ docs[n] = buffer[n]
  BY <1>0, <1>5, <1>12 DEF TabInv
<1>14. ScriptInv' /\ OrderInv' /\ ClosedInv' /\ ScreenInv'
  <2>1. \A m \in Names : Ahead(s, "publish", m) => m \in open
    BY <1>6, <1>13
  <2> QED BY <1>3, <1>5, <2>1, StartKeeps
<1>15. TabInv'
  <2>1. Docs("handler", "update")' = {n} /\ Head(script'["handler"]).edit = edit
    BY <1>4, <1>7, <1>9 DEF Docs, At
  <2>2. /\ buffer'[n] = Applied(docs'[n], Head(script'["handler"]).edit) /\ buffer'[n] # Absent
        /\ \A m \in Names \ {n} : buffer'[m] = buffer[m]
    BY <1>0, <1>5, <1>8, <1>10, <1>13, <2>1 DEF TypeInv
  <2>3. ASSUME NEW m \in Names
        PROVE  /\ ~Todo("open", m)' /\ ~Todo("close", m)' /\ ~Todo("clear", m)'
               /\ Todo("update", m)' => m = n
    BY <1>6, <1>9
  <2> QED BY <1>0, <1>8, <1>12, <1>13, <2>1, <2>2, <2>3 DEF TabInv
<1>16. FileInv'
  BY <1>0, <1>6, <1>8, <1>9 DEF FileInv
<1> QED BY <1>11, <1>14, <1>15, <1>16 DEF ServerInv

(* DidClose: the tab is gone, its closing and clearing are to be done.      *)
LEMMA CloseKeeps ==
  ASSUME ServerInv, NEW n \in Names, DidClose(n)
  PROVE  ServerInv'
<1> DEFINE s == <<Section("load", {n}), Section("close", {n}), Section("clear", {n}), Section("queue", {n})>>
<1>0. TypeInv /\ ScriptInv /\ TabInv /\ FileInv
  BY DEF ServerInv
<1>1. s \in Seq(Sections) /\ HandlerScript(s)
  BY HandlerScripts
<1>2. ASSUME NEW what, NEW m
      PROVE  Ahead(s, what, m) <=> what \in {"load", "close", "clear", "queue"} /\ m = n
  <2>1. Ahead(s, what, m) <=> \/ ("load" = what /\ m \in {n}) \/ ("close" = what /\ m \in {n})
                              \/ ("clear" = what /\ m \in {n}) \/ ("queue" = what /\ m \in {n})
    BY AheadOf4, SectionOf
  <2> QED BY <2>1
<1>3. /\ script["handler"] = <<>> /\ script' = [script EXCEPT !["handler"] = s]
      /\ buffer' = [buffer EXCEPT ![n] = Absent]
      /\ UNCHANGED <<workspace, files, pub, crossDoc, renderNotify, screen, fresh, watch, served>>
      /\ calls > 0 /\ calls' = calls - 1
  BY DEF DidClose, Handle, Call
<1>4. s # <<>> /\ Head(s).do = "load"
  BY SectionOf
<1> HIDE DEF s
<1>5. /\ docs' = docs /\ onDisk' = onDisk /\ open' = open /\ files' = files /\ watch' = watch
      /\ served' = served /\ markers' = markers /\ rendered' = rendered /\ diagCache' = diagCache
      /\ strict' = strict /\ revision' = revision
  BY <1>3 DEF workspace, screen
<1>6. /\ script' \in [Threads -> Seq(Sections)]
      /\ script'["handler"] = s
      /\ \A what, m : ~Todo(what, m) /\ (Todo(what, m)' <=> Ahead(s, what, m))
  BY <1>0, <1>1, <1>3, StartStep
<1>7. TypeInv'
  BY <1>0, <1>3, <1>5, <1>6 DEF TypeInv, TextOrNone
<1>8. ScriptInv' /\ OrderInv' /\ ClosedInv' /\ ScreenInv'
  <2>1. \A m \in Names : ~Ahead(s, "publish", m)
    BY <1>2
  <2> QED BY <1>1, <1>3, <2>1, StartKeeps
<1>9. TabInv'
  <2>1. \A m : ~Pending(m) /\ (Pending(m)' <=> m = n)
    BY <1>2, <1>6, PendingTodo
  <2>2. Docs("handler", "update")' = {}
    BY <1>4, <1>6 DEF Docs, At
  <2>3. buffer'[n] = Absent /\ \A m \in Names \ {n} : buffer'[m] = buffer[m]
    BY <1>0, <1>3 DEF TypeInv
  <2>4. ASSUME NEW m \in Names
        PROVE  /\ ~Todo("open", m)' /\ ~Todo("update", m)'
               /\ Todo("close", m)' \/ Todo("clear", m)' => m = n
    BY <1>2, <1>6
  <2> QED BY <1>0, <1>5, <2>1, <2>2, <2>3, <2>4 DEF TabInv
<1>10. FileInv'
  BY <1>0, <1>2, <1>5, <1>6 DEF FileInv
<1> QED BY <1>7, <1>8, <1>9, <1>10 DEF ServerInv

(* A queue of file events: what is added comes last.                         *)
LEMMA AppendLast ==
  ASSUME NEW E, NEW w \in Seq(E), NEW e \in E
  PROVE  Append(w, e) \in Seq(E) /\ Append(w, e) # <<>> /\ Append(w, e)[Len(Append(w, e))] = e
BY AppendProperties

(* Its last event stays last until it is the one reported.                   *)
LEMMA TailLast ==
  ASSUME NEW E, NEW w \in Seq(E), w # <<>>
  PROVE  /\ Tail(w) \in Seq(E)
         /\ Tail(w) # <<>> => Tail(w)[Len(Tail(w))] = w[Len(w)]
         /\ Tail(w) = <<>> => Head(w) = w[Len(w)]
<1> DEFINE t == Tail(w)
<1>1. /\ t \in Seq(E) /\ Len(t) = Len(w) - 1 /\ Head(w) = w[1]
      /\ \A i \in 1..(Len(w) - 1) : t[i] = w[i + 1]
  BY HeadTailProperties
<1>2. Len(w) \in Nat \ {0}
  BY EmptySeq, LenProperties
<1>3. \A k \in Nat \ {0} : k - 1 # 0 => k - 1 \in 1..(k - 1) /\ (k - 1) + 1 = k
  OBVIOUS
<1> HIDE DEF t
<1>4. t = <<>> <=> Len(t) = 0
  BY <1>1, EmptySeq
<1>5. ASSUME t # <<>> PROVE t[Len(t)] = w[Len(w)]
  <2>1. Len(w) - 1 # 0
    BY <1>1, <1>4, <1>5
  <2>2. Len(w) - 1 \in 1..(Len(w) - 1) /\ (Len(w) - 1) + 1 = Len(w)
    BY <1>2, <1>3, <2>1
  <2> QED BY <1>1, <2>2
<1>6. ASSUME t = <<>> PROVE Head(w) = w[Len(w)]
  <2>1. Len(w) = 1
    BY <1>1, <1>2, <1>4, <1>6
  <2> QED BY <1>1, <2>1
<1> QED BY <1>1, <1>5, <1>6 DEF t

(* DidSave: the file has the tab's text, and its event is on its way.        *)
LEMMA SaveKeeps ==
  ASSUME ServerInv, NEW n \in Names, DidSave(n)
  PROVE  ServerInv'
<1> DEFINE s == <<Section("publish", {n}), Section("refresh", {n})>>
<1>0. TypeInv /\ ScriptInv /\ TabInv /\ FileInv
  BY DEF ServerInv
<1>1. s \in Seq(Sections) /\ HandlerScript(s)
  BY HandlerScripts
<1>2. ASSUME NEW what, NEW m PROVE Ahead(s, what, m) <=> what \in {"publish", "refresh"} /\ m = n
  <2>1. Ahead(s, what, m) <=> ("publish" = what /\ m \in {n}) \/ ("refresh" = what /\ m \in {n})
    BY AheadOf2, SectionOf
  <2> QED BY <2>1
<1>3. /\ script["handler"] = <<>> /\ script' = [script EXCEPT !["handler"] = s]
      /\ files' = [files EXCEPT ![n] = buffer[n]]
      /\ watch' = [watch EXCEPT ![n] = Append(@, "changed")]
      /\ UNCHANGED <<workspace, buffer, fresh, served, pub, crossDoc, renderNotify, screen>>
      /\ buffer[n] # Absent /\ calls > 0 /\ calls' = calls - 1
  BY DEF DidSave, Call
<1>4. s # <<>> /\ Head(s).do = "publish"
  BY SectionOf
<1> HIDE DEF s
<1>5. /\ docs' = docs /\ onDisk' = onDisk /\ open' = open /\ buffer' = buffer
      /\ served' = served /\ markers' = markers /\ rendered' = rendered /\ diagCache' = diagCache
      /\ strict' = strict /\ revision' = revision
  BY <1>3 DEF workspace, screen
<1>6. /\ script' \in [Threads -> Seq(Sections)]
      /\ script'["handler"] = s
      /\ \A what, m : ~Todo(what, m) /\ (Todo(what, m)' <=> Ahead(s, what, m))
  BY <1>0, <1>1, <1>3, StartStep
<1>7. /\ watch[n] \in Seq({"changed", "deleted"})
      /\ watch'[n] = Append(watch[n], "changed") /\ files'[n] = buffer[n]
      /\ \A m \in Names \ {n} : watch'[m] = watch[m] /\ files'[m] = files[m]
  BY <1>0, <1>3 DEF TypeInv
<1>8. /\ watch'[n] \in Seq({"changed", "deleted"}) /\ watch'[n] # <<>>
      /\ watch'[n][Len(watch'[n])] = "changed"
  BY <1>7, AppendLast
<1>9. TypeInv'
  BY <1>0, <1>3, <1>5, <1>6, <1>7, <1>8 DEF TypeInv
<1>10. \A m : ~Pending(m) /\ ~Pending(m)'
  BY <1>2, <1>6, PendingTodo
<1>11. n \in open
  BY <1>0, <1>3, <1>10 DEF TabInv
<1>12. ScriptInv' /\ OrderInv' /\ ClosedInv' /\ ScreenInv'
  <2>1. \A m \in Names : Ahead(s, "publish", m) => m \in open
    BY <1>2, <1>11
  <2> QED BY <1>1, <1>3, <2>1, StartKeeps
<1>13. TabInv'
  <2>1. Docs("handler", "update")' = {}
    BY <1>4, <1>6 DEF Docs, At
  <2>2. ASSUME NEW m \in Names
        PROVE  ~Todo("open", m)' /\ ~Todo("update", m)' /\ ~Todo("close", m)' /\ ~Todo("clear", m)'
    BY <1>2, <1>6
  <2> QED BY <1>0, <1>5, <1>10, <2>1, <2>2 DEF TabInv
<1>14. FileInv'
  <2>1. ASSUME NEW m \in Names
        PROVE  /\ ~Todo("load", m)' /\ ~Todo("drop", m)' /\ ~Todo("close", m)'
               /\ ~Todo("load", m) /\ ~Todo("drop", m) /\ ~Todo("close", m)
    BY <1>2, <1>6
  <2>2. watch'[n] # <<>> /\ watch'[n][Len(watch'[n])] # "deleted" /\ files'[n] # Absent
    BY <1>3, <1>7, <1>8
  <2> QED BY <1>0, <1>5, <1>7, <2>1, <2>2 DEF FileInv
<1> QED BY <1>9, <1>12, <1>13, <1>14 DEF ServerInv

(* ChangeFile: another program writes a file, and its event is on its way.   *)
LEMMA FileKeeps ==
  ASSUME ServerInv, NEW n \in Names, ChangeFile(n)
  PROVE  ServerInv'
<1>0. TypeInv /\ ScriptInv /\ TabInv /\ FileInv /\ OrderInv /\ ClosedInv /\ ScreenInv
  BY DEF ServerInv
<1>1. PICK text \in {Absent, <<fresh>>} \ {files[n]} :
        /\ files' = [files EXCEPT ![n] = text]
        /\ watch' = [watch EXCEPT ![n] = Append(@, IF text = Absent THEN "deleted" ELSE "changed")]
  BY DEF ChangeFile
<1>2. /\ UNCHANGED <<workspace, buffer, served, script, pub, crossDoc, renderNotify, screen>>
      /\ calls > 0 /\ calls' = calls - 1 /\ fresh' = fresh + 1
  BY DEF ChangeFile, Call
<1>3. /\ docs' = docs /\ onDisk' = onDisk /\ open' = open /\ buffer' = buffer
      /\ served' = served /\ markers' = markers /\ rendered' = rendered /\ diagCache' = diagCache
      /\ strict' = strict /\ revision' = revision /\ script' = script /\ pub' = pub
      /\ crossDoc' = crossDoc /\ renderNotify' = renderNotify
  BY <1>2 DEF workspace, screen
<1> DEFINE e == IF text = Absent THEN "deleted" ELSE "changed"
<1>4. e \in {"changed", "deleted"} /\ (e = "deleted" <=> text = Absent)
  OBVIOUS
<1> HIDE DEF e
<1>5. /\ watch[n] \in Seq({"changed", "deleted"})
      /\ watch'[n] = Append(watch[n], e) /\ files'[n] = text
      /\ \A m \in Names \ {n} : watch'[m] = watch[m] /\ files'[m] = files[m]
  BY <1>0, <1>1 DEF TypeInv, e
<1>6. watch'[n] \in Seq({"changed", "deleted"}) /\ watch'[n] # <<>> /\ watch'[n][Len(watch'[n])] = e
  BY <1>4, <1>5, AppendLast
<1>7. text \in TextOrNone
  <2>1. fresh \in Nat
    BY <1>0 DEF TypeInv
  <2>2. <<fresh>> \in Texts
    BY <2>1 DEF Texts
  <2> QED BY <2>2 DEF TextOrNone
<1>8. TypeInv'
  BY <1>0, <1>1, <1>2, <1>3, <1>5, <1>6, <1>7 DEF TypeInv
<1>9. ScriptInv' /\ TabInv'
  BY <1>0, <1>3 DEF ScriptInv, TabInv, Docs, At, Todo, Pending
<1>10. OrderInv' /\ ClosedInv'
  BY <1>0, <1>3 DEF OrderInv, ClosedInv, At, Todo
<1>11. ScreenInv'
  BY <1>0, <1>3 DEF ScreenInv, Todo, Quiet, Refreshing, Refreshes, Outdated
<1>12. FileInv'
  <2>1. \A what, m : Todo(what, m)' <=> Todo(what, m)
    BY <1>3 DEF Todo
  <2> QED BY <1>0, <1>3, <1>4, <1>5, <1>6, <2>1 DEF FileInv
<1> QED BY <1>8, <1>9, <1>10, <1>11, <1>12 DEF ServerInv

(* A handler that begins to read or to forget files disturbs no tab.         *)
LEMMA ReadKeeps ==
  ASSUME ServerInv, script["handler"] = <<>>,
         NEW s, s \in Seq(Sections), HandlerScript(s), s # <<>>, Head(s).do # "update",
         script' = [script EXCEPT !["handler"] = s],
         UNCHANGED <<workspace, buffer, pub, crossDoc, renderNotify, screen>>,
         \A what \in {"open", "update", "close", "clear"} : \A m \in Names : ~Ahead(s, what, m),
         \A m \in Names : Ahead(s, "publish", m) => Ahead(s, "drop", m)
  PROVE  ScriptInv' /\ TabInv' /\ OrderInv' /\ ClosedInv' /\ ScreenInv'
<1>0. TypeInv /\ ScriptInv /\ TabInv
  BY DEF ServerInv
<1>1. docs' = docs /\ open' = open /\ buffer' = buffer /\ pub' = pub
  BY DEF workspace
<1>2. /\ script'["handler"] = s
      /\ \A what, m : ~Todo(what, m) /\ (Todo(what, m)' <=> Ahead(s, what, m))
  BY <1>0, <1>1, StartStep
<1>3. ScriptInv' /\ OrderInv' /\ ClosedInv' /\ ScreenInv'
  BY StartKeeps
<1>4. TabInv'
  <2>1. \A m \in Names : ~Pending(m) /\ ~Pending(m)'
    BY <1>2, PendingTodo
  <2>2. Docs("handler", "update")' = {}
    BY <1>2 DEF Docs, At
  <2>3. ASSUME NEW m \in Names
        PROVE  ~Todo("open", m)' /\ ~Todo("update", m)' /\ ~Todo("close", m)' /\ ~Todo("clear", m)'
    BY <1>2
  <2> QED BY <1>0, <1>1, <2>1, <2>2, <2>3 DEF TabInv
<1> QED BY <1>3, <1>4

(* DidChangeWatchedFiles: the oldest event of a file is reported.            *)
LEMMA WatchKeeps ==
  ASSUME ServerInv, NEW n \in Names, DidChangeWatchedFiles(n)
  PROVE  ServerInv'
<1>0. TypeInv /\ ScriptInv /\ FileInv
  BY DEF ServerInv
<1> DEFINE what0 == IF Head(watch[n]) = "deleted" THEN "drop" ELSE "load"
           s == IF Head(watch[n]) = "deleted"
                THEN <<Section("drop", {n}), Section("publish", {n}), Section("refresh", {Absent})>>
                ELSE <<Section("load", {n}), Section("refresh", {Absent})>>
<1>1. s \in Seq(Sections) /\ HandlerScript(s)
  <2>1. CASE Head(watch[n]) = "deleted"
    BY <2>1, HandlerScripts
  <2>2. CASE Head(watch[n]) # "deleted"
    <3>1. {n} \in SUBSET Names
      OBVIOUS
    <3> QED BY <2>2, <3>1, HandlerScripts
  <2> QED BY <2>1, <2>2
<1>2. ASSUME NEW what, NEW m \in Names
      PROVE  Ahead(s, what, m) <=> (what = what0 \/ (what0 = "drop" /\ what = "publish")) /\ m = n
  <2>1. CASE Head(watch[n]) = "deleted"
    <3>1. Ahead(s, what, m) <=> ("drop" = what /\ m \in {n}) \/ ("publish" = what /\ m \in {n})
                                \/ ("refresh" = what /\ m \in {Absent})
      BY <2>1, AheadOf3, SectionOf
    <3> QED BY <2>1, <3>1, NamesAssumption
  <2>2. CASE Head(watch[n]) # "deleted"
    <3>1. Ahead(s, what, m) <=> ("load" = what /\ m \in {n}) \/ ("refresh" = what /\ m \in {Absent})
      BY <2>2, AheadOf2, SectionOf
    <3> QED BY <2>2, <3>1, NamesAssumption
  <2> QED BY <2>1, <2>2
<1>3. /\ script["handler"] = <<>> /\ script' = [script EXCEPT !["handler"] = s]
      /\ UNCHANGED <<workspace, files, pub, crossDoc, renderNotify, screen, editor, served>>
      /\ watch[n] # <<>> /\ watch' = [watch EXCEPT ![n] = Tail(@)]
  BY DEF DidChangeWatchedFiles, Handle
<1>4. s # <<>> /\ Head(s).do # "update"
  BY SectionOf
<1>5. what0 \in {"drop", "load"} /\ (what0 = "drop" <=> Head(watch[n]) = "deleted")
  OBVIOUS
<1> HIDE DEF s, what0
<1>6. /\ docs' = docs /\ onDisk' = onDisk /\ open' = open /\ buffer' = buffer /\ files' = files
      /\ served' = served /\ markers' = markers /\ rendered' = rendered /\ diagCache' = diagCache
      /\ strict' = strict /\ revision' = revision /\ calls' = calls /\ fresh' = fresh
  BY <1>3 DEF workspace, screen, editor
<1>7. /\ script' \in [Threads -> Seq(Sections)]
      /\ \A what, m : ~Todo(what, m) /\ (Todo(what, m)' <=> Ahead(s, what, m))
  BY <1>0, <1>1, <1>3, StartStep
<1>8. /\ watch[n] \in Seq({"changed", "deleted"}) /\ watch'[n] = Tail(watch[n])
      /\ \A m \in Names \ {n} : watch'[m] = watch[m]
  BY <1>0, <1>3 DEF TypeInv
<1>9. /\ watch'[n] \in Seq({"changed", "deleted"})
      /\ watch'[n] # <<>> => watch'[n][Len(watch'[n])] = watch[n][Len(watch[n])]
      /\ watch'[n] = <<>> => Head(watch[n]) = watch[n][Len(watch[n])]
  BY <1>3, <1>8, TailLast
<1>10. TypeInv'
  BY <1>0, <1>3, <1>6, <1>7, <1>8, <1>9 DEF TypeInv
<1>11. ScriptInv' /\ TabInv' /\ OrderInv' /\ ClosedInv' /\ ScreenInv'
  <2>1. \A what \in {"open", "update", "close", "clear"} : \A m \in Names : ~Ahead(s, what, m)
    BY <1>2, <1>5
  <2>2. \A m \in Names : Ahead(s, "publish", m) => Ahead(s, "drop", m)
    BY <1>2, <1>5
  <2> QED BY <1>1, <1>3, <1>4, <1>6, <2>1, <2>2, ReadKeeps
<1>12. FileInv'
  <2>1. ASSUME NEW m \in Names
        PROVE  /\ ~Todo("load", m) /\ ~Todo("drop", m) /\ ~Todo("close", m)
               /\ ~Todo("close", m)'
               /\ Todo("load", m)' <=> m = n /\ what0 = "load"
               /\ Todo("drop", m)' <=> m = n /\ what0 = "drop"
    BY <1>2, <1>5, <1>7
  <2>2. watch[n][Len(watch[n])] = "deleted" <=> files[n] = Absent
    BY <1>0, <1>3 DEF FileInv
  <2>3. watch'[n] # <<>> => (watch'[n][Len(watch'[n])] = "deleted" <=> files'[n] = Absent)
    BY <1>6, <1>9, <2>2
  <2>4. watch'[n] = <<>> => (what0 = "drop" => files'[n] = Absent)
    BY <1>5, <1>6, <1>9, <2>2
  <2> QED BY <1>0, <1>5, <1>6, <1>8, <2>1, <2>3, <2>4 DEF FileInv
<1> QED BY <1>10, <1>11, <1>12 DEF ServerInv

(* DidChangeWorkspaceFolders: the folder leaves the session or joins it.     *)
LEMMA FoldersKeep ==
  ASSUME ServerInv, DidChangeWorkspaceFolders
  PROVE  ServerInv'
<1>0. TypeInv /\ ScriptInv /\ FileInv
  BY DEF ServerInv
<1> DEFINE what0 == IF served THEN "drop" ELSE "load"
           X == IF served THEN {n \in Names : docs[n] # Absent} ELSE Existing
           s == <<Section(what0, X), Section("refresh", {Absent})>>
<1>1. X \in SUBSET Names /\ what0 \in {"drop", "load"}
  BY DEF Existing
<1>2. what0 = "drop" <=> served
  BY <1>0 DEF TypeInv
<1>3. \A m \in Names : m \notin X => IF served THEN docs[m] = Absent ELSE files[m] = Absent
  BY DEF Existing
<1>4. script' = [script EXCEPT !["handler"] = s]
  <2>1. CASE served
    BY <2>1 DEF DidChangeWorkspaceFolders, Handle
  <2>2. CASE ~served
    BY <2>2 DEF DidChangeWorkspaceFolders, Handle
  <2> QED BY <2>1, <2>2
<1>5. /\ script["handler"] = <<>>
      /\ UNCHANGED <<workspace, files, pub, crossDoc, renderNotify, screen, buffer, fresh, watch>>
      /\ served' = ~served /\ calls > 0 /\ calls' = calls - 1
  BY DEF DidChangeWorkspaceFolders, Handle, Call
<1> HIDE DEF X, what0
<1>6. s \in Seq(Sections) /\ HandlerScript(s)
  <2>1. CASE what0 = "drop"
    BY <1>1, <2>1, HandlerScripts
  <2>2. CASE what0 = "load"
    BY <1>1, <2>2, HandlerScripts
  <2> QED BY <1>1, <2>1, <2>2
<1>7. ASSUME NEW what, NEW m \in Names PROVE Ahead(s, what, m) <=> what = what0 /\ m \in X
  <2>1. Ahead(s, what, m) <=> (what0 = what /\ m \in X) \/ ("refresh" = what /\ m \in {Absent})
    BY AheadOf2, SectionOf
  <2> QED BY <2>1, NamesAssumption
<1>8. s # <<>> /\ Head(s).do # "update"
  BY <1>1, SectionOf
<1> HIDE DEF s
<1>9. /\ docs' = docs /\ onDisk' = onDisk /\ open' = open /\ buffer' = buffer /\ files' = files
      /\ watch' = watch /\ markers' = markers /\ rendered' = rendered /\ diagCache' = diagCache
      /\ strict' = strict /\ revision' = revision
  BY <1>5 DEF workspace, screen
<1>10. /\ script' \in [Threads -> Seq(Sections)]
       /\ \A what, m : ~Todo(what, m) /\ (Todo(what, m)' <=> Ahead(s, what, m))
  BY <1>0, <1>4, <1>5, <1>6, StartStep
<1>11. TypeInv'
  BY <1>0, <1>5, <1>9, <1>10 DEF TypeInv
<1>12. ScriptInv' /\ TabInv' /\ OrderInv' /\ ClosedInv' /\ ScreenInv'
  <2>1. \A what \in {"open", "update", "close", "clear"} : \A m \in Names : ~Ahead(s, what, m)
    BY <1>1, <1>7
  <2>2. \A m \in Names : ~Ahead(s, "publish", m)
    BY <1>1, <1>7
  <2> QED BY <1>4, <1>5, <1>6, <1>8, <2>1, <2>2, ReadKeeps
<1>13. FileInv'
  <2>1. ASSUME NEW m \in Names
        PROVE  /\ ~Todo("load", m) /\ ~Todo("drop", m) /\ ~Todo("close", m)
               /\ ~Todo("close", m)'
               /\ Todo("load", m)' <=> m \in X /\ ~served
               /\ Todo("drop", m)' <=> m \in X /\ served
    BY <1>1, <1>2, <1>7, <1>10
  <2> QED BY <1>0, <1>3, <1>5, <1>9, <2>1 DEF FileInv
<1> QED BY <1>11, <1>12, <1>13 DEF ServerInv

(* DidChangeConfiguration: the conformance mode is to be set.                *)
LEMMA ConfigurationKeeps ==
  ASSUME ServerInv, DidChangeConfiguration
  PROVE  ServerInv'
<1>0. TypeInv /\ ScriptInv /\ FileInv
  BY DEF ServerInv
<1>1. PICK mode \in BOOLEAN :
        Handle(<<Section(IF mode THEN "strict" ELSE "lenient", {Absent}), Section("refresh", {Absent})>>)
  BY DEF DidChangeConfiguration
<1> DEFINE what0 == IF mode THEN "strict" ELSE "lenient"
           s == <<Section(what0, {Absent}), Section("refresh", {Absent})>>
<1>2. what0 \in {"strict", "lenient"}
  OBVIOUS
<1>3. /\ script["handler"] = <<>> /\ script' = [script EXCEPT !["handler"] = s]
      /\ UNCHANGED <<workspace, files, pub, crossDoc, renderNotify, screen, buffer, fresh, watch, served>>
      /\ calls > 0 /\ calls' = calls - 1
  BY <1>1 DEF DidChangeConfiguration, Handle, Call
<1> HIDE DEF what0
<1>4. s \in Seq(Sections) /\ HandlerScript(s)
  BY <1>2, HandlerScripts
<1>5. ASSUME NEW what, NEW m \in Names PROVE ~Ahead(s, what, m)
  <2>1. Ahead(s, what, m) <=> (what0 = what /\ m \in {Absent}) \/ ("refresh" = what /\ m \in {Absent})
    BY AheadOf2, SectionOf
  <2> QED BY <2>1, NamesAssumption
<1>6. s # <<>> /\ Head(s).do # "update"
  BY <1>2, SectionOf
<1> HIDE DEF s
<1>7. /\ docs' = docs /\ onDisk' = onDisk /\ open' = open /\ buffer' = buffer /\ files' = files
      /\ watch' = watch /\ markers' = markers /\ rendered' = rendered /\ diagCache' = diagCache
      /\ strict' = strict /\ revision' = revision /\ served' = served
  BY <1>3 DEF workspace, screen
<1>8. /\ script' \in [Threads -> Seq(Sections)]
      /\ \A what, m : ~Todo(what, m) /\ (Todo(what, m)' <=> Ahead(s, what, m))
  BY <1>0, <1>3, <1>4, StartStep
<1>9. TypeInv'
  BY <1>0, <1>3, <1>7, <1>8 DEF TypeInv
<1>10. ScriptInv' /\ TabInv' /\ OrderInv' /\ ClosedInv' /\ ScreenInv'
  BY <1>3, <1>4, <1>5, <1>6, ReadKeeps
<1>11. FileInv'
  BY <1>0, <1>5, <1>7, <1>8 DEF FileInv
<1> QED BY <1>9, <1>10, <1>11 DEF ServerInv

----------------------------------------------------------------------------
(* The sections' steps.                                                    *)

(* Whatever another section was to refresh is still to be refreshed.         *)
LEMMA OthersRefresh ==
  ASSUME NEW th \in Threads, NEW first, NEW k, Rest(script'[th], script[th], first, k),
         \A t \in Threads \ {th} : script'[t] = script[t],
         revision' = revision, pub' = Free \/ (pub' = pub /\ pub.by # th),
         NEW m, NEW t \in Threads, NEW i \in DOMAIN script[t], Refreshes(t, i, m), ~(t = th /\ i = 1)
  PROVE  \E j \in DOMAIN script'[t] : Refreshes(t, j, m)'
<1>1. pub'.by = t => pub' = pub /\ t # th
  BY ServerAssumption DEF Free, Threads
<1>2. \E j \in DOMAIN script'[t] : script'[t][j] = script[t][i] /\ (t # th => j = i)
  <2>1. CASE t = th
    <3>1. i > 1
      BY <2>1 DEF Rest
    <3>2. i - k \in DOMAIN script'[th] /\ script'[th][i - k] = script[th][i]
      BY <2>1, <3>1, LaterSections
    <3> QED BY <2>1, <3>2
  <2>2. CASE t # th
    BY <2>2
  <2> QED BY <2>1, <2>2
<1>3. PICK j \in DOMAIN script'[t] : script'[t][j] = script[t][i] /\ (t # th => j = i)
  BY <1>2
<1>4. Refreshes(t, j, m)'
  <2>1. CASE script[t][i].do \in {"publish", "sweep"} /\ m \in script[t][i].docs
             /\ ~(pub.by = t /\ i = 1 /\ Outdated(m))
    <3>1. ~(pub'.by = t /\ j = 1 /\ Outdated(m)')
      BY <1>1, <1>3, <2>1 DEF Outdated
    <3> QED BY <1>3, <2>1, <3>1 DEF Refreshes
  <2>2. CASE script[t][i].do \in {"queue", "refresh"} /\ m \notin script[t][i].docs
    BY <1>3, <2>2 DEF Refreshes
  <2> QED BY <2>1, <2>2 DEF Refreshes
<1> QED BY <1>3, <1>4

(* A document that was to be refreshed still is, if what the section done was *)
(* to refresh still is.                                                      *)
LEMMA RefreshKept ==
  ASSUME NEW th \in Threads, NEW first, NEW k, Rest(script'[th], script[th], first, k),
         \A t \in Threads \ {th} : script'[t] = script[t],
         revision' = revision, pub' = Free \/ (pub' = pub /\ pub.by # th),
         NEW m \in Names, Refreshing(m),
         \A key \in Names : ~Quiet(crossDoc, key) => ~Quiet(crossDoc, key)',
         Refreshes(th, 1, m) => Refreshing(m)'
  PROVE  Refreshing(m)'
<1>1. CASE \E key \in Names \ {m} : ~Quiet(crossDoc, key)
  BY <1>1 DEF Refreshing
<1>2. CASE \E t \in Threads : \E i \in DOMAIN script[t] : Refreshes(t, i, m)
  <2>1. PICK t \in Threads : \E i \in DOMAIN script[t] : Refreshes(t, i, m)
    BY <1>2
  <2>2. PICK i \in DOMAIN script[t] : Refreshes(t, i, m)
    BY <2>1
  <2>3. CASE t = th /\ i = 1
    BY <2>2, <2>3
  <2>4. CASE ~(t = th /\ i = 1)
    <3>1. \E j \in DOMAIN script'[t] : Refreshes(t, j, m)'
      BY <2>2, <2>4, OthersRefresh
    <3> QED BY <3>1 DEF Refreshing
  <2> QED BY <2>3, <2>4
<1> QED BY <1>1, <1>2 DEF Refreshing

(* A change of the workspace leaves every document to be refreshed, or       *)
(* cleared: the handler that made it has it among its later sections.        *)
LEMMA ChangedIsFollowed ==
  ASSUME TypeInv, ScriptInv, NEW what \in Opening \cup {"close"}, At("handler", what),
         NEW n, Done("handler", n), pub' = pub, NEW m \in Names
  PROVE  Todo("clear", m)' \/ Refreshing(m)'
<1> DEFINE s == script["handler"]
           w == script'["handler"]
<1>0. "handler" \in Threads
  BY DEF Threads
<1>1. s \in Seq(Sections) /\ s # <<>> /\ 1 \in DOMAIN s /\ s[1].do = what
  BY <1>0, SectionFacts
<1>2. PICK k \in {0, 1} : Rest(w, s, [s[1] EXCEPT !.docs = @ \ {n}], k)
  BY <1>0, <1>1, DoneStep
<1>3. pub.by # "handler"
  <2>1. ~At("handler", "publish") /\ ~At("handler", "sweep")
    BY DEF At, Opening
  <2> QED BY <1>0, <2>1, Unheld
<1>4. FollowedUp(s, 1, m)
  BY <1>1 DEF ScriptInv, HandlerScript
<1> HIDE DEF s, w
<1>5. PICK j \in DOMAIN s :
        /\ j > 1
        /\ \/ s[j].do \in {"publish", "clear"} /\ m \in s[j].docs
           \/ s[j].do \in {"queue", "refresh"} /\ m \notin s[j].docs
  BY <1>4 DEF FollowedUp
<1>6. j - k \in DOMAIN w /\ w[j - k] = s[j]
  BY <1>2, <1>5, LaterSections
<1>7. CASE s[j].do = "clear" /\ m \in s[j].docs
  BY <1>6, <1>7 DEF Todo, Ahead, w
<1>8. CASE \/ s[j].do = "publish" /\ m \in s[j].docs
           \/ s[j].do \in {"queue", "refresh"} /\ m \notin s[j].docs
  <2>1. pub'.by # "handler"
    BY <1>3
  <2>2. Refreshes("handler", j - k, m)'
    BY <1>6, <1>8, <2>1 DEF Refreshes, w
  <2> QED BY <1>0, <1>6, <2>2 DEF Refreshing, w
<1> QED BY <1>5, <1>7, <1>8

(* What a section that changes the workspace keeps, whatever it changes.     *)
LEMMA WorkspaceKeeps ==
  ASSUME ServerInv, NEW what \in Opening \cup {"close"}, At("handler", what),
         NEW n, Done("handler", n), UNCHANGED <<pub, crossDoc, renderNotify, screen>>,
         open' \subseteq Names,
         \A m \in Names : m \in open /\ m \notin open' => Todo("clear", m),
         pub.by # "nobody" /\ pub.doc \in open' => pub.doc \in open,
         \/ docs' = docs /\ diagCache' = diagCache /\ revision' = revision
         \/ diagCache' = [m \in Names |-> 0] /\ revision' = revision + 1,
         \A m \in Names : Todo("publish", m)' /\ ~Todo("open", m)' /\ ~Todo("drop", m)' =>
                            m \in open' \/ docs'[m] = Absent
  PROVE  ScriptInv' /\ OrderInv' /\ ClosedInv' /\ ScreenInv'
<1>0. TypeInv /\ ScriptInv /\ OrderInv /\ ClosedInv
  BY DEF ServerInv
<1>1. "handler" \in Threads /\ script["handler"] # <<>> /\ script["handler"][1].do = what
  <2>1. "handler" \in Threads
    BY DEF Threads
  <2> QED BY <1>0, <2>1, SectionFacts
<1>2. markers' = markers /\ rendered' = rendered /\ pub' = pub
  BY DEF screen
<1>3. ~At("handler", "publish") /\ ~At("handler", "sweep")
  BY DEF At, Opening
<1>4. pub.by # "handler"
  BY <1>0, <1>1, <1>3, Unheld
<1>5. ScriptInv'
  BY <1>0, <1>1, <1>2, <1>4, DoneUnheld
<1>6. \A m : Todo("clear", m)' <=> Todo("clear", m)
  BY <1>0, <1>1, DoneStep DEF Opening
<1>7. pub.by # "nobody" => pub.doc \in Names /\ pub.by \in Threads
  BY <1>0, ServerAssumption DEF ScriptInv, TypeInv, Holders
<1>8. OrderInv'
  <2>1. revision \in Nat /\ pub.seen \in Nat /\ \A m \in Names : markers[m] \in Nat /\ rendered[m] \in Nat
    BY <1>0 DEF TypeInv, Holders
  <2>2. revision' >= revision /\ revision' \in Nat
    BY <2>1
  <2>3. ASSUME NEW m \in Names
        PROVE  /\ diagCache'[m] \in {0, revision'} /\ markers'[m] <= revision' /\ rendered'[m] <= revision'
               /\ docs'[m] # Absent => revision' > 0
    <3>1. markers'[m] <= revision' /\ rendered'[m] <= revision'
      BY <1>0, <1>2, <2>1, <2>2 DEF OrderInv
    <3>2. diagCache'[m] \in {0, revision'}
      BY <1>0 DEF OrderInv
    <3>3. docs'[m] # Absent => revision' > 0
      BY <1>0, <2>1 DEF OrderInv
    <3> QED BY <3>1, <3>2, <3>3
  <2>4. pub'.seen <= revision'
    BY <1>0, <1>2, <2>1, <2>2 DEF OrderInv
  <2>5. pub'.by # "nobody" /\ pub'.analysed =>
          /\ pub'.seen = 0 \/ pub'.seen >= markers'[pub'.doc]
          /\ pub'.seen = 0 /\ pub'.doc \in open' => Todo("clear", pub.doc)'
    BY <1>0, <1>2, <1>6 DEF OrderInv, Todo
  <2> QED BY <2>3, <2>4, <2>5 DEF OrderInv
<1>9. ClosedInv'
  <2>1. \A m \in Names : m \notin open' /\ ~Todo("clear", m)' => markers'[m] = 0
    BY <1>0, <1>2, <1>6 DEF ClosedInv
  <2>2. pub'.by # "nobody" => pub'.doc \in open' \/ Todo("clear", pub.doc)'
    BY <1>0, <1>2, <1>4, <1>6, <1>7 DEF ClosedInv, Todo
  <2> QED BY <2>1, <2>2 DEF ClosedInv
<1>10. ScreenInv'
  <2>1. \A m \in Names : Todo("clear", m)' \/ Refreshing(m)'
    BY <1>0, <1>2, ChangedIsFollowed
  <2> QED BY <2>1 DEF ScreenInv
<1> QED BY <1>5, <1>8, <1>9, <1>10

(* The handler's updates are the first section of its script.                *)
LEMMA UpdatesFirst ==
  ASSUME TypeInv, ScriptInv, NEW n, Done("handler", n), script["handler"] # <<>>
  PROVE  \A m : m \in Docs("handler", "update")' =>
                  /\ m \in Docs("handler", "update") /\ m # n
                  /\ Head(script'["handler"]).edit = Head(script["handler"]).edit
<1> DEFINE s == script["handler"]
           w == script'["handler"]
           first == [s[1] EXCEPT !.docs = @ \ {n}]
<1> SUFFICES ASSUME NEW m, m \in Docs("handler", "update")'
             PROVE  /\ m \in Docs("handler", "update") /\ m # n
                    /\ Head(w).edit = Head(s).edit
  OBVIOUS
<1>0. "handler" \in Threads
  BY DEF Threads
<1>1. PICK k \in {0, 1} : Rest(w, s, first, k)
  BY <1>0, DoneStep
<1>2. w # <<>> /\ Head(w).do = "update" /\ m \in Head(w).docs
  BY DEF Docs, At
<1>3. s \in Seq(Sections) /\ Head(s) = s[1] /\ s[1] \in Sections
  BY <1>0, EmptySeq, ElementOfSeq, HeadTailProperties DEF TypeInv
<1>4. first.do = s[1].do /\ first.docs = s[1].docs \ {n} /\ first.edit = s[1].edit
  BY <1>3 DEF Sections
<1>5. Docs("handler", "update") = IF s[1].do = "update" THEN s[1].docs ELSE {}
  BY <1>3 DEF Docs, At
<1>6. w \in Seq(Sections)
  BY <1>1 DEF Rest
<1> HIDE DEF w, s, first
<1>7. Head(w) = w[1] /\ 1 \in DOMAIN w
  BY <1>2, <1>6, EmptySeq, LenProperties, HeadTailProperties
<1>8. CASE k = 0
  <2>1. w[1] = first
    BY <1>1, <1>7, <1>8 DEF Rest
  <2> QED BY <1>2, <1>3, <1>4, <1>5, <1>7, <2>1
<1>9. CASE k = 1
  <2>1. 2 \in DOMAIN s /\ w[1] = s[2]
    BY <1>1, <1>7, <1>9, EarlierSections
  <2>2. HandlerScript(s)
    BY DEF ScriptInv, s
  <2>3. s[2].do # "update"
    BY <2>1, <2>2 DEF HandlerScript, Opening
  <2> QED BY <1>2, <1>7, <2>1, <2>3
<1> QED BY <1>8, <1>9

(* What a handler at a section cannot have ahead of it.                      *)
LEMMA HeadExcludes ==
  ASSUME TypeInv, ScriptInv, NEW what, At("handler", what), NEW m
  PROVE  /\ \A o \in Opening \ {what} : ~Todo(o, m)
         /\ what \notin {"load", "close"} => ~Todo("close", m)
         /\ what \in {"load", "close", "clear"} => ~Todo("publish", m)
         /\ Todo("close", m) => Todo("clear", m)
<1> DEFINE s == script["handler"]
<1>0. "handler" \in Threads
  BY DEF Threads
<1>1. 1 \in DOMAIN s /\ s[1].do = what
  BY <1>0, SectionFacts
<1>2. HandlerScript(s)
  BY DEF ScriptInv
<1> HIDE DEF s
<1>3. \A o : Todo(o, m) <=> \E i \in DOMAIN s : s[i].do = o /\ m \in s[i].docs
  BY DEF Todo, Ahead, s
<1>4. \A o \in Opening \ {what} : ~Todo(o, m)
  BY <1>1, <1>2, <1>3 DEF HandlerScript
<1>5. what \notin {"load", "close"} => ~Todo("close", m)
  BY <1>1, <1>2, <1>3 DEF HandlerScript
<1>6. what \in {"load", "close", "clear"} => ~Todo("publish", m)
  BY <1>1, <1>2, <1>3 DEF HandlerScript
<1>7. Todo("close", m) => Todo("clear", m)
  BY <1>2, <1>3 DEF HandlerScript
<1> QED BY <1>4, <1>5, <1>6, <1>7

(* DoOpen: the workspace has the tab's text.                                 *)
LEMMA DoOpenKeeps ==
  ASSUME ServerInv, NEW th \in Threads, DoOpen(th)
  PROVE  ServerInv'
<1>0. TypeInv /\ ScriptInv /\ TabInv /\ FileInv /\ OrderInv /\ ClosedInv
  BY DEF ServerInv
<1>1. PICK n \in Docs(th, "open") : SetBuffer(n, buffer[n]) /\ Done(th, n) /\ InWorkspace
  BY DEF DoOpen
<1>2. /\ th = "handler" /\ n \in Names /\ script[th] # <<>> /\ At(th, "open")
      /\ script[th][1].do = "open" /\ Todo("open", n)
  <2>1. th = "handler" /\ script[th][1].docs \subseteq Names
    BY <1>0, OnlyHandler DEF Instructions
  <2>2. /\ script[th] # <<>> /\ 1 \in DOMAIN script[th] /\ script[th][1].do = "open"
        /\ n \in script[th][1].docs
    BY <1>0, SectionFacts
  <2> QED BY <2>1, <2>2 DEF Docs, At, Todo, Ahead
<1>3. /\ open' = open \cup {n} /\ docs' = [docs EXCEPT ![n] = buffer[n]] /\ onDisk' = onDisk
      /\ diagCache' = [m \in Names |-> 0] /\ revision' = revision + 1 /\ strict' = strict
  BY <1>1 DEF SetBuffer, Reindex, Invalidate
<1>4. /\ UNCHANGED <<pub, crossDoc, renderNotify, screen>>
      /\ buffer' = buffer /\ calls' = calls /\ fresh' = fresh /\ files' = files /\ watch' = watch
      /\ served' = served /\ pub' = pub /\ crossDoc' = crossDoc /\ renderNotify' = renderNotify
      /\ markers' = markers /\ rendered' = rendered
  BY <1>1 DEF InWorkspace, editor, disk, screen
<1>5. /\ script' \in [Threads -> Seq(Sections)]
      /\ \A what, m : /\ Todo(what, m)' => Todo(what, m)
                      /\ Todo(what, m) /\ ~("open" = what /\ m = n) => Todo(what, m)'
  BY <1>0, <1>1, <1>2, DoneStep
<1>6. ASSUME NEW m
      PROVE  ~Todo("update", m) /\ ~Todo("load", m) /\ ~Todo("drop", m) /\ ~Todo("close", m)
  BY <1>0, <1>2, HeadExcludes DEF Opening
<1>7. buffer[n] # Absent
  BY <1>0, <1>2 DEF TabInv
<1>8. TypeInv'
  BY <1>0, <1>2, <1>3, <1>4, <1>5 DEF TypeInv
<1>9. docs'[n] = buffer[n] /\ \A m \in Names \ {n} : docs'[m] = docs[m]
  BY <1>0, <1>2, <1>3 DEF TypeInv
<1>10. ScriptInv' /\ OrderInv' /\ ClosedInv' /\ ScreenInv'
  <2>1. ~Todo("clear", n)
    BY <1>0, <1>2, <1>7 DEF TabInv
  <2>2. pub.by # "nobody" /\ pub.doc \in open' => pub.doc \in open
    <3> SUFFICES ASSUME pub.by # "nobody", pub.doc = n PROVE pub.doc \in open
      BY <1>3
    <3> QED BY <1>0, <1>2, <2>1 DEF ClosedInv, At
  <2>3. \A m \in Names : Todo("publish", m)' /\ ~Todo("open", m)' /\ ~Todo("drop", m)' =>
                           m \in open' \/ docs'[m] = Absent
    BY <1>0, <1>3, <1>5, <1>6, <1>9 DEF ClosedInv
  <2>4. open' \subseteq Names /\ \A m \in Names : ~(m \in open /\ m \notin open')
    BY <1>0, <1>2, <1>3 DEF TypeInv
  <2>5. "open" \in Opening \cup {"close"}
    BY DEF Opening
  <2> QED BY <1>1, <1>2, <1>3, <1>4, <2>2, <2>3, <2>4, <2>5, WorkspaceKeeps
<1>11. TabInv'
  <2>1. \A m : m \notin Docs("handler", "update")'
    BY <1>0, <1>1, <1>2, UpdatesFirst DEF Docs, At
  <2>2. ASSUME NEW m \in Names
        PROVE  /\ Todo("open", m)' => Todo("open", m)
               /\ ~Todo("update", m)' /\ ~Todo("close", m)'
               /\ Todo("clear", m)' => Todo("clear", m)
               /\ Pending(m)' <=> Todo("open", m)'
               /\ m # n => (Pending(m)' <=> Pending(m))
    BY <1>5, <1>6, PendingTodo
  <2> QED BY <1>0, <1>3, <1>4, <1>7, <1>9, <2>1, <2>2 DEF TabInv
<1>12. FileInv'
  <2>1. ASSUME NEW m \in Names
        PROVE  ~Todo("drop", m)' /\ ~Todo("load", m)' /\ ~Todo("close", m)'
    BY <1>5, <1>6
  <2> QED BY <1>0, <1>3, <1>4, <1>6, <1>9, <2>1 DEF FileInv
<1> QED BY <1>8, <1>10, <1>11, <1>12 DEF ServerInv

(* DoUpdate: the workspace has the tab's text again.                         *)
LEMMA DoUpdateKeeps ==
  ASSUME ServerInv, NEW th \in Threads, DoUpdate(th)
  PROVE  ServerInv'
<1>0. TypeInv /\ ScriptInv /\ TabInv /\ FileInv /\ OrderInv /\ ClosedInv
  BY DEF ServerInv
<1>1. PICK n \in Docs(th, "update") :
        SetBuffer(n, Applied(docs[n], Head(script[th]).edit)) /\ Done(th, n) /\ InWorkspace
  BY DEF DoUpdate
<1>2. /\ th = "handler" /\ n \in Names /\ script[th] # <<>> /\ At(th, "update")
      /\ script[th][1].do = "update" /\ Todo("update", n)
      /\ Head(script[th]).edit \in Edits
  <2>1. th = "handler" /\ script[th][1].docs \subseteq Names
    BY <1>0, OnlyHandler DEF Instructions
  <2>2. /\ script[th] # <<>> /\ 1 \in DOMAIN script[th] /\ script[th][1].do = "update"
        /\ n \in script[th][1].docs /\ Head(script[th]) = script[th][1] /\ script[th][1] \in Sections
    BY <1>0, SectionFacts
  <2> QED BY <2>1, <2>2 DEF Docs, At, Todo, Ahead, Sections
<1>3. buffer[n] = Applied(docs[n], Head(script[th]).edit) /\ n \in open
  BY <1>0, <1>2, <1>1 DEF TabInv
<1>4. /\ open' = open /\ docs' = [docs EXCEPT ![n] = buffer[n]] /\ onDisk' = onDisk
      /\ diagCache' = [m \in Names |-> 0] /\ revision' = revision + 1 /\ strict' = strict
  BY <1>1, <1>3 DEF SetBuffer, Reindex, Invalidate
<1>5. /\ UNCHANGED <<pub, crossDoc, renderNotify, screen>>
      /\ buffer' = buffer /\ calls' = calls /\ fresh' = fresh /\ files' = files /\ watch' = watch
      /\ served' = served /\ pub' = pub /\ crossDoc' = crossDoc /\ renderNotify' = renderNotify
      /\ markers' = markers /\ rendered' = rendered
  BY <1>1 DEF InWorkspace, editor, disk, screen
<1>6. /\ script' \in [Threads -> Seq(Sections)]
      /\ \A what, m : /\ Todo(what, m)' => Todo(what, m)
                      /\ Todo(what, m) /\ ~("update" = what /\ m = n) => Todo(what, m)'
  BY <1>0, <1>1, <1>2, DoneStep
<1>7. ASSUME NEW m
      PROVE  ~Todo("open", m) /\ ~Todo("load", m) /\ ~Todo("drop", m) /\ ~Todo("close", m)
  BY <1>0, <1>2, HeadExcludes DEF Opening
<1>8. buffer[n] # Absent
  BY <1>0, <1>2, <1>3, AppliedType DEF TypeInv
<1>9. TypeInv'
  BY <1>0, <1>2, <1>4, <1>5, <1>6 DEF TypeInv
<1>10. docs'[n] = buffer[n] /\ \A m \in Names \ {n} : docs'[m] = docs[m]
  BY <1>0, <1>2, <1>4 DEF TypeInv
<1>11. ScriptInv' /\ OrderInv' /\ ClosedInv' /\ ScreenInv'
  <2>1. \A m \in Names : Todo("publish", m)' /\ ~Todo("open", m)' /\ ~Todo("drop", m)' =>
                           m \in open' \/ docs'[m] = Absent
    BY <1>0, <1>3, <1>4, <1>6, <1>7, <1>10 DEF ClosedInv
  <2>2. open' \subseteq Names
    BY <1>0, <1>4 DEF TypeInv
  <2>3. "update" \in Opening \cup {"close"}
    BY DEF Opening
  <2> QED BY <1>1, <1>2, <1>4, <1>5, <2>1, <2>2, <2>3, WorkspaceKeeps
<1>12. TabInv'
  <2>1. ASSUME NEW m, m \in Docs("handler", "update")'
        PROVE  /\ m \in Docs("handler", "update") /\ m # n
               /\ Head(script'["handler"]).edit = Head(script["handler"]).edit
    BY <1>0, <1>1, <1>2, <2>1, UpdatesFirst
  <2>2. ASSUME NEW m \in Names
        PROVE  /\ Todo("update", m)' => Todo("update", m)
               /\ ~Todo("open", m)' /\ ~Todo("close", m)'
               /\ Todo("clear", m)' => Todo("clear", m)
               /\ m # n => (Pending(m)' <=> Pending(m))
    BY <1>6, <1>7, PendingTodo
  <2> QED BY <1>0, <1>3, <1>4, <1>5, <1>8, <1>10, <2>1, <2>2 DEF TabInv
<1>13. FileInv'
  <2>1. ASSUME NEW m \in Names
        PROVE  ~Todo("drop", m)' /\ ~Todo("load", m)' /\ ~Todo("close", m)'
    BY <1>6, <1>7
  <2> QED BY <1>0, <1>3, <1>4, <1>5, <1>7, <1>10, <2>1 DEF FileInv
<1> QED BY <1>9, <1>11, <1>12, <1>13 DEF ServerInv

(* What a read of a file, or its being forgotten, does to the texts.         *)
LEMMA SetOnDiskTexts ==
  ASSUME TypeInv, NEW n \in Names, NEW text, SetOnDisk(n, text)
  PROVE  /\ open' = open /\ strict' = strict
         /\ onDisk' = [onDisk EXCEPT ![n] = text] /\ onDisk'[n] = text
         /\ n \in open => docs' = docs
         /\ n \notin open => docs' = [docs EXCEPT ![n] = text] /\ docs'[n] = text
         /\ \A m \in Names \ {n} : docs'[m] = docs[m] /\ onDisk'[m] = onDisk[m]
         /\ \/ docs' = docs /\ diagCache' = diagCache /\ revision' = revision
            \/ diagCache' = [m \in Names |-> 0] /\ revision' = revision + 1
<1>1. CASE n \in open
  BY <1>1 DEF SetOnDisk, ReindexUnlessOpen, TypeInv
<1>2. CASE n \notin open
  BY <1>2 DEF SetOnDisk, ReindexUnlessOpen, Reindex, Invalidate, TypeInv
<1> QED BY <1>1, <1>2

(* DoLoad and DoDrop: a file is read, or forgotten.                          *)
LEMMA DoReadKeeps ==
  ASSUME ServerInv, NEW th \in Threads, NEW what \in {"load", "drop"}, NEW n \in Docs(th, what),
         NEW text, text = IF what = "load" THEN files[n] ELSE Absent,
         SetOnDisk(n, text), Done(th, n), InWorkspace
  PROVE  ServerInv'
<1>0. TypeInv /\ ScriptInv /\ TabInv /\ FileInv /\ OrderInv /\ ClosedInv
  BY DEF ServerInv
<1>2. /\ th = "handler" /\ n \in Names /\ script[th] # <<>> /\ At(th, what)
      /\ script[th][1].do = what /\ Todo(what, n)
  <2>1. th = "handler" /\ script[th][1].docs \subseteq Names
    BY <1>0, OnlyHandler DEF Instructions
  <2>2. /\ script[th] # <<>> /\ 1 \in DOMAIN script[th] /\ script[th][1].do = what
        /\ n \in script[th][1].docs
    BY <1>0, SectionFacts
  <2> QED BY <2>1, <2>2 DEF Docs, At, Todo, Ahead
<1>3. /\ open' = open /\ strict' = strict
      /\ onDisk' = [onDisk EXCEPT ![n] = text] /\ onDisk'[n] = text
      /\ n \in open => docs' = docs
      /\ n \notin open => docs' = [docs EXCEPT ![n] = text] /\ docs'[n] = text
      /\ \A m \in Names \ {n} : docs'[m] = docs[m] /\ onDisk'[m] = onDisk[m]
      /\ \/ docs' = docs /\ diagCache' = diagCache /\ revision' = revision
         \/ diagCache' = [m \in Names |-> 0] /\ revision' = revision + 1
  BY <1>0, <1>2, SetOnDiskTexts
<1>4. /\ UNCHANGED <<pub, crossDoc, renderNotify, screen>>
      /\ buffer' = buffer /\ calls' = calls /\ fresh' = fresh /\ files' = files /\ watch' = watch
      /\ served' = served /\ pub' = pub /\ crossDoc' = crossDoc /\ renderNotify' = renderNotify
      /\ markers' = markers /\ rendered' = rendered
  BY DEF InWorkspace, editor, disk, screen
<1>5. /\ script' \in [Threads -> Seq(Sections)]
      /\ \A o, m : /\ Todo(o, m)' => Todo(o, m)
                   /\ Todo(o, m) /\ ~(what = o /\ m = n) => Todo(o, m)'
  BY <1>0, <1>2, DoneStep
<1>6. ASSUME NEW m
      PROVE  /\ ~Todo("open", m) /\ ~Todo("update", m)
             /\ what = "load" => ~Todo("drop", m) /\ ~Todo("publish", m)
             /\ what = "drop" => ~Todo("load", m) /\ ~Todo("close", m)
  BY <1>0, <1>2, HeadExcludes DEF Opening
<1>7. text \in TextOrNone
  BY <1>0, <1>2 DEF TypeInv, TextOrNone
<1>8. TypeInv'
  <2>1. diagCache' \in [Names -> Nat] /\ revision' \in Nat
    BY <1>0, <1>3 DEF TypeInv
  <2>2. docs' \in [Names -> TextOrNone] /\ onDisk' \in [Names -> TextOrNone]
    BY <1>0, <1>3, <1>7 DEF TypeInv
  <2> QED BY <1>0, <1>3, <1>4, <1>5, <2>1, <2>2 DEF TypeInv
<1>9. ScriptInv' /\ OrderInv' /\ ClosedInv' /\ ScreenInv'
  <2>1. \A m \in Names : Todo("publish", m)' /\ ~Todo("open", m)' /\ ~Todo("drop", m)' =>
                           m \in open' \/ docs'[m] = Absent
    BY <1>0, <1>3, <1>5, <1>6 DEF ClosedInv
  <2>2. open' \subseteq Names
    BY <1>0, <1>3 DEF TypeInv
  <2>3. what \in Opening \cup {"close"}
    BY DEF Opening
  <2> QED BY <1>2, <1>3, <1>4, <2>1, <2>2, <2>3, WorkspaceKeeps
<1>10. TabInv'
  <2>1. \A m : m \notin Docs("handler", "update")'
    BY <1>0, <1>2, UpdatesFirst DEF Docs, At
  <2>2. ASSUME NEW m \in Names
        PROVE  /\ ~Todo("open", m)' /\ ~Todo("update", m)'
               /\ Todo("close", m)' <=> Todo("close", m)
               /\ Todo("clear", m)' => Todo("clear", m)
               /\ Pending(m)' <=> Pending(m)
    BY <1>5, <1>6, PendingTodo
  <2>3. \A m \in open : docs'[m] = docs[m]
    BY <1>0, <1>3 DEF TypeInv
  <2> QED BY <1>0, <1>3, <1>4, <2>1, <2>2, <2>3 DEF TabInv
<1>11. FileInv'
  <2>1. CASE what = "load"
    <3>1. ASSUME NEW m \in Names
          PROVE  /\ ~Todo("drop", m)' /\ ~Todo("drop", m)
                 /\ m # n => (Todo("load", m)' <=> Todo("load", m))
                 /\ Todo("close", m)' => Todo("close", m)
      BY <1>5, <1>6, <2>1
    <3>2. onDisk'[n] = files[n] /\ (n \notin open => docs'[n] = files[n])
      BY <1>3, <2>1
    <3> QED BY <1>0, <1>3, <1>4, <3>1, <3>2 DEF FileInv
  <2>2. CASE what = "drop"
    <3>1. ASSUME NEW m \in Names
          PROVE  /\ ~Todo("load", m)' /\ ~Todo("load", m)
                 /\ m # n => (Todo("drop", m)' <=> Todo("drop", m))
                 /\ Todo("drop", m)' => Todo("drop", m)
                 /\ ~Todo("close", m)'
      BY <1>5, <1>6, <2>2
    <3>2. n \notin open => docs'[n] = Absent
      BY <1>3, <2>2
    <3>3. watch[n] = <<>> /\ served => files[n] = Absent
      BY <1>0, <1>2, <2>2 DEF FileInv
    <3> QED BY <1>0, <1>3, <1>4, <3>1, <3>2, <3>3 DEF FileInv, TypeInv
  <2> QED BY <2>1, <2>2
<1> QED BY <1>8, <1>9, <1>10, <1>11 DEF ServerInv

(* DoClose: the document falls back to the text of its file.                 *)
LEMMA DoCloseKeeps ==
  ASSUME ServerInv, NEW th \in Threads, DoClose(th)
  PROVE  ServerInv'
<1>0. TypeInv /\ ScriptInv /\ TabInv /\ FileInv /\ OrderInv /\ ClosedInv
  BY DEF ServerInv
<1>1. PICK n \in Docs(th, "close") : CloseBuffer(n) /\ Done(th, n) /\ InWorkspace
  BY DEF DoClose
<1>2. /\ th = "handler" /\ n \in Names /\ script[th] # <<>> /\ At(th, "close")
      /\ script[th][1].do = "close" /\ Todo("close", n)
  <2>1. th = "handler" /\ script[th][1].docs \subseteq Names
    BY <1>0, OnlyHandler DEF Instructions
  <2>2. /\ script[th] # <<>> /\ 1 \in DOMAIN script[th] /\ script[th][1].do = "close"
        /\ n \in script[th][1].docs
    BY <1>0, SectionFacts
  <2> QED BY <2>1, <2>2 DEF Docs, At, Todo, Ahead
<1>3. /\ open' = open \ {n} /\ docs' = [docs EXCEPT ![n] = onDisk[n]] /\ onDisk' = onDisk
      /\ diagCache' = [m \in Names |-> 0] /\ revision' = revision + 1 /\ strict' = strict
  BY <1>1 DEF CloseBuffer, Reindex, Invalidate
<1>4. /\ UNCHANGED <<pub, crossDoc, renderNotify, screen>>
      /\ buffer' = buffer /\ calls' = calls /\ fresh' = fresh /\ files' = files /\ watch' = watch
      /\ served' = served /\ pub' = pub /\ crossDoc' = crossDoc /\ renderNotify' = renderNotify
      /\ markers' = markers /\ rendered' = rendered
  BY <1>1 DEF InWorkspace, editor, disk, screen
<1>5. /\ script' \in [Threads -> Seq(Sections)]
      /\ \A what, m : /\ Todo(what, m)' => Todo(what, m)
                      /\ Todo(what, m) /\ ~("close" = what /\ m = n) => Todo(what, m)'
  BY <1>0, <1>1, <1>2, DoneStep
<1>6. ASSUME NEW m
      PROVE  /\ ~Todo("open", m) /\ ~Todo("update", m) /\ ~Todo("load", m) /\ ~Todo("drop", m)
             /\ ~Todo("publish", m) /\ (Todo("close", m) => Todo("clear", m))
  BY <1>0, <1>2, HeadExcludes DEF Opening
<1>7. buffer[n] = Absent
  BY <1>0, <1>2 DEF TabInv
<1>8. TypeInv'
  BY <1>0, <1>2, <1>3, <1>4, <1>5 DEF TypeInv
<1>9. docs'[n] = onDisk[n] /\ \A m \in Names \ {n} : docs'[m] = docs[m]
  BY <1>0, <1>2, <1>3 DEF TypeInv
<1>10. ScriptInv' /\ OrderInv' /\ ClosedInv' /\ ScreenInv'
  <2>1. \A m \in Names : m \in open /\ m \notin open' => Todo("clear", m)
    BY <1>2, <1>3, <1>6
  <2>2. \A m \in Names : ~Todo("publish", m)'
    BY <1>5, <1>6
  <2>3. open' \subseteq Names /\ (pub.by # "nobody" /\ pub.doc \in open' => pub.doc \in open)
    BY <1>0, <1>3 DEF TypeInv
  <2> QED BY <1>1, <1>2, <1>3, <1>4, <2>1, <2>2, <2>3, WorkspaceKeeps
<1>11. TabInv'
  <2>1. \A m : m \notin Docs("handler", "update")'
    BY <1>0, <1>1, <1>2, UpdatesFirst DEF Docs, At
  <2>2. ASSUME NEW m \in Names
        PROVE  /\ ~Todo("open", m)' /\ ~Todo("update", m)'
               /\ Todo("close", m)' => Todo("close", m)
               /\ Todo("clear", m)' => Todo("clear", m)
               /\ m # n => (Pending(m)' <=> Pending(m))
    BY <1>5, <1>6, PendingTodo
  <2> QED BY <1>0, <1>3, <1>4, <1>7, <1>9, <2>1, <2>2 DEF TabInv
<1>12. FileInv'
  <2>1. ASSUME NEW m \in Names
        PROVE  /\ ~Todo("drop", m)' /\ ~Todo("load", m)' /\ ~Todo("drop", m) /\ ~Todo("load", m)
               /\ Todo("close", m)' => Todo("close", m)
    BY <1>5, <1>6
  <2>2. watch[n] = <<>> => onDisk[n] = files[n]
    BY <1>0, <1>2, <2>1 DEF FileInv
  <2> QED BY <1>0, <1>3, <1>4, <1>9, <2>1, <2>2 DEF FileInv
<1> QED BY <1>8, <1>10, <1>11, <1>12 DEF ServerInv

(* A step that changes no text, and nothing the handler has to do to one.    *)
LEMMA TextsKept ==
  ASSUME TabInv, FileInv,
         UNCHANGED <<docs, onDisk, open, buffer, files, watch, served>>,
         \A what \in Opening \cup {"close"} : \A m \in Names : Todo(what, m)' <=> Todo(what, m),
         \A m \in Names : Todo("clear", m)' => Todo("clear", m),
         \A m \in Names : m \in Docs("handler", "update")' =>
                            /\ m \in Docs("handler", "update")
                            /\ Head(script'["handler"]).edit = Head(script["handler"]).edit
  PROVE  TabInv' /\ FileInv'
<1>1. ASSUME NEW m \in Names
      PROVE  /\ Todo("open", m)' <=> Todo("open", m)
             /\ Todo("update", m)' <=> Todo("update", m)
             /\ Todo("load", m)' <=> Todo("load", m)
             /\ Todo("drop", m)' <=> Todo("drop", m)
             /\ Todo("close", m)' <=> Todo("close", m)
             /\ Pending(m)' <=> Pending(m)
  BY PendingTodo DEF Opening
<1>2. TabInv'
  BY <1>1 DEF TabInv
<1>3. FileInv'
  BY <1>1 DEF FileInv
<1> QED BY <1>2, <1>3

(* DoMode and DoNothing: the section has no document.                        *)
LEMMA DoNoneKeeps ==
  ASSUME ServerInv, NEW th \in Threads, NEW what \in {"load", "drop", "strict", "lenient"}, At(th, what),
         Done(th, Absent), InWorkspace, UNCHANGED <<docs, onDisk, open>>, strict' \in BOOLEAN,
         \/ diagCache' = diagCache /\ revision' = revision
         \/ diagCache' = [m \in Names |-> 0] /\ revision' = revision + 1
  PROVE  ServerInv'
<1>0. TypeInv /\ ScriptInv /\ TabInv /\ FileInv /\ ClosedInv
  BY DEF ServerInv
<1>1. what \in Instructions \ {"refresh", "sweep"} /\ what \in Opening \cup {"close"}
  BY DEF Instructions, Opening
<1>2. th = "handler" /\ script[th] # <<>> /\ script[th][1].do = what
  BY <1>0, <1>1, OnlyHandler, SectionFacts
<1>3. /\ UNCHANGED <<pub, crossDoc, renderNotify, screen>>
      /\ buffer' = buffer /\ calls' = calls /\ fresh' = fresh /\ files' = files /\ watch' = watch
      /\ served' = served /\ pub' = pub /\ crossDoc' = crossDoc /\ renderNotify' = renderNotify
      /\ markers' = markers /\ rendered' = rendered
  BY DEF InWorkspace, editor, disk, screen
<1>4. /\ script' \in [Threads -> Seq(Sections)]
      /\ \A o : \A m \in Names : Todo(o, m)' <=> Todo(o, m)
  <2>1. /\ script' \in [Threads -> Seq(Sections)]
        /\ \A o, m : /\ Todo(o, m)' => Todo(o, m)
                     /\ Todo(o, m) /\ m # Absent => Todo(o, m)'
    BY <1>0, <1>2, DoneStep
  <2>2. \A m \in Names : m # Absent
    BY NamesAssumption
  <2> QED BY <2>1, <2>2
<1>5. TypeInv'
  <2>1. diagCache' \in [Names -> Nat] /\ revision' \in Nat
    BY <1>0 DEF TypeInv
  <2> QED BY <1>0, <1>3, <1>4, <2>1 DEF TypeInv
<1>6. ScriptInv' /\ OrderInv' /\ ClosedInv' /\ ScreenInv'
  <2>1. \A m \in Names : Todo("publish", m)' /\ ~Todo("open", m)' /\ ~Todo("drop", m)' =>
                           m \in open' \/ docs'[m] = Absent
    BY <1>0, <1>4 DEF ClosedInv
  <2>2. open' \subseteq Names
    BY <1>0 DEF TypeInv
  <2> QED BY <1>1, <1>2, <1>3, <2>1, <2>2, WorkspaceKeeps
<1>7. TabInv' /\ FileInv'
  <2>1. \A m \in Names : m \in Docs("handler", "update")' =>
                           /\ m \in Docs("handler", "update")
                           /\ Head(script'["handler"]).edit = Head(script["handler"]).edit
    BY <1>0, <1>2, UpdatesFirst
  <2> QED BY <1>0, <1>3, <1>4, <2>1, TextsKept
<1> QED BY <1>5, <1>6, <1>7 DEF ServerInv

(* DoQueue: the sweep of the other documents is triggered.                   *)
LEMMA DoQueueKeeps ==
  ASSUME ServerInv, NEW th \in Threads, DoQueue(th)
  PROVE  ServerInv'
<1>0. TypeInv /\ ScriptInv /\ TabInv /\ FileInv /\ OrderInv /\ ClosedInv /\ ScreenInv
  BY DEF ServerInv
<1>1. PICK n \in Docs(th, "queue") : crossDoc' = Trigger(crossDoc, n) /\ Done(th, n)
  BY DEF DoQueue
<1>2. /\ th = "handler" /\ n \in Names /\ script[th] # <<>> /\ At(th, "queue")
      /\ script[th][1].do = "queue" /\ n \in script[th][1].docs
  <2>1. th = "handler" /\ script[th][1].docs \subseteq Names
    BY <1>0, OnlyHandler DEF Instructions
  <2>2. /\ script[th] # <<>> /\ 1 \in DOMAIN script[th] /\ script[th][1].do = "queue"
        /\ n \in script[th][1].docs
    BY <1>0, SectionFacts
  <2> QED BY <2>1, <2>2 DEF Docs, At
<1>3. /\ docs' = docs /\ onDisk' = onDisk /\ open' = open /\ diagCache' = diagCache /\ strict' = strict
      /\ revision' = revision /\ buffer' = buffer /\ calls' = calls /\ fresh' = fresh /\ files' = files
      /\ watch' = watch /\ served' = served /\ pub' = pub /\ renderNotify' = renderNotify
      /\ markers' = markers /\ rendered' = rendered
  BY DEF DoQueue, workspace, editor, disk, screen
<1>4. /\ script' \in [Threads -> Seq(Sections)]
      /\ \A t \in Threads \ {th} : script'[t] = script[t]
      /\ \A what, m : /\ Todo(what, m)' => Todo(what, m)
                      /\ Todo(what, m) /\ what # "queue" => Todo(what, m)'
  BY <1>0, <1>1, <1>2, DoneStep
<1>5. PICK k \in {0, 1} : Rest(script'[th], script[th], [script[th][1] EXCEPT !.docs = @ \ {n}], k)
  BY <1>0, <1>1, <1>2, DoneStep
<1>6. pub.by # th
  BY <1>0, <1>2, Unheld DEF At
<1>7. /\ crossDoc' \in [Names -> Timers] /\ ~Quiet(crossDoc, n)'
      /\ \A m \in Names \ {n} : crossDoc'[m] = crossDoc[m]
  <2>1. crossDoc \in [Names -> Timers] /\ n \in Names
    BY <1>0, <1>2 DEF TypeInv
  <2>2. crossDoc' = Trigger(crossDoc, n)
    BY <1>1
  <2>3. /\ Trigger(crossDoc, n) \in [Names -> Timers] /\ ~Quiet(Trigger(crossDoc, n), n)
        /\ \A m \in Names \ {n} : Trigger(crossDoc, n)[m] = crossDoc[m]
    BY <2>1, TimerSteps
  <2> QED BY <2>2, <2>3 DEF Quiet
<1>8. TypeInv'
  BY <1>0, <1>3, <1>4, <1>7 DEF TypeInv
<1>9. ScriptInv'
  BY <1>0, <1>1, <1>2, <1>3, <1>6, DoneUnheld
<1>10. TabInv' /\ FileInv'
  <2>1. \A m \in Names : m \in Docs("handler", "update")' =>
                           /\ m \in Docs("handler", "update")
                           /\ Head(script'["handler"]).edit = Head(script["handler"]).edit
    BY <1>0, <1>1, <1>2, UpdatesFirst
  <2>2. \A what \in Opening \cup {"close"} : \A m \in Names : Todo(what, m)' <=> Todo(what, m)
    BY <1>4 DEF Opening
  <2> QED BY <1>0, <1>3, <1>4, <2>1, <2>2, TextsKept
<1>11. OrderInv'
  BY <1>0, <1>3, <1>4 DEF OrderInv, Todo
<1>12. ClosedInv'
  <2>1. ~At("handler", "publish")
    BY <1>2 DEF At
  <2>2. /\ Todo("clear", pub.doc)' <=> Todo("clear", pub.doc)
        /\ \A m : /\ Todo("clear", m)' <=> Todo("clear", m)
                  /\ Todo("publish", m)' => Todo("publish", m)
                  /\ Todo("open", m)' <=> Todo("open", m)
                  /\ Todo("drop", m)' <=> Todo("drop", m)
    BY <1>3, <1>4 DEF Todo
  <2> QED BY <1>0, <1>3, <2>1, <2>2 DEF ClosedInv
<1>13. ASSUME NEW m \in Names, Refreshing(m)
       PROVE  Refreshing(m)'
  <2>1. \A key \in Names : ~Quiet(crossDoc, key) => ~Quiet(crossDoc, key)'
    BY <1>7 DEF Quiet
  <2>2. Refreshes(th, 1, m) => Refreshing(m)'
    <3> SUFFICES ASSUME Refreshes(th, 1, m) PROVE Refreshing(m)'
      OBVIOUS
    <3>1. m # n
      BY <1>2 DEF Refreshes
    <3> QED BY <1>2, <1>7, <3>1 DEF Refreshing
  <2> QED BY <1>3, <1>4, <1>5, <1>6, <1>13, <2>1, <2>2, RefreshKept
<1>14. ScreenInv'
  <2>1. \A m \in Names : Todo("clear", m)' <=> Todo("clear", m)
    BY <1>4
  <2> QED BY <1>0, <1>3, <1>13, <2>1 DEF ScreenInv, Quiet, TypeInv
<1> QED BY <1>8, <1>9, <1>10, <1>11, <1>12, <1>14 DEF ServerInv

\* The script s with its first section replaced by a sweep of names, if any.
Swept(s, names) == (IF names = {} THEN <<>> ELSE <<Section("sweep", names)>>) \o Tail(s)

(* A script whose refresh has become the sweep it asks for, or nothing.      *)
LEMMA RefreshRests ==
  ASSUME NEW s \in Seq(Sections), s # <<>>, s[1].do = "refresh", NEW names \in SUBSET Names
  PROVE  \E k \in {0, 1} :
           /\ Rest(Swept(s, names), s, Section("sweep", names), k) /\ (k = 1 <=> names = {})
           /\ HandlerScript(s) => HandlerScript(Swept(s, names))
           /\ SweepScript(s) => SweepScript(Swept(s, names))
           /\ \A what, m : what \notin {"refresh", "sweep"} =>
                            (Ahead(Swept(s, names), what, m) <=> Ahead(s, what, m))
<1> DEFINE w == Swept(s, names)
           first == Section("sweep", names)
           k == IF names = {} THEN 1 ELSE 0
<1>1. first.do = "sweep" /\ first.docs = names
  BY SectionOf
<1>2. first \in Sections
  BY DEF Section, Sections, Instructions, NoEdit, Edits
<1>3. Rest(w, s, first, k)
  <2>1. CASE names = {}
    <3>1. Tail(s) \in Seq(Sections)
      BY HeadTailProperties
    <3>2. w = Tail(s)
      BY <2>1, <3>1, ConcatEmptySeq DEF Swept
    <3> QED BY <2>1, <3>2, TailRests
  <2>2. CASE names # {}
    BY <1>2, <2>2, ReplacedRests DEF Swept
  <2> QED BY <2>1, <2>2
<1>4. k \in {0, 1} /\ (k = 1 <=> names = {})
  OBVIOUS
<1>0. first = Section("sweep", names)
  OBVIOUS
<1> HIDE DEF w, first, k
<1>5. HandlerScript(s) => HandlerScript(w)
  BY <1>1, <1>3, HandlerScriptRests
<1>6. ASSUME SweepScript(s) PROVE SweepScript(w)
  <2>1. ASSUME NEW i \in DOMAIN w PROVE w[i].do \in {"refresh", "sweep"}
    <3>1. CASE k = 0 /\ i = 1
      BY <1>1, <1>3, <3>1 DEF Rest
    <3>2. CASE ~(k = 0 /\ i = 1)
      BY <1>3, <1>6, <3>2, EarlierSections DEF SweepScript
    <3> QED BY <3>1, <3>2
  <2> QED BY <2>1 DEF SweepScript
<1>7. ASSUME NEW what, NEW m, what \notin {"refresh", "sweep"}
      PROVE  Ahead(w, what, m) <=> Ahead(s, what, m)
  <2>1. ASSUME NEW i \in DOMAIN w, w[i].do = what, m \in w[i].docs PROVE Ahead(s, what, m)
    <3>1. ~(k = 0 /\ i = 1)
      BY <1>1, <1>3, <1>7, <2>1 DEF Rest
    <3>2. i + k \in DOMAIN s /\ w[i] = s[i + k]
      BY <1>3, <3>1, EarlierSections
    <3> QED BY <2>1, <3>2 DEF Ahead
  <2>2. ASSUME NEW i \in DOMAIN s, s[i].do = what, m \in s[i].docs PROVE Ahead(w, what, m)
    <3>1. i > 1
      BY <1>3, <1>7, <2>2 DEF Rest
    <3>2. i - k \in DOMAIN w /\ w[i - k] = s[i]
      BY <1>3, <3>1, LaterSections
    <3> QED BY <2>2, <3>2 DEF Ahead
  <2> QED BY <2>1, <2>2 DEF Ahead
<1> QED BY <1>0, <1>3, <1>4, <1>5, <1>6, <1>7 DEF w

(* DoRefresh: the open documents of this moment are to be swept.             *)
LEMMA DoRefreshKeeps ==
  ASSUME ServerInv, NEW th \in Threads, DoRefresh(th)
  PROVE  ServerInv'
<1>0. TypeInv /\ ScriptInv /\ TabInv /\ FileInv /\ OrderInv /\ ClosedInv /\ ScreenInv
  BY DEF ServerInv
<1>1. PICK except \in Docs(th, "refresh") :
        script' = [script EXCEPT ![th] = (IF open \ {except} = {} THEN <<>>
                                          ELSE <<Section("sweep", open \ {except})>>) \o Tail(@)]
  BY DEF DoRefresh
<1> DEFINE names == open \ {except}
           s == script[th]
           w == script'[th]
<1>2. /\ s \in Seq(Sections) /\ s # <<>> /\ At(th, "refresh") /\ 1 \in DOMAIN s
      /\ s[1].do = "refresh" /\ except \in s[1].docs /\ names \in SUBSET Names
  <2>1. /\ s \in Seq(Sections) /\ s # <<>> /\ 1 \in DOMAIN s /\ s[1].do = "refresh"
        /\ except \in s[1].docs
    BY <1>0, SectionFacts
  <2> QED BY <1>0, <2>1 DEF Docs, At, TypeInv
<1>3. /\ docs' = docs /\ onDisk' = onDisk /\ open' = open /\ diagCache' = diagCache /\ strict' = strict
      /\ revision' = revision /\ buffer' = buffer /\ calls' = calls /\ fresh' = fresh /\ files' = files
      /\ watch' = watch /\ served' = served /\ pub' = pub /\ renderNotify' = renderNotify
      /\ markers' = markers /\ rendered' = rendered /\ crossDoc' = crossDoc
  BY DEF DoRefresh, InWorkspace, workspace, editor, disk, screen
<1>4. /\ w = Swept(s, names)
      /\ \A t \in Threads \ {th} : script'[t] = script[t]
  BY <1>0, <1>1 DEF TypeInv, Swept
<1>5. PICK k \in {0, 1} :
        /\ Rest(w, s, Section("sweep", names), k) /\ (k = 1 <=> names = {})
        /\ HandlerScript(s) => HandlerScript(w)
        /\ SweepScript(s) => SweepScript(w)
        /\ \A what, m : what \notin {"refresh", "sweep"} => (Ahead(w, what, m) <=> Ahead(s, what, m))
  <2> HIDE DEF names, s, w
  <2> QED BY <1>2, <1>4, RefreshRests
<1>6. script' \in [Threads -> Seq(Sections)]
  <2>1. w \in Seq(Sections)
    BY <1>5 DEF Rest
  <2> QED BY <1>0, <1>1, <2>1 DEF TypeInv
<1>7. TypeInv'
  BY <1>0, <1>3, <1>6 DEF TypeInv
<1>8. pub.by # th
  BY <1>0, <1>2, Unheld DEF At
<1>9. ScriptInv'
  <2>1. HandlerScript(script'["handler"])
    BY <1>0, <1>4, <1>5 DEF ScriptInv, Threads
  <2>2. ASSUME NEW t \in Sweeps PROVE SweepScript(script'[t])
    BY <1>0, <1>4, <1>5 DEF ScriptInv, Threads
  <2>3. ASSUME NEW t \in Threads, pub'.by = t
        PROVE  pub'.doc \in Names /\ pub'.doc \in Docs(t, "publish")' \cup Docs(t, "sweep")'
    <3>1. script'[t] = script[t]
      BY <1>3, <1>4, <1>8, <2>3
    <3> QED BY <1>0, <1>3, <2>3, <3>1 DEF ScriptInv, Docs, At
  <2> QED BY <1>0, <1>3, <2>1, <2>2, <2>3 DEF ScriptInv
<1>10. ASSUME NEW what, NEW m, what \notin {"refresh", "sweep"}
       PROVE  Todo(what, m)' <=> Todo(what, m)
  <2>1. CASE th = "handler"
    BY <1>5, <1>10, <2>1 DEF Todo
  <2>2. CASE th # "handler"
    BY <1>4, <2>2 DEF Todo, Threads
  <2> QED BY <2>1, <2>2
<1>11. TabInv' /\ FileInv'
  <2>1. ASSUME NEW m, m \in Docs("handler", "update")'
        PROVE  /\ m \in Docs("handler", "update")
               /\ Head(script'["handler"]).edit = Head(script["handler"]).edit
    <3>1. CASE th = "handler"
      <4>1. w \in Seq(Sections) /\ w # <<>> /\ Head(w).do = "update" /\ m \in Head(w).docs
        BY <1>6, <2>1, <3>1 DEF Docs, At, Threads
      <4>2. Head(w) = w[1] /\ 1 \in DOMAIN w
        BY <4>1, EmptySeq, LenProperties, HeadTailProperties
      <4>3. Todo("update", m)'
        BY <3>1, <4>1, <4>2 DEF Todo, Ahead
      <4>4. ~Todo("update", m)
        BY <1>0, <1>2, <3>1, HeadExcludes DEF Opening
      <4> QED BY <1>10, <4>3, <4>4
    <3>2. CASE th # "handler"
      BY <1>4, <2>1, <3>2 DEF Docs, At, Threads
    <3> QED BY <3>1, <3>2
  <2>2. \A what \in Opening \cup {"close"} : \A m \in Names : Todo(what, m)' <=> Todo(what, m)
    BY <1>10 DEF Opening
  <2>3. \A m \in Names : Todo("clear", m)' => Todo("clear", m)
    BY <1>10
  <2> QED BY <1>0, <1>3, <2>1, <2>2, <2>3, TextsKept
<1>12. OrderInv'
  <2>1. Todo("clear", pub.doc)' <=> Todo("clear", pub.doc)
    BY <1>3, <1>10 DEF Todo
  <2> QED BY <1>0, <1>3, <2>1 DEF OrderInv
<1>13. ClosedInv'
  <2>1. Todo("clear", pub.doc)' <=> Todo("clear", pub.doc)
    BY <1>3, <1>10 DEF Todo
  <2>2. pub.by = "handler" => (At("handler", "publish")' <=> At("handler", "publish"))
    BY <1>4, <1>8 DEF At, Threads
  <2> QED BY <1>0, <1>3, <1>10, <2>1, <2>2 DEF ClosedInv
<1>14. ASSUME NEW m \in open, Refreshing(m)
       PROVE  Refreshing(m)'
  <2>1. m \in Names
    BY <1>0, <1>14 DEF TypeInv
  <2>2. \A key \in Names : ~Quiet(crossDoc, key) => ~Quiet(crossDoc, key)'
    BY <1>3 DEF Quiet
  <2>3. Refreshes(th, 1, m) => Refreshing(m)'
    <3> SUFFICES ASSUME Refreshes(th, 1, m) PROVE Refreshing(m)'
      OBVIOUS
    <3>1. m \in names
      BY <1>2, <1>14 DEF Refreshes
    <3>2. 1 \in DOMAIN w /\ w[1] = Section("sweep", names)
      <4> HIDE DEF names, s, w
      <4>1. k = 0
        BY <1>5, <3>1
      <4> QED BY <1>5, <4>1 DEF Rest
    <3>3. w[1].do = "sweep" /\ w[1].docs = names
      BY <3>2, SectionOf
    <3>4. Refreshes(th, 1, m)'
      BY <1>3, <1>8, <3>1, <3>3 DEF Refreshes
    <3> QED BY <3>2, <3>4 DEF Refreshing
  <2> QED BY <1>3, <1>4, <1>5, <1>8, <1>14, <2>1, <2>2, <2>3, RefreshKept
<1>15. ScreenInv'
  BY <1>0, <1>3, <1>10, <1>14 DEF ScreenInv, Quiet
<1> QED BY <1>7, <1>9, <1>11, <1>12, <1>13, <1>15 DEF ServerInv

(* DoClear: the markers of a closed document are withdrawn.                  *)
LEMMA DoClearKeeps ==
  ASSUME ServerInv, NEW th \in Threads, DoClear(th)
  PROVE  ServerInv'
<1>0. TypeInv /\ ScriptInv /\ TabInv /\ FileInv /\ OrderInv /\ ClosedInv /\ ScreenInv
  BY DEF ServerInv
<1>1. PICK n \in Docs(th, "clear") : markers' = [markers EXCEPT ![n] = 0] /\ Done(th, n)
  BY DEF DoClear
<1>2. /\ th = "handler" /\ n \in Names /\ script[th] # <<>> /\ At(th, "clear")
      /\ script[th][1].do = "clear" /\ n \in script[th][1].docs /\ Todo("clear", n)
  <2>1. th = "handler" /\ script[th][1].docs \subseteq Names
    BY <1>0, OnlyHandler DEF Instructions
  <2>2. /\ script[th] # <<>> /\ 1 \in DOMAIN script[th] /\ script[th][1].do = "clear"
        /\ n \in script[th][1].docs
    BY <1>0, SectionFacts
  <2> QED BY <2>1, <2>2 DEF Docs, At, Todo, Ahead
<1>3. /\ docs' = docs /\ onDisk' = onDisk /\ open' = open /\ diagCache' = diagCache /\ strict' = strict
      /\ revision' = revision /\ buffer' = buffer /\ calls' = calls /\ fresh' = fresh /\ files' = files
      /\ watch' = watch /\ served' = served /\ pub' = pub /\ renderNotify' = renderNotify
      /\ crossDoc' = crossDoc /\ rendered' = rendered /\ pub = Free
  BY DEF DoClear, workspace, editor, disk
<1>4. /\ script' \in [Threads -> Seq(Sections)]
      /\ \A t \in Threads \ {th} : script'[t] = script[t]
      /\ \A what, m : /\ Todo(what, m)' => Todo(what, m)
                      /\ Todo(what, m) /\ ~(what = "clear" /\ m = n) => Todo(what, m)'
  BY <1>0, <1>1, <1>2, DoneStep
<1>5. PICK k \in {0, 1} : Rest(script'[th], script[th], [script[th][1] EXCEPT !.docs = @ \ {n}], k)
  BY <1>0, <1>1, <1>2, DoneStep
<1>6. pub.by = "nobody" /\ pub.by # th /\ pub.seen = 0
  BY <1>3, ServerAssumption DEF Free, Threads
<1>7. ASSUME NEW m \in Names
      PROVE  /\ ~Todo("publish", m)
             /\ ~Pending(m)
  <2>1. ~Todo("publish", m) /\ ~Todo("open", m) /\ ~Todo("update", m) /\ ~Todo("close", m)
    BY <1>0, <1>2, HeadExcludes DEF Opening
  <2> QED BY <2>1, PendingTodo
<1>8. n \notin open
  BY <1>0, <1>2, <1>7 DEF TabInv
<1>9. markers'[n] = 0 /\ \A m \in Names \ {n} : markers'[m] = markers[m]
  BY <1>0, <1>1, <1>2 DEF TypeInv
<1>10. TypeInv'
  BY <1>0, <1>1, <1>3, <1>4 DEF TypeInv
<1>11. ScriptInv'
  BY <1>0, <1>1, <1>2, <1>3, <1>6, DoneUnheld
<1>12. TabInv' /\ FileInv'
  <2>1. \A m \in Names : m \in Docs("handler", "update")' =>
                           /\ m \in Docs("handler", "update")
                           /\ Head(script'["handler"]).edit = Head(script["handler"]).edit
    BY <1>0, <1>1, <1>2, UpdatesFirst
  <2>2. \A what \in Opening \cup {"close"} : \A m \in Names : Todo(what, m)' <=> Todo(what, m)
    BY <1>4 DEF Opening
  <2> QED BY <1>0, <1>3, <1>4, <2>1, <2>2, TextsKept
<1>13. OrderInv'
  <2>1. revision \in Nat
    BY <1>0 DEF TypeInv
  <2> QED BY <1>0, <1>3, <1>6, <1>9, <2>1 DEF OrderInv
<1>14. ClosedInv'
  BY <1>0, <1>3, <1>4, <1>6, <1>7, <1>9 DEF ClosedInv
<1>15. ASSUME NEW m \in Names, Refreshing(m)
       PROVE  Refreshing(m)'
  <2>1. ~Refreshes(th, 1, m)
    BY <1>2 DEF Refreshes
  <2>2. \A key \in Names : ~Quiet(crossDoc, key) => ~Quiet(crossDoc, key)'
    BY <1>3 DEF Quiet
  <2> QED BY <1>3, <1>4, <1>5, <1>6, <1>15, <2>1, <2>2, RefreshKept
<1>16. ScreenInv'
  <2>1. ASSUME NEW m \in open PROVE m \in Names /\ m # n /\ markers'[m] = markers[m]
    BY <1>0, <1>8, <1>9 DEF TypeInv
  <2> QED BY <1>0, <1>3, <1>4, <1>15, <2>1 DEF ScreenInv, Quiet
<1> QED BY <1>10, <1>11, <1>12, <1>13, <1>14, <1>16 DEF ServerInv

(* SkipClosed: a document closed since the sweep was asked for is passed over. *)
LEMMA SkipKeeps ==
  ASSUME ServerInv, NEW th \in Threads, SkipClosed(th)
  PROVE  ServerInv'
<1>0. TypeInv /\ ScriptInv /\ TabInv /\ FileInv /\ OrderInv /\ ClosedInv /\ ScreenInv
  BY DEF ServerInv
<1>1. PICK n \in Docs(th, "sweep") \ open : Done(th, n)
  BY DEF SkipClosed
<1>2. script[th] # <<>> /\ At(th, "sweep") /\ script[th][1].do = "sweep"
      /\ n \in script[th][1].docs /\ script[th][1] \in Sections /\ 1 \in DOMAIN script[th]
  <2>1. /\ script[th] # <<>> /\ script[th][1].do = "sweep" /\ n \in script[th][1].docs
        /\ script[th][1] \in Sections /\ 1 \in DOMAIN script[th]
    BY <1>0, SectionFacts
  <2> QED BY <2>1 DEF Docs, At
<1>3. /\ docs' = docs /\ onDisk' = onDisk /\ open' = open /\ diagCache' = diagCache /\ strict' = strict
      /\ revision' = revision /\ buffer' = buffer /\ calls' = calls /\ fresh' = fresh /\ files' = files
      /\ watch' = watch /\ served' = served /\ pub' = pub /\ renderNotify' = renderNotify
      /\ crossDoc' = crossDoc /\ markers' = markers /\ rendered' = rendered /\ pub = Free
  BY DEF SkipClosed, InWorkspace, workspace, editor, disk, screen
<1>4. /\ script' \in [Threads -> Seq(Sections)]
      /\ \A t \in Threads \ {th} : script'[t] = script[t]
      /\ \A what, m : /\ Todo(what, m)' => Todo(what, m)
                      /\ Todo(what, m) /\ what # "sweep" => Todo(what, m)'
  BY <1>0, <1>1, <1>2, DoneStep
<1> DEFINE first == [script[th][1] EXCEPT !.docs = @ \ {n}]
<1>5. PICK k \in {0, 1} : Rest(script'[th], script[th], first, k) /\ (k = 1 => script[th][1].docs \subseteq {n})
  BY <1>0, <1>1, <1>2, DoneStep
<1>6. first.do = "sweep" /\ first.docs = script[th][1].docs \ {n}
  BY <1>2 DEF Sections
<1> HIDE DEF first
<1>7. pub.by = "nobody" /\ pub.by # th
  BY <1>3, ServerAssumption DEF Free, Threads
<1>8. TypeInv'
  BY <1>0, <1>3, <1>4 DEF TypeInv
<1>9. ScriptInv'
  BY <1>0, <1>1, <1>2, <1>3, <1>7, DoneUnheld
<1>10. TabInv' /\ FileInv'
  <2>1. \A m \in Names : m \in Docs("handler", "update")' =>
                           /\ m \in Docs("handler", "update")
                           /\ Head(script'["handler"]).edit = Head(script["handler"]).edit
    <3>1. CASE th = "handler"
      BY <1>0, <1>1, <1>2, <3>1, UpdatesFirst
    <3>2. CASE th # "handler"
      BY <1>4, <3>2 DEF Docs, At, Threads
    <3> QED BY <3>1, <3>2
  <2>2. \A what \in Opening \cup {"close"} : \A m \in Names : Todo(what, m)' <=> Todo(what, m)
    BY <1>4 DEF Opening
  <2> QED BY <1>0, <1>3, <1>4, <2>1, <2>2, TextsKept
<1>11. OrderInv'
  BY <1>0, <1>3, <1>7 DEF OrderInv
<1>12. ClosedInv'
  BY <1>0, <1>3, <1>4, <1>7 DEF ClosedInv
<1>13. ASSUME NEW m \in open, Refreshing(m)
       PROVE  Refreshing(m)'
  <2>1. m \in Names /\ m # n
    BY <1>0, <1>1, <1>13 DEF TypeInv
  <2>2. \A key \in Names : ~Quiet(crossDoc, key) => ~Quiet(crossDoc, key)'
    BY <1>3 DEF Quiet
  <2>3. Refreshes(th, 1, m) => Refreshing(m)'
    <3> SUFFICES ASSUME Refreshes(th, 1, m) PROVE Refreshing(m)'
      OBVIOUS
    <3>1. m \in script[th][1].docs
      BY <1>2 DEF Refreshes
    <3>2. k = 0
      BY <1>5, <2>1, <3>1
    <3>3. 1 \in DOMAIN script'[th] /\ script'[th][1] = first
      BY <1>5, <3>2 DEF Rest
    <3>4. Refreshes(th, 1, m)'
      BY <1>3, <1>6, <1>7, <2>1, <3>1, <3>3 DEF Refreshes
    <3> QED BY <3>3, <3>4 DEF Refreshing
  <2> QED BY <1>3, <1>4, <1>5, <1>7, <1>13, <2>1, <2>2, <2>3, RefreshKept
<1>14. ScreenInv'
  BY <1>0, <1>3, <1>4, <1>13 DEF ScreenInv, Quiet
<1> QED BY <1>8, <1>9, <1>10, <1>11, <1>12, <1>14 DEF ServerInv

(* A handler or a sweep takes pubMu for a document it has to send.           *)
LEMMA LockKeeps ==
  ASSUME ServerInv, NEW th \in Threads, Lock(th)
  PROVE  ServerInv'
<1>0. TypeInv /\ ScriptInv /\ TabInv /\ FileInv /\ OrderInv /\ ClosedInv /\ ScreenInv
  BY DEF ServerInv
<1>1. PICK n \in Docs(th, "publish") \cup (Docs(th, "sweep") \cap open) :
        pub' = [Free EXCEPT !.by = th, !.doc = n]
  BY DEF Lock
<1>2. /\ docs' = docs /\ onDisk' = onDisk /\ open' = open /\ diagCache' = diagCache /\ strict' = strict
      /\ revision' = revision /\ buffer' = buffer /\ calls' = calls /\ fresh' = fresh /\ files' = files
      /\ watch' = watch /\ served' = served /\ renderNotify' = renderNotify /\ script' = script
      /\ crossDoc' = crossDoc /\ markers' = markers /\ rendered' = rendered
  BY DEF Lock, workspace, editor, disk, screen
<1>3. n \in Names /\ (n \notin open => th = "handler" /\ At(th, "publish"))
  <2>1. ASSUME n \in Docs(th, "publish") PROVE n \in Names /\ th = "handler" /\ At(th, "publish")
    <3>1. th = "handler" /\ script[th][1].docs \subseteq Names
      BY <1>0, <2>1, OnlyHandler DEF Instructions
    <3>2. Docs(th, "publish") = script[th][1].docs
      BY <1>0, <2>1, SectionFacts
    <3> QED BY <2>1, <3>1, <3>2 DEF Docs
  <2> QED BY <1>0, <2>1 DEF TypeInv
<1>4. pub' = [by |-> th, doc |-> n, analysed |-> FALSE, seen |-> 0] /\ th # "nobody"
  BY <1>1, ServerAssumption DEF Free, Threads
<1>5. TypeInv'
  <2>1. pub' \in Holders
    BY <1>3, <1>4 DEF Holders
  <2> QED BY <1>0, <1>2, <2>1 DEF TypeInv
<1>6. ScriptInv'
  BY <1>0, <1>1, <1>2, <1>3, <1>4 DEF ScriptInv, Docs, At
<1>7. \A what, m : Todo(what, m)' <=> Todo(what, m)
  BY <1>2 DEF Todo
<1>8. TabInv' /\ FileInv'
  BY <1>0, <1>2 DEF TabInv, FileInv, Docs, At, Todo, Pending
<1>9. OrderInv'
  <2>1. revision \in Nat
    BY <1>0 DEF TypeInv
  <2> QED BY <1>0, <1>2, <1>4, <2>1 DEF OrderInv
<1>10. ClosedInv'
  BY <1>0, <1>2, <1>3, <1>4, <1>7 DEF ClosedInv, At
<1>11. ASSUME NEW m \in Names, Refreshing(m)
       PROVE  Refreshing(m)'
  <2>1. ~Outdated(m)'
    BY <1>4 DEF Outdated
  <2> QED BY <1>2, <1>11, <2>1 DEF Refreshing, Refreshes, Quiet
<1>12. ScreenInv'
  BY <1>0, <1>2, <1>7, <1>11 DEF ScreenInv, Quiet, TypeInv
<1> QED BY <1>5, <1>6, <1>8, <1>9, <1>10, <1>12 DEF ServerInv

(* An analysis is of this revision, if there is a document.                  *)
LEMMA AnalysisIs ==
  ASSUME OrderInv, NEW n \in Names
  PROVE  Analysis(n) = IF docs[n] = Absent THEN 0 ELSE revision
BY DEF OrderInv, Analysis

(* Analyse: what is about to be sent is found under the workspace's lock.    *)
LEMMA AnalyseKeeps ==
  ASSUME ServerInv, NEW th \in Threads, Analyse(th)
  PROVE  ServerInv'
<1>0. TypeInv /\ ScriptInv /\ TabInv /\ FileInv /\ OrderInv /\ ClosedInv /\ ScreenInv
  BY DEF ServerInv
<1> DEFINE n == pub.doc
           found == IF docs[n] = Absent THEN 0 ELSE revision
<1>1. n \in Names /\ n \in Docs(th, "publish") \cup Docs(th, "sweep") /\ pub.by = th /\ th # "nobody"
  BY <1>0, ServerAssumption DEF Analyse, ScriptInv, Threads
<1>2. Analysis(n) = found
  BY <1>0, <1>1, AnalysisIs
<1>3. /\ docs' = docs /\ onDisk' = onDisk /\ open' = open /\ strict' = strict
      /\ revision' = revision /\ buffer' = buffer /\ calls' = calls /\ fresh' = fresh /\ files' = files
      /\ watch' = watch /\ served' = served /\ renderNotify' = renderNotify /\ script' = script
      /\ crossDoc' = crossDoc /\ markers' = markers /\ rendered' = rendered
  BY DEF Analyse, CacheAnalysis, editor, disk, screen
<1>4. /\ pub' = [pub EXCEPT !.analysed = TRUE, !.seen = found]
      /\ diagCache' = [diagCache EXCEPT ![n] = found]
  BY <1>2 DEF Analyse, CacheAnalysis
<1>5. revision \in Nat /\ found \in Nat /\ found <= revision
  BY <1>0 DEF TypeInv
<1>6. /\ pub' \in Holders /\ pub'.by = th /\ pub'.doc = n /\ pub'.analysed /\ pub'.seen = found
  BY <1>0, <1>1, <1>4, <1>5 DEF TypeInv, Holders
<1> HIDE DEF found
<1>7. found = IF docs[n] = Absent THEN 0 ELSE revision
  BY DEF found
<1>8. TypeInv'
  BY <1>0, <1>1, <1>3, <1>4, <1>5, <1>6 DEF TypeInv
<1>9. ScriptInv'
  BY <1>0, <1>1, <1>3, <1>6 DEF ScriptInv, Docs, At
<1>10. \A what, m : Todo(what, m)' <=> Todo(what, m)
  BY <1>3 DEF Todo
<1>11. TabInv' /\ FileInv'
  BY <1>0, <1>3 DEF TabInv, FileInv, Docs, At, Todo, Pending
<1>12. OrderInv'
  <2>1. ASSUME NEW m \in Names PROVE diagCache'[m] \in {0, revision}
    BY <1>0, <1>1, <1>4, <1>7 DEF OrderInv, TypeInv
  <2>2. found = 0 \/ found >= markers[n]
    BY <1>0, <1>1, <1>7 DEF OrderInv, TypeInv
  <2>3. ~(found = 0 /\ n \in open)
    <3> SUFFICES ASSUME n \in open PROVE found # 0
      OBVIOUS
    <3>1. docs[n] # Absent
      BY <1>0, <1>1 DEF TabInv
    <3> QED BY <1>0, <1>1, <1>5, <1>7, <3>1 DEF OrderInv
  <2> QED BY <1>0, <1>3, <1>5, <1>6, <2>1, <2>2, <2>3 DEF OrderInv
<1>13. ClosedInv'
  <2>1. n \in open \/ Todo("clear", n) \/ (th = "handler" /\ At("handler", "publish") /\ found = 0)
    <3> SUFFICES ASSUME n \notin open, ~Todo("clear", n)
                 PROVE  th = "handler" /\ At("handler", "publish") /\ found = 0
      OBVIOUS
    <3>1. th = "handler" /\ At("handler", "publish")
      BY <1>0, <1>1 DEF ClosedInv
    <3>2. Todo("publish", n)
      <4>1. n \in Docs(th, "publish")
        BY <1>1, <3>1 DEF Docs, At
      <4>2. 1 \in DOMAIN script[th] /\ script[th][1].do = "publish" /\ n \in script[th][1].docs
        BY <1>0, <4>1, SectionFacts
      <4> QED BY <3>1, <4>2 DEF Todo, Ahead
    <3>3. ~Todo("open", n) /\ ~Todo("drop", n)
      BY <1>0, <3>1, HeadExcludes DEF Opening
    <3> QED BY <1>0, <1>1, <1>7, <3>1, <3>2, <3>3 DEF ClosedInv
  <2> QED BY <1>0, <1>3, <1>6, <1>10, <2>1 DEF ClosedInv, At, Todo
<1>14. ASSUME NEW m \in open, Refreshing(m)
       PROVE  Refreshing(m)'
  <2>1. ~Outdated(m)'
    <3>1. m = n => found = revision
      BY <1>0, <1>1, <1>7, <1>14 DEF TabInv
    <3> QED BY <1>3, <1>6, <3>1 DEF Outdated
  <2> QED BY <1>3, <1>14, <2>1 DEF Refreshing, Refreshes, Quiet
<1>15. ScreenInv'
  BY <1>0, <1>3, <1>10, <1>14 DEF ScreenInv, Quiet
<1> QED BY <1>8, <1>9, <1>11, <1>12, <1>13, <1>15 DEF ServerInv

(* Send: the diagnostics found replace those on the screen.                  *)
LEMMA SendKeeps ==
  ASSUME ServerInv, NEW th \in Threads, Send(th)
  PROVE  ServerInv'
<1>0. TypeInv /\ ScriptInv /\ TabInv /\ FileInv /\ OrderInv /\ ClosedInv /\ ScreenInv
  BY DEF ServerInv
<1> DEFINE n == pub.doc
<1>1. /\ n \in Names /\ n \in Docs(th, "publish") \cup Docs(th, "sweep")
      /\ pub.by = th /\ th # "nobody" /\ pub.analysed /\ pub.seen \in Nat
  BY <1>0, ServerAssumption DEF Send, ScriptInv, Threads, TypeInv, Holders
<1>2. /\ docs' = docs /\ onDisk' = onDisk /\ open' = open /\ diagCache' = diagCache /\ strict' = strict
      /\ revision' = revision /\ buffer' = buffer /\ calls' = calls /\ fresh' = fresh /\ files' = files
      /\ watch' = watch /\ served' = served /\ crossDoc' = crossDoc /\ rendered' = rendered
  BY DEF Send, workspace, editor, disk
<1>3. /\ markers' = [markers EXCEPT ![n] = pub.seen] /\ pub' = Free /\ Done(th, n)
      /\ renderNotify' = IF n \in Drawn THEN Trigger(renderNotify, n) ELSE renderNotify
  BY DEF Send
<1>4. PICK what \in {"publish", "sweep"} : n \in Docs(th, what)
  BY <1>1
<1>5. /\ script[th] # <<>> /\ script[th][1].do = what /\ n \in script[th][1].docs
      /\ script[th][1] \in Sections /\ 1 \in DOMAIN script[th]
  BY <1>0, <1>4, SectionFacts
<1> HIDE DEF n
<1>6. /\ script' \in [Threads -> Seq(Sections)]
      /\ HandlerScript(script'["handler"]) /\ \A t \in Sweeps : SweepScript(script'[t])
      /\ \A t \in Threads \ {th} : script'[t] = script[t]
      /\ \A o, m : /\ Todo(o, m)' => Todo(o, m)
                   /\ Todo(o, m) /\ o # what => Todo(o, m)'
  BY <1>0, <1>3, <1>5, DoneStep
<1> DEFINE first == [script[th][1] EXCEPT !.docs = @ \ {n}]
<1>7. PICK k \in {0, 1} : Rest(script'[th], script[th], first, k) /\ (k = 1 => script[th][1].docs \subseteq {n})
  BY <1>0, <1>3, <1>5, DoneStep
<1>8. first.do = what /\ first.docs = script[th][1].docs \ {n}
  BY <1>5 DEF Sections
<1> HIDE DEF first
<1>9. pub'.by = "nobody" /\ "nobody" \notin Threads /\ pub'.seen = 0
  BY <1>3, ServerAssumption DEF Free, Threads
<1>10. markers'[n] = pub.seen /\ \A m \in Names \ {n} : markers'[m] = markers[m]
  BY <1>0, <1>1, <1>3 DEF TypeInv
<1>11. /\ renderNotify' \in [Names -> Timers]
       /\ n \in Drawn => ~Quiet(renderNotify', n)
       /\ \A m \in Names \ {n} : renderNotify'[m] = renderNotify[m]
  <2>1. CASE n \in Drawn
    <3>1. renderNotify \in [Names -> Timers]
      BY <1>0 DEF TypeInv
    <3>2. renderNotify' = Trigger(renderNotify, n)
      BY <1>3, <2>1
    <3> QED BY <1>1, <3>1, <3>2, TimerSteps
  <2>2. CASE n \notin Drawn
    BY <1>0, <1>3, <2>2 DEF TypeInv
  <2> QED BY <2>1, <2>2
<1>12. TypeInv'
  <2>1. pub' \in Holders
    BY <1>3 DEF Free, Holders
  <2> QED BY <1>0, <1>1, <1>2, <1>3, <1>6, <1>11, <2>1 DEF TypeInv
<1>13. ScriptInv'
  BY <1>3, <1>6, <1>9 DEF ScriptInv
<1>14. TabInv' /\ FileInv'
  <2>1. \A m \in Names : m \in Docs("handler", "update")' =>
                           /\ m \in Docs("handler", "update")
                           /\ Head(script'["handler"]).edit = Head(script["handler"]).edit
    <3>1. CASE th = "handler"
      BY <1>0, <1>3, <1>5, <3>1, UpdatesFirst
    <3>2. CASE th # "handler"
      BY <1>6, <3>2 DEF Docs, At, Threads
    <3> QED BY <3>1, <3>2
  <2>2. \A o \in Opening \cup {"close"} : \A m \in Names : Todo(o, m)' <=> Todo(o, m)
    BY <1>6 DEF Opening
  <2> QED BY <1>0, <1>2, <1>6, <2>1, <2>2, TextsKept
<1>15. OrderInv'
  <2>1. pub.seen <= revision /\ revision \in Nat
    BY <1>0 DEF OrderInv, TypeInv
  <2> QED BY <1>0, <1>2, <1>9, <1>10, <2>1 DEF OrderInv
<1>16. ClosedInv'
  <2>1. n \notin open /\ ~Todo("clear", n) => pub.seen = 0
    BY <1>0, <1>1 DEF ClosedInv, n
  <2>2. ASSUME NEW m \in Names, m \notin open', ~Todo("clear", m)' PROVE markers'[m] = 0
    BY <1>0, <1>2, <1>6, <1>10, <2>1, <2>2 DEF ClosedInv
  <2>3. ASSUME NEW m \in Names
        PROVE  /\ Todo("publish", m)' => Todo("publish", m)
               /\ Todo("open", m) => Todo("open", m)'
               /\ Todo("drop", m) => Todo("drop", m)'
    BY <1>6
  <2> QED BY <1>0, <1>2, <1>9, <2>2, <2>3 DEF ClosedInv
<1>17. ASSUME NEW m \in Names, Refreshing(m), m = n => Outdated(n)
       PROVE  Refreshing(m)'
  <2>1. \A key \in Names : ~Quiet(crossDoc, key) => ~Quiet(crossDoc, key)'
    BY <1>2 DEF Quiet
  <2>2. Refreshes(th, 1, m) => Refreshing(m)'
    <3> SUFFICES ASSUME Refreshes(th, 1, m) PROVE Refreshing(m)'
      OBVIOUS
    <3>1. m \in script[th][1].docs /\ m # n
      BY <1>1, <1>5, <1>17 DEF Refreshes
    <3>2. k = 0
      BY <1>7, <3>1
    <3>3. 1 \in DOMAIN script'[th] /\ script'[th][1] = first
      BY <1>7, <3>2 DEF Rest
    <3>4. Refreshes(th, 1, m)'
      BY <1>8, <1>9, <3>1, <3>3 DEF Refreshes
    <3> QED BY <3>3, <3>4 DEF Refreshing
  <2> QED BY <1>2, <1>3, <1>6, <1>7, <1>17, <2>1, <2>2, RefreshKept
<1>18. ScreenInv'
  <2> SUFFICES ASSUME NEW m \in open', ~Todo("clear", m)'
               PROVE  /\ markers'[m] = revision' \/ Refreshing(m)'
                      /\ m \in Drawn => rendered'[m] = revision' \/ ~Quiet(renderNotify, m)' \/ Refreshing(m)'
    BY DEF ScreenInv
  <2>1. m \in open /\ m \in Names /\ ~Todo("clear", m)
    BY <1>0, <1>2, <1>6 DEF TypeInv
  <2>2. CASE m # n
    BY <1>0, <1>2, <1>10, <1>11, <1>17, <2>1, <2>2 DEF ScreenInv, Quiet
  <2>3. CASE m = n /\ pub.seen = revision
    BY <1>2, <1>10, <1>11, <2>3 DEF Quiet
  <2>4. CASE m = n /\ pub.seen # revision
    <3>1. Outdated(n)
      BY <1>1, <2>4 DEF Outdated, n
    <3>2. pub.seen # 0 /\ pub.seen >= markers[n] /\ pub.seen <= revision
      BY <1>0, <1>1, <2>1, <2>4 DEF OrderInv, n
    <3>3. markers[n] # revision
      BY <1>0, <1>1, <2>4, <3>2 DEF TypeInv
    <3>4. Refreshing(m)
      BY <1>0, <2>1, <2>4, <3>3 DEF ScreenInv
    <3> QED BY <1>17, <2>1, <2>4, <3>1, <3>4
  <2> QED BY <2>2, <2>3, <2>4
<1> QED BY <1>12, <1>13, <1>14, <1>15, <1>16, <1>18 DEF ServerInv

----------------------------------------------------------------------------
(* The timers' steps.                                                      *)

(* What a timer keeps, that touches no document and does nothing of a script *)
(* that is begun.                                                            *)
LEMMA TimerKeeps ==
  ASSUME ServerInv,
         UNCHANGED <<workspace, editor, disk, served, pub, markers>>,
         script'["handler"] = script["handler"],
         \A th \in Threads : script[th] # <<>> => script'[th] = script[th],
         \A th \in Sweeps : SweepScript(script'[th]),
         \A m \in Names : rendered'[m] \in {rendered[m], revision}
  PROVE  ScriptInv' /\ TabInv' /\ FileInv' /\ OrderInv' /\ ClosedInv'
<1>0. TypeInv /\ ScriptInv /\ TabInv /\ FileInv /\ OrderInv /\ ClosedInv
  BY DEF ServerInv
<1>1. /\ docs' = docs /\ onDisk' = onDisk /\ open' = open /\ diagCache' = diagCache /\ strict' = strict
      /\ revision' = revision /\ buffer' = buffer /\ calls' = calls /\ fresh' = fresh /\ files' = files
      /\ watch' = watch /\ served' = served /\ pub' = pub /\ markers' = markers
  BY DEF workspace, editor, disk
<1>2. \A what, m : Todo(what, m)' <=> Todo(what, m)
  BY DEF Todo
<1>3. ScriptInv'
  <2>1. ASSUME NEW th \in Threads, pub.by = th
        PROVE  /\ pub.doc \in Names
               /\ pub.doc \in Docs(th, "publish")' \cup Docs(th, "sweep")'
    <3>1. pub.doc \in Docs(th, "publish") \cup Docs(th, "sweep") /\ pub.doc \in Names
      BY <1>0, <2>1 DEF ScriptInv
    <3>2. script'[th] = script[th]
      BY <3>1 DEF Docs, At
    <3> QED BY <3>1, <3>2 DEF Docs, At
  <2> QED BY <1>0, <1>1, <2>1 DEF ScriptInv, Docs, At
<1>4. TabInv' /\ FileInv'
  BY <1>0, <1>1 DEF TabInv, FileInv, Docs, At, Todo, Pending
<1>5. OrderInv'
  <2>1. revision \in Nat
    BY <1>0 DEF TypeInv
  <2> QED BY <1>0, <1>1, <2>1 DEF OrderInv, Todo
<1>6. ClosedInv'
  BY <1>0, <1>1 DEF ClosedInv, At, Todo
<1> QED BY <1>3, <1>4, <1>5, <1>6

(* A timer of a sweep elapses, or its sweep begins.                          *)
LEMMA SweepTimerKeeps ==
  ASSUME ServerInv, NEW key \in Names, SweepExpires(key) \/ StartSweep(key)
  PROVE  ServerInv'
<1>0. TypeInv /\ ScriptInv /\ ScreenInv
  BY DEF ServerInv
<1>1. CASE SweepExpires(key)
  <2>1. /\ docs' = docs /\ onDisk' = onDisk /\ open' = open /\ diagCache' = diagCache /\ strict' = strict
        /\ revision' = revision /\ buffer' = buffer /\ calls' = calls /\ fresh' = fresh /\ files' = files
        /\ watch' = watch /\ served' = served /\ pub' = pub /\ markers' = markers
        /\ rendered' = rendered /\ renderNotify' = renderNotify /\ script' = script
    BY <1>1 DEF SweepExpires, workspace, editor, disk, screen
  <2>2. /\ crossDoc' \in [Names -> Timers] /\ ~Quiet(crossDoc, key)'
        /\ \A m \in Names \ {key} : crossDoc'[m] = crossDoc[m]
    <3>1. crossDoc \in [Names -> Timers]
      BY <1>0 DEF TypeInv
    <3>2. Armed(crossDoc, key) /\ crossDoc' = Expired(crossDoc, key)
      BY <1>1 DEF SweepExpires
    <3>3. /\ Expired(crossDoc, key) \in [Names -> Timers] /\ ~Quiet(Expired(crossDoc, key), key)
          /\ \A m \in Names \ {key} : Expired(crossDoc, key)[m] = crossDoc[m]
      BY <3>1, <3>2, TimerSteps
    <3> QED BY <3>2, <3>3 DEF Quiet
  <2>3. TypeInv'
    BY <1>0, <2>1, <2>2 DEF TypeInv
  <2>4. ScriptInv' /\ TabInv' /\ FileInv' /\ OrderInv' /\ ClosedInv'
    BY <1>0, <1>1, <2>1, TimerKeeps DEF SweepExpires, ScriptInv
  <2>5. ASSUME NEW m \in Names, Refreshing(m) PROVE Refreshing(m)'
    BY <2>1, <2>2, <2>5 DEF Refreshing, Refreshes, Outdated, Quiet
  <2>6. ScreenInv'
    BY <1>0, <2>1, <2>5 DEF ScreenInv, Quiet, Todo, TypeInv
  <2> QED BY <2>3, <2>4, <2>6 DEF ServerInv
<1>2. CASE StartSweep(key)
  <2> DEFINE s == <<Section("refresh", {key})>>
  <2>1. PICK th \in Sweeps :
          /\ Due(crossDoc, key) /\ script[th] = <<>> /\ crossDoc' = Forget(crossDoc, key)
          /\ script' = [script EXCEPT ![th] = s]
    BY <1>2 DEF StartSweep
  <2>2. /\ docs' = docs /\ onDisk' = onDisk /\ open' = open /\ diagCache' = diagCache /\ strict' = strict
        /\ revision' = revision /\ buffer' = buffer /\ calls' = calls /\ fresh' = fresh /\ files' = files
        /\ watch' = watch /\ served' = served /\ pub' = pub /\ markers' = markers
        /\ rendered' = rendered /\ renderNotify' = renderNotify
    BY <1>2 DEF StartSweep, workspace, editor, disk, screen
  <2>3. /\ crossDoc' \in [Names -> Timers]
        /\ \A m \in Names \ {key} : crossDoc'[m] = crossDoc[m]
    BY <1>0, <2>1, TimerSteps DEF TypeInv
  <2>4. /\ s \in Seq(Sections) /\ DOMAIN s = {1} /\ s[1] = Section("refresh", {key})
    <3>1. Section("refresh", {key}) \in Sections
      BY DEF Section, Sections, Instructions, NoEdit, Edits
    <3> QED BY <3>1
  <2>5. s[1].do = "refresh" /\ s[1].docs = {key} /\ SweepScript(s)
    BY <2>4, SectionOf DEF SweepScript
  <2> HIDE DEF s
  <2>6. th \in Threads /\ th # "handler"
    BY ServerAssumption DEF Threads
  <2>7. /\ script'[th] = s /\ script' \in [Threads -> Seq(Sections)]
        /\ \A t \in Threads \ {th} : script'[t] = script[t]
    BY <1>0, <2>1, <2>4, <2>6 DEF TypeInv
  <2>8. TypeInv'
    BY <1>0, <2>2, <2>3, <2>7 DEF TypeInv
  <2>9. ScriptInv' /\ TabInv' /\ FileInv' /\ OrderInv' /\ ClosedInv'
    <3>1. \A t \in Sweeps : SweepScript(script'[t])
      BY <1>0, <2>5, <2>7 DEF ScriptInv, Threads
    <3>2. script'["handler"] = script["handler"] /\ \A t \in Threads : script[t] # <<>> => script'[t] = script[t]
      BY <2>1, <2>6, <2>7 DEF Threads
    <3>3. UNCHANGED <<workspace, editor, disk, served, pub, markers>>
      BY <2>2 DEF workspace, editor, disk
    <3> QED BY <2>2, <3>1, <3>2, <3>3, TimerKeeps
  <2>10. ASSUME NEW m \in Names, Refreshing(m) PROVE Refreshing(m)'
    <3>1. CASE m # key
      <4>1. Refreshes(th, 1, m)'
        BY <2>5, <2>7, <3>1 DEF Refreshes
      <4> QED BY <2>4, <2>6, <2>7, <4>1 DEF Refreshing
    <3>2. CASE m = key
      <4>1. CASE \E k \in Names \ {m} : ~Quiet(crossDoc, k)
        BY <2>3, <3>2, <4>1 DEF Refreshing, Quiet
      <4>2. CASE \E t \in Threads : \E i \in DOMAIN script[t] : Refreshes(t, i, m)
        <5>1. PICK t \in Threads : \E i \in DOMAIN script[t] : Refreshes(t, i, m)
          BY <4>2
        <5>2. script'[t] = script[t]
          BY <2>1, <2>7, <5>1
        <5> QED BY <2>2, <5>1, <5>2 DEF Refreshing, Refreshes, Outdated
      <4> QED BY <2>10, <4>1, <4>2 DEF Refreshing
    <3> QED BY <3>1, <3>2
  <2>11. ScreenInv'
    <3>1. script'["handler"] = script["handler"]
      BY <2>6, <2>7 DEF Threads
    <3> QED BY <1>0, <2>2, <2>10, <3>1 DEF ScreenInv, Quiet, Todo, TypeInv
  <2> QED BY <2>8, <2>9, <2>11 DEF ServerInv
<1> QED BY <1>1, <1>2

(* A timer of a redraw elapses, or the client redraws.                       *)
LEMMA RedrawTimerKeeps ==
  ASSUME ServerInv, NEW key \in Names, RedrawExpires(key) \/ Redraw(key)
  PROVE  ServerInv'
<1>0. TypeInv /\ ScriptInv /\ ScreenInv
  BY DEF ServerInv
<1>1. /\ docs' = docs /\ onDisk' = onDisk /\ open' = open /\ diagCache' = diagCache /\ strict' = strict
      /\ revision' = revision /\ buffer' = buffer /\ calls' = calls /\ fresh' = fresh /\ files' = files
      /\ watch' = watch /\ served' = served /\ pub' = pub /\ markers' = markers
      /\ crossDoc' = crossDoc /\ script' = script
  BY DEF RedrawExpires, Redraw, workspace, editor, disk, screen
<1>2. /\ renderNotify' \in [Names -> Timers] /\ rendered' \in [Names -> Nat]
      /\ \A m \in Names \ {key} : renderNotify'[m] = renderNotify[m] /\ rendered'[m] = rendered[m]
      /\ rendered'[key] = revision \/ (rendered'[key] = rendered[key] /\ ~Quiet(renderNotify, key)')
  <2>1. CASE RedrawExpires(key)
    <3>1. renderNotify \in [Names -> Timers] /\ rendered \in [Names -> Nat]
      BY <1>0 DEF TypeInv
    <3>2. /\ Armed(renderNotify, key) /\ renderNotify' = Expired(renderNotify, key)
          /\ rendered' = rendered
      BY <2>1 DEF RedrawExpires, screen
    <3>3. /\ Expired(renderNotify, key) \in [Names -> Timers] /\ ~Quiet(Expired(renderNotify, key), key)
          /\ \A m \in Names \ {key} : Expired(renderNotify, key)[m] = renderNotify[m]
      BY <3>1, <3>2, TimerSteps
    <3> QED BY <3>1, <3>2, <3>3 DEF Quiet
  <2>2. CASE Redraw(key)
    <3>1. renderNotify \in [Names -> Timers] /\ rendered \in [Names -> Nat] /\ revision \in Nat
      BY <1>0 DEF TypeInv
    <3>2. /\ Due(renderNotify, key) /\ renderNotify' = Forget(renderNotify, key)
          /\ rendered' = [rendered EXCEPT ![key] = revision]
      BY <2>2 DEF Redraw
    <3>3. /\ Forget(renderNotify, key) \in [Names -> Timers]
          /\ \A m \in Names \ {key} : Forget(renderNotify, key)[m] = renderNotify[m]
      BY <3>1, <3>2, TimerSteps
    <3> QED BY <3>1, <3>2, <3>3
  <2> QED BY <2>1, <2>2
<1>3. TypeInv'
  BY <1>0, <1>1, <1>2 DEF TypeInv
<1>4. ScriptInv' /\ TabInv' /\ FileInv' /\ OrderInv' /\ ClosedInv'
  <2>1. UNCHANGED <<workspace, editor, disk, served, pub, markers>>
    BY <1>1 DEF workspace, editor, disk
  <2>2. \A m \in Names : rendered'[m] \in {rendered[m], revision}
    BY <1>2
  <2> QED BY <1>0, <1>1, <2>1, <2>2, TimerKeeps DEF ScriptInv
<1>5. \A m : Refreshing(m)' <=> Refreshing(m)
  BY <1>1 DEF Refreshing, Refreshes, Outdated, Quiet
<1>6. ScreenInv'
  BY <1>0, <1>1, <1>2, <1>5 DEF ScreenInv, Quiet, Todo, TypeInv
<1> QED BY <1>3, <1>4, <1>6 DEF ServerInv

----------------------------------------------------------------------------
(* The theorems.                                                           *)

(* The server starts with nothing shown and its folder about to be read.     *)
LEMMA InitServerInv ==
  ASSUME Init
  PROVE  ServerInv
<1> DEFINE s == <<Section("load", Existing), Section("refresh", {Absent})>>
<1>1. s \in Seq(Sections) /\ HandlerScript(s)
  <2>1. Existing \in SUBSET Names
    BY DEF Existing
  <2> QED BY <2>1, HandlerScripts
<1>2. ASSUME NEW what, NEW m \in Names PROVE Ahead(s, what, m) <=> what = "load" /\ m \in Existing
  <2>1. Ahead(s, what, m) <=> ("load" = what /\ m \in Existing) \/ ("refresh" = what /\ m \in {Absent})
    BY AheadOf2, SectionOf
  <2> QED BY <2>1, NamesAssumption
<1>3. s # <<>> /\ Head(s).do = "load"
  BY SectionOf
<1>4. <<>> \in Seq(Sections) /\ SweepScript(<<>>) /\ HandlerScript(<<>>)
  <2>1. SweepScript(<<>>)
    BY DEF SweepScript
  <2> QED BY <2>1, EmptySeq, HandlerScripts
<1>5. /\ script = [th \in Threads |-> IF th = "handler" THEN s ELSE <<>>]
      /\ docs = [n \in Names |-> Absent] /\ onDisk = [n \in Names |-> Absent] /\ open = {}
      /\ diagCache = [n \in Names |-> 0] /\ strict = FALSE /\ revision = 0
      /\ files = FilesAtStart /\ watch = [n \in Names |-> <<>>]
      /\ buffer = [n \in Names |-> Absent] /\ calls = MaxCalls /\ fresh = 1 /\ served = TRUE
      /\ pub = Free /\ crossDoc = [n \in Names |-> NoTimer] /\ renderNotify = [n \in Names |-> NoTimer]
      /\ markers = [n \in Names |-> 0] /\ rendered = [n \in Names |-> 0]
  BY DEF Init, WorkspaceInit
<1> HIDE DEF s
<1>6. "handler" \in Threads /\ \A th \in Sweeps : th \in Threads /\ th # "handler"
  BY ServerAssumption DEF Threads
<1>7. script["handler"] = s /\ \A th \in Sweeps : script[th] = <<>>
  BY <1>5, <1>6
<1>8. pub.by = "nobody" /\ "nobody" \notin Threads /\ pub.seen = 0 /\ pub \in Holders
  BY <1>5, ServerAssumption DEF Free, Threads, Holders
<1>9. \A what : \A m \in Names : Todo(what, m) <=> what = "load" /\ m \in Existing
  BY <1>2, <1>7 DEF Todo
<1>10. TypeInv
  <2>1. NoTimer \in Timers
    BY DEF NoTimer, Timers
  <2>2. script \in [Threads -> Seq(Sections)]
    BY <1>1, <1>4, <1>5
  <2>3. files \in [Names -> TextOrNone] /\ calls \in Nat
    BY <1>5, ServerAssumption DEF TextOrNone, Texts
  <2>4. docs \in [Names -> TextOrNone] /\ onDisk \in [Names -> TextOrNone] /\ buffer \in [Names -> TextOrNone]
    BY <1>5 DEF TextOrNone
  <2>5. watch \in [Names -> Seq({"changed", "deleted"})]
    BY <1>5, EmptySeq
  <2>6. crossDoc \in [Names -> Timers] /\ renderNotify \in [Names -> Timers]
    BY <1>5, <2>1
  <2>7. /\ open \subseteq Names /\ strict \in BOOLEAN /\ revision \in Nat /\ served \in BOOLEAN /\ fresh \in Nat
        /\ diagCache \in [Names -> Nat] /\ markers \in [Names -> Nat] /\ rendered \in [Names -> Nat]
    BY <1>5
  <2> QED BY <1>8, <2>2, <2>3, <2>4, <2>5, <2>6, <2>7 DEF TypeInv
<1>11. ScriptInv
  BY <1>1, <1>4, <1>5, <1>7, <1>8 DEF ScriptInv
<1>12. TabInv
  <2>1. \A m \in Names : ~Pending(m)
    BY <1>9, PendingTodo
  <2>2. Docs("handler", "update") = {}
    BY <1>3, <1>7 DEF Docs, At
  <2> QED BY <1>5, <1>9, <2>1, <2>2 DEF TabInv
<1>13. FileInv
  <2>1. \A m \in Names : watch[m] = <<>> /\ docs[m] = Absent /\ (m \notin Existing => files[m] = Absent)
    BY <1>5 DEF Existing
  <2> QED BY <1>9, <2>1 DEF FileInv
<1>14. OrderInv
  BY <1>5, <1>8 DEF OrderInv
<1>15. ClosedInv
  BY <1>5, <1>8, <1>9 DEF ClosedInv
<1>16. ScreenInv
  BY <1>5 DEF ScreenInv
<1> QED BY <1>10, <1>11, <1>12, <1>13, <1>14, <1>15, <1>16 DEF ServerInv

(* Every step keeps the invariant.                                           *)
LEMMA NextServerInv ==
  ASSUME ServerInv, [Next]_vars
  PROVE  ServerInv'
<1>1. CASE Client
  <2>1. CASE \E n \in Names : \/ DidOpen(n) \/ DidChange(n) \/ DidClose(n) \/ DidSave(n)
                              \/ DidChangeWatchedFiles(n) \/ ChangeFile(n)
    BY <2>1, OpenKeeps, ChangeKeeps, CloseKeeps, SaveKeeps, WatchKeeps, FileKeeps
  <2>2. CASE DidChangeWorkspaceFolders
    BY <2>2, FoldersKeep
  <2>3. CASE DidChangeConfiguration
    BY <2>3, ConfigurationKeeps
  <2> QED BY <1>1, <2>1, <2>2, <2>3 DEF Client
<1>2. ASSUME NEW th \in Threads, Advance(th) PROVE ServerInv'
  <2>0. TypeInv
    BY DEF ServerInv
  <2>1. CASE DoLoad(th)
    <3>1. PICK n \in Docs(th, "load") : SetOnDisk(n, files[n]) /\ Done(th, n) /\ InWorkspace
      BY <2>1 DEF DoLoad
    <3> QED BY <3>1, DoReadKeeps
  <2>2. CASE DoDrop(th)
    <3>1. PICK n \in Docs(th, "drop") : SetOnDisk(n, Absent) /\ Done(th, n) /\ InWorkspace
      BY <2>2 DEF DoDrop
    <3> QED BY <3>1, DoReadKeeps
  <2>3. CASE DoMode(th)
    <3>1. PICK what \in {"strict", "lenient"} : At(th, what)
      BY <2>3 DEF DoMode
    <3>2. /\ Done(th, Absent) /\ InWorkspace /\ UNCHANGED <<docs, onDisk, open>> /\ strict' \in BOOLEAN
          /\ \/ diagCache' = diagCache /\ revision' = revision
             \/ diagCache' = [m \in Names |-> 0] /\ revision' = revision + 1
      BY <2>3 DEF DoMode, SetConformanceMode, Invalidate
    <3> QED BY <3>1, <3>2, DoNoneKeeps
  <2>4. CASE DoNothing(th)
    <3>1. PICK what \in {"load", "drop"} : At(th, what)
      BY <2>4 DEF DoNothing
    <3>2. /\ Done(th, Absent) /\ InWorkspace /\ UNCHANGED <<docs, onDisk, open>> /\ strict' \in BOOLEAN
          /\ diagCache' = diagCache /\ revision' = revision
      BY <2>0, <2>4 DEF DoNothing, workspace, TypeInv
    <3> QED BY <3>1, <3>2, DoNoneKeeps
  <2> QED BY <1>2, <2>1, <2>2, <2>3, <2>4, DoOpenKeeps, DoUpdateKeeps, DoCloseKeeps, DoQueueKeeps,
             DoRefreshKeeps, DoClearKeeps, SkipKeeps, LockKeeps, AnalyseKeeps, SendKeeps DEF Advance
<1>3. ASSUME NEW k \in Names, Timer(k) PROVE ServerInv'
  BY <1>3, SweepTimerKeeps, RedrawTimerKeeps DEF Timer
<1>4. CASE UNCHANGED vars
  <2>1. /\ docs' = docs /\ onDisk' = onDisk /\ open' = open /\ diagCache' = diagCache /\ strict' = strict
        /\ revision' = revision /\ buffer' = buffer /\ calls' = calls /\ fresh' = fresh /\ files' = files
        /\ watch' = watch /\ served' = served /\ pub' = pub /\ markers' = markers /\ rendered' = rendered
        /\ crossDoc' = crossDoc /\ renderNotify' = renderNotify /\ script' = script
    BY <1>4 DEF vars, workspace, editor, disk, screen
  <2>2. TypeInv' /\ ScriptInv' /\ OrderInv' /\ ClosedInv'
    BY <2>1 DEF ServerInv, TypeInv, ScriptInv, OrderInv, ClosedInv, Docs, At, Todo
  <2>3. TabInv' /\ FileInv'
    BY <2>1 DEF ServerInv, TabInv, FileInv, Docs, At, Todo, Pending
  <2>4. ScreenInv'
    BY <2>1 DEF ServerInv, ScreenInv, Todo, Quiet, Refreshing, Refreshes, Outdated
  <2> QED BY <2>2, <2>3, <2>4 DEF ServerInv
<1> QED BY <1>1, <1>2, <1>3, <1>4 DEF Next

(* The invariant holds of every reachable state.                             *)
THEOREM ServerKeepsInv == Spec => []ServerInv
<1>1. Init => ServerInv
  BY InitServerInv
<1>2. ServerInv /\ [Next]_vars => ServerInv'
  BY NextServerInv
<1> QED BY <1>1, <1>2, PTL DEF Spec

(* The variables keep their types, an open document exists, and whoever holds *)
(* pubMu is at a section that sends the document it holds it for.            *)
THEOREM ServerTypes == Spec => []TypeOK
<1>1. ServerInv => TypeOK
  <2> SUFFICES ASSUME ServerInv PROVE TypeOK
    OBVIOUS
  <2>0. TypeInv /\ ScriptInv /\ TabInv /\ OrderInv
    BY DEF ServerInv
  <2>1. open \subseteq Names /\ \A n \in open : docs[n] # Absent
    BY <2>0 DEF TypeInv, TabInv
  <2>2. revision \in Nat /\ strict \in BOOLEAN
    BY <2>0 DEF TypeInv
  <2>3. /\ diagCache \in [Names -> 0..revision] /\ markers \in [Names -> 0..revision]
        /\ rendered \in [Names -> 0..revision]
    <3>1. ASSUME NEW n \in Names
          PROVE  diagCache[n] \in 0..revision /\ markers[n] \in 0..revision /\ rendered[n] \in 0..revision
      <4>1. diagCache[n] \in Nat /\ markers[n] \in Nat /\ rendered[n] \in Nat
        BY <2>0 DEF TypeInv
      <4>2. diagCache[n] \in {0, revision} /\ markers[n] <= revision /\ rendered[n] <= revision
        BY <2>0 DEF OrderInv
      <4> QED BY <2>2, <4>1, <4>2
    <3> QED BY <2>0, <3>1 DEF TypeInv
  <2>4. ASSUME NEW th \in Threads, NEW i \in DOMAIN script[th]
        PROVE  script[th][i].do \in Instructions /\ script[th][i].docs \subseteq Names \cup {Absent}
    <3>1. script[th] \in Seq(Sections)
      BY <2>0 DEF TypeInv
    <3>2. script[th][i] \in Sections
      BY <3>1, ElementOfSeq, LenProperties
    <3> QED BY <3>2 DEF Sections
  <2>5. pub # Free => /\ pub.by \in Threads /\ pub.doc \in Names /\ pub.seen \in 0..revision
                      /\ pub.doc \in Docs(pub.by, "publish") \cup Docs(pub.by, "sweep")
    BY <2>0 DEF TypeInv, Holders, ScriptInv, OrderInv
  <2>6. ASSUME NEW k \in Names, NEW d \in {crossDoc, renderNotify}
        PROVE  d[k].entry \in {"none", "armed", "fired"} /\ d[k].armed \in Nat /\ d[k].fired \in Nat
    <3>1. d[k] \in Timers
      BY <2>0 DEF TypeInv
    <3> QED BY <3>1 DEF Timers
  <2> QED BY <2>1, <2>2, <2>3, <2>4, <2>5, <2>6 DEF TypeOK
<1> QED BY <1>1, ServerKeepsInv, PTL

(* The text served is the tab's while there is a tab, and otherwise, once the *)
(* events of the file have been reported, the file's.                        *)
THEOREM ServerTexts == Spec => []TextsHaveTheirSource
<1>1. ServerInv => TextsHaveTheirSource
  <2> SUFFICES ASSUME ServerInv, NEW n \in Names, ~Pending(n)
               PROVE  /\ n \in open <=> buffer[n] # Absent
                      /\ n \in open => docs[n] = buffer[n]
                      /\ n \notin open /\ served /\ watch[n] = <<>> /\ script["handler"] = <<>> =>
                           docs[n] = files[n]
    BY DEF TextsHaveTheirSource
  <2>1. (n \in open <=> buffer[n] # Absent) /\ (n \in open => docs[n] = buffer[n])
    BY DEF ServerInv, TabInv
  <2>2. ASSUME n \notin open, served, watch[n] = <<>>, script["handler"] = <<>> PROVE docs[n] = files[n]
    <3>1. ~Todo("load", n) /\ ~Todo("drop", n)
      BY <2>2 DEF Todo, Ahead
    <3> QED BY <2>2, <3>1 DEF ServerInv, FileInv
  <2> QED BY <2>1, <2>2
<1> QED BY <1>1, ServerKeepsInv, PTL

(* A closed document's markers are not brought back.                         *)
THEOREM ServerClosed == Spec => []ClosedStaysWithdrawn
<1>1. ServerInv => ClosedStaysWithdrawn
  <2>1. \A n : Closing(n) <=> Todo("clear", n)
    BY DEF Closing, Todo, Ahead
  <2> QED BY <2>1 DEF ServerInv, ClosedInv, ClosedStaysWithdrawn
<1> QED BY <1>1, ServerKeepsInv, PTL

(* When nothing is under way every open document shows this revision.        *)
THEOREM ServerScreens == Spec => []SettledScreensAreCurrent
<1>1. ServerInv => SettledScreensAreCurrent
  <2> SUFFICES ASSUME ServerInv, Settled
               PROVE  /\ \A n \in open : markers[n] = revision
                      /\ \A n \in open \cap Drawn : rendered[n] = revision
    BY DEF SettledScreensAreCurrent
  <2>1. /\ \A th \in Threads : script[th] = <<>>
        /\ \A k \in Names : Quiet(crossDoc, k) /\ Quiet(renderNotify, k)
    BY DEF Settled
  <2>2. \A n : ~Todo("clear", n)
    BY <2>1 DEF Todo, Ahead, Threads
  <2>3. \A n \in Names : ~Refreshing(n)
    BY <2>1 DEF Refreshing
  <2> QED BY <2>1, <2>2, <2>3 DEF ServerInv, ScreenInv, TypeInv
<1> QED BY <1>1, ServerKeepsInv, PTL

(* No step replaces the diagnostics of a document by older ones.             *)
THEOREM ServerOrder == Spec => PublishedInOrder
<1>1. ASSUME ServerInv, [Next]_vars
      PROVE  [\A n \in Names : markers'[n] # 0 => markers'[n] >= markers[n]]_vars
  <2>0. TypeInv /\ OrderInv /\ ScriptInv
    BY <1>1 DEF ServerInv
  <2>1. CASE markers' = markers
    <3>1. \A n \in Names : markers[n] \in Nat
      BY <2>0 DEF TypeInv
    <3> QED BY <2>1, <3>1
  <2>2. ASSUME NEW th \in Threads, DoClear(th)
        PROVE  \A n \in Names : markers'[n] # 0 => markers'[n] >= markers[n]
    BY <2>0, <2>2 DEF DoClear, TypeInv
  <2>3. ASSUME NEW th \in Threads, Send(th)
        PROVE  \A n \in Names : markers'[n] # 0 => markers'[n] >= markers[n]
    <3>1. markers' = [markers EXCEPT ![pub.doc] = pub.seen] /\ pub.by = th /\ pub.analysed /\ th # "nobody"
      BY <2>3, ServerAssumption DEF Send, Threads
    <3>2. pub.seen = 0 \/ pub.seen >= markers[pub.doc]
      BY <2>0, <3>1 DEF OrderInv
    <3> QED BY <2>0, <3>1, <3>2 DEF TypeInv
  <2>4. \/ markers' = markers
        \/ \E th \in Threads : DoClear(th) \/ Send(th)
    <3>1. ASSUME Client PROVE markers' = markers
      BY <3>1 DEF Client, DidOpen, DidChange, DidClose, DidSave, DidChangeWatchedFiles, ChangeFile,
                  DidChangeWorkspaceFolders, DidChangeConfiguration, Handle, screen
    <3>2. ASSUME NEW th \in Threads, Advance(th), ~DoClear(th), ~Send(th) PROVE markers' = markers
      BY <3>2 DEF Advance, DoOpen, DoUpdate, DoLoad, DoDrop, DoClose, DoMode, DoNothing, DoQueue, DoRefresh,
                  SkipClosed, Lock, Analyse, InWorkspace, screen
    <3>3. ASSUME NEW k \in Names, Timer(k) PROVE markers' = markers
      BY <3>3 DEF Timer, SweepExpires, StartSweep, RedrawExpires, Redraw, screen
    <3>4. ASSUME UNCHANGED vars PROVE markers' = markers
      BY <3>4 DEF vars, screen
    <3> QED BY <1>1, <3>1, <3>2, <3>3, <3>4 DEF Next
  <2> QED BY <2>1, <2>2, <2>3, <2>4
<1> QED BY <1>1, ServerKeepsInv, PTL DEF Spec, PublishedInOrder
=============================================================================
