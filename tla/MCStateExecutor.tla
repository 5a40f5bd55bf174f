--------------------------- MODULE MCStateExecutor ---------------------------
(***************************************************************************)
(* The machines ObjectBehaviors is checked on, written as rows of states,  *)
(* regions and transitions in declaration order, and the casts of objects  *)
(* that play them.                                                         *)
(***************************************************************************)
EXTENDS ObjectBehaviors

Row(machine, name, parent, region) ==
    [machine |-> machine, name |-> name, parent |-> parent, region |-> region,
     entry |-> <<>>, do |-> <<>>, exit |-> <<>>, defer |-> {}]

Set(v, b) == [do |-> "assign", var |-> v, val |-> b]
Send(s, o) == [do |-> "send", signal |-> s, to |-> o]

Completion == [kind |-> "none"]
Signal(n) == [kind |-> "signal", name |-> n]
Invoked(n) == [kind |-> "call", name |-> n]
After(d) == [kind |-> "after", delay |-> d]
At(d) == [kind |-> "at", delay |-> d]
When(v) == [kind |-> "when", holds |-> {<<v, TRUE>>}]

\* A composite with a deferral, a do behavior, a timer, a change condition and a
\* history.
PumpRows == <<
    Row("pump", "On", None, None),
    Row("pump", "Idle", "On", None),
    [Row("pump", "Busy", "On", None) EXCEPT !.do = <<Set("x", TRUE), Send("report", Anyone)>>,
                                            !.defer = {<<"signal", "req">>}],
    [Row("pump", "Cool", "On", None) EXCEPT !.exit = <<Set("x", FALSE)>>],
    Row("pump", "Off", None, None) >>
PumpTransitions == <<
    <<"p1", "Idle", Signal("req"), {}, "Busy", <<>>>>,
    <<"p2", "Busy", Completion, {}, "Idle", <<>>>>,
    <<"p3", "Idle", When("x"), {}, "Cool", <<>>>>,
    <<"p4", "Cool", After(1), {}, "Idle", <<>>>>,
    <<"p5", "On", Signal("stop"), {}, "Off", <<>>>>,
    <<"p6", "On", At(2), {}, "Off", <<>>>>,
    <<"p7", "Off", Invoked("start"), {}, "OnHistory", <<>>>>,
    <<"p8", "OnHistory", Completion, {}, "Idle", <<>>>> >>

\* Two regions entered by a fork and left by a join, one with a nested region,
\* a transition from the nested region into the other one, and a deferral that
\* ends when a condition becomes true.
CellRows == <<
    Row("cell", "Ready", None, None),
    Row("cell", "Work", None, None),
    [Row("cell", "A1", "Work", "ra") EXCEPT !.do = <<Set("x", TRUE), Set("x", FALSE)>>,
                                             !.defer = {<<"call", "enter">>}],
    Row("cell", "A2", "Work", "ra"),
    [Row("cell", "B1", "Work", "rb") EXCEPT !.do = <<Set("x", FALSE), Set("y", TRUE)>>],
    Row("cell", "B2", "Work", "rb"),
    Row("cell", "C1", "B1", "rc"),
    Row("cell", "C2", "B1", "rc") >>
CellTransitions == <<
    <<"c1", "Ready", Signal("go"), {}, "Fork", <<>>>>,
    <<"c2", "Fork", Completion, {}, "A2", <<>>>>,
    <<"c3", "Fork", Completion, {}, "B1", <<>>>>,
    <<"c4", "A1", Signal("step"), {}, "A2", <<>>>>,
    <<"c5", "B1", Signal("step"), {}, "B2", <<>>>>,
    <<"c6", "C1", Signal("tick"), {}, "C2", <<>>>>,
    <<"c7", "C2", Signal("step"), {}, "A1", <<>>>>,
    <<"c8", "A2", Completion, {}, "Join", <<>>>>,
    <<"c9", "B2", Completion, {}, "Join", <<>>>>,
    <<"c10", "Join", Completion, {}, "Ready", <<>>>>,
    <<"c11", "Work", Signal("tick"), {<<"y", TRUE>>}, "Work", <<Set("y", FALSE)>>>>,
    <<"c12", "Work", After(2), {}, "Ready", <<>>>>,
    <<"c13", "Ready", Invoked("enter"), {}, "Choice", <<>>>>,
    <<"c14", "Choice", Completion, {<<"y", TRUE>>}, "Ready", <<>>>>,
    <<"c15", "Choice", Completion, {}, "Work", <<>>>>,
    <<"c16", "A1", When("y"), {}, "A2", <<>>>> >>

\* A composite whose regions a shallow and a deep history restore, one with a state
\* nested in another and one with a region of its own.
VaultRows == <<
    Row("vault", "Hall", None, None),
    Row("vault", "Porch", None, None),
    Row("vault", "Room", None, None),
    Row("vault", "K1", "Room", "ka"),
    Row("vault", "K2", "Room", "ka"),
    Row("vault", "L1", "Room", "kb"),
    Row("vault", "N1", "L1", None),
    Row("vault", "L2", "Room", "kb"),
    Row("vault", "O1", "L2", "kc"),
    Row("vault", "O2", "L2", "kc") >>
VaultTransitions == <<
    <<"v1", "Hall", Completion, {}, "Deep", <<>>>>,
    <<"v2", "Deep", Completion, {}, "Room", <<>>>>,
    <<"v3", "Room", Signal("leave"), {}, "Hall", <<>>>>,
    <<"v4", "Room", Signal("exit"), {}, "Porch", <<>>>>,
    <<"v5", "Porch", Completion, {}, "Shallow", <<>>>>,
    <<"v6", "K1", Signal("turn"), {}, "K2", <<>>>>,
    <<"v7", "L1", Completion, {}, "N1", <<>>>>,
    <<"v8", "N1", Signal("turn"), {}, "L2", <<>>>>,
    <<"v9", "O1", Signal("turn"), {}, "O2", <<>>>>,
    <<"v10", "Shallow", Completion, {}, "Room", <<>>>> >>

\* A machine made of regions: a move across them, a conditional self
\* transition, and a final state outside them.
TwinRows == <<
    Row("twin", "P", None, "r1"),
    Row("twin", "P1", "P", None),
    Row("twin", "P2", "P", None),
    Row("twin", "Q", None, "r1"),
    Row("twin", "U", None, "r2"),
    [Row("twin", "V", None, "r2") EXCEPT !.defer = {<<"signal", "swap">>}],
    Row("twin", "End", None, None) >>
TwinTransitions == <<
    <<"t1", "P1", Signal("next"), {}, "P2", <<>>>>,
    <<"t2", "P2", When("x"), {<<"y", FALSE>>}, "Q", <<Set("y", TRUE)>>>>,
    <<"t3", "P", When("x"), {}, "P", <<>>>>,
    <<"t4", "Q", Invoked("back"), {}, "P", <<Set("y", FALSE)>>>>,
    <<"t5", "U", Signal("swap"), {}, "P2", <<>>>>,
    <<"t6", "U", Signal("next"), {}, "V", <<Set("x", TRUE)>>>>,
    <<"t7", "V", When("x"), {<<"y", FALSE>>}, "V", <<>>>>,
    <<"t8", "V", Signal("next"), {}, "U", <<Set("x", FALSE)>>>>,
    <<"t9", "V", After(1), {}, "End", <<>>>> >>

\* Two objects exchanging a message, a bounded number of times and without end.
RallyRows == <<
    [Row("ping", "Serve", None, None) EXCEPT !.entry = <<Send("ball", "o2")>>],
    [Row("ping", "Return", None, None) EXCEPT !.entry = <<Send("ball", "o2")>>],
    Row("ping", "Won", None, None),
    Row("pong", "Near", None, None),
    Row("pong", "Far", None, None),
    [Row("endless", "First", None, None) EXCEPT !.entry = <<Send("ball", "o2")>>],
    Row("endless", "Volley", None, None) >>
RallyTransitions == <<
    <<"g1", "Serve", Signal("ball"), {}, "Return", <<>>>>,
    <<"g2", "Return", Signal("ball"), {}, "Won", <<>>>>,
    <<"g3", "Near", Signal("ball"), {}, "Near", <<Send("ball", "o1")>>>>,
    <<"g4", "Near", After(1), {}, "Far", <<>>>>,
    <<"g5", "Far", Signal("ball"), {}, "Near", <<Send("ball", "o1")>>>>,
    <<"g6", "First", Signal("ball"), {}, "Volley", <<Send("ball", "o2")>>>>,
    <<"g7", "Volley", Signal("ball"), {}, "Volley", <<Send("ball", "o2")>>>> >>

\* Machines that loop without end: on completions, on change conditions, on a do
\* behavior.
LoopRows == <<
    Row("blink", "Lit", None, None),
    Row("blink", "Dark", None, None),
    [Row("spin", "Left", None, None) EXCEPT !.entry = <<Set("x", TRUE)>>],
    Row("spin", "Right", None, None),
    [Row("churn", "Churn", None, None) EXCEPT !.do = <<Set("x", TRUE)>>] >>
LoopTransitions == <<
    <<"l1", "Lit", Completion, {}, "Dark", <<>>>>,
    <<"l2", "Dark", Completion, {}, "Lit", <<>>>>,
    <<"l3", "Left", When("x"), {}, "Right", <<>>>>,
    <<"l4", "Right", When("x"), {}, "Left", <<>>>>,
    <<"l5", "Churn", Completion, {}, "Churn", <<>>>> >>

\* A transition from outside a composite to a state inside one of its regions.
AnnexRows == <<
    Row("annex", "Gate", None, None),
    Row("annex", "Wing", None, None),
    Row("annex", "W1", "Wing", "wa"),
    Row("annex", "W2", "Wing", "wa"),
    [Row("annex", "X1", "Wing", "wb") EXCEPT !.do = <<Set("x", TRUE), Set("x", FALSE)>>] >>
AnnexTransitions == <<
    <<"n1", "Gate", Signal("in"), {}, "W2", <<>>>>,
    <<"n2", "Wing", Signal("out"), {}, "Gate", <<>>>> >>

\* A do behavior that makes true the condition its own state watches.
RestartRows == <<
    [Row("restart", "Run", None, None) EXCEPT !.do = <<Set("y", TRUE), Set("x", TRUE)>>],
    Row("restart", "Rested", None, None) >>
RestartTransitions == <<
    <<"s1", "Run", Completion, {}, "Rested", <<>>>>,
    <<"s2", "Run", When("x"), {}, "Run", <<>>>> >>

\* A timer that is past when it starts: the clock goes back while a signal waits, and
\* a message sent since overtakes it.
RewindRows == <<
    [Row("rewind", "Tape", None, None) EXCEPT !.entry = <<Send("pause", Anyone)>>],
    Row("rewind", "Calm", None, None),
    [Row("rewind", "Rest", None, None) EXCEPT !.defer = {<<"signal", "play">>}] >>
RewindTransitions == <<
    <<"w1", "Tape", After(-1), {}, "Calm", <<>>>>,
    <<"w2", "Calm", Signal("play"), {}, "Tape", <<>>>>,
    <<"w3", "Calm", Signal("pause"), {}, "Rest", <<>>>>,
    <<"w4", "Rest", After(2), {}, "Calm", <<>>>> >>

\* Two machines of one object: one watches the feature the other sets.
WatchRows == <<
    Row("bell", "Quiet", None, None),
    Row("bell", "Loud", None, None),
    [Row("tap", "Open", None, None) EXCEPT !.do = <<Set("z", TRUE)>>],
    Row("tap", "Shut", None, None) >>
WatchTransitions == <<
    <<"h1", "Quiet", When("z"), {}, "Loud", <<>>>>,
    <<"h2", "Loud", Signal("hush"), {}, "Quiet", <<>>>>,
    <<"h3", "Open", Signal("close"), {}, "Shut", <<Set("z", FALSE)>>>>,
    <<"h4", "Shut", Signal("open"), {}, "Open", <<>>>> >>

Rows == PumpRows \o CellRows \o VaultRows \o TwinRows \o RallyRows \o LoopRows
            \o RewindRows \o WatchRows \o AnnexRows \o RestartRows
Arrows == PumpTransitions \o CellTransitions \o VaultTransitions \o TwinTransitions
            \o RallyTransitions \o LoopTransitions \o RewindTransitions \o WatchTransitions
            \o AnnexTransitions \o RestartTransitions

\* region -> <<owner, initial state>>
Areas ==
    ("ra" :> <<"Work", "A1">>) @@ ("rb" :> <<"Work", "B1">>) @@ ("rc" :> <<"B1", "C1">>)
    @@ ("ka" :> <<"Room", "K1">>) @@ ("kb" :> <<"Room", "L1">>) @@ ("kc" :> <<"L2", "O1">>)
    @@ ("r1" :> <<None, "P">>) @@ ("r2" :> <<None, "U">>)
    @@ ("wa" :> <<"Wing", "W1">>) @@ ("wb" :> <<"Wing", "X1">>)

\* machine -> initial state, None for a machine made of regions
Initials ==
    [pump |-> "Idle", cell |-> "Ready", vault |-> "Hall", twin |-> None, ping |-> "Serve",
     pong |-> "Near", endless |-> "First", blink |-> "Lit", spin |-> "Left", churn |-> "Churn",
     rewind |-> "Calm", bell |-> "Quiet", tap |-> "Open", annex |-> "Gate", restart |-> "Run"]

\* pseudostate -> <<kind, owner>>
Nodes ==
    [OnHistory |-> <<"shallowHistory", "On">>, Fork |-> <<"fork", None>>, Join |-> <<"join", "Work">>,
     Choice |-> <<"choice", None>>, Deep |-> <<"deepHistory", "Room">>,
     Shallow |-> <<"shallowHistory", "Room">>]

RowOf(s) == CHOOSE row \in ToSet(Rows) : row.name = s
Names0 == {row.name : row \in ToSet(Rows)}
ArrowOf(t) == CHOOSE a \in ToSet(Arrows) : a[1] = t
RegionsOf(s) == SelectSeq(<<"ra", "rb", "rc", "ka", "kb", "kc", "wa", "wb">>,
                          LAMBDA r : Areas[r][1] = s)
OutOf(n) == LET own == SelectSeq(Arrows, LAMBDA a : a[2] = n) IN [i \in DOMAIN own |-> own[i][1]]

StatesOf(k) == LET own == SelectSeq(Rows, LAMBDA row : row.machine = k)
               IN  [i \in DOMAIN own |-> own[i].name]

MCGraph ==
    LET outgoing == [n \in Names0 \cup DOMAIN Nodes |-> OutOf(n)]
    IN
    [States |-> [k \in DOMAIN Initials |-> StatesOf(k)],
     ParentState |-> [s \in Names0 |-> RowOf(s).parent],
     RegionOf |-> [s \in Names0 |-> RowOf(s).region],
     Entry |-> [s \in Names0 |-> RowOf(s).entry],
     Do |-> [s \in Names0 |-> RowOf(s).do],
     Exit |-> [s \in Names0 |-> RowOf(s).exit],
     Deferred |-> [s \in Names0 |-> RowOf(s).defer],
     CompositeStates |-> [s \in Names0 |-> RegionsOf(s)],
     RegionOwner |-> [r \in DOMAIN Areas |-> Areas[r][1]],
     RegionInitials |-> [r \in DOMAIN Areas |-> Areas[r][2]],
     Initial |-> Initials,
     TopRegions |-> [k \in DOMAIN Initials |-> IF k = "twin" THEN <<"r1", "r2">> ELSE <<>>],
     Transitions |-> outgoing,
     Transition |-> [t \in {Arrows[i][1] : i \in DOMAIN Arrows} |->
                        LET a == ArrowOf(t)
                        IN  [source |-> a[2], on |-> a[3], guard |-> a[4], target |-> a[5], effect |-> a[6]]],
     PseudostateKind |-> [n \in DOMAIN Nodes |-> Nodes[n][1]],
     PseudostateOwner |-> [n \in DOMAIN Nodes |-> Nodes[n][2]],
     Final |-> {"Won", "End"}]

Cast(exhibited, played, n) ==
    [exhibits |-> exhibited, machines |-> played, data |-> [v \in Vars |-> FALSE], calls |-> n]
Alone(k, n) == Cast([o1 |-> <<"b1">>], [b1 |-> k], n)
Two(k1, k2, n) == Cast([o1 |-> <<"b1">>, o2 |-> <<"b2">>], [b1 |-> k1, b2 |-> k2], n)
Sharing(k1, k2, n) == Cast([o1 |-> <<"b1", "b2">>], [b1 |-> k1, b2 |-> k2], n)

MCCasts == {Alone("pump", 5), Alone("cell", 5), Alone("vault", 5), Alone("twin", 4),
            Two("ping", "pong", 3), Two("endless", "pong", 2), Sharing("bell", "tap", 4),
            Two("rewind", "rewind", 4), Alone("blink", 3), Alone("spin", 3), Alone("churn", 3)}
MCVars == {"x", "y", "z"}
MCFeatures == {"z"}
MCLooping == {"endless", "blink", "spin", "churn"}

AnnexCasts == {Alone("annex", 4)}
RestartCasts == {Alone("restart", 2)}
TwinCasts == {Alone("twin", 4)}
=============================================================================
