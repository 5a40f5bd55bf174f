------------------------------- MODULE TokenGame -------------------------------
(***************************************************************************)
(* What executing an action promises, without the slice of tokens, the     *)
(* order they are stepped in, the features' data or the debugger: a net    *)
(* whose nodes hold counts of tokens and fire one at a time.  A guard is   *)
(* any choice among the successions written; which one holds is the        *)
(* executor's business.                                                    *)
(***************************************************************************)
EXTENDS Integers, Sequences, FiniteSets

CONSTANTS Nodes, Messages, None

VARIABLES
  net,      \* the graph, as ActionExecutor!IsGraph describes it
  marking,  \* how many tokens each node holds
  passed,   \* the merges a token has traversed
  inbox     \* how many of each message are in flight

gameVars == <<net, marking, passed, inbox>>

CountOf(seq, x) == Cardinality({i \in DOMAIN seq : seq[i] = x})

(* f with one less at x, and with as many more everywhere as seq has. *)
Without(f, x) == [f EXCEPT ![x] = @ - 1]
With(f, seq) == [x \in DOMAIN f |-> f[x] + CountOf(seq, x)]

Init ==
  /\ marking = [n \in Nodes |-> 0]
  /\ passed = {}
  /\ inbox = [m \in Messages |-> 0]

Incoming(n) ==
  {m \in Nodes : \E i \in DOMAIN net.edges[m] : net.edges[m][i] = n}

(* The flow starts with one token, before any other has been in it. *)
Start ==
  /\ net.initial # None
  /\ marking = [n \in Nodes |-> 0]
  /\ marking' = With(marking, <<net.initial>>)
  /\ UNCHANGED <<passed, inbox>>

(* A token leaves n along one succession, or ends there: next is where to. *)
Leave(n, next) ==
  /\ marking[n] > 0
  /\ \/ next = <<>>
     \/ \E i \in DOMAIN net.edges[n] : next = <<net.edges[n][i]>>
  /\ marking' = With(Without(marking, n), next)

Nexts == {<<>>} \cup {<<m>> : m \in Nodes}

Act(n) ==
  /\ net.kind[n] \in {"initial", "decision", "action", "when"}
  /\ \E next \in Nexts : Leave(n, next)
  /\ inbox' = With(inbox, net.sends[n])
  /\ UNCHANGED passed

End(n) ==
  /\ net.kind[n] = "final"
  /\ Leave(n, <<>>)
  /\ UNCHANGED <<passed, inbox>>

(* One token per branch out of a fork that is not pruned away. *)
Split(n) ==
  /\ net.kind[n] = "fork"
  /\ marking[n] > 0
  /\ \E branches \in SUBSET (DOMAIN net.edges[n]) :
       marking' = [m \in Nodes |->
         Without(marking, n)[m]
           + Cardinality({i \in branches : net.edges[n][i] = m})]
  /\ inbox' = With(inbox, net.sends[n])
  /\ UNCHANGED passed

(* A join fires on as many tokens as it has sources and leaves none behind. *)
Synchronize(n) ==
  /\ net.kind[n] = "join"
  /\ marking[n] > 0
  /\ marking[n] >= Cardinality(Incoming(n))
  /\ \E next \in {<<>>} \cup {<<net.edges[n][i]>> : i \in DOMAIN net.edges[n]} :
       marking' = With([marking EXCEPT ![n] = 0], next)
  /\ inbox' = With(inbox, net.sends[n])
  /\ UNCHANGED passed

(* One token passes a merge; those before it may end there, those after do. *)
Merge(n) ==
  /\ net.kind[n] = "merge"
  /\ \/ Leave(n, <<>>) /\ UNCHANGED <<passed, inbox>>
     \/ /\ n \notin passed
        /\ \E m \in Nodes : Leave(n, <<m>>)
        /\ passed' = passed \cup {n}
        /\ inbox' = With(inbox, net.sends[n])

(* A token passes an accept on taking one message the accept takes. *)
Receive(n) ==
  /\ net.kind[n] = "accept"
  /\ \E next \in Nexts : Leave(n, next)
  /\ \E m \in net.accepts[n] :
       /\ inbox[m] > 0
       /\ inbox' = With(Without(inbox, m), net.sends[n])
  /\ UNCHANGED passed

(* A node reports an error: no token moves, but a message the node took is  *)
(* gone and those its body sent before failing are in flight.              *)
Fail(n) ==
  /\ marking[n] > 0
  /\ \E k \in 0..Len(net.sends[n]) :
       LET sent == SubSeq(net.sends[n], 1, k) IN
       \/ inbox' = With(inbox, sent)
       \/ \E m \in net.accepts[n] :
            inbox[m] > 0 /\ inbox' = With(Without(inbox, m), sent)
  /\ UNCHANGED <<marking, passed>>

Post ==
  /\ \E m \in Messages : inbox' = With(inbox, <<m>>)
  /\ UNCHANGED <<marking, passed>>

Fire(n) ==
  Act(n) \/ End(n) \/ Split(n) \/ Synchronize(n) \/ Merge(n) \/ Receive(n)
    \/ Fail(n)

Next ==
  /\ Start \/ Post \/ \E n \in Nodes : Fire(n)
  /\ UNCHANGED net

Game == Init /\ [][Next]_gameVars
=============================================================================
