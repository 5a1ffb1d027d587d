------------------------- MODULE CommitOrderDelivery -------------------------
(***************************************************************************)
(* What the relationship outbox promises, with no database transaction, no *)
(* lock and no failure in it: decisions are logged in commit order; the    *)
(* relationship graph takes the effect of a logged decision before it is   *)
(* acknowledged; and for a relationship of InOrder (a pool binding) only   *)
(* the oldest decision not yet acknowledged may touch the graph, so that a *)
(* newer decision is never undone by an older one.                         *)
(***************************************************************************)
EXTENDS Naturals, Sequences

CONSTANTS Relation, InOrder, Batch

VARIABLES
  log,      \* the decisions, [op, rel], in commit order
  done,     \* the positions of the log whose delivery is acknowledged
  graph     \* the relationships the authorization service holds

avars == <<log, done, graph>>

TakesEffect(g, d) == IF d.op = "touch" THEN g \union {d.rel} ELSE g \ {d.rel}

Turn(i) ==
  /\ i \in DOMAIN log \ done
  /\ log[i].rel \in InOrder =>
       \A j \in DOMAIN log \ done : log[j].rel = log[i].rel => i <= j

Init == log = << >> /\ done = {} /\ graph = {}

Decide ==
  /\ \E b \in Batch : log' = log \o b
  /\ UNCHANGED <<done, graph>>

Deliver(i) ==
  /\ Turn(i)
  /\ graph' = TakesEffect(graph, log[i])
  /\ UNCHANGED <<log, done>>

Acknowledge(i) ==
  /\ Turn(i)
  /\ log[i].rel \in InOrder => graph = TakesEffect(graph, log[i])
  /\ done' = done \union {i}
  /\ UNCHANGED <<log, graph>>

Next == Decide \/ \E i \in DOMAIN log : Deliver(i) \/ Acknowledge(i)

Spec == Init /\ [][Next]_avars
==============================================================================
