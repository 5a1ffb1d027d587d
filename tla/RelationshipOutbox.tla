-------------------------- MODULE RelationshipOutbox --------------------------
(***************************************************************************)
(* The relationship outbox of src/modules/tenancy/application/             *)
(* relationship-outbox.ts: rows of relationship_outbox are committed by    *)
(* producer transactions, and dispatchOne replays one row to SpiceDB       *)
(* inside a database transaction that holds the row lock (and, for a pool  *)
(* binding, an advisory lock on the pair) across the remote write.         *)
(*                                                                         *)
(* One action per point where another process, a crash or SpiceDB can      *)
(* intervene: claim, remote write, commit.  Row ids are positions in       *)
(* `outbox'.  The attempts and last_error columns are bookkeeping nothing  *)
(* reads and are left out.                                                 *)
(***************************************************************************)
EXTENDS Naturals, Sequences

CONSTANTS
  Relation,         \* relationships: resource, relation and subject
  BoundPool,        \* those with relation bound_pool and a pool subject
  Batch,            \* the updates one producer transaction can enqueue
  Dispatcher,       \* concurrent callers of dispatchOne
  SessionsMayDrop,  \* may a database session be lost under a remote write
  MaxEntries        \* bound on committed rows

Update == [op : {"touch", "delete"}, rel : Relation]

\* An instance of Batch: a decision about one relationship, or a pool binding
\* together with a relationship that needs no order.
OneDecision ==
  {<<u>> : u \in Update}
    \union {<<[op |-> "touch", rel |-> m], [op |-> "touch", rel |-> b]>> :
             m \in Relation \ BoundPool, b \in BoundPool}

ASSUME OutboxAssumption ==
  /\ BoundPool \subseteq Relation
  /\ Batch \subseteq Seq(Update)
  /\ SessionsMayDrop \in BOOLEAN
  /\ MaxEntries \in Nat

VARIABLES
  outbox,   \* committed rows, in id order
  graph,    \* the relationships SpiceDB holds
  tx        \* tx[d]: the transaction of dispatcher d

vars == <<outbox, graph, tx>>

Row == [op : {"touch", "delete"}, rel : Relation, written : BOOLEAN]

Idle == [pc |-> "idle", id |-> 0]

(***************************************************************************)
(* Locks are held exactly by the transactions that are open.  An adrift    *)
(* dispatcher lost its session: its locks are free again although its      *)
(* remote write is still under way.                                        *)
(***************************************************************************)
Holds(d) == tx[d].pc \in {"claimed", "written", "refused"}

Ordered(id) == outbox[id].rel \in BoundPool

Same(i, j) == outbox[i].rel = outbox[j].rel

PairLockFree(id) == \A e \in Dispatcher : Holds(e) => ~Same(tx[e].id, id)

RowLockFree(id) == \A e \in Dispatcher : Holds(e) => tx[e].id # id

EarlierPending(id) ==
  \E j \in DOMAIN outbox : j < id /\ Same(j, id) /\ ~outbox[j].written

TakesEffect(g, u) == IF u.op = "touch" THEN g \union {u.rel} ELSE g \ {u.rel}

-------------------------------------------------------------------------------
Init ==
  /\ outbox = << >>
  /\ graph = {}
  /\ tx = [d \in Dispatcher |-> Idle]

Pending(u) == [op |-> u.op, rel |-> u.rel, written |-> FALSE]

(* A producer transaction commits: the rows of one decision appear at once. *)
(* Producers of one pair hold its data_source and pool rows FOR UPDATE, so  *)
(* the ids of a pair are handed out in commit order.                        *)
Enqueue(batch) ==
  /\ Len(outbox) + Len(batch) <= MaxEntries
  /\ outbox' = outbox \o [i \in 1..Len(batch) |-> Pending(batch[i])]

\* Mutant of Claim: dispatchOne without its earlier-entry query.
ClaimOutOfTurn(d, id) ==
  /\ tx[d].pc = "idle"
  /\ Ordered(id) => PairLockFree(id)
  /\ ~outbox[id].written
  /\ RowLockFree(id)
  /\ tx' = [tx EXCEPT ![d] = [pc |-> "claimed", id |-> id]]
  /\ UNCHANGED <<outbox, graph>>

\* Mutant of Claim: the advisory and row locks are not taken.
ClaimUnlocked(d, id) ==
  /\ tx[d].pc = "idle"
  /\ Ordered(id) => ~EarlierPending(id)
  /\ ~outbox[id].written
  /\ tx' = [tx EXCEPT ![d] = [pc |-> "claimed", id |-> id]]
  /\ UNCHANGED <<outbox, graph>>

\* Mutant of Claim: the row after the requested one is taken.
ClaimShifted(d, id) ==
  /\ tx[d].pc = "idle"
  /\ Ordered(id) => PairLockFree(id) /\ ~EarlierPending(id)
  /\ ~outbox[id].written
  /\ RowLockFree(id)
  /\ tx' = [tx EXCEPT ![d] = [pc |-> "claimed", id |-> id + 1]]
  /\ UNCHANGED <<outbox, graph>>

(* dispatchOne up to the call of authorization.write: wait for the pair's   *)
(* lock, give way to an earlier pending row, lock the row unless somebody   *)
(* else has it.                                                             *)
Claim(d, id) ==
  /\ tx[d].pc = "idle"
  /\ Ordered(id) => PairLockFree(id) /\ ~EarlierPending(id)
  /\ ~outbox[id].written
  /\ RowLockFree(id)
  /\ tx' = [tx EXCEPT ![d] = [pc |-> "claimed", id |-> id]]
  /\ UNCHANGED <<outbox, graph>>

(* The calls of dispatchOne that return null: nothing is written. *)
ReturnsNull(id) ==
  \/ Ordered(id) /\ PairLockFree(id) /\ (EarlierPending(id) \/ outbox[id].written)
  \/ ~Ordered(id) /\ (outbox[id].written \/ ~RowLockFree(id))

SpiceWrite(d) ==
  /\ tx[d].pc = "claimed"
  /\ graph' = TakesEffect(graph, outbox[tx[d].id])
  /\ tx' = [tx EXCEPT ![d].pc = "written"]
  /\ UNCHANGED outbox

(* authorization.write throws; SpiceDB may have applied the write before    *)
(* its answer was lost.                                                     *)
SpiceFail(d) ==
  /\ tx[d].pc = "claimed"
  /\ graph' \in {graph, TakesEffect(graph, outbox[tx[d].id])}
  /\ tx' = [tx EXCEPT ![d].pc = "refused"]
  /\ UNCHANGED outbox

CommitWritten(d) ==
  /\ tx[d].pc = "written"
  /\ outbox' = [outbox EXCEPT ![tx[d].id].written = TRUE]
  /\ tx' = [tx EXCEPT ![d] = Idle]
  /\ UNCHANGED graph

\* Mutant of CommitRefused: a row SpiceDB refused is marked written.
CommitRefusedAsWritten(d) ==
  /\ tx[d].pc = "refused"
  /\ outbox' = [outbox EXCEPT ![tx[d].id].written = TRUE]
  /\ tx' = [tx EXCEPT ![d] = Idle]
  /\ UNCHANGED graph

CommitRefused(d) ==
  /\ tx[d].pc = "refused"
  /\ tx' = [tx EXCEPT ![d] = Idle]
  /\ UNCHANGED <<outbox, graph>>

(* The gateway dies, or the COMMIT fails: the row stays pending although    *)
(* SpiceDB may hold its effect.                                             *)
Rollback(d) ==
  /\ Holds(d)
  /\ tx' = [tx EXCEPT ![d] = Idle]
  /\ UNCHANGED <<outbox, graph>>

(* The database session is lost while authorization.write is awaited.       *)
DropSession(d) ==
  /\ SessionsMayDrop
  /\ tx[d].pc = "claimed"
  /\ tx' = [tx EXCEPT ![d].pc = "adrift"]
  /\ UNCHANGED <<outbox, graph>>

AdriftWrite(d) ==
  /\ tx[d].pc = "adrift"
  /\ graph' \in {graph, TakesEffect(graph, outbox[tx[d].id])}
  /\ tx' = [tx EXCEPT ![d] = Idle]
  /\ UNCHANGED outbox

DispatchStep(d) ==
  \/ SpiceWrite(d)
  \/ SpiceFail(d)
  \/ CommitWritten(d)
  \/ CommitRefused(d)
  \/ Rollback(d)
  \/ DropSession(d)
  \/ AdriftWrite(d)

Next ==
  \/ \E batch \in Batch : Enqueue(batch) /\ UNCHANGED <<graph, tx>>
  \/ \E d \in Dispatcher, id \in DOMAIN outbox : Claim(d, id)
  \/ \E d \in Dispatcher : DispatchStep(d)

Spec == Init /\ [][Next]_vars

-------------------------------------------------------------------------------
TypeOK ==
  /\ outbox \in Seq(Row)
  /\ graph \subseteq Relation
  /\ tx \in [Dispatcher ->
              [pc : {"idle", "claimed", "written", "refused", "adrift"}, id : Nat]]
  /\ \A d \in Dispatcher : tx[d].pc # "idle" => tx[d].id \in DOMAIN outbox

LastWritten(r, i) ==
  \/ /\ i = 0
     /\ \A j \in DOMAIN outbox : outbox[j].rel = r => ~outbox[j].written
  \/ /\ i \in DOMAIN outbox
     /\ outbox[i].rel = r /\ outbox[i].written
     /\ \A j \in DOMAIN outbox : outbox[j].rel = r /\ outbox[j].written => j <= i

FirstPending(r, i) ==
  /\ i \in DOMAIN outbox
  /\ outbox[i].rel = r /\ ~outbox[i].written
  /\ \A j \in DOMAIN outbox : outbox[j].rel = r /\ ~outbox[j].written => i <= j

Reflects(r, i) == (r \in graph) <=> (i # 0 /\ outbox[i].op = "touch")

(* The rows of one binding are acknowledged oldest first: no decision is   *)
(* marked written while an older decision about the same pair is pending   *)
(* (dispatchOne's earlier-entry query under the pair's advisory lock).     *)
WrittenInOrder ==
  \A i, j \in DOMAIN outbox :
    Ordered(i) /\ Same(i, j) /\ i < j /\ outbox[j].written => outbox[i].written

(* A retry never resurrects a binding: what SpiceDB holds for a pair is the *)
(* newest acknowledged decision, or the next one whose acknowledgement was  *)
(* lost; in particular once nothing is pending it is the newest decision.   *)
(* This is the comment at relationship-outbox.ts:81-82.                     *)
NoResurrection ==
  \A r \in BoundPool :
    \E i \in 0..Len(outbox) :
      (LastWritten(r, i) \/ FirstPending(r, i)) /\ Reflects(r, i)

(* The inductive invariant behind the two: what the locks guarantee, and    *)
(* what a dispatcher that has written to SpiceDB knows about the graph.      *)
LockDiscipline ==
  /\ \A d, e \in Dispatcher : Holds(d) /\ Holds(e) /\ d # e =>
       /\ tx[d].id # tx[e].id
       /\ Ordered(tx[d].id) => ~Same(tx[d].id, tx[e].id)
  /\ \A d \in Dispatcher : Holds(d) =>
       /\ ~outbox[tx[d].id].written
       /\ Ordered(tx[d].id) => ~EarlierPending(tx[d].id)

WrittenIsReflected ==
  \A d \in Dispatcher : tx[d].pc = "written" /\ Ordered(tx[d].id) =>
    Reflects(outbox[tx[d].id].rel, tx[d].id)

NothingAdrift == \A d \in Dispatcher : tx[d].pc # "adrift"

OutboxInv ==
  /\ TypeOK /\ LockDiscipline /\ WrittenInOrder
  /\ ~SessionsMayDrop => NothingAdrift /\ WrittenIsReflected /\ NoResurrection

(* The outbox implements in-order delivery: a row is delivered at its turn, *)
(* possibly several times, and is acknowledged only while SpiceDB shows it. *)
Decisions == [i \in DOMAIN outbox |-> [op |-> outbox[i].op, rel |-> outbox[i].rel]]

Acknowledged == {i \in DOMAIN outbox : outbox[i].written}

Delivery == INSTANCE CommitOrderDelivery WITH
              InOrder <- BoundPool, log <- Decisions, done <- Acknowledged

ImplementsDelivery == Delivery!Spec

===============================================================================
