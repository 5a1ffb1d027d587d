--------------------------- MODULE PoolBindingProofs ---------------------------
(***************************************************************************)
(* Proofs about RelationshipOutbox and PoolBinding, for any pools, tables, *)
(* sources, dispatchers, rows, relationships and number of requests: the   *)
(* rows of one pool binding are acknowledged oldest first, requests use    *)
(* the outbox as RelationshipOutbox says and, while no database session is *)
(* lost under a remote write, a retry never resurrects a binding and the   *)
(* grant SpiceDB is left with is the last committed decision.              *)
(***************************************************************************)
EXTENDS PoolBinding, SequenceTheorems, FunctionTheorems, FiniteSetTheorems, TLAPS

-------------------------------------------------------------------------------
(* The outbox *)

(* A producer's commit appends pending rows and leaves the others alone.   *)
LEMMA AppendedRows ==
  ASSUME TypeOK, NEW batch \in Batch, Enqueue(batch)
  PROVE  /\ outbox' \in Seq(Row)
         /\ Len(outbox') >= Len(outbox)
         /\ \A i \in 1..Len(outbox) : outbox'[i] = outbox[i]
         /\ \A i \in 1..Len(outbox') : i > Len(outbox) => ~outbox'[i].written
<1> DEFINE new == [i \in 1..Len(batch) |-> Pending(batch[i])]
<1>1. batch \in Seq(Update)
  BY OutboxAssumption
<1>2. ASSUME NEW i \in 1..Len(batch)
      PROVE  Pending(batch[i]) \in Row /\ ~Pending(batch[i]).written
  <2>1. batch[i] \in Update
    BY <1>1, ElementOfSeq
  <2>2. batch[i].op \in {"touch", "delete"} /\ batch[i].rel \in Relation
    BY <2>1 DEF Update
  <2>3. QED
    BY <2>2 DEF Row, Pending
<1>3. Len(batch) \in Nat
  BY <1>1
<1>4. new \in [1..Len(batch) -> Row]
  BY <1>2
<1>5. new \in Seq(Row)
  BY <1>3, <1>4, SeqDef
<1>6. Len(new) = Len(batch)
  BY <1>3, <1>4, <1>5, LenProperties
<1>7. \A i \in 1..Len(new) : ~new[i].written
  BY <1>2, <1>6
<1>8. outbox \in Seq(Row) /\ outbox' = outbox \o new
  BY DEF TypeOK, Enqueue
<1> HIDE DEF new
<1>9. QED
  BY <1>5, <1>7, <1>8, ConcatProperties

(* Marking one row leaves the other rows and its own decision alone.        *)
LEMMA MarkedRow ==
  ASSUME TypeOK, NEW d \in Dispatcher, CommitWritten(d)
  PROVE  /\ tx[d].id \in 1..Len(outbox)
         /\ outbox' \in Seq(Row)
         /\ Len(outbox') = Len(outbox)
         /\ \A i \in 1..Len(outbox) :
              /\ outbox'[i].op = outbox[i].op
              /\ outbox'[i].rel = outbox[i].rel
              /\ i # tx[d].id => outbox'[i] = outbox[i]
         /\ outbox'[tx[d].id].written
<1> DEFINE k == tx[d].id
           marked == [outbox[k] EXCEPT !.written = TRUE]
<1>1. /\ outbox \in Seq(Row)
      /\ k \in 1..Len(outbox)
      /\ outbox' = [outbox EXCEPT ![k] = marked]
  BY DEF TypeOK, CommitWritten
<1>2. \A i \in 1..Len(outbox) : outbox[i] \in Row
  BY <1>1
<1>3. marked \in Row /\ marked.op = outbox[k].op /\ marked.rel = outbox[k].rel /\ marked.written
  BY <1>1, <1>2 DEF Row
<1> HIDE DEF marked
<1>4. /\ outbox' \in Seq(Row)
      /\ Len(outbox') = Len(outbox)
      /\ \A i \in 1..Len(outbox) : outbox'[i] = IF i = k THEN marked ELSE outbox[i]
  BY <1>1, <1>3, ExceptSeq
<1>5. QED
  BY <1>1, <1>2, <1>3, <1>4 DEF Row

(* What an effect does to the graph.                                        *)
LEMMA Effect ==
  ASSUME NEW g, NEW u, u.op \in {"touch", "delete"}, NEW r
  PROVE  r \in TakesEffect(g, u) <=> IF r = u.rel THEN u.op = "touch" ELSE r \in g
BY DEF TakesEffect

(* Every step keeps the types.                                             *)
LEMMA TypesPreserved ==
  ASSUME TypeOK, [Next]_vars
  PROVE  TypeOK'
<1>1. ASSUME NEW batch \in Batch, Enqueue(batch), UNCHANGED <<graph, tx>>
      PROVE  TypeOK'
  BY <1>1, AppendedRows DEF TypeOK
<1>2. ASSUME NEW d \in Dispatcher, NEW id \in DOMAIN outbox, Claim(d, id)
      PROVE  TypeOK'
  BY <1>2 DEF TypeOK, Claim
<1>3. ASSUME NEW d \in Dispatcher, SpiceWrite(d) \/ SpiceFail(d) \/ AdriftWrite(d)
      PROVE  TypeOK'
  <2>1. outbox[tx[d].id] \in Row
    BY <1>3 DEF TypeOK, SpiceWrite, SpiceFail, AdriftWrite
  <2>2. TakesEffect(graph, outbox[tx[d].id]) \subseteq Relation
    BY <2>1 DEF TypeOK, TakesEffect, Row
  <2>3. QED
    BY <1>3, <2>2 DEF TypeOK, SpiceWrite, SpiceFail, AdriftWrite, Idle
<1>4. ASSUME NEW d \in Dispatcher, CommitWritten(d)
      PROVE  TypeOK'
  <2>1. outbox' \in Seq(Row) /\ Len(outbox') = Len(outbox)
    BY <1>4, MarkedRow
  <2>2. DOMAIN outbox' = DOMAIN outbox
    BY <1>4, <2>1 DEF TypeOK
  <2>3. /\ tx' = [tx EXCEPT ![d] = Idle]
        /\ graph' = graph
    BY <1>4 DEF CommitWritten
  <2>4. QED
    BY <2>1, <2>2, <2>3 DEF TypeOK, Idle
<1>5. ASSUME NEW d \in Dispatcher, CommitRefused(d) \/ Rollback(d) \/ DropSession(d)
      PROVE  TypeOK'
  <2>1. CASE CommitRefused(d)
    BY <2>1 DEF TypeOK, CommitRefused, Idle
  <2>2. CASE Rollback(d)
    BY <2>2 DEF TypeOK, Rollback, Idle
  <2>3. CASE DropSession(d)
    BY <2>3 DEF TypeOK, DropSession
  <2>4. QED
    BY <1>5, <2>1, <2>2, <2>3
<1>6. CASE UNCHANGED vars
  BY <1>6 DEF TypeOK, vars
<1>7. QED
  BY <1>1, <1>2, <1>3, <1>4, <1>5, <1>6 DEF Next, DispatchStep

(* The system starts with no rows, no dispatches and no relationships.     *)
LEMMA InitialTypes == Init => TypeOK
BY EmptySeq DEF Init, TypeOK, Idle

(* Type correctness.                                                        *)
THEOREM Typing == Spec => []TypeOK
<1>1. Init => TypeOK
  BY InitialTypes
<1>2. TypeOK /\ [Next]_vars => TypeOK'
  BY TypesPreserved
<1>3. QED
  BY <1>1, <1>2, PTL DEF Spec

-------------------------------------------------------------------------------
(* A step keeps the locks exclusive and acknowledges a pair oldest first.   *)
LEMMA LocksPreserved ==
  ASSUME TypeOK, LockDiscipline, WrittenInOrder, [Next]_vars
  PROVE  LockDiscipline' /\ WrittenInOrder'
<1> DEFINE N == Len(outbox)
<1>t. /\ N \in Nat /\ DOMAIN outbox = 1..N
      /\ \A d \in Dispatcher : Holds(d) => tx[d].id \in 1..N
      /\ \A i \in 1..N : outbox[i] \in Row
  BY DEF TypeOK, Holds
<1>1. ASSUME NEW batch \in Batch, Enqueue(batch), UNCHANGED <<graph, tx>>
      PROVE  LockDiscipline' /\ WrittenInOrder'
  <2>1. /\ Len(outbox') \in Nat /\ Len(outbox') >= N
        /\ DOMAIN outbox' = 1..Len(outbox')
        /\ \A i \in 1..N : outbox'[i] = outbox[i]
        /\ \A i \in 1..Len(outbox') : i > N => ~outbox'[i].written
    BY <1>1, AppendedRows
  <2>2. LockDiscipline'
    BY <1>1, <1>t, <2>1 DEF LockDiscipline, Holds, Ordered, Same, EarlierPending
  <2>3. WrittenInOrder'
    BY <1>t, <2>1 DEF WrittenInOrder, Ordered, Same
  <2>4. QED
    BY <2>2, <2>3
<1>2. ASSUME NEW d \in Dispatcher, NEW id \in DOMAIN outbox, Claim(d, id)
      PROVE  LockDiscipline' /\ WrittenInOrder'
  <2>1. /\ tx' = [tx EXCEPT ![d] = [pc |-> "claimed", id |-> id]]
        /\ outbox' = outbox
        /\ \A e \in Dispatcher : e # d => tx'[e] = tx[e]
        /\ tx'[d].id = id
    BY <1>2 DEF Claim, TypeOK
  <2>2. /\ ~outbox[id].written
        /\ Ordered(id) => ~EarlierPending(id)
        /\ \A e \in Dispatcher : e # d /\ Holds(e) =>
             /\ tx[e].id # id
             /\ Ordered(tx[e].id) \/ Ordered(id) => ~Same(tx[e].id, id)
    BY <1>2 DEF Claim, RowLockFree, PairLockFree, Ordered, Same
  <2>3. LockDiscipline'
    BY <2>1, <2>2 DEF LockDiscipline, Holds, Ordered, Same, EarlierPending
  <2>4. QED
    BY <2>1, <2>3 DEF WrittenInOrder, Ordered, Same
<1>3. ASSUME NEW d \in Dispatcher, SpiceWrite(d) \/ SpiceFail(d)
      PROVE  LockDiscipline' /\ WrittenInOrder'
  <2>1. /\ outbox' = outbox
        /\ Holds(d)
        /\ \A e \in Dispatcher : tx'[e].id = tx[e].id /\ (e # d => tx'[e] = tx[e])
    BY <1>3 DEF SpiceWrite, SpiceFail, TypeOK, Holds
  <2>2. QED
    BY <2>1 DEF LockDiscipline, WrittenInOrder, Holds, Ordered, Same, EarlierPending
<1>4. ASSUME NEW d \in Dispatcher,
             CommitRefused(d) \/ Rollback(d) \/ DropSession(d) \/ AdriftWrite(d)
      PROVE  LockDiscipline' /\ WrittenInOrder'
  <2>1. /\ outbox' = outbox
        /\ ~(tx'[d].pc \in {"claimed", "written", "refused"})
        /\ \A e \in Dispatcher : e # d => tx'[e] = tx[e]
    <3>1. CASE CommitRefused(d) \/ Rollback(d) \/ AdriftWrite(d)
      BY <3>1 DEF CommitRefused, Rollback, AdriftWrite, TypeOK, Idle
    <3>2. CASE DropSession(d)
      BY <3>2 DEF DropSession, TypeOK
    <3>3. QED
      BY <1>4, <3>1, <3>2
  <2>2. QED
    BY <2>1 DEF LockDiscipline, WrittenInOrder, Holds, Ordered, Same, EarlierPending
<1>5. ASSUME NEW d \in Dispatcher, CommitWritten(d)
      PROVE  LockDiscipline' /\ WrittenInOrder'
  <2> DEFINE k == tx[d].id
  <2>1. /\ DOMAIN outbox' = 1..N
        /\ k \in 1..N
        /\ \A i \in 1..N : /\ outbox'[i].rel = outbox[i].rel
                           /\ i # k => outbox'[i] = outbox[i]
        /\ outbox'[k].written
    BY <1>5, <1>t, MarkedRow
  <2>2. /\ ~(tx'[d].pc \in {"claimed", "written", "refused"})
        /\ \A e \in Dispatcher : e # d => tx'[e] = tx[e]
        /\ Holds(d)
    BY <1>5 DEF CommitWritten, TypeOK, Idle, Holds
  <2>3. LockDiscipline'
    <3>1. \A e \in Dispatcher : Holds(e)' => e # d /\ Holds(e) /\ tx'[e].id = tx[e].id
      BY <2>2 DEF Holds
    <3>2. \A e \in Dispatcher : Holds(e)' => tx[e].id \in 1..N \ {k}
      BY <1>t, <2>1, <2>2, <3>1 DEF LockDiscipline
    <3>3. \A i, j \in 1..N : (Ordered(i)' <=> Ordered(i)) /\ (Same(i, j)' <=> Same(i, j))
      BY <2>1 DEF Ordered, Same
    <3>4. \A i \in 1..N : EarlierPending(i)' => EarlierPending(i)
      BY <2>1 DEF EarlierPending, Same
    <3>5. \A i \in 1..N \ {k} : outbox'[i].written = outbox[i].written
      BY <2>1
    <3>6. QED
      BY <3>1, <3>2, <3>3, <3>4, <3>5 DEF LockDiscipline
  <2>4. Ordered(k) => ~EarlierPending(k)
    BY <2>2 DEF LockDiscipline
  <2>5. WrittenInOrder'
    BY <1>t, <2>1, <2>4 DEF WrittenInOrder, Ordered, Same, EarlierPending
  <2>6. QED
    BY <2>3, <2>5
<1>6. CASE UNCHANGED vars
  BY <1>6 DEF vars, LockDiscipline, WrittenInOrder, Holds, Ordered, Same, EarlierPending
<1>7. QED
  BY <1>1, <1>2, <1>3, <1>4, <1>5, <1>6 DEF Next, DispatchStep

(* The rows of one binding are acknowledged oldest first, whatever races,   *)
(* fails or dies, and even when sessions are lost under a remote write.      *)
THEOREM WrittenOldestFirst == Spec => []WrittenInOrder
<1>1. Init => LockDiscipline /\ WrittenInOrder
  BY DEF Init, Idle, LockDiscipline, WrittenInOrder, Holds
<1>2. TypeOK /\ LockDiscipline /\ WrittenInOrder /\ [Next]_vars
        => (LockDiscipline /\ WrittenInOrder)'
  BY LocksPreserved
<1>3. QED
  BY <1>1, <1>2, Typing, PTL DEF Spec

-------------------------------------------------------------------------------
GraphInv == NothingAdrift /\ WrittenIsReflected /\ NoResurrection

(* While sessions are not lost, what SpiceDB holds for a pair follows the   *)
(* order of the decisions.                                                  *)
LEMMA GraphPreserved ==
  ASSUME TypeOK, LockDiscipline, WrittenInOrder, GraphInv, ~SessionsMayDrop, [Next]_vars
  PROVE  GraphInv'
<1> DEFINE N == Len(outbox)
<1> USE DEF GraphInv
<1>t. /\ N \in Nat /\ DOMAIN outbox = 1..N
      /\ \A d \in Dispatcher : Holds(d) => tx[d].id \in 1..N
      /\ \A i \in 1..N : outbox[i] \in Row
      /\ BoundPool \subseteq Relation
  BY OutboxAssumption DEF TypeOK, Holds
<1>1. ASSUME NEW batch \in Batch, Enqueue(batch), UNCHANGED <<graph, tx>>
      PROVE  GraphInv'
  <2>1. /\ Len(outbox') \in Nat /\ Len(outbox') >= N
        /\ DOMAIN outbox' = 1..Len(outbox')
        /\ \A i \in 1..N : outbox'[i] = outbox[i]
        /\ \A i \in 1..Len(outbox') : i > N => ~outbox'[i].written
    BY <1>1, AppendedRows
  <2>2. NothingAdrift' /\ WrittenIsReflected'
    BY <1>1, <1>t, <2>1 DEF NothingAdrift, WrittenIsReflected, Reflects, Ordered, Holds
  <2>3. ASSUME NEW r \in BoundPool
        PROVE  \E i \in 0..Len(outbox') :
                 (LastWritten(r, i) \/ FirstPending(r, i))' /\ Reflects(r, i)'
    <3>1. PICK i \in 0..N : (LastWritten(r, i) \/ FirstPending(r, i)) /\ Reflects(r, i)
      BY DEF NoResurrection
    <3>2. LastWritten(r, i) => LastWritten(r, i)'
      BY <1>t, <2>1 DEF LastWritten
    <3>3. FirstPending(r, i) => FirstPending(r, i)'
      BY <1>t, <2>1 DEF FirstPending
    <3>4. Reflects(r, i)'
      BY <1>1, <1>t, <2>1, <3>1 DEF Reflects
    <3>5. QED
      BY <2>1, <3>1, <3>2, <3>3, <3>4
  <2>4. QED
    BY <2>2, <2>3 DEF NoResurrection
<1>2. ASSUME NEW d \in Dispatcher, NEW id \in DOMAIN outbox, Claim(d, id)
      PROVE  GraphInv'
  <2>1. /\ \A e \in Dispatcher : tx'[e].pc \in {"written", "adrift"} => tx'[e] = tx[e]
        /\ outbox' = outbox /\ graph' = graph
    BY <1>2 DEF Claim, TypeOK
  <2>2. QED
    BY <2>1 DEF NothingAdrift, WrittenIsReflected, NoResurrection, LastWritten,
                FirstPending, Reflects, Ordered
<1>3. ASSUME NEW d \in Dispatcher, SpiceWrite(d) \/ SpiceFail(d)
      PROVE  GraphInv'
  <2>k. PICK k : k = tx[d].id
    OBVIOUS
  <2>rel. PICK rel : rel = outbox[k].rel
    OBVIOUS
  <2>1. /\ outbox' = outbox
        /\ Holds(d) /\ k \in 1..N /\ tx'[d].id = k
        /\ tx'[d].pc \in {"written", "refused"}
        /\ \A e \in Dispatcher : e # d => tx'[e] = tx[e]
        /\ graph' = graph \/ graph' = TakesEffect(graph, outbox[k])
        /\ tx'[d].pc = "written" => graph' = TakesEffect(graph, outbox[k])
    BY <1>3, <1>t, <2>k DEF SpiceWrite, SpiceFail, TypeOK, Holds
  <2>2. NothingAdrift'
    BY <2>1 DEF NothingAdrift
  <2>3. \A r : r # rel => (r \in graph' <=> r \in graph)
    BY <1>t, <2>1, <2>rel, Effect DEF Row
  <2>4. graph' = TakesEffect(graph, outbox[k]) => (rel \in graph' <=> outbox[k].op = "touch")
    BY <1>t, <2>1, <2>rel, Effect DEF Row
  <2>5. WrittenIsReflected'
    <3>1. ASSUME NEW e \in Dispatcher, (tx[e].pc = "written" /\ Ordered(tx[e].id))'
          PROVE  Reflects(outbox[tx[e].id].rel, tx[e].id)'
      <4>1. CASE e = d
        BY <1>t, <2>1, <2>4, <2>rel, <3>1, <4>1 DEF Reflects
      <4>2. CASE e # d
        <5>1. Holds(e) /\ tx'[e] = tx[e] /\ Ordered(tx[e].id)
          BY <2>1, <3>1, <4>2 DEF Holds, Ordered
        <5>2. outbox[tx[e].id].rel # rel
          BY <2>1, <2>k, <2>rel, <4>2, <5>1 DEF LockDiscipline, Same
        <5>3. Reflects(outbox[tx[e].id].rel, tx[e].id)
          BY <3>1, <5>1 DEF WrittenIsReflected
        <5>4. QED
          BY <2>1, <2>3, <5>1, <5>2, <5>3 DEF Reflects
      <4>3. QED
        BY <4>1, <4>2
    <3>2. QED
      BY <2>1, <3>1 DEF WrittenIsReflected
  <2>6. ASSUME NEW r \in BoundPool
        PROVE  \E i \in 0..N : (LastWritten(r, i) \/ FirstPending(r, i)) /\ Reflects(r, i)'
    <3>1. CASE r # rel \/ graph' = graph
      BY <2>1, <2>3, <3>1 DEF NoResurrection, Reflects
    <3>2. CASE r = rel /\ graph' # graph
      <4>1. FirstPending(r, k)
        <5>1. ~EarlierPending(k) /\ ~outbox[k].written
          BY <2>1, <2>k, <2>rel, <3>2 DEF LockDiscipline, Ordered
        <5>2. QED
          BY <1>t, <2>1, <2>rel, <3>2, <5>1 DEF FirstPending, EarlierPending, Same
      <4>2. Reflects(r, k)'
        BY <1>t, <2>1, <2>4, <2>rel, <3>2 DEF Reflects
      <4>3. QED
        BY <2>1, <4>1, <4>2
    <3>3. QED
      BY <3>1, <3>2
  <2>7. NoResurrection'
    BY <2>1, <2>6 DEF NoResurrection, LastWritten, FirstPending, Reflects
  <2>8. QED
    BY <2>2, <2>5, <2>7
<1>4. ASSUME NEW d \in Dispatcher,
             CommitRefused(d) \/ Rollback(d) \/ DropSession(d) \/ AdriftWrite(d)
      PROVE  GraphInv'
  <2>1. ~DropSession(d) /\ ~AdriftWrite(d)
    BY DEF DropSession, AdriftWrite, NothingAdrift
  <2>2. /\ outbox' = outbox /\ graph' = graph
        /\ \A e \in Dispatcher : tx'[e].pc # "idle" => tx'[e] = tx[e]
    BY <1>4, <2>1 DEF CommitRefused, Rollback, TypeOK, Idle
  <2>3. QED
    BY <2>2 DEF NothingAdrift, WrittenIsReflected, NoResurrection, LastWritten,
                FirstPending, Reflects, Ordered
<1>5. ASSUME NEW d \in Dispatcher, CommitWritten(d)
      PROVE  GraphInv'
  <2>k. PICK k : k = tx[d].id
    OBVIOUS
  <2>rel. PICK rel : rel = outbox[k].rel
    OBVIOUS
  <2>1. /\ Len(outbox') = N /\ DOMAIN outbox' = 1..N
        /\ k \in 1..N
        /\ outbox'[k].written
        /\ \A i \in 1..N : /\ outbox'[i].op = outbox[i].op
                           /\ outbox'[i].rel = outbox[i].rel
                           /\ i # k => outbox'[i] = outbox[i]
    BY <1>5, <1>t, <2>k, MarkedRow
  <2>2. /\ graph' = graph
        /\ Holds(d) /\ tx[d].pc = "written"
        /\ \A e \in Dispatcher : tx'[e].pc # "idle" => e # d /\ tx'[e] = tx[e]
    BY <1>5 DEF CommitWritten, TypeOK, Idle, Holds
  <2>3. NothingAdrift'
    BY <2>2 DEF NothingAdrift
  <2>4. WrittenIsReflected'
    BY <1>t, <2>1, <2>2 DEF WrittenIsReflected, Ordered, Reflects, Holds
  <2>5. ASSUME NEW r \in BoundPool
        PROVE  \E i \in 0..N : (LastWritten(r, i) \/ FirstPending(r, i))' /\ Reflects(r, i)'
    <3>1. CASE r # rel
      <4>1. PICK i \in 0..N : (LastWritten(r, i) \/ FirstPending(r, i)) /\ Reflects(r, i)
        BY DEF NoResurrection
      <4>2. (LastWritten(r, i) \/ FirstPending(r, i))'
        BY <1>t, <2>1, <2>rel, <3>1, <4>1 DEF LastWritten, FirstPending
      <4>3. Reflects(r, i)'
        BY <1>t, <2>1, <2>2, <4>1 DEF Reflects
      <4>4. QED
        BY <4>2, <4>3
    <3>2. CASE r = rel
      <4>1. LastWritten(r, k)'
        <5>1. ~outbox[k].written
          BY <2>2, <2>k DEF LockDiscipline
        <5>2. \A j \in 1..N : outbox[j].rel = r /\ outbox[j].written => j <= k
          BY <1>t, <2>1, <2>rel, <3>2, <5>1 DEF WrittenInOrder, Ordered, Same
        <5>3. QED
          BY <1>t, <2>1, <2>rel, <3>2, <5>2 DEF LastWritten
      <4>2. Reflects(r, k)'
        BY <1>t, <2>1, <2>2, <2>k, <2>rel, <3>2 DEF WrittenIsReflected, Ordered, Reflects
      <4>3. QED
        BY <2>1, <4>1, <4>2
    <3>3. QED
      BY <3>1, <3>2
  <2>6. NoResurrection'
    BY <2>1, <2>5 DEF NoResurrection
  <2>7. QED
    BY <2>3, <2>4, <2>6
<1>6. CASE UNCHANGED vars
  BY <1>6 DEF vars, NothingAdrift, WrittenIsReflected, NoResurrection, LastWritten,
              FirstPending, Reflects, Ordered
<1>7. QED
  BY <1>1, <1>2, <1>3, <1>4, <1>5, <1>6 DEF Next, DispatchStep

(* Before anything is enqueued the invariant holds.                         *)
LEMMA InitiallyOrdered == Init => LockDiscipline /\ WrittenInOrder /\ GraphInv
<1> SUFFICES ASSUME Init PROVE LockDiscipline /\ WrittenInOrder /\ GraphInv
  OBVIOUS
<1>1. LockDiscipline /\ WrittenInOrder
  BY DEF Init, Idle, LockDiscipline, WrittenInOrder, Holds
<1>2. NothingAdrift /\ WrittenIsReflected
  BY DEF Init, Idle, NothingAdrift, WrittenIsReflected
<1>3. Len(outbox) = 0 /\ DOMAIN outbox = {} /\ graph = {}
  BY EmptySeq DEF Init
<1>4. NoResurrection
  BY <1>3 DEF NoResurrection, LastWritten, Reflects
<1>5. QED
  BY <1>1, <1>2, <1>4 DEF GraphInv

(* As long as no database session is lost under a remote write, SpiceDB     *)
(* always holds the newest acknowledged decision of a pair or the next one: *)
(* retries and lost acknowledgements never bring back an older decision.    *)
THEOREM Ordering == ASSUME ~SessionsMayDrop PROVE Spec => []NoResurrection
<1>1. Init => LockDiscipline /\ WrittenInOrder /\ GraphInv
  BY InitiallyOrdered
<1>2. TypeOK /\ LockDiscipline /\ WrittenInOrder /\ GraphInv /\ [Next]_vars
        => (LockDiscipline /\ WrittenInOrder /\ GraphInv)'
  BY LocksPreserved, GraphPreserved
<1>3. GraphInv => NoResurrection
  BY DEF GraphInv
<1>4. QED
  BY <1>1, <1>2, <1>3, Typing, PTL DEF Spec

-------------------------------------------------------------------------------
(* The elements of a concatenation, with its domain.                        *)
LEMMA Concatenation ==
  ASSUME NEW S, NEW s \in Seq(S), NEW t \in Seq(S)
  PROVE  /\ Len(s \o t) = Len(s) + Len(t)
         /\ DOMAIN (s \o t) = 1..(Len(s) + Len(t))
         /\ s \o t \in [1..(Len(s) + Len(t)) -> S]
         /\ \A i \in 1..(Len(s) + Len(t)) :
              /\ i <= Len(s) => (s \o t)[i] = s[i]
              /\ i > Len(s) => (s \o t)[i] = t[i - Len(s)]
<1>1. Len(s) \in Nat /\ Len(t) \in Nat
  BY LenProperties
<1>2. s \o t \in Seq(S) /\ Len(s \o t) = Len(s) + Len(t)
  BY ConcatProperties
<1>3. DOMAIN (s \o t) = 1..(Len(s) + Len(t)) /\ s \o t \in [1..(Len(s) + Len(t)) -> S]
  BY <1>2, LenProperties
<1>4. QED
  BY <1>1, <1>2, <1>3, ConcatProperties

(* Functions that agree on their common domain are equal.                   *)
LEMMA SameFunction ==
  ASSUME NEW D, NEW S, NEW f \in [D -> S], NEW g \in [D -> S], \A i \in D : f[i] = g[i]
  PROVE  f = g
OBVIOUS

(* A step of the outbox is a step of in-order delivery, or changes nothing  *)
(* that delivery sees.                                                      *)
LEMMA StepDelivers ==
  ASSUME TypeOK, LockDiscipline, GraphInv, ~SessionsMayDrop, [Next]_vars
  PROVE  [Delivery!Next]_(Delivery!avars)
<1> DEFINE N == Len(outbox)
<1>t. /\ N \in Nat /\ DOMAIN outbox = 1..N /\ DOMAIN Decisions = 1..N
      /\ \A d \in Dispatcher : Holds(d) => tx[d].id \in 1..N
      /\ \A i \in 1..N : /\ outbox[i] \in Row
                         /\ Decisions[i].op = outbox[i].op
                         /\ Decisions[i].rel = outbox[i].rel
  BY DEF TypeOK, Holds, Decisions
<1>a. ASSUME NEW i \in 1..N
      PROVE  Delivery!TakesEffect(graph, Decisions[i]) = TakesEffect(graph, outbox[i])
  BY <1>t DEF Delivery!TakesEffect, TakesEffect
<1>b. ASSUME NEW d \in Dispatcher, Holds(d)
      PROVE  Delivery!Turn(tx[d].id)
  BY <1>b, <1>t DEF Delivery!Turn, LockDiscipline, Acknowledged, Ordered, Same, EarlierPending
<1>s. ASSUME outbox' = outbox, graph' = graph
      PROVE  UNCHANGED Delivery!avars
  BY <1>s DEF Delivery!avars, Decisions, Acknowledged
<1>1. ASSUME NEW batch \in Batch, Enqueue(batch), UNCHANGED <<graph, tx>>
      PROVE  Delivery!Decide
  <2>1. batch \in Seq(Update)
    BY OutboxAssumption
  <2> DEFINE new == [i \in 1..Len(batch) |-> Pending(batch[i])]
  <2>2. \A i \in 1..Len(batch) : batch[i] \in Update /\ new[i] = Pending(batch[i])
    BY <2>1
  <2>3. \A i \in 1..Len(batch) :
          new[i] \in Row /\ new[i].op = batch[i].op /\ new[i].rel = batch[i].rel
                         /\ new[i].written = FALSE
    BY <2>2 DEF Update, Row, Pending
  <2>4. Len(batch) \in Nat /\ new \in [1..Len(batch) -> Row]
    BY <2>1, <2>3
  <2>5. new \in Seq(Row) /\ Len(new) = Len(batch)
    BY <2>4, SeqDef, LenProperties
  <2>6. outbox \in Seq(Row) /\ outbox' = outbox \o new
    BY <1>1 DEF TypeOK, Enqueue
  <2> HIDE DEF new
  <2>7. /\ DOMAIN outbox' = 1..(N + Len(batch))
        /\ \A i \in 1..(N + Len(batch)) :
             /\ i <= N => outbox'[i] = outbox[i]
             /\ i > N => outbox'[i] = new[i - N]
    BY <2>5, <2>6, Concatenation
  <2>8. Decisions \in [1..N -> Update]
    BY <1>t DEF Decisions, Update, Row
  <2>9. Decisions \in Seq(Update) /\ Len(Decisions) = N
    BY <1>t, <2>8, SeqDef, LenProperties
  <2> HIDE DEF N
  <2>10. /\ DOMAIN (Decisions \o batch) = 1..(N + Len(batch))
         /\ Decisions \o batch \in [1..(N + Len(batch)) -> Update]
         /\ \A i \in 1..(N + Len(batch)) :
              /\ i <= N => (Decisions \o batch)[i] = Decisions[i]
              /\ i > N => (Decisions \o batch)[i] = batch[i - N]
    <3>1. PICK decisions \in Seq(Update) : decisions = Decisions
      BY <2>9, Zenon
    <3>2. /\ DOMAIN (decisions \o batch) = 1..(Len(decisions) + Len(batch))
          /\ decisions \o batch \in [1..(Len(decisions) + Len(batch)) -> Update]
          /\ \A i \in 1..(Len(decisions) + Len(batch)) :
               /\ i <= Len(decisions) => (decisions \o batch)[i] = decisions[i]
               /\ i > Len(decisions) => (decisions \o batch)[i] = batch[i - Len(decisions)]
      BY <2>1, Concatenation, ZenonT(60)
    <3>3. QED
      BY <2>9, <3>1, <3>2, Zenon
  <2>11. /\ DOMAIN Decisions' = 1..(N + Len(batch))
         /\ \A i \in 1..(N + Len(batch)) :
              Decisions'[i] = [op |-> outbox'[i].op, rel |-> outbox'[i].rel]
    BY <2>7 DEF Decisions
  <2>12. ASSUME NEW i \in 1..(N + Len(batch))
         PROVE  Decisions'[i] = (Decisions \o batch)[i]
    <3>1. CASE i <= N
      BY <1>t, <2>7, <2>10, <2>11, <3>1 DEF Decisions
    <3>2. CASE i > N
      <4>1. i - N \in 1..Len(batch)
        BY <1>t, <2>4, <3>2
      <4>2. Decisions'[i] = [op |-> batch[i - N].op, rel |-> batch[i - N].rel]
        BY <1>t, <2>3, <2>7, <2>11, <3>2, <4>1
      <4>3. batch[i - N] = [op |-> batch[i - N].op, rel |-> batch[i - N].rel]
        BY <2>2, <4>1 DEF Update
      <4>4. QED
        BY <1>t, <2>10, <3>2, <4>2, <4>3
    <3>3. QED
      BY <1>t, <3>1, <3>2
  <2>13. Decisions' = Decisions \o batch
    <3>1. Decisions' \in [1..(N + Len(batch)) -> Update]
      BY <2>10, <2>11, <2>12 DEF Decisions
    <3>2. QED
      <4>1. PICK D : D = 1..(N + Len(batch))
        OBVIOUS
      <4>2. PICK f : f = Decisions'
        OBVIOUS
      <4>3. PICK g : g = Decisions \o batch
        OBVIOUS
      <4>4. f \in [D -> Update] /\ g \in [D -> Update] /\ \A i \in D : f[i] = g[i]
        BY <2>10, <2>12, <3>1, <4>1, <4>2, <4>3, Zenon
      <4>5. f = g
        BY <4>4, SameFunction
      <4>6. QED
        BY <4>2, <4>3, <4>5
  <2>14. Acknowledged' = Acknowledged
    <3>1. \A i \in 1..N : i \in 1..(N + Len(batch)) /\ outbox'[i] = outbox[i]
      BY <1>t, <2>4, <2>7
    <3>2. ASSUME NEW i \in 1..(N + Len(batch)), i > N
          PROVE  ~outbox'[i].written
      <4>1. outbox'[i].written = FALSE
        BY <1>t, <2>3, <2>4, <2>7, <3>2
      <4>2. QED
        BY <4>1, Zenon
    <3>3. ASSUME NEW i \in 1..(N + Len(batch)), outbox'[i].written
          PROVE  i \in 1..N
      BY <1>t, <2>4, <3>2, <3>3
    <3>4. QED
      BY <1>t, <2>7, <3>1, <3>3 DEF Acknowledged
  <2>15. QED
    BY <1>1, <2>13, <2>14 DEF Delivery!Decide
<1>2. ASSUME NEW d \in Dispatcher, SpiceWrite(d) \/ SpiceFail(d)
      PROVE  [Delivery!Next]_(Delivery!avars)
  <2>1. /\ outbox' = outbox /\ Holds(d) /\ tx[d].id \in 1..N
        /\ graph' = graph \/ graph' = TakesEffect(graph, outbox[tx[d].id])
    BY <1>2, <1>t DEF SpiceWrite, SpiceFail, Holds
  <2>2. Decisions' = Decisions /\ Acknowledged' = Acknowledged
    BY <2>1 DEF Decisions, Acknowledged
  <2>3. graph' # graph => Delivery!Deliver(tx[d].id)
    BY <1>a, <1>b, <2>1, <2>2 DEF Delivery!Deliver
  <2>4. QED
    BY <1>t, <1>s, <2>1, <2>3 DEF Delivery!Next
<1>3. ASSUME NEW d \in Dispatcher, CommitWritten(d)
      PROVE  Delivery!Next
  <2>1. PICK k : k = tx[d].id
    OBVIOUS
  <2>2. /\ DOMAIN outbox' = 1..N /\ k \in 1..N /\ outbox'[k].written
        /\ \A i \in 1..N : /\ outbox'[i].op = outbox[i].op
                           /\ outbox'[i].rel = outbox[i].rel
                           /\ i # k => outbox'[i] = outbox[i]
    BY <1>3, <1>t, <2>1, MarkedRow
  <2>3. graph' = graph /\ Holds(d) /\ tx[d].pc = "written"
    BY <1>3 DEF CommitWritten, Holds
  <2>4. Decisions' = Decisions
    BY <1>t, <2>2 DEF Decisions
  <2>5. Acknowledged' = Acknowledged \union {k}
    BY <1>t, <2>2 DEF Acknowledged
  <2>6. Decisions[k].rel \in BoundPool => graph = Delivery!TakesEffect(graph, Decisions[k])
    <3>1. SUFFICES ASSUME outbox[k].rel \in BoundPool
                   PROVE  graph = TakesEffect(graph, outbox[k])
      BY <1>a, <1>t, <2>2
    <3>2. Reflects(outbox[k].rel, k)
      BY <2>1, <2>3, <3>1 DEF GraphInv, WrittenIsReflected, Ordered
    <3>3. QED
      BY <1>t, <2>2, <3>2 DEF Reflects, TakesEffect, Row
  <2>7. Delivery!Acknowledge(k)
    BY <1>b, <2>1, <2>3, <2>4, <2>5, <2>6 DEF Delivery!Acknowledge
  <2>8. QED
    BY <1>t, <2>2, <2>7 DEF Delivery!Next
<1>4. ASSUME NEW d \in Dispatcher, NEW id \in DOMAIN outbox, Claim(d, id)
      PROVE  UNCHANGED Delivery!avars
  BY <1>4, <1>s DEF Claim
<1>5. ASSUME NEW d \in Dispatcher,
             CommitRefused(d) \/ Rollback(d) \/ DropSession(d) \/ AdriftWrite(d)
      PROVE  UNCHANGED Delivery!avars
  <2>1. ~AdriftWrite(d)
    BY DEF AdriftWrite, GraphInv, NothingAdrift
  <2>2. QED
    BY <1>5, <1>s, <2>1 DEF CommitRefused, Rollback, DropSession
<1>6. CASE UNCHANGED vars
  BY <1>6, <1>s DEF vars
<1>7. QED
  BY <1>1, <1>2, <1>3, <1>4, <1>5, <1>6 DEF Next, DispatchStep, Delivery!Next

(* While sessions are not lost, the outbox implements in-order delivery:    *)
(* rows, locks, crashes and repeated remote writes add nothing that the     *)
(* six lines of CommitOrderDelivery do not allow.                           *)
THEOREM Implementation == ASSUME ~SessionsMayDrop PROVE Spec => ImplementsDelivery
<1>1. Init => LockDiscipline /\ WrittenInOrder /\ GraphInv
  BY InitiallyOrdered
<1>2. TypeOK /\ LockDiscipline /\ WrittenInOrder /\ GraphInv /\ [Next]_vars
        => (LockDiscipline /\ WrittenInOrder /\ GraphInv)'
  BY LocksPreserved, GraphPreserved
<1>3. Init => Delivery!Init
  <2> SUFFICES ASSUME Init PROVE Delivery!Init
    OBVIOUS
  <2>1. DOMAIN outbox = {} /\ graph = {}
    BY DEF Init
  <2>2. Decisions = << >>
    BY <2>1 DEF Decisions
  <2>3. QED
    BY <2>1, <2>2 DEF Delivery!Init, Acknowledged
<1>4. TypeOK /\ LockDiscipline /\ GraphInv /\ [Next]_vars
        => [Delivery!Next]_(Delivery!avars)
  BY StepDelivers
<1>5. QED
  BY <1>1, <1>2, <1>3, <1>4, Typing, PTL DEF Spec, ImplementsDelivery, Delivery!Spec

-------------------------------------------------------------------------------
(* The bindings *)

(* What a producer appends are the decisions of its batch, in their order. *)
LEMMA AppendedDecisions ==
  ASSUME TypeOK, NEW batch \in Batch, Enqueue(batch)
  PROVE  /\ batch \in Seq(Update) /\ Len(batch) \in Nat
         /\ outbox' \in Seq(Row)
         /\ Len(outbox') = Len(outbox) + Len(batch)
         /\ \A i \in 1..Len(outbox) : outbox'[i] = outbox[i]
         /\ \A i \in 1..Len(batch) :
              /\ outbox'[Len(outbox) + i].op = batch[i].op
              /\ outbox'[Len(outbox) + i].rel = batch[i].rel
<1> DEFINE new == [i \in 1..Len(batch) |-> Pending(batch[i])]
<1>1. batch \in Seq(Update) /\ Len(batch) \in Nat
  BY OutboxAssumption, LenProperties
<1>2. \A i \in 1..Len(batch) : batch[i] \in Update /\ new[i] = Pending(batch[i])
  BY <1>1
<1>3. \A i \in 1..Len(batch) :
        new[i] \in Row /\ new[i].op = batch[i].op /\ new[i].rel = batch[i].rel
  BY <1>2 DEF Update, Row, Pending
<1>4. new \in Seq(Row) /\ Len(new) = Len(batch)
  <2>1. new \in [1..Len(batch) -> Row]
    BY <1>3
  <2>2. QED
    BY <1>1, <2>1, SeqDef, LenProperties
<1>5. outbox \in Seq(Row) /\ Len(outbox) \in Nat /\ outbox' = outbox \o new
  BY LenProperties DEF TypeOK, Enqueue
<1> HIDE DEF new
<1>6. /\ outbox' \in Seq(Row)
      /\ Len(outbox') = Len(outbox) + Len(batch)
      /\ \A i \in 1..(Len(outbox) + Len(batch)) :
           /\ i <= Len(outbox) => outbox'[i] = outbox[i]
           /\ i > Len(outbox) => outbox'[i] = new[i - Len(outbox)]
  <2>1. outbox \o new \in Seq(Row) /\ Len(outbox \o new) = Len(outbox) + Len(new)
    BY <1>4, <1>5, ConcatProperties
  <2>2. \A i \in 1..(Len(outbox) + Len(new)) :
          /\ i <= Len(outbox) => (outbox \o new)[i] = outbox[i]
          /\ i > Len(outbox) => (outbox \o new)[i] = new[i - Len(outbox)]
    BY <1>4, <1>5, Concatenation
  <2>3. QED
    BY <1>4, <1>5, <2>1, <2>2
<1>7. \A i \in 1..Len(outbox) : outbox'[i] = outbox[i]
  BY <1>1, <1>5, <1>6
<1>8. ASSUME NEW i \in 1..Len(batch)
      PROVE  outbox'[Len(outbox) + i] = new[i]
  <2>1. /\ Len(outbox) + i \in 1..(Len(outbox) + Len(batch))
        /\ Len(outbox) + i > Len(outbox)
        /\ (Len(outbox) + i) - Len(outbox) = i
    BY <1>1, <1>5
  <2>2. QED
    BY <1>6, <2>1
<1>9. QED
  BY <1>1, <1>3, <1>6, <1>7, <1>8

(* A batch whose rows leave a pair alone leaves its newest row, and a batch *)
(* with one row about the pair makes that row the newest.                   *)
LEMMA AppendedPair ==
  ASSUME TypeOK, NEW batch \in Batch, Enqueue(batch), NEW p \in Pool, NEW s \in Source
  PROVE  /\ (\A i \in 1..Len(batch) : batch[i].rel # Reachable(p, s)) =>
              (Touched(p, s)' <=> Touched(p, s))
         /\ \A k \in 1..Len(batch) :
              (\A i \in 1..Len(batch) : batch[i].rel = Reachable(p, s) <=> i = k) =>
                (Touched(p, s)' <=> batch[k].op = "touch")
<1> DEFINE N == Len(outbox)
           M == Len(batch)
           rel == Reachable(p, s)
<1>1. /\ N \in Nat /\ M \in Nat
      /\ DOMAIN outbox = 1..N /\ DOMAIN outbox' = 1..(N + M)
      /\ \A i \in 1..N : outbox'[i] = outbox[i]
      /\ \A i \in 1..M : /\ outbox'[N + i].op = batch[i].op
                         /\ outbox'[N + i].rel = batch[i].rel
  BY AppendedDecisions, LenProperties DEF TypeOK
<1>2. \A i \in 1..(N + M) : i \in 1..N \/ \E j \in 1..M : i = N + j
  <2>1. ASSUME NEW i \in 1..(N + M), i \notin 1..N
        PROVE  i - N \in 1..M /\ i = N + (i - N)
    BY <1>1, <2>1
  <2>2. QED
    BY <2>1
<1>3. Touched(p, s) <=>
        \E i \in 1..N : /\ outbox[i].rel = rel /\ outbox[i].op = "touch"
                        /\ \A j \in 1..N : outbox[j].rel = rel => j <= i
  BY <1>1 DEF Touched, Newest, RowsOf
<1>4. Touched(p, s)' <=>
        \E i \in 1..(N + M) : /\ outbox'[i].rel = rel /\ outbox'[i].op = "touch"
                              /\ \A j \in 1..(N + M) : outbox'[j].rel = rel => j <= i
  BY <1>1 DEF Touched, Newest, RowsOf
<1> HIDE DEF N, M, rel
<1>5. ASSUME \A i \in 1..M : batch[i].rel # rel
      PROVE  Touched(p, s)' <=> Touched(p, s)
  <2>1. \A i \in 1..(N + M) : outbox'[i].rel = rel => i \in 1..N
    BY <1>1, <1>2, <1>5
  <2>2. \A i \in 1..N : /\ i \in 1..(N + M)
                        /\ outbox'[i].rel = outbox[i].rel /\ outbox'[i].op = outbox[i].op
    BY <1>1
  <2>3. ASSUME Touched(p, s) PROVE Touched(p, s)'
    <3>1. PICK i \in 1..N : /\ outbox[i].rel = rel /\ outbox[i].op = "touch"
                            /\ \A j \in 1..N : outbox[j].rel = rel => j <= i
      BY <1>3, <2>3
    <3>2. \A j \in 1..(N + M) : outbox'[j].rel = rel => j <= i
      BY <2>1, <2>2, <3>1
    <3>3. QED
      BY <1>4, <2>2, <3>1, <3>2
  <2>4. ASSUME Touched(p, s)' PROVE Touched(p, s)
    <3>1. PICK i \in 1..(N + M) : /\ outbox'[i].rel = rel /\ outbox'[i].op = "touch"
                                  /\ \A j \in 1..(N + M) : outbox'[j].rel = rel => j <= i
      BY <1>4, <2>4
    <3>2. i \in 1..N
      BY <2>1, <3>1
    <3>3. \A j \in 1..N : outbox[j].rel = rel => j <= i
      BY <2>2, <3>1
    <3>4. QED
      BY <1>3, <2>2, <3>1, <3>2, <3>3
  <2>5. QED
    BY <2>3, <2>4
<1>6. ASSUME NEW k \in 1..M, \A i \in 1..M : batch[i].rel = rel <=> i = k
      PROVE  Touched(p, s)' <=> batch[k].op = "touch"
  <2>1. N + k \in 1..(N + M) /\ outbox'[N + k].rel = rel /\ outbox'[N + k].op = batch[k].op
    BY <1>1, <1>6
  <2>2. \A j \in 1..(N + M) : outbox'[j].rel = rel => j <= N + k
    <3>1. ASSUME NEW j \in 1..(N + M), outbox'[j].rel = rel
          PROVE  j <= N + k
      <4>1. CASE j \in 1..N
        BY <1>1, <4>1
      <4>2. CASE \E i \in 1..M : j = N + i
        <5>1. PICK i \in 1..M : j = N + i
          BY <4>2
        <5>2. batch[i].rel = rel
          BY <1>1, <3>1, <5>1
        <5>3. QED
          BY <1>1, <1>6, <5>1, <5>2
      <4>3. QED
        BY <1>2, <4>1, <4>2
    <3>2. QED
      BY <3>1
  <2>3. \A i \in 1..(N + M) :
          outbox'[i].rel = rel /\ (\A j \in 1..(N + M) : outbox'[j].rel = rel => j <= i)
            => i = N + k
    BY <1>1, <2>1, <2>2
  <2>4. QED
    BY <1>4, <2>1, <2>2, <2>3
<1>7. QED
  BY <1>5, <1>6 DEF M, rel

(* The rows about a pair are told from the others by their decisions alone. *)
LEMMA SameDecisions ==
  ASSUME NEW p, NEW s, DOMAIN outbox' = DOMAIN outbox,
         \A i \in DOMAIN outbox : outbox'[i].op = outbox[i].op /\ outbox'[i].rel = outbox[i].rel
  PROVE  Touched(p, s)' <=> Touched(p, s)
BY DEF Touched, Newest, RowsOf

-------------------------------------------------------------------------------
(* The order apply() visits the sources in is an enumeration without        *)
(* repetitions.                                                             *)
LEMMA Enumeration ==
  ASSUME NEW S \in SUBSET Source
  PROVE  /\ Cardinality(S) \in Nat
         /\ InIdOrder(S) \in [1..Cardinality(S) -> S]
         /\ \A s \in S : \E i \in 1..Cardinality(S) : InIdOrder(S)[i] = s
         /\ \A i, j \in 1..Cardinality(S) :
              InIdOrder(S)[i] = InIdOrder(S)[j] => i = j
<1> DEFINE n == Cardinality(S)
           f == InIdOrder(S)
<1>1. IsFiniteSet(S)
  BY PoolBindingAssumption, FS_Subset
<1>2. n \in Nat /\ ExistsBijection(1..n, S)
  BY <1>1, FS_CardinalityType
<1>3. \E g \in [1..n -> S] : \A s \in S : \E i \in DOMAIN g : g[i] = s
  <2>1. PICK g \in Bijection(1..n, S) : TRUE
    BY <1>2 DEF ExistsBijection
  <2>2. g \in [1..n -> S] /\ \A s \in S : \E i \in 1..n : g[i] = s
    BY <2>1 DEF Bijection, Surjection
  <2>3. QED
    BY <2>2
<1>4. f \in [1..n -> S] /\ \A s \in S : \E i \in DOMAIN f : f[i] = s
  BY <1>3 DEF InIdOrder
<1> HIDE DEF f
<1>5. f \in Surjection(1..n, S)
  BY <1>4 DEF Surjection
<1>6. IsFiniteSet(1..n) /\ Cardinality(1..n) = Cardinality(S)
  BY <1>2, FS_Interval
<1>7. f \in Injection(1..n, S)
  BY <1>5, <1>6, FS_SurjSameCardinalityImpliesInj
<1>8. \A i, j \in 1..n : f[i] = f[j] => i = j
  BY <1>7 DEF Injection, IsInjective
<1>9. QED
  BY <1>2, <1>4, <1>8 DEF f

(* The relationships of the model are told apart by their tuples.           *)
LEMMA Relationships ==
  ASSUME NEW p, NEW s, NEW q, NEW t
  PROVE  /\ Reachable(p, s) = Reachable(q, t) <=> p = q /\ s = t
         /\ Reachable(p, s) # PoolProject(q)
         /\ Reachable(p, s) # SourceProject(t)
<1>1. Reachable(p, s) = Reachable(q, t) <=> p = q /\ s = t
  BY DEF Reachable
<1>2. Len(Reachable(p, s)) = 3 /\ Len(PoolProject(q)) = 2 /\ Len(SourceProject(t)) = 2
  BY DEF Reachable, PoolProject, SourceProject
<1>3. QED
  BY <1>1, <1>2

(* Binding any set of sources is a decision.                                *)
LEMMA BatchOfSet ==
  ASSUME NEW p \in Pool, NEW S \in SUBSET Source
  PROVE  BindAll(p, S) \in Batch
<1> DEFINE binds == {BindAll(r, T) : r \in Pool, T \in SUBSET Source}
           unbinds == {BindingRows(r, t, FALSE) : r \in Pool, t \in Source}
           b == BindAll(p, S)
<1>1. b \in binds
  OBVIOUS
<1>2. Batch = binds \union unbinds
  BY PoolBindingAssumption DEF BindingBatches
<1> HIDE DEF b, binds, unbinds
<1>3. QED
  BY <1>1, <1>2 DEF b

(* The rows a bind enqueues: the third of every three is about a pair.      *)
LEMMA EachBoundRow ==
  ASSUME NEW p \in Pool, NEW S \in SUBSET Source, NEW q, NEW s
  PROVE  /\ Len(BindAll(p, S)) = 3 * Cardinality(S)
         /\ \A i \in 1..(3 * Cardinality(S)) :
              /\ BindAll(p, S)[i].op = "touch"
              /\ BindAll(p, S)[i].rel = Reachable(q, s) <=>
                   /\ q = p /\ ((i - 1) % 3) + 1 = 3
                   /\ InIdOrder(S)[((i - 1) \div 3) + 1] = s
<1> DEFINE n == Cardinality(S)
           f == InIdOrder(S)
           b == BindAll(p, S)
           source(i) == f[((i - 1) \div 3) + 1]
<1>1. /\ n \in Nat /\ f \in [1..n -> S]
      /\ \A t \in S : \E i \in 1..n : f[i] = t
      /\ \A i, j \in 1..n : f[i] = f[j] => i = j
  BY Enumeration
<1>2. b \in Batch
  BY BatchOfSet
<1>3. DOMAIN b = 1..(3 * n)
  BY DEF BindAll
<1>4. Len(b) = 3 * n
  <2>1. b \in Seq(Update)
    BY <1>2, OutboxAssumption
  <2>2. Len(b) \in Nat /\ DOMAIN b = 1..Len(b)
    BY <2>1, LenProperties
  <2>3. QED
    BY <1>1, <1>3, <2>2
<1>5. ASSUME NEW i \in 1..(3 * n)
      PROVE  /\ ((i - 1) \div 3) + 1 \in 1..n
             /\ ((i - 1) % 3) + 1 \in {1, 2, 3}
             /\ ((i - 1) % 3) + 1 = 3 => i = 3 * (((i - 1) \div 3) + 1)
  BY <1>1
<1> HIDE DEF f
<1>6. ASSUME NEW x
      PROVE  /\ BindingRows(p, x, TRUE)[1] = Touch(PoolProject(p))
             /\ BindingRows(p, x, TRUE)[2] = Touch(SourceProject(x))
             /\ BindingRows(p, x, TRUE)[3] = Touch(Reachable(p, x))
  BY DEF BindingRows
<1>7. ASSUME NEW i \in 1..(3 * n)
      PROVE  b[i] = BindingRows(p, source(i), TRUE)[((i - 1) % 3) + 1]
  BY DEF BindAll, f
<1> HIDE DEF b
<1>8. ASSUME NEW i \in 1..(3 * n)
      PROVE  /\ b[i].op = "touch"
             /\ b[i].rel = Reachable(q, s) <=>
                 q = p /\ ((i - 1) % 3) + 1 = 3 /\ source(i) = s
  <2> DEFINE x == source(i)
             m == ((i - 1) % 3) + 1
  <2>1. b[i] = BindingRows(p, x, TRUE)[m] /\ m \in {1, 2, 3}
    BY <1>5, <1>7
  <2> HIDE DEF x, m
  <2>2. /\ m = 1 => b[i] = Touch(PoolProject(p))
        /\ m = 2 => b[i] = Touch(SourceProject(x))
        /\ m = 3 => b[i] = Touch(Reachable(p, x))
    BY <1>6, <2>1
  <2>3. /\ b[i].op = "touch"
        /\ b[i].rel = IF m = 3 THEN Reachable(p, x)
                      ELSE IF m = 1 THEN PoolProject(p) ELSE SourceProject(x)
    <3>1. CASE m = 1
      BY <2>2, <3>1 DEF Touch
    <3>2. CASE m = 2
      BY <2>2, <3>2 DEF Touch
    <3>3. CASE m = 3
      BY <2>2, <3>3 DEF Touch
    <3>4. QED
      BY <2>1, <3>1, <3>2, <3>3
  <2>4. b[i].rel = Reachable(q, s) <=> q = p /\ m = 3 /\ x = s
    <3>1. /\ Reachable(p, x) = Reachable(q, s) <=> q = p /\ x = s
          /\ Reachable(q, s) # PoolProject(p) /\ Reachable(q, s) # SourceProject(x)
      BY Relationships
    <3>2. QED
      BY <2>1, <2>3, <3>1
  <2>5. QED
    BY <2>3, <2>4 DEF x, m
<1>9. QED
  BY <1>4, <1>8 DEF b, f

(* A bind enqueues no row about a pair whose source row it did not insert.  *)
LEMMA OtherBoundRows ==
  ASSUME NEW p \in Pool, NEW S \in SUBSET Source, NEW q, NEW s, q # p \/ s \notin S
  PROVE  \A i \in 1..Len(BindAll(p, S)) : BindAll(p, S)[i].rel # Reachable(q, s)
<1> DEFINE n == Cardinality(S)
           f == InIdOrder(S)
<1>1. n \in Nat /\ f \in [1..n -> S]
  BY Enumeration
<1>2. \A i \in 1..(3 * n) : ((i - 1) \div 3) + 1 \in 1..n
  BY <1>1
<1> HIDE DEF f
<1>3. \A i \in 1..(3 * n) : f[((i - 1) \div 3) + 1] \in S
  BY <1>1, <1>2
<1>4. QED
  BY <1>3, EachBoundRow DEF f

(* A bind enqueues one touch for each source whose row it inserted.         *)
LEMMA BoundRow ==
  ASSUME NEW p \in Pool, NEW S \in SUBSET Source, NEW s \in S
  PROVE  \E k \in 1..Len(BindAll(p, S)) :
           /\ BindAll(p, S)[k].op = "touch"
           /\ \A i \in 1..Len(BindAll(p, S)) :
                BindAll(p, S)[i].rel = Reachable(p, s) <=> i = k
<1> DEFINE n == Cardinality(S)
           f == InIdOrder(S)
           b == BindAll(p, S)
<1>1. n \in Nat /\ f \in [1..n -> S] /\ \A i, j \in 1..n : f[i] = f[j] => i = j
  BY Enumeration
<1>2. PICK j \in 1..n : f[j] = s
  BY Enumeration
<1>3. \A i \in 1..(3 * n) : /\ ((i - 1) \div 3) + 1 \in 1..n
                            /\ ((i - 1) % 3) + 1 = 3 => i = 3 * (((i - 1) \div 3) + 1)
  BY <1>1
<1>4. /\ 3 * j \in 1..(3 * n)
      /\ ((3 * j - 1) % 3) + 1 = 3
      /\ ((3 * j - 1) \div 3) + 1 = j
  BY <1>1
<1>5. /\ Len(b) = 3 * n
      /\ \A i \in 1..(3 * n) :
           /\ b[i].op = "touch"
           /\ b[i].rel = Reachable(p, s) <=>
                ((i - 1) % 3) + 1 = 3 /\ f[((i - 1) \div 3) + 1] = s
  BY EachBoundRow
<1> HIDE DEF b, f
<1>6. b[3 * j].op = "touch" /\ b[3 * j].rel = Reachable(p, s)
  BY <1>2, <1>4, <1>5
<1>7. ASSUME NEW i \in 1..(3 * n), b[i].rel = Reachable(p, s)
      PROVE  i = 3 * j
  BY <1>1, <1>2, <1>3, <1>5, <1>7
<1>8. QED
  BY <1>4, <1>5, <1>6, <1>7 DEF b

(* An unbind enqueues one delete about the pair.                            *)
LEMMA UnboundRows ==
  ASSUME NEW p \in Pool, NEW s \in Source
  PROVE  /\ BindingRows(p, s, FALSE) \in Batch
         /\ Len(BindingRows(p, s, FALSE)) = 1
         /\ BindingRows(p, s, FALSE)[1] = Delete(Reachable(p, s))
<1> DEFINE binds == {BindAll(r, T) : r \in Pool, T \in SUBSET Source}
           unbind(r, t) == BindingRows(r, t, FALSE)
           unbinds == {unbind(r, t) : r \in Pool, t \in Source}
           b == BindingRows(p, s, FALSE)
<1>1. b \in unbinds
  <2>1. b = unbind(p, s)
    OBVIOUS
  <2> HIDE DEF b, unbind
  <2>2. QED
    BY <2>1
<1>2. Batch = binds \union unbinds
  BY PoolBindingAssumption DEF BindingBatches
<1>3. Len(b) = 1 /\ b[1] = Delete(Reachable(p, s))
  BY DEF BindingRows
<1> HIDE DEF b, binds, unbinds
<1>4. QED
  BY <1>1, <1>2, <1>3 DEF b

(* A single bind enqueues its two projects and a touch of the pair.         *)
LEMMA SingleBind ==
  ASSUME NEW p \in Pool, NEW s \in Source
  PROVE  BindingRows(p, s, TRUE) = BindAll(p, {s})
<1> DEFINE f == InIdOrder({s})
           b == BindingRows(p, s, TRUE)
<1>1. Cardinality({s}) = 1
  BY FS_Singleton
<1>2. f \in [1..1 -> {s}]
  BY <1>1, Enumeration
<1> HIDE DEF f
<1>4. f[1] = s
  BY <1>2
<1>5. BindAll(p, {s}) =
        [i \in 1..3 |-> BindingRows(p, f[((i - 1) \div 3) + 1], TRUE)[((i - 1) % 3) + 1]]
  BY <1>1 DEF BindAll, f
<1>6. ASSUME NEW i \in 1..3
      PROVE  BindingRows(p, f[((i - 1) \div 3) + 1], TRUE)[((i - 1) % 3) + 1] = b[i]
  <2>1. ((i - 1) \div 3) + 1 = 1 /\ ((i - 1) % 3) + 1 = i
    OBVIOUS
  <2>2. QED
    BY <1>4, <2>1
<1>7. BindAll(p, {s}) = [i \in 1..3 |-> b[i]]
  BY <1>5, <1>6
<1>8. b = [i \in 1..3 |-> b[i]]
  BY DEF BindingRows
<1>9. QED
  BY <1>7, <1>8

(* Inserting nothing enqueues nothing.                                     *)
LEMMA NoRows ==
  ASSUME NEW p \in Pool
  PROVE  << >> = BindAll(p, {})
<1>1. Cardinality({}) = 0
  BY FS_EmptySet
<1>2. DOMAIN BindAll(p, {}) = {}
  BY <1>1 DEF BindAll
<1>3. BindAll(p, {}) \in Seq(Update)
  BY BatchOfSet, OutboxAssumption
<1>4. Len(BindAll(p, {})) = 0
  BY <1>2, <1>3, LenProperties
<1>5. QED
  BY <1>3, <1>4, EmptySeq

-------------------------------------------------------------------------------
(* A request's place in the outbox stays one when rows are appended.        *)
LEMMA RequestsWiden ==
  ASSUME NEW n \in Nat, NEW k \in Nat, n <= k
  PROVE  RequestUpTo(n) \subseteq RequestUpTo(k)
<1>1. 0..n \subseteq 0..k /\ 1..n \subseteq 1..k
  OBVIOUS
<1>2. ASSUME NEW todo \in Seq(1..n)
      PROVE  todo \in Seq(1..k)
  <2>1. Len(todo) \in Nat /\ todo \in [1..Len(todo) -> 1..n]
    BY LenProperties
  <2>2. todo \in [1..Len(todo) -> 1..k]
    BY <1>1, <2>1
  <2>3. QED
    BY <2>1, <2>2, SeqDef
<1>3. QED
  BY <1>1, <1>2 DEF RequestUpTo

(* What every decision does: it commits its rows and one batch, and leaves  *)
(* the request to dispatch the batch.                                       *)
LEMMA Decided ==
  ASSUME PoolTypeOK, NEW r \in Request, Decide(r)
  PROVE  /\ req[r].pc = "idle"
         /\ tableBound' \subseteq Pool \X Table
         /\ sourceBound' \subseteq Pool \X Source
         /\ explicit' \subseteq Pool
         /\ \E via \in {"tables", "set"}, bound \in SUBSET (Pool \X Source),
               unbound \in SUBSET (Pool \X Source), batch \in Batch :
              Saved(r, via, bound, unbound, batch)
<1>1. ASSUME NEW p \in Pool
      PROVE  Backfilled(p) \subseteq Pool \X Table
  <2> DEFINE bound == {u \in Table : <<p, SourceOf[u]>> \in sourceBound}
             filled == {<<p, t>> : t \in bound}
  <2>1. filled \subseteq Pool \X Table
    <3>1. bound \subseteq Table
      OBVIOUS
    <3> HIDE DEF bound
    <3>2. QED
      BY <3>1
  <2>2. Backfilled(p) \subseteq tableBound \union filled
    BY DEF Backfilled
  <2> HIDE DEF filled
  <2>3. QED
    BY <2>1, <2>2 DEF PoolTypeOK
<1>2. ASSUME NEW p \in Pool, NEW T \in SUBSET Table \ {{}}, Add(r, p, T)
      PROVE  /\ tableBound' \subseteq Pool \X Table
             /\ sourceBound' \subseteq Pool \X Source
             /\ explicit' \subseteq Pool /\ req[r].pc = "idle"
             /\ \E bound \in SUBSET (Pool \X Source), batch \in Batch :
                  Saved(r, "tables", bound, {}, batch)
  <2> DEFINE sources == {SourceOf[t] : t \in T}
             inserted == {s \in sources : <<p, s>> \notin sourceBound}
             bound == {<<p, s>> : s \in sources}
  <2>1. sources \subseteq Source
    BY PoolBindingAssumption
  <2>2. inserted \in SUBSET Source /\ bound \in SUBSET (Pool \X Source)
    BY <2>1
  <2>3. BindAll(p, inserted) \in Batch
    BY <2>2, BatchOfSet
  <2>4. /\ tableBound' = Backfilled(p) \union {<<p, t>> : t \in T}
        /\ sourceBound' = sourceBound \union {<<p, s>> : s \in inserted}
        /\ explicit' = explicit \union {p} /\ req[r].pc = "idle"
        /\ Saved(r, "tables", bound, {}, BindAll(p, inserted))
    BY <1>2 DEF Add
  <2>5. /\ {<<p, s>> : s \in inserted} \subseteq Pool \X Source
        /\ {<<p, t>> : t \in T} \subseteq Pool \X Table
    <3>1. T \subseteq Table /\ inserted \subseteq Source
      BY <2>2
    <3> HIDE DEF inserted
    <3>2. QED
      BY <3>1
  <2> HIDE DEF sources, inserted, bound
  <2>6. QED
    BY <1>1, <2>2, <2>3, <2>4, <2>5 DEF PoolTypeOK
<1>3. ASSUME NEW p \in Pool, NEW t \in Table, Remove(r, p, t)
      PROVE  /\ tableBound' \subseteq Pool \X Table
             /\ sourceBound' \subseteq Pool \X Source
             /\ explicit' \subseteq Pool /\ req[r].pc = "idle"
             /\ \E unbound \in SUBSET (Pool \X Source), batch \in Batch :
                  Saved(r, "tables", {}, unbound, batch)
  <2> DEFINE s == SourceOf[t]
             left == Backfilled(p) \ {<<p, t>>}
             last == \A u \in OfSource(s) : <<p, u>> \notin left
             gone == IF last THEN {<<p, s>>} ELSE {}
             batch == IF last THEN BindingRows(p, s, FALSE) ELSE << >>
  <2>1. s \in Source
    BY PoolBindingAssumption
  <2>2. batch \in Batch
    BY <2>1, UnboundRows, NoRows, BatchOfSet
  <2>3. gone \in SUBSET (Pool \X Source)
    BY <2>1
  <2>4. /\ tableBound' = left /\ sourceBound' = sourceBound \ gone
        /\ explicit' = explicit \union {p} /\ req[r].pc = "idle"
        /\ Saved(r, "tables", {}, gone, batch)
    BY <1>3 DEF Remove
  <2>5. left \subseteq Pool \X Table
    BY <1>1
  <2> HIDE DEF left, gone, batch
  <2>6. QED
    BY <2>2, <2>3, <2>4, <2>5 DEF PoolTypeOK
<1>4. ASSUME NEW p \in Pool, NEW s \in Source, NEW bound \in BOOLEAN,
             SetBinding(r, p, s, bound)
      PROVE  /\ tableBound' \subseteq Pool \X Table
             /\ sourceBound' \subseteq Pool \X Source
             /\ explicit' \subseteq Pool /\ req[r].pc = "idle"
             /\ \E yes \in SUBSET (Pool \X Source), no \in SUBSET (Pool \X Source),
                  batch \in Batch : Saved(r, "set", yes, no, batch)
  <2>1. BindingRows(p, s, bound) \in Batch
    BY UnboundRows, SingleBind, BatchOfSet
  <2>2. {<<p, s>>} \in SUBSET (Pool \X Source)
    OBVIOUS
  <2>3. /\ sourceBound' = IF bound THEN sourceBound \union {<<p, s>>} ELSE sourceBound \ {<<p, s>>}
        /\ Saved(r, "set", IF bound THEN {<<p, s>>} ELSE {}, IF bound THEN {} ELSE {<<p, s>>},
                 BindingRows(p, s, bound))
        /\ UNCHANGED <<tableBound, explicit>> /\ req[r].pc = "idle"
    BY <1>4 DEF SetBinding
  <2>4. sourceBound' \subseteq Pool \X Source
    BY <2>2, <2>3 DEF PoolTypeOK
  <2>5. QED
    BY <2>1, <2>2, <2>3, <2>4 DEF PoolTypeOK
<1>5. QED
  BY <1>2, <1>3, <1>4 DEF Decide

(* Requests touch the outbox as its producers and dispatchers only.         *)
LEMMA OutboxStep ==
  ASSUME PoolTypeOK, [PoolNext]_poolVars
  PROVE  [Next]_vars
<1>1. ASSUME NEW r \in Request, Decide(r)
      PROVE  Next
  <2>1. PICK batch \in Batch : Enqueue(batch) /\ UNCHANGED <<graph, tx>>
    BY <1>1, Decided DEF Saved
  <2>2. QED
    BY <2>1 DEF Next
<1>2. ASSUME NEW r \in Request, ClaimRow(r)
      PROVE  Next
  <2>1. req[r].todo \in Seq(1..Len(outbox)) /\ req[r].todo # << >>
    BY <1>2 DEF ClaimRow, Dispatching, PoolTypeOK, RequestUpTo
  <2>2. Head(req[r].todo) \in 1..Len(outbox)
    BY <2>1, HeadTailProperties
  <2>3. Head(req[r].todo) \in DOMAIN outbox
    BY <2>2, LenProperties DEF PoolTypeOK, TypeOK
  <2>4. QED
    BY <1>2, <2>3 DEF ClaimRow, Next, Request
<1>3. ASSUME NEW r \in Request, Deliver(r) \/ Written(r) \/ Failed(r)
      PROVE  Next
  BY <1>3 DEF Deliver, Written, Failed, Next, DispatchStep, Request
<1>4. ASSUME NEW r \in Request, Skip(r) \/ Answer(r)
      PROVE  UNCHANGED vars
  BY <1>4 DEF Skip, Answer
<1>5. ASSUME NEW r \in Request, Crash(r)
      PROVE  [Next]_vars
  BY <1>5 DEF Crash, Next, DispatchStep, Request
<1>6. CASE UNCHANGED poolVars
  BY <1>6 DEF poolVars
<1>7. QED
  BY <1>1, <1>2, <1>3, <1>4, <1>5, <1>6 DEF PoolNext, Progress

(* A request's bookkeeping of a row that was, or was not, written.          *)
LEMMA RowDone ==
  ASSUME PoolTypeOK, NEW r \in Request, Len(outbox') = Len(outbox),
         \/ /\ req[r].todo # << >>
            /\ NotWritten(r) \/ req' = [req EXCEPT ![r].todo = Tail(@)]
         \/ \E reply \in {"ok", "unavailable"} : Answered(r, reply)
         \/ req' = [req EXCEPT ![r] = NoRequest]
  PROVE  /\ req' \in [Request -> RequestUpTo(Len(outbox'))]
         /\ \A x \in Request : x # r => req'[x] = req[x]
<1> DEFINE n == Len(outbox)
           q == req[r]
<1>1. n \in Nat /\ req \in [Request -> RequestUpTo(n)] /\ q \in RequestUpTo(n)
  BY LenProperties DEF PoolTypeOK, TypeOK
<1>2. << >> \in Seq(1..n) /\ (q.todo # << >> => Tail(q.todo) \in Seq(1..n))
  BY <1>1, EmptySeq, HeadTailProperties DEF RequestUpTo
<1>3. CASE q.todo # << >> /\ req' = [req EXCEPT ![r].todo = Tail(@)]
  <2>1. [q EXCEPT !.todo = Tail(@)] \in RequestUpTo(n)
    BY <1>1, <1>2, <1>3 DEF RequestUpTo
  <2>2. QED
    BY <1>1, <1>3, <2>1
<1>4. CASE \E reply \in {"ok", "unavailable"} : Answered(r, reply)
  <2>1. PICK reply \in {"ok", "unavailable"} :
          req' = [req EXCEPT ![r] = [q EXCEPT !.pc = "idle", !.todo = << >>, !.reply = reply]]
    BY <1>1, <1>4 DEF Answered
  <2>2. [q EXCEPT !.pc = "idle", !.todo = << >>, !.reply = reply] \in RequestUpTo(n)
    BY <1>1, <1>2, <2>1 DEF RequestUpTo
  <2>3. QED
    BY <1>1, <2>1, <2>2
<1>5. CASE q.todo # << >> /\ NotWritten(r)
  <2>1. CASE q.via = "set"
    <3>1. req' = [req EXCEPT ![r] = [q EXCEPT !.todo = Tail(@), !.written = FALSE]]
      BY <1>1, <1>5, <2>1 DEF NotWritten
    <3>2. [q EXCEPT !.todo = Tail(@), !.written = FALSE] \in RequestUpTo(n)
      BY <1>1, <1>2, <1>5 DEF RequestUpTo
    <3>3. QED
      BY <1>1, <3>1, <3>2
  <2>2. CASE q.via # "set"
    BY <1>4, <1>5, <2>2 DEF NotWritten
  <2>3. QED
    BY <2>1, <2>2
<1>6. CASE req' = [req EXCEPT ![r] = NoRequest]
  <2>1. NoRequest \in RequestUpTo(n)
    BY <1>1, <1>2 DEF RequestUpTo, NoRequest
  <2>2. QED
    BY <1>1, <1>6, <2>1
<1>7. QED
  BY <1>3, <1>4, <1>5, <1>6

(* Decisions and requests keep their types, and a dispatch stays the one of *)
(* the row its request has to deliver next.                                 *)
LEMMA RequestsPreserved ==
  ASSUME PoolTypeOK, DispatchesItsRow, [PoolNext]_poolVars
  PROVE  PoolTypeOK' /\ DispatchesItsRow'
<1> DEFINE n == Len(outbox)
<1>t. /\ n \in Nat
      /\ req \in [Request -> RequestUpTo(n)]
      /\ \A r \in Request : req[r].todo \in Seq(1..n)
      /\ \A r \in Request : tx[r].pc = "idle" \/ Dispatching(r)
  BY LenProperties DEF PoolTypeOK, TypeOK, DispatchesItsRow, RequestUpTo
<1>o. TypeOK'
  BY OutboxStep, TypesPreserved DEF PoolTypeOK
<1>1. ASSUME NEW r \in Request, Decide(r)
      PROVE  PoolTypeOK' /\ DispatchesItsRow'
  <2>1. PICK via \in {"tables", "set"}, bound \in SUBSET (Pool \X Source),
             unbound \in SUBSET (Pool \X Source), batch \in Batch :
          Saved(r, via, bound, unbound, batch)
    BY <1>1, Decided
  <2> DEFINE q == [pc |-> "dispatch", via |-> via, bound |-> bound, unbound |-> unbound,
                   upto |-> n + Len(batch),
                   todo |-> [i \in 1..Len(batch) |-> n + i],
                   written |-> TRUE, reply |-> "none"]
  <2>2. Enqueue(batch) /\ req' = [req EXCEPT ![r] = q] /\ tx' = tx
    BY <2>1 DEF Saved
  <2>3. Len(batch) \in Nat /\ Len(outbox') = n + Len(batch)
    BY <2>2, AppendedDecisions DEF PoolTypeOK
  <2>4. [i \in 1..Len(batch) |-> n + i] \in Seq(1..(n + Len(batch)))
    <3>1. [i \in 1..Len(batch) |-> n + i] \in [1..Len(batch) -> 1..(n + Len(batch))]
      BY <1>t, <2>3
    <3>2. QED
      BY <2>3, <3>1, SeqDef
  <2>5. n + Len(batch) \in 0..(n + Len(batch))
    BY <1>t, <2>3
  <2>6. q \in RequestUpTo(n + Len(batch))
    BY <2>4, <2>5 DEF RequestUpTo
  <2> HIDE DEF q
  <2>7. req' \in [Request -> RequestUpTo(Len(outbox'))]
    BY <1>t, <2>2, <2>3, <2>6, RequestsWiden
  <2>8. \A x \in Request : x # r => req'[x] = req[x]
    BY <1>t, <2>2
  <2>9. req[r].pc = "idle"
    BY <1>1, Decided
  <2>10. tx[r].pc = "idle"
    BY <1>t, <2>9 DEF Dispatching
  <2>11. DispatchesItsRow'
    BY <2>2, <2>8, <2>10 DEF DispatchesItsRow, Dispatching
  <2>12. QED
    BY <1>1, <1>o, <2>7, <2>11, Decided DEF PoolTypeOK
<1>2. ASSUME NEW r \in Request, ClaimRow(r)
      PROVE  PoolTypeOK' /\ DispatchesItsRow'
  <2>1. /\ Dispatching(r) /\ UNCHANGED <<outbox, rows, req>>
        /\ tx'[r].id = Head(req[r].todo)
        /\ \A x \in Request : x # r => tx'[x] = tx[x]
    BY <1>2 DEF ClaimRow, Claim, PoolTypeOK, TypeOK, Request
  <2>2. QED
    BY <1>o, <2>1 DEF PoolTypeOK, DispatchesItsRow, Dispatching, rows
<1>3. ASSUME NEW r \in Request, Deliver(r)
      PROVE  PoolTypeOK' /\ DispatchesItsRow'
  <2>1. /\ UNCHANGED <<outbox, rows, req>>
        /\ tx[r].pc # "idle"
        /\ \A x \in Request : tx'[x].id = tx[x].id /\ (x # r => tx'[x] = tx[x])
    BY <1>3 DEF Deliver, SpiceWrite, SpiceFail, DropSession, PoolTypeOK, TypeOK, Request
  <2>2. QED
    BY <1>o, <2>1 DEF PoolTypeOK, DispatchesItsRow, Dispatching, rows
<1>4. ASSUME NEW r \in Request, Written(r) \/ Failed(r)
      PROVE  PoolTypeOK' /\ DispatchesItsRow'
  <2>1. Dispatching(r)
    BY <1>t, <1>4 DEF Written, Failed, CommitWritten, CommitRefused, Rollback, AdriftWrite
  <2>2. UNCHANGED rows /\ Len(outbox') = n /\ tx'[r].pc = "idle"
        /\ \A x \in Request : x # r => tx'[x] = tx[x]
    <3>1. CASE CommitWritten(r)
      BY <1>4, <3>1, MarkedRow DEF Written, Failed, CommitWritten, Idle, PoolTypeOK, TypeOK, Request
    <3>2. CASE CommitRefused(r) \/ Rollback(r) \/ AdriftWrite(r)
      BY <1>4, <3>2
      DEF Written, Failed, CommitRefused, Rollback, AdriftWrite, Idle, PoolTypeOK, TypeOK, Request
    <3>3. QED
      BY <1>4, <3>1, <3>2 DEF Written, Failed
  <2>3. NotWritten(r) \/ req' = [req EXCEPT ![r].todo = Tail(@)]
    BY <1>4 DEF Written, Failed
  <2>4. /\ req' \in [Request -> RequestUpTo(Len(outbox'))]
        /\ \A x \in Request : x # r => req'[x] = req[x]
    BY <2>1, <2>2, <2>3, RowDone DEF Dispatching
  <2>5. QED
    BY <1>o, <2>2, <2>4 DEF PoolTypeOK, DispatchesItsRow, Dispatching, rows
<1>5. ASSUME NEW r \in Request, Skip(r) \/ Answer(r)
      PROVE  PoolTypeOK' /\ DispatchesItsRow'
  <2>1. UNCHANGED <<vars, rows>> /\ tx[r].pc = "idle"
    BY <1>t, <1>5 DEF Skip, Answer, Dispatching
  <2>2. \/ req[r].todo # << >> /\ NotWritten(r)
        \/ \E reply \in {"ok", "unavailable"} : Answered(r, reply)
    BY <1>5 DEF Skip, Answer, Dispatching
  <2>3. /\ req' \in [Request -> RequestUpTo(Len(outbox'))]
        /\ \A x \in Request : x # r => req'[x] = req[x]
    BY <2>1, <2>2, RowDone DEF vars
  <2>4. QED
    BY <1>o, <2>1, <2>3 DEF PoolTypeOK, DispatchesItsRow, Dispatching, rows, vars
<1>6. ASSUME NEW r \in Request, Crash(r)
      PROVE  PoolTypeOK' /\ DispatchesItsRow'
  <2>1. /\ UNCHANGED <<outbox, rows>> /\ tx'[r].pc = "idle"
        /\ \A x \in Request : x # r => tx'[x] = tx[x]
        /\ req' = [req EXCEPT ![r] = NoRequest]
    BY <1>6 DEF Crash, Rollback, Idle, vars, PoolTypeOK, TypeOK, Request
  <2>2. /\ req' \in [Request -> RequestUpTo(Len(outbox'))]
        /\ \A x \in Request : x # r => req'[x] = req[x]
    BY <2>1, RowDone
  <2>3. QED
    BY <1>o, <2>1, <2>2 DEF PoolTypeOK, DispatchesItsRow, Dispatching, rows
<1>7. CASE UNCHANGED poolVars
  BY <1>7 DEF poolVars, vars, rows, PoolTypeOK, TypeOK, DispatchesItsRow, Dispatching
<1>8. QED
  BY <1>1, <1>2, <1>3, <1>4, <1>5, <1>6, <1>7 DEF PoolNext, Progress

(* Type correctness, for any pools, tables, sources and requests.           *)
THEOREM PoolTyping == PoolSpec => [](PoolTypeOK /\ DispatchesItsRow)
<1>1. PoolInit => PoolTypeOK /\ DispatchesItsRow
  <2> SUFFICES ASSUME PoolInit PROVE PoolTypeOK /\ DispatchesItsRow
    OBVIOUS
  <2>1. Init /\ Len(outbox) = 0 /\ req = [r \in Request |-> NoRequest]
    BY DEF PoolInit, Init
  <2>2. TypeOK
    BY <2>1, InitialTypes
  <2>3. NoRequest \in RequestUpTo(0)
    BY EmptySeq DEF NoRequest, RequestUpTo
  <2>4. QED
    BY <2>1, <2>2, <2>3 DEF PoolInit, PoolTypeOK, DispatchesItsRow, Init, Idle, Request
<1>2. PoolTypeOK /\ DispatchesItsRow /\ [PoolNext]_poolVars
        => (PoolTypeOK /\ DispatchesItsRow)'
  BY RequestsPreserved
<1>3. QED
  BY <1>1, <1>2, PTL DEF PoolSpec

(* The services use the outbox as it is specified: every step of a request  *)
(* is a step of RelationshipOutbox or leaves it alone.                      *)
THEOREM OutboxRefinement == PoolSpec => ImplementsOutbox
<1>1. PoolInit => Init
  BY DEF PoolInit
<1>2. PoolTypeOK /\ [PoolNext]_poolVars => [Next]_vars
  BY OutboxStep
<1>3. QED
  BY <1>1, <1>2, PoolTyping, PTL DEF PoolSpec, ImplementsOutbox, Spec

-------------------------------------------------------------------------------
(* The newest row of every pair is the committed decision about it: kept by *)
(* each decision, and untouched by all that is done to deliver it.          *)
LEMMA NewestPreserved ==
  ASSUME PoolTypeOK, NewestIsDecided, [PoolNext]_poolVars
  PROVE  NewestIsDecided'
<1>t. TypeOK
  BY DEF PoolTypeOK
<1>1. ASSUME NEW r \in Request, NEW p \in Pool, NEW S \in SUBSET Source,
             Enqueue(BindAll(p, S)),
             sourceBound' = sourceBound \union {<<p, s>> : s \in S}
      PROVE  NewestIsDecided'
  <2>1. ASSUME NEW q \in Pool, NEW s \in Source
        PROVE  Touched(q, s)' <=> <<q, s>> \in sourceBound'
    <3>1. <<q, s>> \in sourceBound' <=> <<q, s>> \in sourceBound \/ (q = p /\ s \in S)
      BY <1>1
    <3>2. CASE q = p /\ s \in S
      <4>1. PICK k \in 1..Len(BindAll(p, S)) :
              /\ BindAll(p, S)[k].op = "touch"
              /\ \A i \in 1..Len(BindAll(p, S)) :
                   BindAll(p, S)[i].rel = Reachable(q, s) <=> i = k
        BY <3>2, BoundRow
      <4>2. Touched(q, s)'
        BY <1>t, <1>1, <4>1, BatchOfSet, AppendedPair
      <4>3. QED
        BY <3>1, <3>2, <4>2
    <3>3. CASE q # p \/ s \notin S
      <4>1. \A i \in 1..Len(BindAll(p, S)) : BindAll(p, S)[i].rel # Reachable(q, s)
        BY <3>3, OtherBoundRows
      <4>2. Touched(q, s)' <=> Touched(q, s)
        BY <1>t, <1>1, <4>1, BatchOfSet, AppendedPair
      <4>3. QED
        BY <3>1, <3>3, <4>2 DEF NewestIsDecided
    <3>4. QED
      BY <3>2, <3>3
  <2>2. QED
    BY <2>1 DEF NewestIsDecided
<1>2. ASSUME NEW p \in Pool, NEW t \in Source, Enqueue(BindingRows(p, t, FALSE)),
             sourceBound' = sourceBound \ {<<p, t>>}
      PROVE  NewestIsDecided'
  <2> DEFINE b == BindingRows(p, t, FALSE)
  <2>1. b \in Batch /\ Len(b) = 1 /\ b[1] = Delete(Reachable(p, t))
    BY UnboundRows
  <2> HIDE DEF b
  <2>2. b[1].op = "delete" /\ b[1].rel = Reachable(p, t)
    BY <2>1 DEF Delete
  <2>3. ASSUME NEW q \in Pool, NEW s \in Source
        PROVE  Touched(q, s)' <=> <<q, s>> \in sourceBound'
    <3>0. Enqueue(b)
      BY <1>2 DEF b
    <3>1. CASE q = p /\ s = t
      <4>1. 1 \in 1..Len(b) /\ \A i \in 1..Len(b) : b[i].rel = Reachable(q, s) <=> i = 1
        BY <2>1, <2>2, <3>1
      <4>2. ~Touched(q, s)'
        BY <1>t, <2>1, <2>2, <3>0, <4>1, AppendedPair
      <4>3. QED
        BY <1>2, <3>1, <4>2
    <3>2. CASE q # p \/ s # t
      <4>1. \A i \in 1..Len(b) : b[i].rel # Reachable(q, s)
        BY <2>1, <2>2, <3>2, Relationships
      <4>2. Touched(q, s)' <=> Touched(q, s)
        BY <1>t, <2>1, <3>0, <4>1, AppendedPair
      <4>3. QED
        BY <1>2, <3>2, <4>2 DEF NewestIsDecided
    <3>3. QED
      BY <3>1, <3>2
  <2>4. QED
    BY <2>3 DEF NewestIsDecided
<1>3. ASSUME DOMAIN outbox' = DOMAIN outbox, sourceBound' = sourceBound,
             \A i \in DOMAIN outbox : /\ outbox'[i].op = outbox[i].op
                                      /\ outbox'[i].rel = outbox[i].rel
      PROVE  NewestIsDecided'
  BY <1>3, SameDecisions DEF NewestIsDecided
<1>4. ASSUME NEW r \in Request, NEW p \in Pool, NEW T \in SUBSET Table \ {{}}, Add(r, p, T)
      PROVE  NewestIsDecided'
  <2> DEFINE inserted == {s \in {SourceOf[t] : t \in T} : <<p, s>> \notin sourceBound}
  <2>1. inserted \in SUBSET Source
    BY PoolBindingAssumption
  <2>2. /\ Enqueue(BindAll(p, inserted))
        /\ sourceBound' = sourceBound \union {<<p, s>> : s \in inserted}
    BY <1>4 DEF Add, Saved
  <2> HIDE DEF inserted
  <2>3. QED
    BY <1>1, <1>4, <2>1, <2>2
<1>5. ASSUME NEW r \in Request, NEW p \in Pool, NEW t \in Table, Remove(r, p, t)
      PROVE  NewestIsDecided'
  <2> DEFINE s == SourceOf[t]
             last == \A u \in OfSource(s) : <<p, u>> \notin Backfilled(p) \ {<<p, t>>}
  <2>1. s \in Source
    BY PoolBindingAssumption
  <2>2. /\ Enqueue(IF last THEN BindingRows(p, s, FALSE) ELSE << >>)
        /\ sourceBound' = sourceBound \ (IF last THEN {<<p, s>>} ELSE {})
    BY <1>5 DEF Remove, Saved
  <2>3. CASE last
    BY <1>2, <2>1, <2>2, <2>3
  <2>4. CASE ~last
    <3>1. Enqueue(BindAll(p, {})) /\ sourceBound' = sourceBound \union {<<p, x>> : x \in {}}
      BY <2>2, <2>4, NoRows
    <3>2. QED
      BY <1>1, <1>5, <3>1
  <2>5. QED
    BY <2>3, <2>4
<1>6. ASSUME NEW r \in Request, NEW p \in Pool, NEW s \in Source, NEW bound \in BOOLEAN,
             SetBinding(r, p, s, bound)
      PROVE  NewestIsDecided'
  <2>1. CASE bound
    <3>1. Enqueue(BindAll(p, {s})) /\ sourceBound' = sourceBound \union {<<p, x>> : x \in {s}}
      BY <1>6, <2>1, SingleBind DEF SetBinding, Saved
    <3>2. QED
      BY <1>1, <1>6, <3>1
  <2>2. CASE ~bound
    <3>1. Enqueue(BindingRows(p, s, FALSE)) /\ sourceBound' = sourceBound \ {<<p, s>>}
      BY <1>6, <2>2 DEF SetBinding, Saved
    <3>2. QED
      BY <1>2, <3>1
  <2>3. QED
    BY <2>1, <2>2
<1>7. ASSUME NEW r \in Request, Progress(r) \/ Crash(r)
      PROVE  NewestIsDecided'
  <2>1. sourceBound' = sourceBound
    BY <1>7 DEF Progress, Crash, ClaimRow, Skip, Deliver, Written, Failed, Answer, rows
  <2>2. CASE CommitWritten(r)
    <3>1. DOMAIN outbox' = DOMAIN outbox
      BY <1>t, <2>2, MarkedRow, LenProperties DEF TypeOK, Request
    <3>2. \A i \in DOMAIN outbox : outbox'[i].op = outbox[i].op /\ outbox'[i].rel = outbox[i].rel
      BY <1>t, <2>2, MarkedRow, LenProperties DEF TypeOK, Request
    <3>3. QED
      BY <1>3, <2>1, <3>1, <3>2
  <2>3. CASE outbox' = outbox
    BY <1>3, <2>1, <2>3
  <2>4. outbox' = outbox \/ CommitWritten(r)
    BY <1>7 DEF Progress, Crash, ClaimRow, Skip, Deliver, Written, Failed, Answer, vars,
                Claim, SpiceWrite, SpiceFail, DropSession, CommitRefused, Rollback, AdriftWrite
  <2>5. QED
    BY <2>2, <2>3, <2>4
<1>8. CASE UNCHANGED poolVars
  BY <1>3, <1>8 DEF poolVars, vars, rows
<1>9. QED
  BY <1>4, <1>5, <1>6, <1>7, <1>8 DEF PoolNext, Decide

(* Where every row of a pair is delivered, NoResurrection makes SpiceDB     *)
(* hold the newest of them.                                                 *)
LEMMA SettledFollows ==
  ASSUME PoolTypeOK, NewestIsDecided, NoResurrection
  PROVE  SettledPairsAgree
<1>1. ASSUME NEW p \in Pool, NEW s \in Source, \A i \in RowsOf(p, s) : outbox[i].written
      PROVE  Reachable(p, s) \in graph <=> Touched(p, s)
  <2> DEFINE r == Reachable(p, s)
  <2>1. r \in BoundPool
    BY PoolBindingAssumption DEF Bindings
  <2>2. PICK i \in 0..Len(outbox) :
          (LastWritten(r, i) \/ FirstPending(r, i)) /\ Reflects(r, i)
    BY <2>1 DEF NoResurrection
  <2>3. ~FirstPending(r, i)
    BY <1>1 DEF FirstPending, RowsOf
  <2>4. DOMAIN outbox = 1..Len(outbox)
    BY LenProperties DEF PoolTypeOK, TypeOK
  <2>5. CASE i = 0
    <3>1. RowsOf(p, s) = {}
      BY <1>1, <2>2, <2>3, <2>4, <2>5 DEF LastWritten, RowsOf
    <3>2. QED
      BY <2>2, <2>5, <3>1 DEF Touched, Newest, Reflects
  <2>6. CASE i # 0
    <3>1. Newest(p, s) = {i}
      BY <1>1, <2>2, <2>3, <2>4, <2>6 DEF LastWritten, RowsOf, Newest
    <3>2. QED
      BY <2>2, <2>6, <3>1 DEF Touched, Reflects
  <2>7. QED
    BY <2>5, <2>6
<1>2. QED
  BY <1>1 DEF SettledPairsAgree, NewestIsDecided

(* The last committed decision about a pair is what SpiceDB holds once its  *)
(* rows are delivered, whatever requests race, fail or die.                 *)
THEOREM SettledAgreement ==
  ASSUME ~SessionsMayDrop PROVE PoolSpec => []SettledPairsAgree
<1>1. PoolInit => NewestIsDecided
  BY DEF PoolInit, Init, NewestIsDecided, Touched, Newest, RowsOf
<1>2. PoolTypeOK /\ NewestIsDecided /\ [PoolNext]_poolVars => NewestIsDecided'
  BY NewestPreserved
<1>3. PoolTypeOK /\ NewestIsDecided /\ NoResurrection => SettledPairsAgree
  BY SettledFollows
<1>4. Spec => []NoResurrection
  BY Ordering
<1>5. PoolSpec => Spec
  BY OutboxRefinement DEF ImplementsOutbox
<1>6. QED
  BY <1>1, <1>2, <1>3, <1>4, <1>5, PoolTyping, PTL DEF PoolSpec
===============================================================================
