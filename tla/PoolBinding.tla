----------------------------- MODULE PoolBinding -----------------------------
(***************************************************************************)
(* Binding tables and sources to a pool: PostgresPoolTables.add / remove   *)
(* (src/modules/pools/infrastructure/tables.ts) and PoolBindingService.set *)
(* (src/modules/pools/application/binding.ts), each a tenant transaction   *)
(* that changes the binding rows and enqueues relationship rows, followed  *)
(* by the dispatch of exactly the rows it enqueued.  Extends               *)
(* RelationshipOutbox: a request is the dispatcher of its own rows, and    *)
(* the batches are the decisions requests can make.                        *)
(*                                                                         *)
(* Requests that are refused before any change (a missing pool, an         *)
(* archived source, a rule that does not compile) are stuttering steps.    *)
(* Row rules, copied treatments and audit entries are left out.            *)
(***************************************************************************)
EXTENDS RelationshipOutbox, FiniteSets

CONSTANTS
  Pool, Source, Table,
  SourceOf          \* the data source of each table

\* An instance of SourceOf: all tables are of the one source.
OneSource == [t \in Table |-> CHOOSE s \in Source : TRUE]

VARIABLES
  tableBound,       \* pool_table_binding
  sourceBound,      \* pool_source_binding
  explicit,         \* the pools with tables_explicit
  req               \* req[r]: the request r is serving, or its last answer

rows == <<tableBound, sourceBound, explicit>>
poolVars == <<vars, rows, req>>

Request == Dispatcher

PoolProject(p) == <<"pool", p>>
SourceProject(s) == <<"datasource", s>>
Reachable(p, s) == <<"bound_pool", s, p>>

Bindings == {Reachable(p, s) : p \in Pool, s \in Source}
Relations ==
  Bindings \union {PoolProject(p) : p \in Pool} \union {SourceProject(s) : s \in Source}

Touch(r) == [op |-> "touch", rel |-> r]
Delete(r) == [op |-> "delete", rel |-> r]

(* public.enqueue_pool_binding *)
BindingRows(p, s, bound) ==
  IF bound
  THEN <<Touch(PoolProject(p)), Touch(SourceProject(s)), Touch(Reachable(p, s))>>
  ELSE <<Delete(Reachable(p, s))>>

(* apply() visits the sources in id order; any fixed order will do here. *)
InIdOrder(S) ==
  CHOOSE f \in [1..Cardinality(S) -> S] : \A s \in S : \E i \in DOMAIN f : f[i] = s

BindAll(p, S) ==
  [i \in 1..(3 * Cardinality(S)) |->
     BindingRows(p, InIdOrder(S)[((i - 1) \div 3) + 1], TRUE)[((i - 1) % 3) + 1]]

BindingBatches ==
  {BindAll(p, S) : p \in Pool, S \in SUBSET Source}
    \union {BindingRows(p, s, FALSE) : p \in Pool, s \in Source}

\* The outbox carries the decisions of this module.
ASSUME PoolBindingAssumption ==
  /\ SourceOf \in [Table -> Source] /\ IsFiniteSet(Source)
  /\ Relation = Relations /\ BoundPool = Bindings
  /\ Batch = BindingBatches

NoRequest ==
  [pc |-> "idle", via |-> "none", bound |-> {}, unbound |-> {}, upto |-> 0,
   todo |-> << >>, written |-> TRUE, reply |-> "none"]

-------------------------------------------------------------------------------
PoolInit ==
  /\ Init
  /\ tableBound = {} /\ sourceBound = {} /\ explicit = {}
  /\ req = [r \in Request |-> NoRequest]

OfSource(s) == {t \in Table : SourceOf[t] = s}

(* The first explicit table decision about a pool turns its source bindings *)
(* into table bindings.                                                     *)
Backfilled(p) ==
  IF p \in explicit THEN tableBound
  ELSE tableBound \union {<<p, t>> : t \in {u \in Table : <<p, SourceOf[u]>> \in sourceBound}}

\* Mutant of Saved: the request is given the ids after its own.
SavedShifted(r, via, bound, unbound, batch) ==
  /\ Enqueue(batch)
  /\ req' = [req EXCEPT ![r] =
              [pc |-> "dispatch", via |-> via, bound |-> bound, unbound |-> unbound,
               upto |-> Len(outbox) + Len(batch),
               todo |-> [i \in 1..Len(batch) |-> Len(outbox) + i + 1],
               written |-> TRUE, reply |-> "none"]]
  /\ UNCHANGED <<graph, tx>>

(* The transaction commits and the request turns to dispatching its rows. *)
Saved(r, via, bound, unbound, batch) ==
  /\ Enqueue(batch)
  /\ req' = [req EXCEPT ![r] =
              [pc |-> "dispatch", via |-> via, bound |-> bound, unbound |-> unbound,
               upto |-> Len(outbox) + Len(batch),
               todo |-> [i \in 1..Len(batch) |-> Len(outbox) + i],
               written |-> TRUE, reply |-> "none"]]
  /\ UNCHANGED <<graph, tx>>

(* add: prepare locks the sources and the pool, apply inserts what is       *)
(* missing and enqueues only for the source rows it inserted.               *)
Add(r, p, T) ==
  LET sources == {SourceOf[t] : t \in T}
      inserted == {s \in sources : <<p, s>> \notin sourceBound}
  IN  /\ req[r].pc = "idle"
      /\ tableBound' = Backfilled(p) \union {<<p, t>> : t \in T}
      /\ sourceBound' = sourceBound \union {<<p, s>> : s \in inserted}
      /\ explicit' = explicit \union {p}
      /\ Saved(r, "tables", {<<p, s>> : s \in sources}, {}, BindAll(p, inserted))

\* Mutant of Remove: the source row goes, its relationship stays.
RemoveWithoutRevocation(r, p, t) ==
  LET s == SourceOf[t]
      left == Backfilled(p) \ {<<p, t>>}
      gone == {x \in {<<p, s>>} : \A u \in OfSource(s) : <<p, u>> \notin left}
  IN  /\ req[r].pc = "idle"
      /\ tableBound' = left
      /\ sourceBound' = sourceBound \ gone
      /\ explicit' = explicit \union {p}
      /\ Saved(r, "tables", {}, gone, << >>)

(* remove: the source row goes with the last of its tables. *)
Remove(r, p, t) ==
  LET s == SourceOf[t]
      left == Backfilled(p) \ {<<p, t>>}
      last == \A u \in OfSource(s) : <<p, u>> \notin left
      gone == IF last THEN {<<p, s>>} ELSE {}
  IN  /\ req[r].pc = "idle"
      /\ tableBound' = left
      /\ sourceBound' = sourceBound \ gone
      /\ explicit' = explicit \union {p}
      /\ Saved(r, "tables", {}, gone, IF last THEN BindingRows(p, s, FALSE) ELSE << >>)

(* PoolBindingService.set: the source row alone, always enqueueing. *)
SetBinding(r, p, s, bound) ==
  LET pair == {<<p, s>>}
  IN  /\ req[r].pc = "idle"
      /\ sourceBound' = IF bound THEN sourceBound \union pair ELSE sourceBound \ pair
      /\ Saved(r, "set", IF bound THEN pair ELSE {}, IF bound THEN {} ELSE pair,
               BindingRows(p, s, bound))
      /\ UNCHANGED <<tableBound, explicit>>

-------------------------------------------------------------------------------
Answered(r, reply) ==
  req' = [req EXCEPT ![r].pc = "idle", ![r].todo = << >>, ![r].reply = reply]

\* Mutant of NotWritten: the failure is forgotten.
NotWrittenForgotten(r) == req' = [req EXCEPT ![r].todo = Tail(@)]

(* A row was not written: table requests throw, set goes on to the next. *)
NotWritten(r) ==
  IF req[r].via = "set"
  THEN req' = [req EXCEPT ![r].todo = Tail(@), ![r].written = FALSE]
  ELSE Answered(r, "unavailable")

Dispatching(r) == req[r].pc = "dispatch" /\ req[r].todo # << >>

ClaimRow(r) ==
  /\ Dispatching(r)
  /\ Claim(r, Head(req[r].todo))
  /\ UNCHANGED <<rows, req>>

(* dispatchOne returns null, nothing is delivered. *)
Skip(r) ==
  /\ Dispatching(r)
  /\ tx[r].pc = "idle"
  /\ ReturnsNull(Head(req[r].todo))
  /\ NotWritten(r)
  /\ UNCHANGED <<vars, rows>>

\* Mutant of Deliver: the row is written to SpiceDB without a claim.
DeliverUnclaimed(r) ==
  /\ Dispatching(r)
  /\ graph' = TakesEffect(graph, outbox[Head(req[r].todo)])
  /\ UNCHANGED <<outbox, tx, rows, req>>

Deliver(r) ==
  /\ \/ SpiceWrite(r)
     \/ SpiceFail(r)
     \/ DropSession(r)
  /\ UNCHANGED <<rows, req>>

Written(r) ==
  /\ CommitWritten(r)
  /\ req' = [req EXCEPT ![r].todo = Tail(@)]
  /\ UNCHANGED rows

(* SpiceDB refused the write, the COMMIT failed, or the session was lost. *)
Failed(r) ==
  /\ \/ CommitRefused(r)
     \/ tx[r].pc = "written" /\ Rollback(r)
     \/ AdriftWrite(r)
  /\ NotWritten(r)
  /\ UNCHANGED rows

\* Mutant of Answer: the request waits for its pair to be settled by others.
AnswerWhenSettled(r) ==
  /\ req[r].pc = "dispatch"
  /\ req[r].todo = << >>
  /\ \A i \in DOMAIN outbox : outbox[i].written
  /\ Answered(r, IF req[r].written THEN "ok" ELSE "unavailable")
  /\ UNCHANGED <<vars, rows>>

Answer(r) ==
  /\ req[r].pc = "dispatch"
  /\ req[r].todo = << >>
  /\ Answered(r, IF req[r].written THEN "ok" ELSE "unavailable")
  /\ UNCHANGED <<vars, rows>>

(* The gateway dies: the request is never answered, its transaction is      *)
(* rolled back and nothing takes its rows over.                             *)
Crash(r) ==
  /\ req[r].pc = "dispatch"
  /\ \/ Rollback(r)
     \/ tx[r].pc = "idle" /\ UNCHANGED vars
  /\ req' = [req EXCEPT ![r] = NoRequest]
  /\ UNCHANGED rows

Decide(r) ==
  \/ \E p \in Pool, T \in SUBSET Table \ {{}} : Add(r, p, T)
  \/ \E p \in Pool, t \in Table : Remove(r, p, t)
  \/ \E p \in Pool, s \in Source, bound \in BOOLEAN : SetBinding(r, p, s, bound)

Progress(r) ==
  ClaimRow(r) \/ Skip(r) \/ Deliver(r) \/ Written(r) \/ Failed(r) \/ Answer(r)

PoolNext == \E r \in Request : Decide(r) \/ Progress(r) \/ Crash(r)

PoolSpec == PoolInit /\ [][PoolNext]_poolVars

(* Node runs every request to its answer: each await is settled by          *)
(* PostgreSQL or SpiceDB, with a result or an error.                        *)
FairSpec == PoolSpec /\ \A r \in Request : WF_poolVars(Progress(r))

-------------------------------------------------------------------------------
RequestUpTo(n) ==
  [pc : {"idle", "dispatch"}, via : {"none", "tables", "set"},
   bound : SUBSET (Pool \X Source), unbound : SUBSET (Pool \X Source),
   upto : 0..n, todo : Seq(1..n), written : BOOLEAN,
   reply : {"none", "ok", "unavailable"}]

PoolTypeOK ==
  /\ TypeOK
  /\ tableBound \subseteq Pool \X Table
  /\ sourceBound \subseteq Pool \X Source
  /\ explicit \subseteq Pool
  /\ req \in [Request -> RequestUpTo(Len(outbox))]

(* An open dispatch is for the row its request has to deliver next.        *)
DispatchesItsRow ==
  \A r \in Request :
    tx[r].pc # "idle" => Dispatching(r) /\ tx[r].id = Head(req[r].todo)

RowsOf(p, s) == {i \in DOMAIN outbox : outbox[i].rel = Reachable(p, s)}

Newest(p, s) == {i \in RowsOf(p, s) : \A j \in RowsOf(p, s) : j <= i}

Touched(p, s) == \E i \in Newest(p, s) : outbox[i].op = "touch"

NewestIsDecided ==
  \A p \in Pool, s \in Source : Touched(p, s) <=> <<p, s>> \in sourceBound

(* The newest relationship row of a pair is the decision in                *)
(* pool_source_binding, and once every row of the pair is delivered SpiceDB *)
(* agrees with both: whatever adds, removes and sets raced, failed or died, *)
(* the grant that results is the last committed decision.                   *)
SettledPairsAgree ==
  /\ NewestIsDecided
  /\ \A p \in Pool, s \in Source :
       (\A i \in RowsOf(p, s) : outbox[i].written) =>
         (Reachable(p, s) \in graph <=> <<p, s>> \in sourceBound)

(* Requests reach the outbox only as producers and as dispatchers of rows  *)
(* they enqueued: every step is a step of RelationshipOutbox.               *)
ImplementsOutbox == Spec

Undisturbed(r, pair) == \A i \in RowsOf(pair[1], pair[2]) : i <= req[r].upto

AnswersOk(r) == Answer(r) /\ req'[r].reply = "ok"

(* A request that unbound a source and answers ok has made it unreachable, *)
(* unless the pair was decided again meanwhile (tables.ts remove, set).     *)
UnbindAnsweredMeansGone ==
  [][\A r \in Request : AnswersOk(r) =>
       \A pair \in req[r].unbound :
         Undisturbed(r, pair) => Reachable(pair[1], pair[2]) \notin graph]_poolVars

(* A request that bound a table and answers ok has made its source          *)
(* reachable, unless the pair was decided again meanwhile.                  *)
BindAnsweredMeansReachable ==
  [][\A r \in Request : AnswersOk(r) =>
       \A pair \in req[r].bound :
         Undisturbed(r, pair) => Reachable(pair[1], pair[2]) \in graph]_poolVars

(* A retry gives way to an earlier pending row only while the request that  *)
(* enqueued that row is still at work: repeating a request that failed is    *)
(* the way to deliver what it left pending.                                 *)
RetryIsServed ==
  [][\A r \in Request :
       Skip(r) => \E q \in Request \ {r} : req[q].pc = "dispatch"]_poolVars

(* Every request is eventually answered, or its gateway died.               *)
EveryRequestEnds == \A r \in Request : req[r].pc = "dispatch" ~> req[r].pc = "idle"
==============================================================================
