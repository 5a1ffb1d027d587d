---------------------------- MODULE ExecutionQueue ----------------------------
(***************************************************************************)
(* Admission of executions and previews to one pool of the engine,         *)
(* sidecar/execution/application/queue.ts: `active' executions, a queue    *)
(* bounded by maxQueuedExecutions, and a wait bounded by a third of the    *)
(* request's own timeout.                                                  *)
(*                                                                         *)
(* Every request brings the pool's concurrency with it, as the gateway     *)
(* read it when the request was planned: `allowed'.  A request is overdue  *)
(* once it has waited its bound; the timer that refuses it may run later   *)
(* than a release, which therefore looks at the clock again.  Pools do not *)
(* share anything, so one is enough.                                       *)
(***************************************************************************)
EXTENDS Naturals, FiniteSets, FiniteSetsExt, SequencesExt

CONSTANTS
  Request,
  Concurrency,  \* the values the pool's concurrency may be given
  MaxQueued     \* maxQueuedExecutions

ASSUME QueueAssumption ==
  /\ IsFiniteSet(Request)
  /\ Concurrency \subseteq Nat \ {0} /\ Concurrency # {}
  /\ MaxQueued \in Nat \ {0}

VARIABLES
  setting,   \* the concurrency the gateway sends now
  allowed,   \* request -> the concurrency it was sent with, 0 before it came
  phase,     \* request -> "planned", "waiting", "running", "ended", "refused"
  active,    \* state.active
  waiting,   \* state.waiting
  overdue    \* requests that have waited their bound

vars == <<setting, allowed, phase, active, waiting, overdue>>

Init ==
  /\ setting \in Concurrency
  /\ allowed = [r \in Request |-> 0]
  /\ phase = [r \in Request |-> "planned"]
  /\ active = 0 /\ waiting = << >> /\ overdue = {}

In(p) == {r \in Request : phase[r] = p}

Becomes(r, p) == phase' = [phase EXCEPT ![r] = p]

(* An administrator changes the pool's budget or the project's setting. *)
ChangeSetting ==
  /\ setting' \in Concurrency \ {setting}
  /\ UNCHANGED <<allowed, phase, active, waiting, overdue>>

-------------------------------------------------------------------------------
(* acquire *)

Arrives(r) ==
  /\ phase[r] = "planned"
  /\ allowed' = [allowed EXCEPT ![r] = setting]

Admit(r) ==
  /\ Arrives(r) /\ active < setting
  /\ active' = active + 1
  /\ Becomes(r, "running")
  /\ UNCHANGED <<setting, waiting, overdue>>

Enqueue(r) ==
  /\ Arrives(r) /\ active >= setting /\ Len(waiting) < MaxQueued
  /\ waiting' = Append(waiting, r)
  /\ Becomes(r, "waiting")
  /\ UNCHANGED <<setting, active, overdue>>

(* The queue is full, or the caller is gone already. *)
Refuse(r) ==
  /\ Arrives(r)
  /\ Becomes(r, "refused")
  /\ UNCHANGED <<setting, active, waiting, overdue>>

-------------------------------------------------------------------------------
(* release, and what happens to those who wait *)

\* Mutant of FirstInTime: the clock is not looked at again.
FirstOfAll == 1

(* The place of the first waiter that is in time, behind the last if none.  *)
FirstInTime == Min({i \in 1..Len(waiting) : waiting[i] \notin overdue} \union {Len(waiting) + 1})

(* The place of r goes to the n-th waiter, if there is one; `left' wait on, *)
(* all others are refused.                                                  *)
Passes(r, n, left) ==
  /\ phase[r] = "running"
  /\ phase' = [q \in Request |->
                 IF q = r THEN "ended"
                 ELSE IF n <= Len(waiting) /\ q = waiting[n] THEN "running"
                 ELSE IF q \in Range(waiting) \ Range(left) THEN "refused" ELSE phase[q]]
  /\ active' = IF n <= Len(waiting) THEN active ELSE active - 1
  /\ waiting' = left
  /\ UNCHANGED <<setting, allowed, overdue>>

\* Mutants of Release: nobody is told; the last to come is the first served.
ReleaseSilently(r) == Passes(r, Len(waiting) + 1, waiting)
ReleaseLast(r) ==
  Passes(r, IF waiting = << >> THEN 1 ELSE Len(waiting), SubSeq(waiting, 1, Len(waiting) - 1))

(* The execution is over, whatever its end: the place goes to the first     *)
(* waiter that is in time, and those before it are refused.                 *)
Release(r) == Passes(r, FirstInTime, SubSeq(waiting, FirstInTime + 1, Len(waiting)))

Leaves(r) ==
  /\ phase[r] = "waiting"
  /\ \E i \in DOMAIN waiting : waiting[i] = r /\ waiting' = RemoveAt(waiting, i)
  /\ Becomes(r, "refused")
  /\ UNCHANGED <<setting, allowed, active, overdue>>

\* Mutant of Cancel: the waiter is answered and left in the queue.
CancelInPlace(r) ==
  /\ phase[r] = "waiting"
  /\ Becomes(r, "refused")
  /\ UNCHANGED <<setting, allowed, active, waiting, overdue>>

(* The caller goes away. *)
Cancel(r) == Leaves(r)

(* The wait reaches its bound; the timer comes at some time after that. *)
TimePasses(r) ==
  /\ phase[r] = "waiting" /\ r \notin overdue
  /\ overdue' = overdue \union {r}
  /\ UNCHANGED <<setting, allowed, phase, active, waiting>>

\* Mutant of Expire: no timer.
ExpireNever(r) == FALSE /\ UNCHANGED vars

Expire(r) == r \in overdue /\ Leaves(r)

-------------------------------------------------------------------------------
Next ==
  \/ ChangeSetting
  \/ \E r \in Request :
       \/ Admit(r) \/ Enqueue(r) \/ Refuse(r)
       \/ Release(r) \/ Cancel(r) \/ TimePasses(r) \/ Expire(r)

Spec == Init /\ [][Next]_vars

(* Time passes and timers fire; an execution may hold its place as long as  *)
(* it likes.                                                                *)
FairSpec == Spec /\ \A r \in Request : WF_vars(TimePasses(r)) /\ WF_vars(Expire(r))

-------------------------------------------------------------------------------
(* TypeOK: the counter counts the executions that hold a place, and the     *)
(* queue holds each unanswered waiter once and nobody else: no waiter is    *)
(* lost by a release, a cancellation and a timer that meet.                 *)
TypeOK ==
  /\ setting \in Concurrency
  /\ allowed \in [Request -> Concurrency \union {0}]
  /\ phase \in [Request -> {"planned", "waiting", "running", "ended", "refused"}]
  /\ active = Cardinality(In("running"))
  /\ waiting \in Seq(Request) /\ Len(waiting) <= MaxQueued
  /\ Range(waiting) = In("waiting") /\ IsInjective(waiting)
  /\ overdue \subseteq Request

(* NobodyWaitsForNothing: somebody waits only while an execution is running *)
(* that will pass its place on.                                             *)
NobodyWaitsForNothing == waiting # << >> => active > 0

(* AdmittedInOrder: a waiter gets a place only when everyone who waited     *)
(* before it is answered.                                                   *)
AdmittedInOrder ==
  [][ \A i, j \in 1..Len(waiting) :
        i < j /\ phase'[waiting[j]] = "running" => phase'[waiting[i]] # "waiting" ]_vars

(* OverdueIsRefused: a waiter whose bound has passed is never admitted,     *)
(* although its timer has not run yet.                                      *)
OverdueIsRefused ==
  [][ \A r \in In("waiting") \intersect overdue : phase'[r] # "running" ]_vars

(* EveryWaiterIsAnswered: whoever waits gets a place or is refused, even if *)
(* no execution ever ends.                                                  *)
EveryWaiterIsAnswered == \A r \in Request : (phase[r] = "waiting") ~> (phase[r] # "waiting")

(* FirstComeFirstServed: as the class comment has it ("Host-scoped FIFO"),  *)
(* nobody who comes later is served while another waits.                    *)
FirstComeFirstServed ==
  [][ \A r \in In("planned") : phase'[r] = "running" => waiting = << >> ]_vars

(* WithinItsOwnLimit: a semaphore per pool: a request starts only while     *)
(* fewer than its concurrency are running.                                  *)
WithinItsOwnLimit ==
  [][ \A r \in Request : phase[r] # "running" /\ phase'[r] = "running"
        => active' <= allowed'[r] ]_vars

===============================================================================
