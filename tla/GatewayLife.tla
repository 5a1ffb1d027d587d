----------------------------- MODULE GatewayLife -----------------------------
(***************************************************************************)
(* The life of one API process: the steps of its start, each of which may  *)
(* fail or hang until the startup deadline ends the process, the timers    *)
(* whose jobs guard themselves against running twice, the requests and     *)
(* streams it serves, and its shutdown on a signal, which closes the hub   *)
(* of live streams and waits for what is open.                             *)
(***************************************************************************)
EXTENDS Integers, Sequences, FiniteSets

CONSTANTS Request,     \* requests that reach the process
          Job          \* the guarded jobs (owner grants, completions, presence ...)

(* The awaited steps, in their order.                                       *)
Steps == <<"migrations", "database", "partitions", "redis", "readiness",
           "custody", "mcp", "receipts", "listen">>

VARIABLES phase,     \* "starting" | "serving" | "closing" | "exited"
          step,      \* steps done
          world,     \* what there is of what the process depends on
          job,       \* "off" | "idle" | "running"
          ticks,     \* runs of a job under way
          request,   \* "none" | "waiting" | "stream" | "done" | "reset"
          early,     \* a request was accepted before a gate had been passed
          late       \* a stream was opened after the hub had been closed
vars == <<phase, step, world, job, ticks, request, early, late>>

TypeOK ==
  /\ phase \in {"starting", "serving", "closing", "exited"}
  /\ step \in 0..Len(Steps) /\ world \subseteq {"schema", "dependencies"}
  /\ job \in [Job -> {"off", "idle", "running"}] /\ ticks \in [Job -> 0..2]
  /\ request \in [Request -> {"none", "waiting", "stream", "done", "reset"}]
  /\ early \in BOOLEAN /\ late \in BOOLEAN

Init ==
  /\ phase = "starting" /\ step = 0
  /\ world \in SUBSET {"schema", "dependencies"}
  /\ job = [j \in Job |-> "off"] /\ ticks = [j \in Job |-> 0]
  /\ request = [q \in Request |-> "none"] /\ early = FALSE /\ late = FALSE

(* What a step needs before it succeeds.                                    *)
Needs(s) ==
  CASE s \in {"migrations", "database"} -> {"schema"}
    [] s = "readiness" -> {"dependencies"}
    [] OTHER -> {}

(* Mutant: the server listens before its dependencies were checked.         *)
StepsListeningEarly ==
  <<"migrations", "database", "partitions", "redis", "listen", "readiness",
    "custody", "mcp", "receipts">>
StartOrder == Steps

(* Timers are set up on the way; each job also runs once at once.           *)
StartTimers ==
  IF StartOrder[step + 1] = "readiness"
  THEN job' = [j \in Job |-> "idle"] ELSE UNCHANGED job

Advance ==
  /\ phase = "starting" /\ step < Len(StartOrder)
  /\ Needs(StartOrder[step + 1]) \subseteq world
  /\ step' = step + 1
  /\ StartTimers
  /\ phase' = IF step' = Len(StartOrder) THEN "serving" ELSE phase
  /\ UNCHANGED <<world, ticks, request, early, late>>

(* A step fails, or 30 seconds pass: the process exits with an error.       *)
GiveUp ==
  /\ phase = "starting" /\ phase' = "exited"
  /\ request' = [q \in Request |-> IF request[q] = "none" THEN "none" ELSE "reset"]
  /\ UNCHANGED <<step, world, job, ticks, early, late>>

Passed == {StartOrder[i] : i \in 1..step}
Gates == {"migrations", "database", "partitions", "readiness", "custody", "mcp"}

Accept(q) ==
  /\ request[q] = "none" /\ "listen" \in Passed /\ phase \in {"starting", "serving"}
  /\ request' = [request EXCEPT ![q] = "waiting"]
  /\ early' = (early \/ ~(Gates \subseteq Passed))
  /\ UNCHANGED <<phase, step, world, job, ticks, late>>

Answer(q) ==
  /\ request[q] = "waiting" /\ phase # "exited"
  /\ request' = [request EXCEPT ![q] = "done"]
  /\ UNCHANGED <<phase, step, world, job, ticks, early, late>>

(* A stream subscribes to the hub, which registers it at once ...           *)
OpenStream(q) ==
  /\ request[q] = "waiting" /\ phase # "exited"
  /\ request' = [request EXCEPT ![q] = "stream"]
  /\ late' = (late \/ phase = "closing")
  /\ UNCHANGED <<phase, step, world, job, ticks, early>>

(* ... and ends with its reader.                                            *)
LeaveStream(q) ==
  /\ request[q] = "stream"
  /\ request' = [request EXCEPT ![q] = "done"]
  /\ UNCHANGED <<phase, step, world, job, ticks, early, late>>

(* Mutant: the job has no guard.                                            *)
TickUnguarded(j) ==
  /\ job[j] # "off" /\ phase # "exited" /\ ticks[j] < 2
  /\ job' = [job EXCEPT ![j] = "running"] /\ ticks' = [ticks EXCEPT ![j] = @ + 1]
  /\ UNCHANGED <<phase, step, world, request, early, late>>

Tick(j) ==
  /\ job[j] = "idle" /\ phase \in {"starting", "serving"}
  /\ job' = [job EXCEPT ![j] = "running"] /\ ticks' = [ticks EXCEPT ![j] = @ + 1]
  /\ UNCHANGED <<phase, step, world, request, early, late>>

(* Mutant: the guard is released only by a job that succeeds.               *)
SettleOnSuccess(j) ==
  /\ job[j] = "running" /\ phase # "exited" /\ ticks[j] > 0
  /\ ticks' = [ticks EXCEPT ![j] = @ - 1]
  /\ job' = [job EXCEPT ![j] = IF "dependencies" \in world THEN "idle" ELSE "running"]
  /\ UNCHANGED <<phase, step, world, request, early, late>>

(* The job ends, well or not; its guard is released either way.             *)
Settle(j) ==
  /\ job[j] = "running" /\ phase # "exited" /\ ticks[j] > 0
  /\ ticks' = [ticks EXCEPT ![j] = @ - 1]
  /\ job' = [job EXCEPT ![j] = "idle"]
  /\ UNCHANGED <<phase, step, world, request, early, late>>

(* PostgreSQL, Redis or SpiceDB goes away and comes back.                   *)
Depend ==
  /\ world' \in {world \cup {"dependencies"}, world \ {"dependencies"}} \ {world}
  /\ phase # "exited"
  /\ UNCHANGED <<phase, step, job, ticks, request, early, late>>

(* Mutant: the streams are left to their readers.                           *)
CloseKeepingStreams ==
  /\ phase = "serving" /\ phase' = "closing"
  /\ job' = [j \in Job |-> IF job[j] = "idle" THEN "off" ELSE job[j]]
  /\ UNCHANGED <<step, world, ticks, request, early, late>>

(* SIGTERM: the timers are cleared, the hub ends every stream it knows, the *)
(* listeners take no more connections.                                      *)
Close ==
  /\ phase = "serving" /\ phase' = "closing"
  /\ job' = [j \in Job |-> IF job[j] = "idle" THEN "off" ELSE job[j]]
  /\ request' = [q \in Request |-> IF request[q] = "stream" THEN "done" ELSE request[q]]
  /\ UNCHANGED <<step, world, ticks, early, late>>

(* server.close has seen the last request: SpiceDB and Redis are let go.    *)
Exit ==
  /\ phase = "closing"
  /\ \A q \in Request : request[q] \in {"none", "done"}
  /\ \A j \in Job : job[j] # "running"
  /\ phase' = "exited"
  /\ UNCHANGED <<step, world, job, ticks, request, early, late>>

Next ==
  \/ Advance \/ GiveUp \/ Depend \/ Close \/ Exit
  \/ \E q \in Request : Accept(q) \/ Answer(q) \/ OpenStream(q) \/ LeaveStream(q)
  \/ \E j \in Job : Tick(j) \/ Settle(j)

(* The process runs: a handler answers, a job settles, the start goes on.   *)
(* A timer fires while the process serves; a reader need not leave.         *)
Fairness ==
  /\ WF_vars(Exit) /\ WF_vars(Advance) /\ WF_vars(GiveUp)
  /\ \A q \in Request : WF_vars(Answer(q))
  /\ \A j \in Job : WF_vars(Settle(j)) /\ WF_vars(Tick(j))
Spec == Init /\ [][Next]_vars /\ Fairness

----------------------------------------------------------------------------
(* No request is accepted before every gate of the start has been passed,   *)
(* and no job runs twice at once.                                           *)
StartedInOrder == ~early
OneRunAtATime == \A j \in Job : ticks[j] <= 1

(* A job that failed runs again for as long as the process serves: its      *)
(* guard never keeps it out.                                                *)
EveryJobRunsAgain ==
  \A j \in Job : (phase = "serving") ~> (ticks[j] > 0 \/ phase # "serving")

(* A signal ends the process once what it was doing is done, and the        *)
(* streams do not keep it: the hub ends them.  The exception is a stream    *)
(* whose request was on its way when the hub was closed.                    *)
ShutdownCompletes == (phase = "closing") ~> (phase = "exited" \/ late)
=============================================================================
