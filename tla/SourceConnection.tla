-------------------------- MODULE SourceConnection --------------------------
(***************************************************************************)
(* How a source gets connected.  A source row of the gateway database      *)
(* names its engine and is held until that engine has acknowledged the     *)
(* network policy that admits it (engines/infrastructure/egress.ts); the   *)
(* engine's egress controller fetches that policy with every heartbeat and *)
(* installs it in its firewall (sidecar/egress).  Introspection runs       *)
(* (sources/application/introspection-job.ts) wait in the database until   *)
(* the source is released and are executed by whichever gateway process    *)
(* claims them: connecting, reading, diffing, complete.                    *)
(*                                                                         *)
(* A gateway is a process that executes runs.  Users create, reassign,     *)
(* archive and scan sources and cancel runs meanwhile; gateways and        *)
(* controllers stop, beats are given up and may be served late, names fail *)
(* to resolve, and custody may refuse.                                     *)
(***************************************************************************)
EXTENDS Naturals, Sequences, FiniteSets, TLC

CONSTANTS
  Sources, Engines, Gateways,
  Unresolvable,   \* sources whose host name never resolves at an engine
  LateBeats,      \* whether a beat that was given up may still be served
  MaxRequests,    \* bound: requests by users
  MaxUpsets,      \* bound: failures, crashes and lost messages
  Null            \* no policy, no engine

ASSUME ConnectionAssumption ==
  /\ Unresolvable \subseteq Sources
  /\ LateBeats \in BOOLEAN
  /\ MaxRequests \in Nat /\ MaxUpsets \in Nat
  /\ Null \notin Engines /\ \A policy \in SUBSET Sources : Null # policy

\* Gateways are alike.
Processes == Permutations(Gateways)

VARIABLES
  source,      \* data_source: [Sources created -> status, engine, held]
  run,         \* introspection_run, oldest first
  job,         \* what each gateway is doing for each run
  controller,  \* egress controller of each engine
  late,        \* beats that were given up and are not yet served
  requests, upsets

vars == <<source, run, job, controller, late, requests, upsets>>

RunIds == 1 .. MaxRequests
Active == {"queued", "connecting", "reading", "diffing"}
Cancellable == {"queued", "connecting", "reading"}
Failable == {"connecting", "reading", "diffing"}
Stages == {"none", "securing", "refused", "claimed", "testing", "reading", "diffing"}

Live(s) == s \in DOMAIN source /\ source[s].status # "archived"
RunsOf(s) == {i \in DOMAIN run : run[i].source = s}
ActiveRuns(s) == {i \in RunsOf(s) : run[i].state \in Active}
EngineOf(s) == source[s].engine

\* The policy of an engine is named by the sources assigned to it.
Version(e) == {s \in DOMAIN source : Live(s) /\ EngineOf(s) = e}

Init ==
  /\ source = <<>>
  /\ run = <<>>
  /\ job = [g \in Gateways |-> [i \in RunIds |-> "none"]]
  /\ controller = [e \in Engines |->
       [phase |-> "rest", policy |-> Null, saved |-> Null, told |-> Null,
        applied |-> Null, denied |-> {}, open |-> {}]]
  /\ late = {}
  /\ requests = 0 /\ upsets = 0

Request == requests < MaxRequests /\ requests' = requests + 1
Spend(n) == upsets + n <= MaxUpsets /\ upsets' = upsets + n
Upset == Spend(1)

Queued(s) == [source |-> s, state |-> "queued", via |-> Null]

----------------------------------------------------------------------------
(* Users *)

HeldAt(e) == [status |-> "pending_egress", engine |-> e, held |-> TRUE]

Create(s, e) ==
  /\ Request
  /\ s \notin DOMAIN source
  /\ source' = [x \in DOMAIN source \cup {s} |-> IF x = s THEN HeldAt(e) ELSE source[x]]
  /\ run' \in {run, Append(run, Queued(s))}   \* schemas chosen now or later
  /\ UNCHANGED <<job, controller, late, upsets>>

\* Mutant: retry() that does not look for an active run.
RetryAnyway(s) ==
  /\ Request
  /\ Live(s)
  /\ RunsOf(s) # {} \/ ~source[s].held
  /\ run' = Append(run, Queued(s))
  /\ source' = [source EXCEPT ![s].status = "pending"]
  /\ UNCHANGED <<job, controller, late, upsets>>

\* A scan asked for by the user: of the schemas scanned last, or of schemas
\* chosen now, which needs the policy to be installed.
Retry(s) ==
  /\ Request
  /\ Live(s)
  /\ ActiveRuns(s) = {}
  /\ RunsOf(s) # {} \/ ~source[s].held
  /\ run' = Append(run, Queued(s))
  /\ source' = [source EXCEPT ![s].status = "pending"]
  /\ UNCHANGED <<job, controller, late, upsets>>

Assigned(s, e) == [source EXCEPT ![s] = HeldAt(e)]

\* Mutant: assign() that accepts while a run is under way.
AssignAnyway(s, e) ==
  /\ Request
  /\ Live(s)
  /\ source' = Assigned(s, e)
  /\ run' = IF ActiveRuns(s) = {} /\ RunsOf(s) # {} THEN Append(run, Queued(s)) ELSE run
  /\ UNCHANGED <<job, controller, late, upsets>>

Assign(s, e) ==
  /\ Request
  /\ Live(s)
  /\ \A i \in ActiveRuns(s) : run[i].state = "queued"
  /\ source' = Assigned(s, e)
  /\ run' = IF ActiveRuns(s) = {} /\ RunsOf(s) # {} THEN Append(run, Queued(s)) ELSE run
  /\ UNCHANGED <<job, controller, late, upsets>>

Archive(s) ==
  /\ Request
  /\ Live(s)
  /\ source' = [source EXCEPT ![s].status = "archived"]
  /\ UNCHANGED <<run, job, controller, late, upsets>>

Cancelled(i) == IF run[i].state \in Cancellable THEN [run EXCEPT ![i].state = "cancelled"] ELSE run

Cancel(i) ==
  /\ Request
  /\ run[i].state \in Cancellable
  /\ run' = Cancelled(i)
  /\ UNCHANGED <<source, job, controller, late, upsets>>

----------------------------------------------------------------------------
(* The gateway process g executes run i *)

At(g, i, stage) == i \in DOMAIN run /\ job[g][i] = stage
Goes(g, i, stage) == job' = [job EXCEPT ![g][i] = stage]

Claimable(i) ==
  LET s == run[i].source IN run[i].state = "queued" /\ Live(s) /\ ~source[s].held

\* The run is advanced if it is still where the worker left it; otherwise the
\* worker has lost it and leaves it alone.
Advance(g, i, from, to, via) ==
  IF run[i].state = from
  THEN run' = [run EXCEPT ![i].state = to, ![i].via = via] /\ Goes(g, i, to)
  ELSE UNCHANGED run /\ Goes(g, i, "none")

\* Mutant: fail() that does not consult the transition table.
FailAnyway(i, unreachable) ==
  LET s == run[i].source IN
  /\ run' = [run EXCEPT ![i].state = "failed"]
  /\ source' = IF unreachable /\ Live(s) THEN [source EXCEPT ![s].status = "unreachable"] ELSE source

Fail(i, unreachable) ==
  LET s == run[i].source IN
  IF run[i].state \in Failable
  THEN /\ run' = [run EXCEPT ![i].state = "failed"]
       /\ source' = IF unreachable /\ Live(s) THEN [source EXCEPT ![s].status = "unreachable"] ELSE source
  ELSE UNCHANGED <<run, source>>

Pick(g, i) ==
  /\ At(g, i, "none")
  /\ Claimable(i)
  /\ Goes(g, i, "securing")
  /\ UNCHANGED <<source, run, controller, late, requests, upsets>>

Claim(g, i) ==
  /\ At(g, i, "securing")
  /\ IF Claimable(i)
     THEN run' = [run EXCEPT ![i].state = "connecting"] /\ Goes(g, i, "claimed")
     ELSE UNCHANGED run /\ Goes(g, i, "none")
  /\ UNCHANGED <<source, controller, late, requests, upsets>>

\* Custody is not ready: the run is claimed only to be failed.
Unsecured(g, i) ==
  /\ Upset
  /\ At(g, i, "securing")
  /\ run' = IF Claimable(i) THEN [run EXCEPT ![i].state = "connecting"] ELSE run
  /\ Goes(g, i, "refused")
  /\ UNCHANGED <<source, controller, late, requests>>

Refuse(g, i) ==
  /\ At(g, i, "refused")
  /\ Fail(i, FALSE)
  /\ Goes(g, i, "none")
  /\ UNCHANGED <<controller, late, requests, upsets>>

ReadSource(g, i) ==
  /\ At(g, i, "claimed")
  /\ IF Live(run[i].source)
     THEN Goes(g, i, "testing") /\ UNCHANGED <<run, source>>
     ELSE Fail(i, FALSE) /\ Goes(g, i, "none")
  /\ UNCHANGED <<controller, late, requests, upsets>>

\* The engine lets the connection through.
Admitted(i) == run[i].source \in controller[EngineOf(run[i].source)].open

Test(g, i) ==
  /\ At(g, i, "testing")
  /\ Admitted(i)
  /\ Advance(g, i, "connecting", "reading", EngineOf(run[i].source))
  /\ UNCHANGED <<source, controller, late, requests, upsets>>

Read(g, i) ==
  /\ At(g, i, "reading")
  /\ Admitted(i)
  /\ Advance(g, i, "reading", "diffing", run[i].via)
  /\ UNCHANGED <<source, controller, late, requests, upsets>>

ContactFails(g, i) ==
  /\ At(g, i, "testing") \/ At(g, i, "reading")
  /\ \E unreachable \in BOOLEAN : Fail(i, unreachable)
  /\ Goes(g, i, "none")
  /\ UNCHANGED <<controller, late, requests, upsets>>

\* The worker is told to stop: its run was cancelled or could not be read, or
\* the gateway is closing.
Stop(g, i) ==
  /\ At(g, i, "securing") \/ At(g, i, "testing") \/ At(g, i, "reading")
  /\ IF run[i].state = "cancelled" THEN UNCHANGED upsets ELSE Upset
  /\ run' = Cancelled(i)
  /\ Goes(g, i, "none")
  /\ UNCHANGED <<source, controller, late, requests>>

\* Mutant: publish() that does not look at the source again.
PublishUnseen(g, i) ==
  /\ At(g, i, "diffing")
  /\ IF run[i].state = "diffing"
     THEN /\ run' = [run EXCEPT ![i].state = "complete"]
          /\ source' = [source EXCEPT ![run[i].source].status = "connected"]
     ELSE Fail(i, FALSE)
  /\ Goes(g, i, "none")
  /\ UNCHANGED <<controller, late, requests, upsets>>

Publish(g, i) ==
  /\ At(g, i, "diffing")
  /\ IF run[i].state = "diffing" /\ Live(run[i].source)
     THEN /\ run' = [run EXCEPT ![i].state = "complete"]
          /\ source' = [source EXCEPT ![run[i].source].status = "connected"]
     ELSE Fail(i, FALSE)
  /\ Goes(g, i, "none")
  /\ UNCHANGED <<controller, late, requests, upsets>>

PublishFails(g, i) ==
  /\ At(g, i, "diffing")
  /\ Fail(i, FALSE)
  /\ Goes(g, i, "none")
  /\ UNCHANGED <<controller, late, requests, upsets>>

Crash(g) ==
  /\ Upset
  /\ \E i \in RunIds : job[g][i] # "none"
  /\ job' = [job EXCEPT ![g] = [i \in RunIds |-> "none"]]
  /\ UNCHANGED <<source, run, controller, late, requests>>

Work(g, i) ==
  \/ Pick(g, i) \/ Claim(g, i) \/ Unsecured(g, i) \/ Refuse(g, i) \/ ReadSource(g, i)
  \/ Test(g, i) \/ Read(g, i) \/ ContactFails(g, i) \/ Stop(g, i)
  \/ Publish(g, i) \/ PublishFails(g, i)

----------------------------------------------------------------------------
(* Heartbeats *)

Refused(e, denied) == ~(denied \subseteq Version(e))

\* Mutant: heartbeat() that releases only sources that were never denied.
AcknowledgedOnce(s, denied) ==
  IF s \in denied THEN [source[s] EXCEPT !.held = TRUE, !.status = "unreachable"]
  ELSE IF source[s].status # "pending_egress" THEN source[s]
  ELSE [source[s] EXCEPT !.held = FALSE, !.status = "pending"]

\* What an acknowledgment does to a source of the engine.
Acknowledged(s, denied) ==
  IF s \in denied THEN [source[s] EXCEPT !.held = TRUE, !.status = "unreachable"]
  ELSE IF ~source[s].held THEN source[s]
  ELSE [source[s] EXCEPT !.held = FALSE,
          !.status = IF @ \in {"pending_egress", "unreachable"} THEN "pending" ELSE @]

\* Mutant: heartbeat() that takes any installed policy for the present one.
HeardAny(e, applied, denied) ==
  IF applied # Null /\ ~Refused(e, denied)
  THEN [s \in DOMAIN source |-> IF s \in Version(e) THEN Acknowledged(s, denied) ELSE source[s]]
  ELSE source

Heard(e, applied, denied) ==
  IF applied = Version(e) /\ ~Refused(e, denied)
  THEN [s \in DOMAIN source |-> IF s \in Version(e) THEN Acknowledged(s, denied) ELSE source[s]]
  ELSE source

Endpoints(policy) == IF policy = Null THEN {} ELSE policy

\* The names that fail to resolve: those that never do and, as an upset, one more.
Failing(policy) ==
  LET never == Endpoints(policy) \cap Unresolvable IN
  {[names |-> never, cost |-> 0]} \cup
  {[names |-> never \cup {s}, cost |-> 1] : s \in Endpoints(policy) \ never}

Installed(c, policy, failing) ==
  [c EXCEPT !.policy = policy, !.denied = failing,
            !.open = Endpoints(policy) \ failing, !.applied = policy]

\* Mutant: install() that does not clear the applied versions first.
NotInstalledUncleared(c, policy) ==
  {[c EXCEPT !.policy = policy, !.open = open] : open \in {c.open, {}}}

\* The firewall is as it was or, when setting it failed, closed.
NotInstalled(c, policy) ==
  {[c EXCEPT !.policy = policy, !.applied = Null, !.open = open] : open \in {c.open, {}}}

Becomes(e, c) == controller' = [controller EXCEPT ![e] = c]

\* Every five seconds: install what is known, then beat.
Sync(e) ==
  LET c == controller[e] IN
  /\ c.phase = "rest"
  /\ \/ \E f \in Failing(c.policy) :
          Spend(f.cost) /\ Becomes(e, [Installed(c, c.policy, f.names) EXCEPT !.phase = "asking"])
     \/ Upset /\ \E n \in NotInstalled(c, c.policy) : Becomes(e, n)
  /\ UNCHANGED <<source, run, job, late, requests>>

Beat(e) ==
  LET c == controller[e] IN
  /\ c.phase = "asking"
  /\ source' = Heard(e, c.applied, c.denied)
  /\ Becomes(e, IF Refused(e, c.denied) THEN [c EXCEPT !.phase = "rest"]
                ELSE [c EXCEPT !.phase = "told", !.told = Version(e)])
  /\ UNCHANGED <<run, job, late, requests, upsets>>

\* The policy told is installed and saved.
Adopt(e) ==
  LET c == controller[e]
      rests(n) == [n EXCEPT !.phase = "rest", !.told = Null]
  IN
  /\ c.phase = "told"
  /\ \/ \E f \in Failing(c.told) :
          Spend(f.cost) /\ Becomes(e, [rests(Installed(c, c.told, f.names)) EXCEPT !.saved = c.told])
     \/ Upset /\ \E n \in NotInstalled(c, c.told) : Becomes(e, rests(n))
  /\ UNCHANGED <<source, run, job, late, requests>>

GiveUp(e) ==
  LET c == controller[e] IN
  /\ Upset
  /\ c.phase \in {"asking", "told"}
  /\ controller' = [controller EXCEPT ![e].phase = "rest", ![e].told = Null]
  /\ late' = IF LateBeats /\ c.phase = "asking"
             THEN late \cup {[engine |-> e, applied |-> c.applied, denied |-> c.denied]} ELSE late
  /\ UNCHANGED <<source, run, job, requests>>

BeatLate(b) ==
  /\ source' = Heard(b.engine, b.applied, b.denied)
  /\ late' = late \ {b}
  /\ UNCHANGED <<run, job, controller, requests, upsets>>

Restart(e) ==
  LET c == controller[e] IN
  /\ Upset
  /\ Becomes(e, [c EXCEPT !.phase = "rest", !.policy = c.saved, !.told = Null,
                          !.applied = Null, !.denied = {}, !.open = {}])
  /\ UNCHANGED <<source, run, job, late, requests>>

----------------------------------------------------------------------------

Next ==
  \/ \E s \in Sources : Retry(s) \/ Archive(s) \/ \E e \in Engines : Create(s, e) \/ Assign(s, e)
  \/ \E i \in DOMAIN run : Cancel(i) \/ \E g \in Gateways : Work(g, i)
  \/ \E g \in Gateways : Crash(g)
  \/ \E e \in Engines : Sync(e) \/ Beat(e) \/ Adopt(e) \/ GiveUp(e) \/ Restart(e)
  \/ \E b \in late : BeatLate(b)

Spec == Init /\ [][Next]_vars

\* Timers beat and a gateway executes what it has taken on.
Fairness ==
  /\ \A e \in Engines : WF_vars(Sync(e)) /\ WF_vars(Beat(e)) /\ WF_vars(Adopt(e))
  /\ \A g \in Gateways, i \in RunIds : WF_vars(Work(g, i))

FairSpec == Spec /\ Fairness

----------------------------------------------------------------------------
(* Properties *)

Policies == (SUBSET Sources) \cup {Null}

SourceRow ==
  [status : {"pending", "pending_egress", "unreachable", "connected", "archived"},
   engine : Engines, held : BOOLEAN]
RunRow ==
  [source : Sources, state : Active \cup {"complete", "failed", "cancelled"},
   via : Engines \cup {Null}]
Controller ==
  [phase : {"rest", "asking", "told"}, policy : Policies, saved : Policies, told : Policies,
   applied : Policies, denied : SUBSET Sources, open : SUBSET Sources]

\* Rows, runs, jobs and controllers have the values the code gives them.
TypeOK ==
  /\ DOMAIN source \subseteq Sources /\ source \in [DOMAIN source -> SourceRow]
  /\ run \in Seq(RunRow) /\ Len(run) <= requests
  /\ \A i \in DOMAIN run : run[i].source \in DOMAIN source
  /\ job \in [Gateways -> [RunIds -> Stages]]
  /\ controller \in [Engines -> Controller]
  /\ late \subseteq [engine : Engines, applied : Policies, denied : SUBSET Sources]
  /\ requests \in 0..MaxRequests /\ upsets \in 0..MaxUpsets

\* A source has at most one active run and a run is executed by at most one
\* gateway, so that the customer's database is contacted once for every scan,
\* however requests, stale queue reads and claims are interleaved.
ContactedOnce ==
  /\ \A s \in DOMAIN source : Cardinality(ActiveRuns(s)) <= 1
  /\ \A i \in DOMAIN run :
       Cardinality({g \in Gateways : job[g][i] \in {"claimed", "testing", "reading", "diffing"}}) <= 1

\* A source shown as connected was last introspected through the engine it is
\* assigned to now: reassigning never leaves a success of the former engine.
ConnectedThroughItsEngine ==
  \A s \in DOMAIN source : source[s].status = "connected" =>
    \E i \in RunsOf(s) :
      /\ run[i].state = "complete" /\ run[i].via = EngineOf(s)
      /\ \A j \in RunsOf(s) : run[j].state = "complete" => j <= i

\* What a run ended as is never rewritten, by a worker that was slow, by the
\* custody refusal of another process or by a late cancellation.
EndedStaysEnded ==
  [][\A i \in DOMAIN run : run[i].state \notin Active => run'[i] = run[i]]_vars

\* An archived source is never brought back by a run, a failure or a beat that
\* was under way, and none of its runs starts or completes afterwards.
ArchivedIsFinal ==
  [][\A s \in DOMAIN source : source[s].status = "archived" =>
       /\ source'[s] = source[s]
       /\ \A i \in RunsOf(s) : run'[i].state # run[i].state =>
            \/ run'[i].state = "cancelled"
            \/ run[i].state # "queued" /\ run'[i].state # "complete"]_vars

\* A source is released only while the firewall of its engine admits it.
ReleasedMeansInstalled ==
  [][\A s \in DOMAIN source :
       source[s].held /\ ~source'[s].held => s \in controller[EngineOf(s)].open]_vars

\* A run that waits for the policy of its source's engine is released and
\* taken, or ends, or its source is archived.
Waiting(i) == i \in DOMAIN run /\ run[i].state = "queued" /\ Live(run[i].source)
QueuedRunsMove == \A i \in RunIds : Waiting(i) ~> ~Waiting(i)

\* A source whose name resolves does not wait for its policy for ever,
\* whatever becomes of the other sources of its engine.
HeldUp(s) == Live(s) /\ source[s].held
ResolvedProceed == \A s \in Sources \ Unresolvable : HeldUp(s) ~> ~HeldUp(s)

\* A run in diffing, which can no longer be cancelled and bars the next scan
\* and a reassignment, ends.
Publishing(i) == i \in DOMAIN run /\ run[i].state = "diffing"
PublicationEnds == \A i \in RunIds : Publishing(i) ~> ~Publishing(i)

\* A source that was scanned before and whose destination failed to resolve is
\* tested again when the engine reports that it resolves.
RecoveredIsRetested ==
  [][\A s \in DOMAIN source :
       /\ source[s].held /\ source[s].status = "unreachable" /\ ~source'[s].held
       /\ \E i \in RunsOf(s) : run[i].state = "complete"
       => ActiveRuns(s) # {}]_vars
=============================================================================
