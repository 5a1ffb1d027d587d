------------------------------- MODULE QueryPath -------------------------------
(* One query of an agent through the application (mcp/application/query.ts,   *)
(* query-preparation.ts): prepared from a snapshot of the policy, recorded,   *)
(* sent to the engine, its custody values sealed, its record closed, and only *)
(* then answered.  Around it the policy, the bindings and the engine change,  *)
(* and the engine, the record and the custody provider may each fail.  What   *)
(* the filter permits is QueryPreFilter's, what the engine does with the      *)
(* request StagedExecution's.  An explanation (explain.ts) is prepared alike, *)
(* validated by the engine and leaves no record, but for a join it refuses.   *)
EXTENDS Naturals, FiniteSets

CONSTANTS
  Source,     \* the project's sources
  Build,      \* query engine builds
  MaxChanges  \* a bound on changes around the query

VARIABLES
  policy, bound, ready,   \* the current policy version, and what holds of the sources
  build,                  \* the build the engine runs
  changes,
  tool,                   \* what the agent asks for: "query", "explain" or "describe"
  reach,                  \* the sources that were bound as its policy was read
  candidate,              \* the refused join of an explanation is on the list
  pc,
  snapshot,               \* what the preparation read: version and ready sources
  seen,                   \* the build the first health check reported
  plan,                   \* the sources the query touches
  custody,                \* whether its result has custody values
  refusal,                \* why it is refused: "none", or a cause
  progress,               \* query.ts: "before", "unknown" or "after"
  contacted, ran,         \* the sources the engine asked, and whether it ran the query
  usage,                  \* the sources it reported
  rows,                   \* its response: the build and policy version it names
  shares,                 \* custody shares: "none", "sealed" or "discarded"
  record,                 \* the evidence of the query
  answer                  \* what the agent is told
vars == <<policy, bound, ready, build, changes, tool, reach, candidate, pc, snapshot, seen, plan, custody, refusal, progress, contacted, ran,
          usage, rows, shares, record, answer>>

Steps == <<"snapshot", "health", "filter", "check", "routed", "ready", "open", "custody", "execute", "consistent", "seal",
           "output", "close", "refuse", "discard", "done">>
NoRecord == [state |-> "none", stage |-> "none", version |-> 0, reached |-> {}]

Init ==
  /\ policy = 1 /\ bound = Source /\ ready \in SUBSET Source /\ build \in Build /\ changes = 0
  /\ tool \in {"query", "explain", "describe"} /\ candidate = FALSE /\ reach = {}
  /\ pc = "snapshot" /\ snapshot = [version |-> 0, ready |-> {}] /\ seen = build /\ plan = {} /\ custody = FALSE
  /\ refusal = "none" /\ progress = "before" /\ contacted = {} /\ ran = FALSE /\ usage = {}
  /\ rows = [build |-> build, version |-> 0]
  /\ shares = "none" /\ record = NoRecord /\ answer = "none"

Change ==
  /\ pc # "done" /\ changes < MaxChanges /\ changes' = changes + 1
  /\ \/ policy' = policy + 1 /\ UNCHANGED <<bound, ready, build>>
     \/ \E s \in bound : bound' = bound \ {s} /\ UNCHANGED <<policy, ready, build>>
     \/ \E s \in ready : ready' = ready \ {s} /\ UNCHANGED <<policy, bound, build>>
     \/ \E b \in Build \ {build} : build' = b /\ UNCHANGED <<policy, bound, ready>>
  /\ UNCHANGED <<tool, reach, candidate, pc, snapshot, seen, plan, custody, refusal, progress, contacted, ran, usage, rows, shares,
                 record, answer>>
------------------------------------------------------------------------------
(* Preparation: a failure is kept and refused once it is recorded.            *)
Go(step) == pc' = step /\ UNCHANGED refusal
Stop(cause) == pc' = "open" /\ refusal' = cause
Unprepared == UNCHANGED <<policy, bound, ready, build, changes, tool, candidate, progress, contacted, ran, usage, rows, shares, record, answer>>

ReadSnapshot ==
  /\ pc = "snapshot" /\ tool # "describe" /\ reach' = bound
  /\ \/ snapshot' = [version |-> policy, ready |-> ready] /\ Go("health")
     \/ Stop("validate") /\ UNCHANGED snapshot
  /\ UNCHANGED <<seen, plan, custody>> /\ Unprepared

Health ==
  /\ pc = "health"
  /\ \/ seen' = build /\ Go("filter")
     \/ Stop("version") /\ UNCHANGED seen
  /\ UNCHANGED <<snapshot, plan, custody, reach>> /\ Unprepared

Filter ==
  /\ pc = "filter"
  /\ plan' \in SUBSET Source /\ custody' \in {c \in BOOLEAN : c => plan' # {}}
  /\ Go("check") \/ Stop("validate") \/ (plan' # {} /\ Stop("join"))
  /\ UNCHANGED <<snapshot, seen, reach>> /\ Unprepared

(* A mutant: the bindings are those of the tables the policy was read from.   *)
CheckTables ==
  /\ pc = "check" /\ tool # "describe"
  /\ Go("routed") \/ Stop("validate")
  /\ UNCHANGED <<snapshot, seen, plan, custody, reach>> /\ Unprepared

(* The bindings are asked of the authorization service, not of the snapshot.  *)
Check ==
  /\ pc = "check" /\ tool # "describe"
  /\ IF plan \subseteq bound THEN Go("routed") \/ Stop("validate") ELSE Stop("resolve")
  /\ UNCHANGED <<snapshot, seen, plan, custody, reach>> /\ Unprepared

(* The engines the sources are routed to run the build the filter was asked for. *)
Routed ==
  /\ pc = "routed"
  /\ IF build = seen \/ plan = {} THEN Go("ready") \/ Stop("validate") ELSE Stop("validate")
  /\ UNCHANGED <<snapshot, seen, plan, custody, reach>> /\ Unprepared

Ready ==
  /\ pc = "ready"
  /\ IF plan \subseteq snapshot.ready THEN pc' = "open" /\ UNCHANGED refusal ELSE Stop("resolve")
  /\ UNCHANGED <<snapshot, seen, plan, custody, reach>> /\ Unprepared
------------------------------------------------------------------------------
Tell(a) == pc' = "done" /\ answer' = a
Refuse(cause) == pc' = "refuse" /\ refusal' = cause
EngineRefuses == Refuse("engine") \/ (plan # {} /\ Refuse("join"))
Prepared == UNCHANGED <<policy, bound, ready, build, changes, tool, reach, candidate, snapshot, seen, plan, custody>>

(* The record is committed before the engine is asked for anything.           *)
OpenEvidence ==
  /\ pc = "open" /\ tool = "query"
  /\ \/ Tell("not run") /\ UNCHANGED record
     \/ /\ record' = [NoRecord EXCEPT !.state = "open", !.version = IF snapshot.version = 0 THEN policy ELSE snapshot.version]
        /\ pc' = (IF refusal # "none" THEN "refuse" ELSE "custody") /\ UNCHANGED answer
  /\ UNCHANGED <<refusal, progress, contacted, ran, usage, rows, shares>> /\ Prepared

CustodyAvailable ==
  /\ pc = "custody"
  /\ \/ pc' = "execute" /\ progress' = "unknown" /\ UNCHANGED refusal
     \/ Refuse("validate") /\ UNCHANGED progress
  /\ UNCHANGED <<contacted, ran, usage, rows, shares, record, answer>> /\ Prepared

(* The engine answers once, or its answer is lost; nothing is tried again.  A *)
(* refusal of the preflight precedes every source; the refusal of a small     *)
(* group follows the query.  Without a report of what it used the record is   *)
(* left open.                                                                 *)
Execute ==
  /\ pc = "execute"
  /\ \E asked \in SUBSET plan, done \in BOOLEAN :
       /\ done => asked = plan
       /\ contacted' = asked /\ ran' = done
       /\ \/ /\ Tell("unknown") /\ UNCHANGED <<refusal, progress, usage, rows>>
          \/ /\ asked = {} /\ ~done /\ EngineRefuses /\ progress' = "before" /\ UNCHANGED <<usage, rows, answer>>
          \/ /\ ~done /\ Refuse("engine") /\ usage' = asked /\ UNCHANGED <<progress, rows, answer>>
          \/ /\ done /\ Refuse("engine") /\ usage' = asked /\ progress' = "after" /\ UNCHANGED <<rows, answer>>
          \/ /\ done /\ usage' = asked /\ progress' = "after" /\ pc' = "consistent"
             /\ rows' = [build |-> build, version |-> snapshot.version]
             /\ UNCHANGED <<refusal, answer>>
  /\ UNCHANGED <<shares, record>> /\ Prepared

Consistent ==
  /\ pc = "consistent"
  /\ IF rows.build = seen /\ rows.version = snapshot.version
     THEN \/ pc' = (IF custody THEN "seal" ELSE "output") /\ UNCHANGED refusal
          \/ Refuse("result")
     ELSE Refuse("result")
  /\ UNCHANGED <<progress, contacted, ran, usage, rows, shares, record, answer>> /\ Prepared

Seal ==
  /\ pc = "seal"
  /\ \/ pc' = "output" /\ shares' = "sealed" /\ UNCHANGED refusal
     \/ Refuse("release") /\ UNCHANGED shares
  /\ UNCHANGED <<progress, contacted, ran, usage, rows, record, answer>> /\ Prepared

(* A result that fails its own contract is refused with its shares sealed.    *)
Output ==
  /\ pc = "output"
  /\ (pc' = "close" /\ UNCHANGED refusal) \/ Refuse("result")
  /\ UNCHANGED <<progress, contacted, ran, usage, rows, shares, record, answer>> /\ Prepared

Closed(state, stage) == [record EXCEPT !.state = state, !.stage = stage, !.reached = usage]

(* A mutant: the rows are answered whether or not the record could be closed. *)
CloseAnyway ==
  /\ pc = "close" /\ Tell("rows")
  /\ (record' = Closed("answered", "execute") \/ UNCHANGED record)
  /\ UNCHANGED <<refusal, progress, contacted, ran, usage, rows, shares>> /\ Prepared
(* A mutant: what was sealed is kept when the record could not be closed.     *)
CloseKeeping ==
  /\ pc = "close"
  /\ \/ record' = Closed("answered", "execute") /\ Tell("rows")
     \/ UNCHANGED record /\ Tell("ran, not recorded")
  /\ UNCHANGED <<refusal, progress, contacted, ran, usage, rows, shares>> /\ Prepared

(* The record is completed, or it is not, or its commit is not heard of; only *)
(* the first is answered, and in the others the sealed shares are discarded.  *)
Close ==
  /\ pc = "close"
  /\ \/ record' = Closed("answered", "execute") /\ Tell("rows")
     \/ (record' = Closed("answered", "execute") \/ UNCHANGED record) /\ pc' = "discard" /\ UNCHANGED answer
  /\ UNCHANGED <<refusal, progress, contacted, ran, usage, rows, shares>> /\ Prepared

(* The grants are revoked, which may fail too.                                *)
Discard ==
  /\ pc = "discard"
  /\ \/ Tell("ran, not recorded") /\ shares' = (IF shares = "sealed" THEN "discarded" ELSE shares)
     \/ shares = "sealed" /\ Tell("unknown") /\ UNCHANGED shares
  /\ UNCHANGED <<refusal, progress, contacted, ran, usage, rows, record>> /\ Prepared

Stage == IF progress = "before" THEN (IF refusal = "resolve" THEN "resolve" ELSE "validate") ELSE "execute"
Unrecorded == CASE progress = "before" -> "not run" [] progress = "after" -> "ran, not recorded" [] OTHER -> "unknown"
Said == CASE refusal = "version" -> "no source contacted" [] refusal = "result" -> "ran, not trusted"
          [] refusal = "join" -> "cannot be joined" [] OTHER -> "refused"

(* Mutants: a refusal of the engine's is recorded without what it reported,   *)
(* or counts as one that came before the query ran.                           *)
RefuseForgetting ==
  /\ pc = "refuse" /\ tool = "query"
  /\ \/ record' = [Closed("refused", Stage) EXCEPT !.reached = {}] /\ Tell(Said)
     \/ UNCHANGED record /\ Tell(Unrecorded)
  /\ UNCHANGED <<refusal, progress, contacted, ran, usage, rows, shares>> /\ Prepared
RefuseAsUnrun ==
  /\ pc = "refuse" /\ tool = "query"
  /\ \/ record' = Closed("refused", Stage) /\ Tell(Said)
     \/ UNCHANGED record /\ Tell(IF progress = "after" THEN "ran, not recorded" ELSE "not run")
  /\ UNCHANGED <<refusal, progress, contacted, ran, usage, rows, shares>> /\ Prepared

(* A refusal is recorded with the stage it came at and what was reported.     *)
RefuseRecorded ==
  /\ pc = "refuse" /\ tool = "query"
  /\ \/ record' = Closed("refused", Stage) /\ Tell(Said)
     \/ (record' = Closed("refused", Stage) \/ UNCHANGED record) /\ Tell(Unrecorded)
  /\ UNCHANGED <<refusal, progress, contacted, ran, usage, rows, shares>> /\ Prepared

------------------------------------------------------------------------------
(* A description reads what is decided of the pool's objects, and then leaves *)
(* out the sources that the authorization service does not find bound.        *)
Described == UNCHANGED <<policy, bound, ready, build, changes, tool, candidate, snapshot, seen, custody, refusal, progress,
                         contacted, ran, usage, rows, shares, record>>
ReadDecisions ==
  /\ pc = "snapshot" /\ tool = "describe" /\ reach' = bound
  /\ \/ plan' \in SUBSET Source /\ pc' = "check" /\ UNCHANGED answer
     \/ UNCHANGED plan /\ Tell("refused")
  /\ Described

(* A mutant: the sources of the tables are described.                         *)
DescribeAll ==
  /\ pc = "check" /\ tool = "describe"
  /\ Tell("described") \/ Tell("refused")
  /\ UNCHANGED <<plan, reach>> /\ Described

Describe ==
  /\ pc = "check" /\ tool = "describe" /\ plan' = plan \cap bound
  /\ Tell("described") \/ Tell("refused")
  /\ UNCHANGED reach /\ Described

DryRun == UNCHANGED <<policy, bound, ready, build, changes, tool, reach, snapshot, seen, plan, custody, progress, contacted, ran, usage,
                      shares, record>>

(* A mutant: what the engine permits is permitted, whichever build said so.   *)
ValidateTrusting ==
  /\ pc = "open" /\ tool = "explain" /\ refusal = "none"
  /\ rows' = [build |-> build, version |-> snapshot.version]
  /\ \/ Tell("permitted") /\ UNCHANGED refusal
     \/ EngineRefuses /\ UNCHANGED answer
  /\ UNCHANGED candidate /\ DryRun

(* The engine inspects the statement again, with no source at hand, and names *)
(* its build, which has to be the one the filter was asked for.               *)
Validate ==
  /\ pc = "open" /\ tool = "explain" /\ refusal = "none"
  /\ rows' = [build |-> build, version |-> snapshot.version]
  /\ \/ build = seen /\ Tell("permitted") /\ UNCHANGED refusal
     \/ build # seen /\ Refuse("validate") /\ UNCHANGED answer
     \/ EngineRefuses /\ UNCHANGED answer
  /\ UNCHANGED candidate /\ DryRun

(* A mutant: the agent is answered whether or not the attempt was kept.       *)
RefuseDryUnkept ==
  /\ pc \in {"open", "refuse"} /\ tool = "explain" /\ refusal # "none"
  /\ candidate' \in {FALSE, refusal = "join"} /\ Tell(Said)
  /\ UNCHANGED <<refusal, rows>> /\ DryRun

(* A join that the tokens do not allow is put on the administrators' list, or *)
(* the agent learns only that the dependency failed.                          *)
RefuseDry ==
  /\ pc \in {"open", "refuse"} /\ tool = "explain" /\ refusal # "none"
  /\ \/ candidate' = (refusal = "join") /\ Tell(Said)
     \/ refusal = "join" /\ UNCHANGED candidate /\ Tell("refused")
  /\ UNCHANGED <<refusal, rows>> /\ DryRun

Next == \/ Change \/ ReadSnapshot \/ Health \/ Filter \/ Check \/ Routed \/ Ready \/ OpenEvidence \/ CustodyAvailable
        \/ Execute \/ Consistent \/ Seal \/ Output \/ Close \/ Discard \/ RefuseRecorded
        \/ Validate \/ RefuseDry \/ ReadDecisions \/ Describe
Spec == Init /\ [][Next]_vars
------------------------------------------------------------------------------
(* Rows are only answered with a completed record, which names the version of *)
(* the policy they were compiled from and every source that was asked; and a  *)
(* record that was closed always names them (query.ts, evidence write.ts).    *)
RecordsAreTrue ==
  /\ answer = "rows" => record.state = "answered" /\ record.version = snapshot.version
  /\ record.state \in {"answered", "refused"} => contacted \subseteq record.reached
  /\ record.stage \in {"validate", "resolve"} => contacted = {}
  /\ contacted # {} => record.state # "none"

(* What the agent reads is so: a query that "was not run" asked no source, one *)
(* that "ran" did run (response.ts: Evidence-before, Evidence-after, Version,  *)
(* Result).                                                                   *)
AgentIsToldTheTruth ==
  /\ answer \in {"not run", "no source contacted"} => contacted = {}
  /\ answer \in {"ran, not recorded", "ran, not trusted"} => ran

(* The release shares of an answer are discarded before the agent is told that *)
(* the answer could not be recorded (query.ts: discard).                      *)
NoShareWithoutRecord == answer = "ran, not recorded" /\ refusal = "none" => shares # "sealed"

(* A dry run reads nothing and leaves no run behind; it permits only what one *)
(* build has filtered and validated over sources that were ready (explain.ts). *)
DryRunsAreDry ==
  /\ tool = "explain" => contacted = {} /\ ~ran /\ record.state = "none"
  /\ answer = "permitted" => rows.build = seen /\ plan \subseteq snapshot.ready

(* An agent is only told that tokens cannot be joined when its attempt is on  *)
(* record for the administrator it is sent to (explain.ts, write.ts).         *)
JoinRefusalsAreKept == answer = "cannot be joined" => candidate \/ record.state = "refused"

(* A source that was unbound before a request read the policy is neither      *)
(* asked nor described, though the tables still bind it (query-preparation.ts, *)
(* describe.ts).                                                              *)
NothingUnboundIsReached == contacted \subseteq reach /\ (answer = "described" => plan \subseteq reach)
==============================================================================
