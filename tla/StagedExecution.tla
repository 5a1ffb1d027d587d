---------------------------- MODULE StagedExecution ----------------------------
(* One request in the engine (sidecar/execution, sidecar/session): to execute *)
(* a query over objects staged from their sources, to preview an object, or   *)
(* only to validate.  Staging happens in a privileged DuckDB session, the     *)
(* query runs in an agent session that is hardened after staging.  The parent *)
(* may abort and the deadline may pass between any two steps; what a running  *)
(* statement makes of the interrupt is open.  The row budget of a customer    *)
(* source is SourceScope's, the wait for a lease ExecutionQueue's, what the   *)
(* inspection permits EngineInspection's.                                     *)
EXTENDS Naturals, FiniteSets, Sequences

CONSTANTS
  Source,         \* the customer's sources
  MaxStagingRows, \* the rows one object may stage
  MaxScans        \* a bound: objects the query refers to

VARIABLES
  op,        \* "execute", "preview" or "validate"
  scans,     \* the objects: their source, how they are read, their rows
  pc, at,    \* where the request is, and at which scan
  read,      \* rows of the current scan read so far
  origin,    \* what aborted it first: "none", "parent" or "engine_deadline"
  sessions,  \* the DuckDB sessions that are open
  lease, timer,
  reached,   \* usage.sourceIdsReached
  contacted, \* the sources that were in fact asked
  usedKey,   \* usage.tokenKeyVersionUsed is set
  tokens,    \* a value has been tokenized
  staged,    \* the rows staged of each object
  verdict,   \* how the work ended, before it is answered
  answer
vars == <<op, scans, pc, at, read, origin, sessions, lease, timer, reached, contacted, usedKey, tokens, staged, verdict, answer>>

Kinds == {"plain", "tokenized", "filtered", "withheld"}
Scan == [source : Source, kind : Kinds, size : 0..(MaxStagingRows + 2)]
Here == scans[at]
Aborted == origin # "none"
Unanswered == [kind |-> "none", reached |-> {}, key |-> FALSE]
request == <<op, scans>>
usage == <<reached, contacted, usedKey, tokens>>

TypeOK ==
  /\ op \in {"execute", "preview", "validate"}
  /\ scans \in UNION {[1..n -> Scan] : n \in 1..MaxScans}
  /\ pc \in {"start", "inspect", "estimate", "asked", "stage", "reading", "count", "query", "close", "finally", "done"}
  /\ at \in 1..(MaxScans + 1) /\ read \in 0..(MaxStagingRows + 2)
  /\ origin \in {"none", "parent", "engine_deadline"}
  /\ sessions \subseteq {"privileged", "agent"}
  /\ {lease, timer, usedKey, tokens} \subseteq BOOLEAN
  /\ reached \subseteq Source /\ contacted \subseteq Source
  /\ staged \in [DOMAIN scans -> 0..(MaxStagingRows + 2)]
  /\ verdict \in {"none", "ok", "refused", "cancelled"}
  /\ answer \in [kind : {"none", "rows", "no rows", "refused", "cancelled"}, reached : SUBSET Source, key : BOOLEAN]

Init ==
  /\ op \in {"execute", "preview", "validate"}
  /\ scans \in UNION {[1..n -> Scan] : n \in 1..(IF op = "preview" THEN 1 ELSE MaxScans)}
  /\ pc = "start" /\ at = 1 /\ read = 0 /\ origin = "none" /\ sessions = {}
  /\ lease = FALSE /\ timer = FALSE
  /\ reached = {} /\ contacted = {} /\ usedKey = FALSE /\ tokens = FALSE
  /\ staged = [i \in DOMAIN scans |-> 0]
  /\ verdict = "none" /\ answer = Unanswered

(* The work ends: its sessions are closed, then the request is answered.      *)
End(v) == pc' = (IF sessions = {} THEN "finally" ELSE "close") /\ verdict' = v
Lose == End(IF Aborted THEN "cancelled" ELSE "refused")
------------------------------------------------------------------------------
Abort(by) ==
  /\ pc # "done" /\ ~Aborted
  /\ by = "engine_deadline" => timer
  /\ origin' = by
  /\ UNCHANGED <<request, pc, at, read, sessions, lease, timer, usage, staged, verdict, answer>>

(* A malformed or inconsistent request, or no lease for it: the queue is      *)
(* full, a third of the time is over, or it was aborted while it waited.      *)
NotAdmitted ==
  /\ pc = "start" /\ Lose
  /\ UNCHANGED <<request, at, read, origin, sessions, lease, timer, usage, staged, answer>>

(* The deadline runs from the lease on; a validation takes none.              *)
Admit ==
  /\ pc = "start" /\ (op = "validate" \/ ~Aborted)
  /\ lease' = (op # "validate") /\ timer' = TRUE
  /\ pc' = (IF op = "preview" THEN "estimate" ELSE "inspect")
  /\ UNCHANGED <<request, at, read, origin, sessions, usage, staged, verdict, answer>>

(* Sessions are opened one after the other, for the preflight and again for   *)
(* the query; a validation has only the agent's.                              *)
Wanted == IF op = "validate" THEN <<"agent">> ELSE <<"privileged", "agent">>
Open ==
  /\ pc \in {"inspect", "query"} /\ Cardinality(sessions) < Len(Wanted)
  /\ IF Aborted THEN Lose /\ UNCHANGED sessions
     ELSE \/ sessions' = sessions \cup {Wanted[Cardinality(sessions) + 1]} /\ UNCHANGED <<pc, verdict>>
          \/ Lose /\ UNCHANGED sessions
  /\ UNCHANGED <<request, at, read, origin, lease, timer, usage, staged, answer>>

(* The statement is inspected against empty objects, or refused.              *)
Inspect ==
  /\ pc = "inspect" /\ Cardinality(sessions) = Len(Wanted)
  /\ \/ End("ok") \/ End("refused") \/ (Aborted /\ End("cancelled"))
  /\ UNCHANGED <<request, at, read, origin, sessions, lease, timer, usage, staged, answer>>

(* After the preflight of a query, which precedes every scan, the request     *)
(* goes on.                                                                   *)
GoOn ==
  IF op = "execute" /\ at = 1 /\ verdict = "ok" /\ ~Aborted
  THEN pc' = "estimate" /\ verdict' = "none" ELSE pc' = "finally" /\ UNCHANGED verdict

(* A mutant: only the agent's session is closed.                              *)
CloseAgent ==
  /\ pc = "close" /\ GoOn /\ sessions' = sessions \ {"agent"}
  /\ UNCHANGED <<request, at, read, origin, lease, timer, usage, staged, answer>>

(* Both sessions are closed, however the work in them ended.                  *)
Close ==
  /\ pc = "close" /\ GoOn /\ sessions' = {}
  /\ UNCHANGED <<request, at, read, origin, lease, timer, usage, staged, answer>>
------------------------------------------------------------------------------
(* A preview reads a withheld object like any other: its rows are counted and *)
(* none of them is entitled.  A query leaves its source alone.                *)
Skipped == Here.kind = "withheld" /\ op = "execute"

(* A mutant: a source counts as reached once it has answered.                 *)
EstimateLate ==
  /\ pc = "estimate" /\ at <= Len(scans) /\ ~Skipped
  /\ contacted' = contacted \cup {Here.source} /\ pc' = "asked"
  /\ UNCHANGED <<request, at, read, origin, sessions, lease, timer, reached, usedKey, tokens, staged, verdict, answer>>

(* Every scan is estimated before any row is read.  The source counts as      *)
(* reached before it is asked.  A preview reports no usage.                   *)
Estimate ==
  /\ pc = "estimate" /\ at <= Len(scans) /\ ~Skipped
  /\ reached' = (IF op = "execute" THEN reached \cup {Here.source} ELSE reached)
  /\ contacted' = contacted \cup {Here.source}
  /\ pc' = "asked"
  /\ UNCHANGED <<request, at, read, origin, sessions, lease, timer, usedKey, tokens, staged, verdict, answer>>

(* The planner's guess is unknown, above the limit or within it; a preview    *)
(* only needs one.                                                            *)
Estimated ==
  /\ pc = "asked"
  /\ \/ Lose /\ UNCHANGED at
     \/ ~Aborted /\ pc' = "estimate" /\ at' = at + 1 /\ UNCHANGED verdict
  /\ UNCHANGED <<request, read, origin, sessions, lease, timer, usage, staged, answer>>

SkipWithheld ==
  /\ pc = "estimate" /\ at <= Len(scans) /\ Skipped
  /\ at' = at + 1
  /\ UNCHANGED <<request, pc, read, origin, sessions, lease, timer, usage, staged, verdict, answer>>

AllEstimated ==
  /\ pc = "estimate" /\ at > Len(scans)
  /\ at' = 1 /\ pc' = (IF op = "preview" THEN "stage" ELSE "query")
  /\ UNCHANGED <<request, read, origin, sessions, lease, timer, usage, staged, verdict, answer>>

(* Both sessions are there: staging begins.                                   *)
BeginStaging ==
  /\ pc = "query" /\ at = 1 /\ sessions = {"privileged", "agent"}
  /\ pc' = "stage"
  /\ UNCHANGED <<request, at, read, origin, sessions, lease, timer, usage, staged, verdict, answer>>
------------------------------------------------------------------------------
Capped == IF Here.size > MaxStagingRows + 1 THEN MaxStagingRows + 1 ELSE Here.size

(* A withheld object is an empty table.  A plain one is copied by DuckDB's    *)
(* scanner, one row more than the limit at most.  Any other is read by batches. *)
StageScan ==
  /\ pc = "stage" /\ at <= Len(scans)
  /\ \/ (Aborted \/ ~Skipped) /\ Lose /\ UNCHANGED <<at, read, contacted, staged>>
     \/ /\ ~Aborted /\ Skipped
        /\ at' = at + 1 /\ UNCHANGED <<pc, read, contacted, staged, verdict>>
     \/ /\ ~Aborted /\ Here.kind = "plain" /\ op = "execute"
        /\ contacted' = contacted \cup {Here.source}
        /\ staged' = [staged EXCEPT ![at] = Capped]
        /\ pc' = "count" /\ UNCHANGED <<at, read, verdict>>
     \/ /\ ~Aborted /\ (Here.kind \in {"tokenized", "filtered"} \/ op = "preview")
        /\ contacted' = contacted \cup {Here.source}
        /\ read' = 0 /\ pc' = "reading" /\ UNCHANGED <<at, staged, verdict>>
  /\ UNCHANGED <<request, origin, sessions, lease, timer, reached, usedKey, tokens, answer>>

(* A batch: fetched, filtered, treated and appended; a row more than the limit *)
(* refuses.  A batch is one row here.                                         *)
Batch ==
  /\ pc = "reading" /\ read < Capped
  /\ IF Aborted \/ read >= MaxStagingRows THEN Lose /\ UNCHANGED <<read, usedKey, tokens, staged>>
     ELSE \/ /\ read' = read + 1
             /\ \/ staged' = [staged EXCEPT ![at] = @ + 1]
                \/ Here.kind \in {"filtered", "withheld"} /\ UNCHANGED staged
             /\ usedKey' = (usedKey \/ (op = "execute" /\ Here.kind = "tokenized"))
             /\ tokens' = (tokens \/ Here.kind = "tokenized")
             /\ UNCHANGED <<pc, verdict>>
          \/ \* the row was tokenized, and the batch then failed
             /\ usedKey' = (usedKey \/ (op = "execute" /\ Here.kind = "tokenized"))
             /\ tokens' = (tokens \/ Here.kind = "tokenized")
             /\ Lose /\ UNCHANGED <<read, staged>>
  /\ UNCHANGED <<request, at, origin, sessions, lease, timer, reached, contacted, answer>>

ReadAll ==
  /\ pc = "reading" /\ read = Capped
  /\ \/ pc' = "count" /\ UNCHANGED verdict
     \/ Lose
  /\ UNCHANGED <<request, at, read, origin, sessions, lease, timer, usage, staged, answer>>

(* A mutant: the rows staged are not counted.                                 *)
CountNothing ==
  /\ pc = "count" /\ pc' = "stage" /\ at' = at + 1
  /\ UNCHANGED <<request, read, origin, sessions, lease, timer, usage, staged, verdict, answer>>

(* What was staged is counted before it is passed to the agent's session.     *)
Count ==
  /\ pc = "count"
  /\ \/ (staged[at] > MaxStagingRows \/ op = "execute") /\ Lose /\ UNCHANGED at
     \/ staged[at] <= MaxStagingRows /\ pc' = "stage" /\ at' = at + 1 /\ UNCHANGED verdict
  /\ UNCHANGED <<request, read, origin, sessions, lease, timer, usage, staged, answer>>

(* The agent's session is hardened, the statement inspected again and run;    *)
(* an abort that no statement felt is seen when the sessions are closed.      *)
Query ==
  /\ pc = "stage" /\ at > Len(scans)
  /\ \/ (op = "preview" \/ ~Aborted) /\ End("ok")
     \/ op = "execute" /\ Lose
  /\ UNCHANGED <<request, at, read, origin, sessions, lease, timer, usage, staged, answer>>

(* A mutant: a refusal says nothing of what was used.                         *)
AnswerSuccessOnly ==
  /\ pc = "finally" /\ pc' = "done" /\ lease' = FALSE /\ timer' = FALSE
  /\ answer' = [kind |-> IF verdict = "ok" /\ ~(Aborted /\ op # "preview") THEN "rows" ELSE "refused",
                reached |-> IF verdict = "ok" THEN reached ELSE {}, key |-> verdict = "ok" /\ usedKey]
  /\ UNCHANGED <<request, at, read, origin, sessions, usage, staged, verdict>>

(* The custody values of a result are sealed, the timer stopped, the lease    *)
(* given back; every answer, and every refusal, carries the usage.            *)
Answer ==
  /\ pc = "finally" /\ pc' = "done" /\ lease' = FALSE /\ timer' = FALSE
  /\ answer' =
       [kind |-> CASE op # "preview" /\ Aborted -> "cancelled" [] verdict # "ok" -> verdict
                   [] op = "validate" \/ \E i \in DOMAIN scans : scans[i].kind = "withheld" -> "no rows" [] OTHER -> "rows",
        reached |-> reached, key |-> usedKey]
  /\ UNCHANGED <<request, at, read, origin, sessions, usage, staged, verdict>>

Next ==
  \/ \E by \in {"parent", "engine_deadline"} : Abort(by)
  \/ NotAdmitted \/ Admit \/ Open \/ Inspect \/ Close
  \/ Estimate \/ Estimated \/ SkipWithheld \/ AllEstimated \/ BeginStaging
  \/ StageScan \/ Batch \/ ReadAll \/ Count \/ Query \/ Answer
Spec == Init /\ [][Next]_vars
------------------------------------------------------------------------------
(* When a request has been answered, however it ended, no session, lease or   *)
(* timer of it is left (withAgent, execute: the finally clauses).             *)
NothingLeftOpen == pc = "done" => sessions = {} /\ ~lease /\ ~timer

(* Every source a query asked and every key it tokenized with are named in its *)
(* answer, in a refusal and after a cancellation too (execute: usage).        *)
UsageIsReported == op = "execute" /\ pc = "done" => contacted \subseteq answer.reached /\ (tokens => answer.key)

(* Rows are answered only over all of the rows of every object, never over    *)
(* the first of them, and never once the request has been aborted (execute).  *)
AnswerIsWhole ==
  op = "execute" /\ answer.kind = "rows" =>
    /\ ~Aborted
    /\ \A i \in DOMAIN scans :
         /\ scans[i].size <= MaxStagingRows
         /\ scans[i].kind # "filtered" => staged[i] = scans[i].size
==============================================================================
