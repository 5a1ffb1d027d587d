------------------------ MODULE SourceConnectionProofs ------------------------
(***************************************************************************)
(* Proofs about SourceConnection, for any sources, engines, gateways and   *)
(* number of requests and failures.                                        *)
(*                                                                         *)
(* A step leaves the runs alone, adds one for a source that has no active  *)
(* run, or moves an active one on, never back to the queue (RunSteps).  So *)
(* the active run of a source is its latest, and the gateway that took a   *)
(* run from the queue is the only one to execute it.                       *)
(***************************************************************************)
EXTENDS SourceConnection, SequenceTheorems, FiniteSetTheorems, TLAPS

(* A run is a row of a source that exists, and its index is one a gateway   *)
(* has a job for.                                                          *)
LEMMA Runs ==
  ASSUME TypeOK
  PROVE  /\ Len(run) \in Nat /\ DOMAIN run = 1..Len(run) /\ DOMAIN run \subseteq RunIds
         /\ \A i \in DOMAIN run :
              /\ run[i] \in RunRow
              /\ run[i].source \in DOMAIN source /\ run[i].source \in Sources
              /\ source[run[i].source] \in SourceRow
<1>1. /\ Len(run) \in Nat /\ DOMAIN run = 1..Len(run)
      /\ \A i \in DOMAIN run : run[i] \in RunRow
  BY LenProperties, ElementOfSeq DEF TypeOK
<1>2. DOMAIN run \subseteq RunIds
  BY <1>1, ConnectionAssumption DEF TypeOK, RunIds
<1>3. QED
  BY <1>1, <1>2 DEF TypeOK

Adds(s) ==
  /\ s \in Sources /\ s \in DOMAIN source' /\ ActiveRuns(s) = {}
  /\ run' = Append(run, Queued(s)) /\ requests' = requests + 1

(* Run i is moved on: all that changes is its state and its engine.        *)
Moves(i) ==
  /\ i \in DOMAIN run /\ run[i].state \in Active
  /\ run' \in Seq(RunRow) /\ Len(run') = Len(run) /\ DOMAIN run' = DOMAIN run
  /\ run'[i].source = run[i].source /\ run'[i].state # "queued"
  /\ \A j \in DOMAIN run : j # i => run'[j] = run[j]

(* The runs after a step that adds one.                                    *)
LEMMA Added ==
  ASSUME TypeOK, NEW s, Adds(s)
  PROVE  /\ run' \in Seq(RunRow) /\ Len(run') = Len(run) + 1
         /\ DOMAIN run' = 1..(Len(run) + 1)
         /\ DOMAIN run' = DOMAIN run \cup {Len(run) + 1}
         /\ \A i \in DOMAIN run : run'[i] = run[i]
         /\ run'[Len(run) + 1] = Queued(s)
<1>1. Queued(s) \in RunRow
  BY DEF Adds, Queued, RunRow, Active
<1>2. /\ run' \in Seq(RunRow) /\ Len(run') = Len(run) + 1
      /\ \A i \in 1..Len(run) : run'[i] = run[i]
      /\ run'[Len(run) + 1] = Queued(s)
  BY <1>1, AppendProperties DEF Adds, TypeOK
<1>3. DOMAIN run' = 1..Len(run')
  BY <1>2, LenProperties
<1>4. QED
  BY <1>2, <1>3, Runs

----------------------------------------------------------------------------
(* What a step does to the runs *)

LEMMA Advanced ==
  ASSUME TypeOK, NEW i \in DOMAIN run, run[i].state \in Active,
         NEW state \in {"connecting", "reading", "diffing", "complete", "failed", "cancelled"},
         NEW via \in Engines \cup {Null},
         \/ run' = [run EXCEPT ![i].state = state] /\ via = run[i].via
         \/ run' = [run EXCEPT ![i].state = state, ![i].via = via]
  PROVE  Moves(i) /\ run'[i].state = state /\ run'[i].via = via
<1>1. i \in 1..Len(run) /\ run[i] \in RunRow /\ Len(run) \in Nat /\ DOMAIN run = 1..Len(run)
  BY Runs
<1>2. run \in [1..Len(run) -> RunRow]
  BY LenProperties DEF TypeOK
<1>3. /\ run' \in [1..Len(run) -> RunRow]
      /\ run'[i].source = run[i].source /\ run'[i].state = state /\ run'[i].via = via
      /\ \A j \in 1..Len(run) : j # i => run'[j] = run[j]
  <2>1. CASE run' = [run EXCEPT ![i].state = state] /\ via = run[i].via
    BY <1>1, <1>2, <2>1 DEF RunRow, Active
  <2>2. CASE run' = [run EXCEPT ![i].state = state, ![i].via = via]
    BY <1>1, <1>2, <2>2 DEF RunRow, Active
  <2>3. QED
    BY <2>1, <2>2
<1>4. run' \in Seq(RunRow)
  BY <1>1, <1>3, SeqDef
<1>5. Len(run') = Len(run) /\ DOMAIN run' = DOMAIN run
  BY <1>1, <1>3, <1>4, LenProperties
<1>6. QED
  BY <1>1, <1>3, <1>4, <1>5 DEF Moves

LEMMA StateAdvanced ==
  ASSUME TypeOK, NEW i \in DOMAIN run, run[i].state \in Active,
         NEW state \in {"connecting", "reading", "diffing", "complete", "failed", "cancelled"},
         run' = [run EXCEPT ![i].state = state]
  PROVE  Moves(i) /\ run'[i].state = state /\ run'[i].via = run[i].via
<1>1. i \in 1..Len(run) /\ run[i] \in RunRow /\ Len(run) \in Nat /\ DOMAIN run = 1..Len(run)
  BY Runs
<1>2. run \in [1..Len(run) -> RunRow]
  BY LenProperties DEF TypeOK
<1>3. /\ run' \in [1..Len(run) -> RunRow]
      /\ run'[i].source = run[i].source /\ run'[i].state = state /\ run'[i].via = run[i].via
      /\ \A j \in 1..Len(run) : j # i => run'[j] = run[j]
  BY <1>1, <1>2 DEF RunRow, Active
<1>4. run' \in Seq(RunRow)
  BY <1>1, <1>3, SeqDef
<1>5. Len(run') = Len(run) /\ DOMAIN run' = DOMAIN run
  BY <1>1, <1>3, <1>4, LenProperties
<1>6. QED
  BY <1>1, <1>3, <1>4, <1>5 DEF Moves

(* What a gateway may do to a run and its source.                          *)
Kept(i) == Moves(i) /\ run'[i].via = run[i].via /\ source' = source
MarkedAs(s, status) == Live(s) /\ source' = [source EXCEPT ![s].status = status]

Taken(i) == Kept(i) /\ run[i].state = "queued" /\ run'[i].state = "connecting" /\ Live(run[i].source)
Tested(i) ==
  /\ Moves(i) /\ source' = source
  /\ run[i].state = "connecting" /\ run'[i].state = "reading"
  /\ run'[i].via = EngineOf(run[i].source)
WasRead(i) == Kept(i) /\ run[i].state = "reading" /\ run'[i].state = "diffing"
CalledOff(i) == Kept(i) /\ run'[i].state = "cancelled"
Failed(i) ==
  /\ Moves(i) /\ run[i].state # "queued" /\ run'[i].state = "failed"
  /\ source' = source \/ MarkedAs(run[i].source, "unreachable")
Published(i) ==
  /\ Moves(i) /\ run'[i].via = run[i].via
  /\ run[i].state = "diffing" /\ run'[i].state = "complete"
  /\ MarkedAs(run[i].source, "connected")

WorkStep(i) ==
  \/ run' = run /\ source' = source
  \/ Taken(i) \/ Tested(i) \/ WasRead(i) \/ CalledOff(i) \/ Failed(i) \/ Published(i)

LEMMA Works ==
  ASSUME TypeOK, NEW g \in Gateways, NEW i \in DOMAIN run, Work(g, i)
  PROVE  WorkStep(i)
<1>1. run[i] \in RunRow /\ run[i].via \in Engines \cup {Null} /\ run[i].source \in DOMAIN source
  BY Runs DEF RunRow
<1>2. ASSUME NEW state \in {"connecting", "complete", "failed", "cancelled"},
             run[i].state \in Active, run' = [run EXCEPT ![i].state = state]
      PROVE  Moves(i) /\ run'[i].state = state /\ run'[i].via = run[i].via
  <2>1. state \in {"connecting", "reading", "diffing", "complete", "failed", "cancelled"}
    BY <1>2
  <2>2. QED
    BY <1>2, <2>1, StateAdvanced
<1>3. ASSUME NEW from \in Active, NEW to \in {"reading", "diffing"}, NEW via \in Engines \cup {Null},
             Advance(g, i, from, to, via)
      PROVE  \/ run' = run
             \/ Moves(i) /\ run[i].state = from /\ run'[i].state = to /\ run'[i].via = via
  BY <1>1, <1>3, Advanced DEF Advance
<1>4. ASSUME NEW unreachable, Fail(i, unreachable)
      PROVE  WorkStep(i)
  <2>1. CASE run[i].state \in Failable
    <3>1. Moves(i) /\ run'[i].state = "failed" /\ run[i].state # "queued"
      BY <1>2, <1>4, <2>1 DEF Fail, Failable, Active
    <3>2. source' = source \/ MarkedAs(run[i].source, "unreachable")
      BY <1>4, <2>1 DEF Fail, MarkedAs
    <3>3. QED
      BY <3>1, <3>2 DEF WorkStep, Failed
  <2>2. CASE run[i].state \notin Failable
    BY <1>4, <2>2 DEF Fail, WorkStep
  <2>3. QED
    BY <2>1, <2>2
<1>5. CASE Claim(g, i) \/ Unsecured(g, i)
  <2>1. source' = source
    BY <1>5 DEF Claim, Unsecured
  <2>2. CASE Claimable(i)
    <3>1. /\ run[i].state = "queued" /\ Live(run[i].source)
          /\ run' = [run EXCEPT ![i].state = "connecting"]
      BY <1>5, <2>2 DEF Claim, Unsecured, Claimable
    <3>2. QED
      BY <1>2, <2>1, <3>1 DEF Active, WorkStep, Taken, Kept
  <2>3. CASE ~Claimable(i)
    BY <1>5, <2>1, <2>3 DEF Claim, Unsecured, WorkStep
  <2>4. QED
    BY <2>2, <2>3
<1>6. CASE Test(g, i)
  <2>1. EngineOf(run[i].source) \in Engines
    BY <1>1, Runs DEF EngineOf, SourceRow
  <2>2. source' = source /\ Advance(g, i, "connecting", "reading", EngineOf(run[i].source))
    BY <1>6 DEF Test
  <2>3. QED
    BY <1>3, <2>1, <2>2 DEF Active, WorkStep, Tested
<1>7. CASE Read(g, i)
  <2>1. source' = source /\ Advance(g, i, "reading", "diffing", run[i].via)
    BY <1>7 DEF Read
  <2>2. QED
    BY <1>1, <1>3, <2>1 DEF Active, WorkStep, WasRead, Kept
<1>8. CASE Stop(g, i)
  <2>1. source' = source /\ run' = Cancelled(i)
    BY <1>8 DEF Stop
  <2>2. QED
    BY <1>2, <2>1 DEF Cancelled, Cancellable, Active, WorkStep, CalledOff, Kept
<1>9. CASE Publish(g, i)
  <2>1. CASE run[i].state = "diffing" /\ Live(run[i].source)
    <3>1. /\ run' = [run EXCEPT ![i].state = "complete"]
          /\ source' = [source EXCEPT ![run[i].source].status = "connected"]
      BY <1>9, <2>1 DEF Publish
    <3>2. Moves(i) /\ run'[i].state = "complete" /\ run'[i].via = run[i].via
      BY <1>2, <2>1, <3>1 DEF Active
    <3>3. QED
      BY <2>1, <3>1, <3>2 DEF WorkStep, Published, MarkedAs
  <2>2. CASE ~(run[i].state = "diffing" /\ Live(run[i].source))
    BY <1>4, <1>9, <2>2 DEF Publish
  <2>3. QED
    BY <2>1, <2>2
<1>10. CASE Refuse(g, i) \/ ContactFails(g, i) \/ PublishFails(g, i)
  BY <1>4, <1>10 DEF Refuse, ContactFails, PublishFails
<1>11. CASE ReadSource(g, i)
  BY <1>4, <1>11 DEF ReadSource, WorkStep
<1>12. CASE Pick(g, i)
  BY <1>12 DEF Pick, WorkStep
<1>13. QED
  BY <1>5, <1>6, <1>7, <1>8, <1>9, <1>10, <1>11, <1>12 DEF Work

RunStep ==
  \/ run' = run
  \/ \E s \in Sources : Adds(s)
  \/ \E i \in DOMAIN run : Moves(i)

LEMMA RunSteps ==
  ASSUME TypeOK, Next
  PROVE  RunStep
<1> USE DEF RunStep
<1>1. ASSUME NEW s \in Sources, NEW e \in Engines, Create(s, e)
      PROVE  RunStep
  <2>1. ActiveRuns(s) = {} /\ s \in DOMAIN source'
    BY <1>1, Runs DEF Create, ActiveRuns, RunsOf
  <2>2. QED
    BY <1>1, <2>1 DEF Create, Adds, Request
<1>2. ASSUME NEW s \in Sources, Retry(s)
      PROVE  RunStep
  <2>1. s \in DOMAIN source'
    BY <1>2 DEF Retry, Live
  <2>2. QED
    BY <1>2, <2>1 DEF Retry, Adds, Request
<1>3. ASSUME NEW s \in Sources, NEW e \in Engines, Assign(s, e)
      PROVE  RunStep
  <2>1. s \in DOMAIN source'
    BY <1>3 DEF Assign, Assigned, Live
  <2>2. QED
    BY <1>3, <2>1 DEF Assign, Adds, Request
<1>4. ASSUME NEW i \in DOMAIN run, Cancel(i)
      PROVE  RunStep
  <2>1. run[i].via \in Engines \cup {Null} /\ run[i].state \in Active
    BY <1>4, Runs DEF Cancel, Cancellable, Active, RunRow
  <2>2. QED
    BY <1>4, <2>1, StateAdvanced DEF Cancel, Cancelled
<1>5. ASSUME NEW s \in Sources, Archive(s)
      PROVE  RunStep
  BY <1>5 DEF Archive
<1>6. ASSUME NEW g \in Gateways, Crash(g)
      PROVE  RunStep
  BY <1>6 DEF Crash
<1>7. ASSUME NEW e \in Engines, Sync(e) \/ Beat(e) \/ Adopt(e) \/ GiveUp(e) \/ Restart(e)
      PROVE  RunStep
  BY <1>7 DEF Sync, Beat, Adopt, GiveUp, Restart
<1>8. ASSUME NEW b \in late, BeatLate(b)
      PROVE  RunStep
  BY <1>8 DEF BeatLate
<1>9. ASSUME NEW g \in Gateways, NEW i \in DOMAIN run, Work(g, i)
      PROVE  RunStep
  BY <1>9, Works DEF WorkStep, Taken, Tested, WasRead, CalledOff, Failed, Published, Kept
<1>10. QED
  BY <1>1, <1>2, <1>3, <1>4, <1>5, <1>6, <1>7, <1>8, <1>9 DEF Next

----------------------------------------------------------------------------
(* Types *)

LEMMA Counters ==
  ASSUME TypeOK, Next
  PROVE  /\ requests' \in 0..MaxRequests /\ requests <= requests'
         /\ upsets' \in 0..MaxUpsets
<1> USE ConnectionAssumption DEF TypeOK, Request, Upset, Spend
<1>1. ASSUME NEW s \in Sources, Retry(s) \/ Archive(s) \/ \E e \in Engines : Create(s, e) \/ Assign(s, e)
      PROVE  requests' \in 0..MaxRequests /\ requests <= requests' /\ upsets' = upsets
  BY <1>1 DEF Retry, Archive, Create, Assign
<1>2. ASSUME NEW i \in DOMAIN run, Cancel(i)
      PROVE  requests' \in 0..MaxRequests /\ requests <= requests' /\ upsets' = upsets
  BY <1>2 DEF Cancel
<1>3. ASSUME NEW g \in Gateways, NEW i \in DOMAIN run, Work(g, i)
      PROVE  requests' = requests /\ upsets' \in 0..MaxUpsets
  <2>1. CASE Pick(g, i) \/ Claim(g, i) \/ Refuse(g, i) \/ ReadSource(g, i) \/ Test(g, i) \/ Read(g, i)
    BY <2>1 DEF Pick, Claim, Refuse, ReadSource, Test, Read
  <2>2. CASE ContactFails(g, i) \/ Publish(g, i) \/ PublishFails(g, i)
    BY <2>2 DEF ContactFails, Publish, PublishFails
  <2>3. CASE Unsecured(g, i) \/ Stop(g, i)
    BY <2>3 DEF Unsecured, Stop
  <2>4. QED
    BY <1>3, <2>1, <2>2, <2>3 DEF Work
<1>4. ASSUME NEW g \in Gateways, Crash(g)
      PROVE  requests' = requests /\ upsets' \in 0..MaxUpsets
  BY <1>4 DEF Crash
<1>5. ASSUME NEW e \in Engines, Beat(e) \/ GiveUp(e) \/ Restart(e)
      PROVE  requests' = requests /\ upsets' \in 0..MaxUpsets
  BY <1>5 DEF Beat, GiveUp, Restart
<1>6. ASSUME NEW e \in Engines, Sync(e) \/ Adopt(e)
      PROVE  requests' = requests /\ upsets' \in 0..MaxUpsets
  <2>1. \A policy : \A f \in Failing(policy) : f.cost \in {0, 1}
    BY DEF Failing
  <2>2. requests' = requests /\ \E cost \in {0, 1} : Spend(cost)
    BY <1>6, <2>1 DEF Sync, Adopt
  <2>3. QED
    BY <2>2
<1>7. ASSUME NEW b \in late, BeatLate(b)
      PROVE  requests' = requests /\ upsets' = upsets
  BY <1>7 DEF BeatLate
<1>8. QED
  BY <1>1, <1>2, <1>3, <1>4, <1>5, <1>6, <1>7 DEF Next

(* What an acknowledgment makes of the rows.                               *)
LEMMA HeardRows ==
  ASSUME TypeOK, NEW e, NEW applied, NEW denied, source' = Heard(e, applied, denied)
  PROVE  /\ DOMAIN source' = DOMAIN source /\ source' \in [DOMAIN source -> SourceRow]
         /\ \A s \in DOMAIN source : source'[s].engine = source[s].engine
         /\ \A s \in DOMAIN source : source[s].status = "archived" => source'[s] = source[s]
         /\ \A s \in DOMAIN source : source'[s].status = "connected" => source[s].status = "connected"
<1>1. ASSUME NEW s \in DOMAIN source
      PROVE  /\ Acknowledged(s, denied) \in SourceRow
             /\ Acknowledged(s, denied).engine = source[s].engine
             /\ Acknowledged(s, denied).status = "connected" => source[s].status = "connected"
  <2>1. source[s] \in SourceRow
    BY DEF TypeOK
  <2>2. QED
    BY <2>1 DEF Acknowledged, SourceRow
<1>2. CASE source' = source
  BY <1>2 DEF TypeOK
<1>3. CASE source' = [s \in DOMAIN source |-> IF s \in Version(e) THEN Acknowledged(s, denied) ELSE source[s]]
  BY <1>1, <1>3 DEF TypeOK, Version, Live
<1>4. QED
  BY <1>2, <1>3 DEF Heard

(* A row is rewritten by the action that names its source.                 *)
LEMMA Rows ==
  ASSUME TypeOK, Next
  PROVE  /\ DOMAIN source \subseteq DOMAIN source' /\ DOMAIN source' \subseteq Sources
         /\ source' \in [DOMAIN source' -> SourceRow]
<1> DEFINE Good == /\ DOMAIN source \subseteq DOMAIN source' /\ DOMAIN source' \subseteq Sources
                   /\ source' \in [DOMAIN source' -> SourceRow]
<1>1. ASSUME source' = source PROVE Good
  BY <1>1 DEF TypeOK
<1>2. ASSUME NEW s \in DOMAIN source, NEW row \in SourceRow, source' = [source EXCEPT ![s] = row] PROVE Good
  BY <1>2 DEF TypeOK
<1>3. ASSUME NEW s \in DOMAIN source,
             NEW status \in {"pending", "pending_egress", "unreachable", "connected", "archived"},
             source' = [source EXCEPT ![s].status = status] PROVE Good
  <2>1. source[s] \in SourceRow
    BY DEF TypeOK
  <2>2. [source[s] EXCEPT !.status = status] \in SourceRow
    BY <2>1 DEF SourceRow
  <2>3. QED
    BY <1>2, <1>3, <2>2
<1>4. ASSUME NEW e \in Engines PROVE HeldAt(e) \in SourceRow
  BY DEF HeldAt, SourceRow
<1>5. ASSUME NEW s \in Sources, NEW e \in Engines, Create(s, e) PROVE Good
  BY <1>4, <1>5 DEF Create, TypeOK
<1>6. ASSUME NEW s \in Sources, Retry(s) \/ Archive(s) PROVE Good
  BY <1>3, <1>6 DEF Retry, Archive, Live
<1>7. ASSUME NEW s \in Sources, NEW e \in Engines, Assign(s, e) PROVE Good
  BY <1>2, <1>4, <1>7 DEF Assign, Assigned, Live
<1>8. ASSUME NEW i \in DOMAIN run, Cancel(i) PROVE Good
  BY <1>1, <1>8 DEF Cancel
<1>9. ASSUME NEW g \in Gateways, NEW i \in DOMAIN run, Work(g, i) PROVE Good
  <2>1. source' = source \/ \E status \in {"unreachable", "connected"} : MarkedAs(run[i].source, status)
    BY <1>9, Works DEF WorkStep, Taken, Tested, WasRead, CalledOff, Failed, Published, Kept
  <2>2. QED
    BY <1>1, <1>3, <2>1, Runs DEF MarkedAs
<1>10. ASSUME NEW g \in Gateways, Crash(g) PROVE Good
  BY <1>1, <1>10 DEF Crash
<1>11. ASSUME NEW e \in Engines, Sync(e) \/ Adopt(e) \/ GiveUp(e) \/ Restart(e) PROVE Good
  BY <1>1, <1>11 DEF Sync, Adopt, GiveUp, Restart
<1>12. ASSUME NEW e \in Engines, Beat(e) PROVE Good
  BY <1>12, HeardRows DEF Beat, TypeOK
<1>13. ASSUME NEW b \in late, BeatLate(b) PROVE Good
  BY <1>13, HeardRows DEF BeatLate, TypeOK
<1>14. QED
  BY <1>5, <1>6, <1>7, <1>8, <1>9, <1>10, <1>11, <1>12, <1>13 DEF Next

LEMMA Jobs ==
  ASSUME TypeOK, Next
  PROVE  job' \in [Gateways -> [RunIds -> Stages]]
<1>1. ASSUME NEW g \in Gateways, NEW i \in DOMAIN run, Work(g, i)
      PROVE  \E stage \in Stages : Goes(g, i, stage)
  <2>1. CASE Pick(g, i) \/ Claim(g, i) \/ Refuse(g, i) \/ ReadSource(g, i) \/ Unsecured(g, i) \/ Stop(g, i)
    BY <2>1 DEF Pick, Claim, Refuse, ReadSource, Unsecured, Stop, Stages
  <2>2. CASE Test(g, i) \/ Read(g, i)
    BY <2>2 DEF Test, Read, Advance, Stages
  <2>3. CASE ContactFails(g, i) \/ Publish(g, i) \/ PublishFails(g, i)
    BY <2>3 DEF ContactFails, Publish, PublishFails, Stages
  <2>4. QED
    BY <1>1, <2>1, <2>2, <2>3 DEF Work
<1>2. ASSUME NEW g \in Gateways, NEW i \in DOMAIN run, Work(g, i)
      PROVE  job' \in [Gateways -> [RunIds -> Stages]]
  <2>1. i \in RunIds
    BY Runs
  <2>2. PICK stage \in Stages : job' = [job EXCEPT ![g][i] = stage]
    BY <1>1, <1>2 DEF Goes
  <2>3. job \in [Gateways -> [RunIds -> Stages]]
    BY DEF TypeOK
  <2>4. QED
    BY <2>1, <2>2, <2>3
<1>3. ASSUME NEW g \in Gateways, Crash(g)
      PROVE  job' \in [Gateways -> [RunIds -> Stages]]
  BY <1>3 DEF Crash, TypeOK, Stages
<1>4. CASE job' = job
  BY <1>4 DEF TypeOK
<1>5. ASSUME NEW s \in Sources, Retry(s) \/ Archive(s) \/ \E e \in Engines : Create(s, e) \/ Assign(s, e)
      PROVE  job' = job
  BY <1>5 DEF Retry, Archive, Create, Assign
<1>6. ASSUME NEW e \in Engines, Sync(e) \/ Beat(e) \/ Adopt(e) \/ GiveUp(e) \/ Restart(e)
      PROVE  job' = job
  BY <1>6 DEF Sync, Beat, Adopt, GiveUp, Restart
<1>7. QED
  BY <1>2, <1>3, <1>4, <1>5, <1>6 DEF Next, Cancel, BeatLate

(* What names fail to resolve are names of the policy.                     *)
LEMMA FailingNames ==
  ASSUME NEW policy \in Policies, NEW f \in Failing(policy)
  PROVE  f.names \subseteq Endpoints(policy) /\ Endpoints(policy) \subseteq Sources
BY DEF Policies, Failing, Endpoints

LEMMA Controllers ==
  ASSUME TypeOK, Next
  PROVE  /\ controller' \in [Engines -> Controller]
         /\ late' \subseteq [engine : Engines, applied : Policies, denied : SUBSET Sources]
<1> DEFINE Lates == [engine : Engines, applied : Policies, denied : SUBSET Sources]
           Good == controller' \in [Engines -> Controller] /\ late' \subseteq Lates
<1>1. ASSUME NEW e \in Engines, NEW c \in Controller, Becomes(e, c), late' = late
      PROVE  Good
  BY <1>1 DEF Becomes, TypeOK
<1>2. ASSUME NEW c \in Controller, NEW policy \in Policies
      PROVE  /\ \A f \in Failing(policy) : Installed(c, policy, f.names) \in Controller
             /\ NotInstalled(c, policy) \subseteq Controller
  <2>1. \A names \in SUBSET Endpoints(policy) : Installed(c, policy, names) \in Controller
    <3>1. Endpoints(policy) \subseteq Sources
      BY DEF Endpoints, Policies
    <3>2. QED
      BY <3>1 DEF Installed, Controller
  <2>2. \A open \in SUBSET Sources :
          [c EXCEPT !.policy = policy, !.applied = Null, !.open = open] \in Controller
    BY DEF Controller, Policies
  <2>3. c.open \in SUBSET Sources
    BY DEF Controller
  <2>4. NotInstalled(c, policy) \subseteq Controller
    BY <2>2, <2>3 DEF NotInstalled
  <2>5. QED
    BY <2>1, <2>4, FailingNames
<1>3. ASSUME NEW e \in Engines, Sync(e) PROVE Good
  <2> DEFINE c == controller[e]
  <2>1. c \in Controller /\ c.policy \in Policies
    BY DEF TypeOK, Controller
  <2>2. \A f \in Failing(c.policy) : [Installed(c, c.policy, f.names) EXCEPT !.phase = "asking"] \in Controller
    <3>1. \A d \in Controller : [d EXCEPT !.phase = "asking"] \in Controller
      BY DEF Controller
    <3>2. QED
      BY <1>2, <2>1, <3>1
  <2>3. NotInstalled(c, c.policy) \subseteq Controller
    BY <1>2, <2>1
  <2>4. \E d \in Controller : Becomes(e, d) /\ late' = late
    BY <1>3, <2>2, <2>3 DEF Sync
  <2>5. QED
    BY <1>1, <2>4
<1>4. ASSUME NEW e \in Engines, Beat(e) PROVE Good
  <2>1. controller[e] \in Controller /\ Version(e) \in Policies
    BY DEF TypeOK, Version, Policies
  <2>2. /\ [controller[e] EXCEPT !.phase = "rest"] \in Controller
        /\ [controller[e] EXCEPT !.phase = "told", !.told = Version(e)] \in Controller
    BY <2>1 DEF Controller
  <2>3. QED
    BY <1>1, <1>4, <2>2 DEF Beat
<1>5. ASSUME NEW e \in Engines, Adopt(e) PROVE Good
  <2> DEFINE c == controller[e]
  <2>1. c \in Controller /\ c.told \in Policies
    BY DEF TypeOK, Controller
  <2>2. \A d \in Controller :
          /\ [d EXCEPT !.phase = "rest", !.told = Null] \in Controller
          /\ [[d EXCEPT !.phase = "rest", !.told = Null] EXCEPT !.saved = c.told] \in Controller
    BY <2>1 DEF Controller, Policies
  <2>3. /\ \A f \in Failing(c.told) : Installed(c, c.told, f.names) \in Controller
        /\ NotInstalled(c, c.told) \subseteq Controller
    BY <1>2, <2>1
  <2>4. \E d \in Controller : Becomes(e, d) /\ late' = late
    BY <1>5, <2>2, <2>3 DEF Adopt
  <2>5. QED
    BY <1>1, <2>4
<1>6. ASSUME NEW e \in Engines, GiveUp(e) PROVE Good
  <2>1. controller[e] \in Controller
    BY DEF TypeOK
  <2>2. [controller[e] EXCEPT !.phase = "rest", !.told = Null] \in Controller
    BY <2>1 DEF Controller, Policies
  <2>3. [engine |-> e, applied |-> controller[e].applied, denied |-> controller[e].denied] \in Lates
    BY <2>1 DEF Controller
  <2>4. controller' \in [Engines -> Controller]
    BY <1>6, <2>1, <2>2 DEF GiveUp, TypeOK, Controller, Policies
  <2>5. late' \subseteq Lates
    BY <1>6, <2>3 DEF GiveUp, TypeOK
  <2>6. QED
    BY <2>4, <2>5
<1>7. ASSUME NEW e \in Engines, Restart(e) PROVE Good
  <2>1. controller[e] \in Controller
    BY DEF TypeOK
  <2>2. [controller[e] EXCEPT !.phase = "rest", !.policy = controller[e].saved, !.told = Null,
                              !.applied = Null, !.denied = {}, !.open = {}] \in Controller
    BY <2>1 DEF Controller, Policies
  <2>3. QED
    BY <1>1, <1>7, <2>2 DEF Restart
<1>8. ASSUME controller' = controller, late' \subseteq late PROVE Good
  BY <1>8 DEF TypeOK
<1>9. ASSUME NEW s \in Sources, Retry(s) \/ Archive(s) \/ \E e \in Engines : Create(s, e) \/ Assign(s, e)
      PROVE  controller' = controller /\ late' \subseteq late
  BY <1>9 DEF Retry, Archive, Create, Assign
<1>10. ASSUME NEW g \in Gateways, NEW i \in DOMAIN run, Work(g, i)
       PROVE  controller' = controller /\ late' \subseteq late
  <2>1. CASE Pick(g, i) \/ Claim(g, i) \/ Refuse(g, i) \/ ReadSource(g, i) \/ Unsecured(g, i) \/ Stop(g, i)
    BY <2>1 DEF Pick, Claim, Refuse, ReadSource, Unsecured, Stop
  <2>2. CASE Test(g, i) \/ Read(g, i) \/ ContactFails(g, i) \/ Publish(g, i) \/ PublishFails(g, i)
    BY <2>2 DEF Test, Read, ContactFails, Publish, PublishFails
  <2>3. QED
    BY <1>10, <2>1, <2>2 DEF Work
<1>11. QED
  BY <1>3, <1>4, <1>5, <1>6, <1>7, <1>8, <1>9, <1>10 DEF Next, Cancel, Crash, BeatLate

LEMMA Initially == Init => TypeOK
<1>1. Init => run \in Seq(RunRow) /\ Len(run) = 0 /\ DOMAIN run = {}
  BY EmptySeq, LenProperties DEF Init
<1>2. Init => controller \in [Engines -> Controller]
  BY DEF Init, Controller, Policies
<1>3. Init => DOMAIN source = {} /\ source \in [DOMAIN source -> SourceRow]
  BY DEF Init
<1>4. Init => job \in [Gateways -> [RunIds -> Stages]]
  BY DEF Init, Stages
<1>5. Init => late = {} /\ requests \in 0..MaxRequests /\ upsets \in 0..MaxUpsets /\ requests = 0
  BY ConnectionAssumption DEF Init
<1>6. QED
  BY <1>1, <1>2, <1>3, <1>4, <1>5 DEF TypeOK

LEMMA TypesPreserved == TypeOK /\ [Next]_vars => TypeOK'
<1> SUFFICES ASSUME TypeOK, [Next]_vars PROVE TypeOK'
  OBVIOUS
<1>1. CASE UNCHANGED vars
  BY <1>1 DEF vars, TypeOK
<1>2. CASE Next
  <2>1. run' \in Seq(RunRow) /\ Len(run') <= requests'
    <3>1. CASE run' = run
      BY <1>2, <3>1, Counters, Runs DEF TypeOK
    <3>2. ASSUME NEW s \in Sources, Adds(s) PROVE run' \in Seq(RunRow) /\ Len(run') <= requests'
      <4>1. run' \in Seq(RunRow) /\ Len(run') = Len(run) + 1 /\ requests' = requests + 1
        BY <3>2, Added DEF Adds
      <4>2. QED
        BY <4>1, Runs DEF TypeOK
    <3>3. ASSUME NEW i \in DOMAIN run, Moves(i) PROVE run' \in Seq(RunRow) /\ Len(run') <= requests'
      BY <1>2, <3>3, Counters, Runs DEF Moves, TypeOK
    <3>4. QED
      BY <1>2, <3>1, <3>2, <3>3, RunSteps DEF RunStep
  <2>2. \A i \in DOMAIN run' : run'[i].source \in DOMAIN source'
    <3>1. DOMAIN source \subseteq DOMAIN source'
      BY <1>2, Rows
    <3>2. CASE run' = run
      BY <3>1, <3>2 DEF TypeOK
    <3>3. ASSUME NEW s \in Sources, Adds(s), NEW i \in DOMAIN run' PROVE run'[i].source \in DOMAIN source'
      BY <3>1, <3>3, Added, Runs DEF Adds, Queued
    <3>4. ASSUME NEW j \in DOMAIN run, Moves(j), NEW i \in DOMAIN run' PROVE run'[i].source \in DOMAIN source'
      BY <3>1, <3>4, Runs DEF Moves
    <3>5. QED
      BY <1>2, <3>2, <3>3, <3>4, RunSteps DEF RunStep
  <2>3. QED
    BY <1>2, <2>1, <2>2, Counters, Rows, Jobs, Controllers DEF TypeOK
<1>3. QED
  BY <1>1, <1>2

(* Type correctness: rows, runs, jobs and controllers keep the values the   *)
(* code gives them, and every run belongs to a source that exists.         *)
THEOREM ConnectionTyping == Spec => []TypeOK
BY Initially, TypesPreserved, PTL DEF Spec

----------------------------------------------------------------------------
(* One active run for a source, one gateway for a run *)

Executing(g, i) == job[g][i] \in {"claimed", "testing", "reading", "diffing"}

(* The active run of a source is its latest one.                           *)
ActiveIsLatest ==
  \A i \in DOMAIN run : run[i].state \in Active =>
    \A j \in DOMAIN run : run[j].source = run[i].source => j <= i

(* A run that is executed was taken from the queue, by one gateway.        *)
TakenOnce ==
  \A g \in Gateways, i \in RunIds :
    /\ job[g][i] # "none" => i \in DOMAIN run
    /\ Executing(g, i) =>
         /\ run[i].state # "queued"
         /\ \A h \in Gateways : Executing(h, i) => h = g

Takes(g, i) ==
  /\ i \in DOMAIN run /\ run[i].state = "queued" /\ run'[i].state # "queued"
  /\ \A h \in Gateways : h # g => job'[h][i] = job[h][i]

(* A gateway comes to execute a run by taking it from the queue.           *)
LEMMA JobSteps ==
  ASSUME TypeOK, Next, NEW g \in Gateways, NEW i \in RunIds
  PROVE  /\ job'[g][i] # "none" => job[g][i] # "none" \/ i \in DOMAIN run
         /\ Executing(g, i)' => Executing(g, i) \/ Takes(g, i)
<1> DEFINE Good == /\ job'[g][i] # "none" => job[g][i] # "none" \/ i \in DOMAIN run
                   /\ Executing(g, i)' => Executing(g, i) \/ Takes(g, i)
<1>1. CASE job' = job
  BY <1>1 DEF Executing
<1>2. ASSUME NEW s \in Sources, Retry(s) \/ Archive(s) \/ \E e \in Engines : Create(s, e) \/ Assign(s, e)
      PROVE  job' = job
  BY <1>2 DEF Retry, Archive, Create, Assign
<1>3. ASSUME NEW e \in Engines, Sync(e) \/ Beat(e) \/ Adopt(e) \/ GiveUp(e) \/ Restart(e)
      PROVE  job' = job
  BY <1>3 DEF Sync, Beat, Adopt, GiveUp, Restart
<1>4. ASSUME NEW h \in Gateways, Crash(h)
      PROVE  Good
  BY <1>4 DEF Crash, TypeOK, Executing
<1>5. ASSUME NEW h \in Gateways, NEW j \in DOMAIN run, Work(h, j)
      PROVE  Good
  <2>1. j \in RunIds /\ run[j] \in RunRow
    BY Runs
  <2>2. ASSUME NEW stage, Goes(h, j, stage)
        PROVE  /\ job'[h][j] = stage
               /\ \A k \in Gateways, n \in RunIds : k # h \/ n # j => job'[k][n] = job[k][n]
    BY <2>1, <2>2 DEF Goes, TypeOK
  <2>3. ASSUME NEW stage, Goes(h, j, stage),
               stage \in {"none", "securing", "refused"} \/ Executing(h, j) \/ Takes(h, j)
        PROVE  Good
    <3>1. CASE h = g /\ j = i
      <4>1. job'[g][i] = stage /\ i \in DOMAIN run
        BY <2>2, <2>3, <3>1
      <4>2. QED
        BY <2>3, <3>1, <4>1 DEF Executing
    <3>2. CASE ~(h = g /\ j = i)
      BY <2>2, <2>3, <3>2 DEF Executing
    <3>3. QED
      BY <3>1, <3>2
  <2>4. CASE Pick(h, j)
    BY <2>3, <2>4 DEF Pick
  <2>5. CASE Claim(h, j)
    <3>1. CASE Claimable(j)
      <4>1. Goes(h, j, "claimed") /\ run' = [run EXCEPT ![j].state = "connecting"] /\ run[j].state = "queued"
        BY <2>5, <3>1 DEF Claim, Claimable
      <4>2. run'[j].state = "connecting"
        BY <4>1, Advanced, Runs DEF Active, RunRow
      <4>3. Takes(h, j)
        BY <2>1, <2>2, <4>1, <4>2 DEF Takes
      <4>4. QED
        BY <2>3, <4>1, <4>3
    <3>2. CASE ~Claimable(j)
      BY <2>3, <2>5, <3>2 DEF Claim
    <3>3. QED
      BY <3>1, <3>2
  <2>6. CASE Unsecured(h, j) \/ Refuse(h, j) \/ Stop(h, j)
    BY <2>3, <2>6 DEF Unsecured, Refuse, Stop
  <2>7. CASE ReadSource(h, j)
    BY <2>3, <2>7 DEF ReadSource, At, Executing
  <2>8. CASE Test(h, j)
    BY <2>3, <2>8 DEF Test, Advance, At, Executing
  <2>9. CASE Read(h, j)
    BY <2>3, <2>9 DEF Read, Advance, At, Executing
  <2>10. CASE ContactFails(h, j) \/ Publish(h, j) \/ PublishFails(h, j)
    BY <2>3, <2>10 DEF ContactFails, Publish, PublishFails
  <2>11. QED
    BY <1>5, <2>4, <2>5, <2>6, <2>7, <2>8, <2>9, <2>10 DEF Work
<1>6. QED
  BY <1>1, <1>2, <1>3, <1>4, <1>5 DEF Next, Cancel, BeatLate

LEMMA LatestPreserved ==
  ASSUME TypeOK, ActiveIsLatest, [Next]_vars
  PROVE  ActiveIsLatest'
<1>1. CASE run' = run
  BY <1>1 DEF ActiveIsLatest
<1>2. ASSUME NEW s \in Sources, Adds(s) PROVE ActiveIsLatest'
  <2>1. /\ Len(run) \in Nat /\ DOMAIN run = 1..Len(run)
        /\ DOMAIN run' = DOMAIN run \cup {Len(run) + 1}
        /\ \A i \in DOMAIN run : run'[i] = run[i]
        /\ run'[Len(run) + 1] = Queued(s)
    BY <1>2, Added, Runs
  <2>2. SUFFICES ASSUME NEW i \in DOMAIN run', run'[i].state \in Active,
                        NEW j \in DOMAIN run', run'[j].source = run'[i].source
                 PROVE  j <= i
    BY DEF ActiveIsLatest
  <2>3. CASE i = Len(run) + 1
    BY <2>1, <2>3
  <2>4. CASE i \in DOMAIN run /\ j \in DOMAIN run
    BY <2>1, <2>2, <2>4 DEF ActiveIsLatest
  <2>5. CASE i \in DOMAIN run /\ j = Len(run) + 1
    <3>1. run[i].source = s /\ run[i].state \in Active
      BY <2>1, <2>2, <2>5 DEF Queued
    <3>2. i \in ActiveRuns(s)
      BY <2>5, <3>1 DEF ActiveRuns, RunsOf
    <3>3. QED
      BY <1>2, <3>2 DEF Adds
  <2>6. QED
    BY <2>1, <2>2, <2>3, <2>4, <2>5
<1>3. ASSUME NEW i \in DOMAIN run, Moves(i) PROVE ActiveIsLatest'
  <2>1. \A j \in DOMAIN run : /\ run'[j].source = run[j].source
                              /\ run'[j].state \in Active => run[j].state \in Active
    BY <1>3 DEF Moves
  <2>2. QED
    BY <1>3, <2>1 DEF Moves, ActiveIsLatest
<1>4. QED
  BY <1>1, <1>2, <1>3, RunSteps DEF RunStep, vars

LEMMA TakenPreserved ==
  ASSUME TypeOK, TakenOnce, [Next]_vars
  PROVE  TakenOnce'
<1>1. CASE UNCHANGED vars
  BY <1>1 DEF TakenOnce, Executing, vars
<1>2. CASE Next
  <2>1. /\ DOMAIN run \subseteq DOMAIN run'
        /\ \A i \in DOMAIN run : run[i].state # "queued" => run'[i].state # "queued"
    <3>1. CASE run' = run
      BY <3>1
    <3>2. ASSUME NEW s \in Sources, Adds(s)
          PROVE  /\ DOMAIN run \subseteq DOMAIN run'
                 /\ \A i \in DOMAIN run : run[i].state # "queued" => run'[i].state # "queued"
      BY <3>2, Added
    <3>3. ASSUME NEW i \in DOMAIN run, Moves(i)
          PROVE  /\ DOMAIN run \subseteq DOMAIN run'
                 /\ \A j \in DOMAIN run : run[j].state # "queued" => run'[j].state # "queued"
      BY <3>3 DEF Moves
    <3>4. QED
      BY <1>2, <3>1, <3>2, <3>3, RunSteps DEF RunStep
  <2>2. ASSUME NEW g \in Gateways, NEW i \in RunIds, job'[g][i] # "none"
        PROVE  i \in DOMAIN run'
    BY <1>2, <2>1, <2>2, JobSteps DEF TakenOnce
  <2>3. ASSUME NEW g \in Gateways, NEW i \in RunIds, Executing(g, i)'
        PROVE  run'[i].state # "queued"
    <3>1. Executing(g, i) => i \in DOMAIN run /\ run[i].state # "queued"
      BY DEF TakenOnce, Executing
    <3>2. QED
      BY <1>2, <2>1, <2>3, <3>1, JobSteps DEF Takes
  <2>4. ASSUME NEW g \in Gateways, NEW i \in RunIds, NEW h \in Gateways, Executing(g, i)', Executing(h, i)'
        PROVE  h = g
    <3>1. CASE Executing(g, i) /\ Executing(h, i)
      BY <3>1 DEF TakenOnce
    <3>2. ASSUME NEW a \in Gateways, Takes(a, i), NEW b \in Gateways, b # a
          PROVE  ~Executing(b, i)'
      BY <3>2 DEF Takes, TakenOnce, Executing
    <3>3. QED
      BY <1>2, <2>4, <3>1, <3>2, JobSteps
  <2>5. QED
    BY <2>2, <2>3, <2>4 DEF TakenOnce
<1>3. QED
  BY <1>1, <1>2

LEMMA Contacts ==
  ASSUME TypeOK, ActiveIsLatest, TakenOnce
  PROVE  ContactedOnce
<1>1. ASSUME NEW s \in DOMAIN source
      PROVE  Cardinality(ActiveRuns(s)) <= 1
  <2>1. CASE ActiveRuns(s) = {}
    BY <2>1, FS_EmptySet
  <2>2. ASSUME NEW i \in ActiveRuns(s)
        PROVE  Cardinality(ActiveRuns(s)) = 1
    <3>1. \A j \in ActiveRuns(s) : j <= i /\ i <= j /\ i \in Nat /\ j \in Nat
      BY <2>2, Runs DEF ActiveRuns, RunsOf, ActiveIsLatest
    <3>2. ActiveRuns(s) = {i}
      BY <2>2, <3>1
    <3>3. QED
      BY <3>2, FS_Singleton
  <2>3. QED
    BY <2>1, <2>2
<1>2. ASSUME NEW i \in DOMAIN run
      PROVE  Cardinality({g \in Gateways : Executing(g, i)}) <= 1
  <2> DEFINE executors == {g \in Gateways : Executing(g, i)}
  <2>1. CASE executors = {}
    BY <2>1, FS_EmptySet
  <2>2. ASSUME NEW g \in executors
        PROVE  Cardinality(executors) = 1
    <3>1. executors = {g}
      BY <2>2, Runs DEF TakenOnce
    <3>2. QED
      BY <3>1, FS_Singleton
  <2>3. QED
    BY <2>1, <2>2
<1>3. QED
  BY <1>1, <1>2 DEF ContactedOnce, Executing

(* A source has at most one active run and a run is executed by at most one *)
(* gateway, however requests, stale queue reads, claims, crashes and        *)
(* custody refusals are interleaved.                                        *)
THEOREM OneContact == Spec => []ContactedOnce
<1>1. Init => ActiveIsLatest /\ TakenOnce
  BY DEF Init, ActiveIsLatest, TakenOnce, Executing
<1>2. TypeOK /\ ActiveIsLatest /\ TakenOnce /\ [Next]_vars => (ActiveIsLatest /\ TakenOnce)'
  BY LatestPreserved, TakenPreserved
<1>3. TypeOK /\ ActiveIsLatest /\ TakenOnce => ContactedOnce
  BY Contacts
<1>4. QED
  BY <1>1, <1>2, <1>3, Initially, TypesPreserved, PTL DEF Spec

----------------------------------------------------------------------------
(* A source is released while its engine's firewall admits it *)

(* A beat that is under way reports what the controller has installed.     *)
BeatsReportTheFirewall ==
  \A e \in Engines : controller[e].phase = "asking" =>
    /\ controller[e].applied = controller[e].policy
    /\ controller[e].open = Endpoints(controller[e].policy) \ controller[e].denied

NothingIsLate == late = {}

LEMMA ReportsPreserved ==
  ASSUME TypeOK, BeatsReportTheFirewall, [Next]_vars
  PROVE  BeatsReportTheFirewall'
<1> DEFINE Reports(c) == c.phase = "asking" =>
             c.applied = c.policy /\ c.open = Endpoints(c.policy) \ c.denied
<1>1. BeatsReportTheFirewall <=> \A e \in Engines : Reports(controller[e])
  BY DEF BeatsReportTheFirewall
<1>2. BeatsReportTheFirewall' <=> \A e \in Engines : Reports(controller'[e])
  BY DEF BeatsReportTheFirewall
<1>3. ASSUME NEW e \in Engines, NEW c, Becomes(e, c), c.phase = "asking" => Reports(c)
      PROVE  BeatsReportTheFirewall'
  BY <1>1, <1>2, <1>3 DEF Becomes, TypeOK
<1>4. CASE controller' = controller
  BY <1>1, <1>2, <1>4
<1>5. ASSUME NEW e \in Engines, Sync(e) PROVE BeatsReportTheFirewall'
  <2> DEFINE c == controller[e]
  <2>1. c \in Controller
    BY DEF TypeOK
  <2>2. \A names : Reports([Installed(c, c.policy, names) EXCEPT !.phase = "asking"])
    BY <2>1 DEF Installed, Controller
  <2>3. \A n \in NotInstalled(c, c.policy) : n.phase = c.phase
    BY <2>1 DEF NotInstalled, Controller
  <2>4. \E d : Becomes(e, d) /\ (d.phase = "asking" => Reports(d))
    BY <1>5, <2>2, <2>3 DEF Sync
  <2> HIDE DEF Reports, c
  <2>5. QED
    BY <1>3, <2>4
<1>6. ASSUME NEW e \in Engines, Beat(e) \/ Restart(e) PROVE BeatsReportTheFirewall'
  <2> DEFINE c == controller[e]
             rested == [c EXCEPT !.phase = "rest"]
             told == [c EXCEPT !.phase = "told", !.told = Version(e)]
             fresh == [c EXCEPT !.phase = "rest", !.policy = c.saved, !.told = Null,
                                !.applied = Null, !.denied = {}, !.open = {}]
  <2>1. c \in Controller
    BY DEF TypeOK
  <2>2. rested.phase # "asking" /\ told.phase # "asking" /\ fresh.phase # "asking"
    BY <2>1 DEF Controller
  <2>3. Becomes(e, rested) \/ Becomes(e, told) \/ Becomes(e, fresh)
    BY <1>6 DEF Beat, Restart
  <2> HIDE DEF rested, told, fresh
  <2>4. QED
    BY <1>3, <2>2, <2>3
<1>7. ASSUME NEW e \in Engines, Adopt(e) PROVE BeatsReportTheFirewall'
  <2> DEFINE c == controller[e]
             rests(n) == [n EXCEPT !.phase = "rest", !.told = Null]
  <2>1. c \in Controller
    BY DEF TypeOK
  <2>2. \A names : [rests(Installed(c, c.told, names)) EXCEPT !.saved = c.told].phase # "asking"
    BY <2>1 DEF Installed, Controller
  <2>3. \A n \in NotInstalled(c, c.told) : rests(n).phase # "asking"
    BY <2>1 DEF NotInstalled, Controller
  <2>4. \E d : Becomes(e, d) /\ d.phase # "asking"
    BY <1>7, <2>2, <2>3 DEF Adopt
  <2>5. QED
    BY <1>3, <2>4
<1>8. ASSUME NEW e \in Engines, GiveUp(e) PROVE BeatsReportTheFirewall'
  <2>1. controller[e] \in Controller
    BY DEF TypeOK
  <2>2. controller' = [controller EXCEPT ![e] = [controller[e] EXCEPT !.phase = "rest", !.told = Null]]
    BY <1>8, <2>1 DEF GiveUp, TypeOK
  <2>3. QED
    BY <1>3, <2>1, <2>2 DEF Becomes, Controller
<1>9. ASSUME NEW s \in Sources, Retry(s) \/ Archive(s) \/ \E e \in Engines : Create(s, e) \/ Assign(s, e)
      PROVE  controller' = controller
  BY <1>9 DEF Retry, Archive, Create, Assign
<1>10. ASSUME NEW g \in Gateways, NEW i \in DOMAIN run, Work(g, i)
       PROVE  controller' = controller
  <2>1. CASE Pick(g, i) \/ Claim(g, i) \/ Refuse(g, i) \/ ReadSource(g, i) \/ Unsecured(g, i) \/ Stop(g, i)
    BY <2>1 DEF Pick, Claim, Refuse, ReadSource, Unsecured, Stop
  <2>2. CASE Test(g, i) \/ Read(g, i) \/ ContactFails(g, i) \/ Publish(g, i) \/ PublishFails(g, i)
    BY <2>2 DEF Test, Read, ContactFails, Publish, PublishFails
  <2>3. QED
    BY <1>10, <2>1, <2>2 DEF Work
<1>11. QED
  BY <1>4, <1>5, <1>6, <1>7, <1>8, <1>9, <1>10 DEF Next, Cancel, Crash, BeatLate, vars

(* A beat that was given up is served late only where LateBeats allows it. *)
LEMMA LatePreserved ==
  ASSUME ~LateBeats, NothingIsLate, [Next]_vars
  PROVE  NothingIsLate'
<1>1. ASSUME NEW s \in Sources, Retry(s) \/ Archive(s) \/ \E e \in Engines : Create(s, e) \/ Assign(s, e)
      PROVE  late' = late
  BY <1>1 DEF Retry, Archive, Create, Assign
<1>2. ASSUME NEW g \in Gateways, NEW i \in DOMAIN run, Work(g, i)
      PROVE  late' = late
  <2>1. CASE Pick(g, i) \/ Claim(g, i) \/ Refuse(g, i) \/ ReadSource(g, i) \/ Unsecured(g, i) \/ Stop(g, i)
    BY <2>1 DEF Pick, Claim, Refuse, ReadSource, Unsecured, Stop
  <2>2. CASE Test(g, i) \/ Read(g, i) \/ ContactFails(g, i) \/ Publish(g, i) \/ PublishFails(g, i)
    BY <2>2 DEF Test, Read, ContactFails, Publish, PublishFails
  <2>3. QED
    BY <1>2, <2>1, <2>2 DEF Work
<1>3. ASSUME NEW e \in Engines, Sync(e) \/ Beat(e) \/ Adopt(e) \/ GiveUp(e) \/ Restart(e)
      PROVE  late' = late
  BY <1>3 DEF Sync, Beat, Adopt, GiveUp, Restart
<1>4. QED
  BY <1>1, <1>2, <1>3 DEF Next, Cancel, Crash, BeatLate, NothingIsLate, vars

Released == \A s \in DOMAIN source :
  source[s].held /\ ~source'[s].held => s \in controller[EngineOf(s)].open

LEMMA ReleasedByBeat ==
  ASSUME TypeOK, NothingIsLate, BeatsReportTheFirewall, [Next]_vars
  PROVE  Released
<1>1. ASSUME \A s \in DOMAIN source : source'[s].held = source[s].held PROVE Released
  BY <1>1 DEF Released
<1>2. ASSUME NEW s, NEW status, source' = [source EXCEPT ![s].status = status] PROVE Released
  BY <1>1, <1>2 DEF TypeOK, SourceRow
<1>3. ASSUME NEW s \in Sources, Retry(s) \/ Archive(s) PROVE Released
  BY <1>2, <1>3 DEF Retry, Archive
<1>4. ASSUME NEW s \in Sources, NEW e \in Engines, Create(s, e) \/ Assign(s, e) PROVE Released
  BY <1>4 DEF Create, Assign, Assigned, HeldAt, Released, TypeOK
<1>5. ASSUME NEW g \in Gateways, NEW i \in DOMAIN run, Work(g, i) PROVE Released
  <2>1. source' = source \/ \E status \in {"unreachable", "connected"} : MarkedAs(run[i].source, status)
    BY <1>5, Works DEF WorkStep, Taken, Tested, WasRead, CalledOff, Failed, Published, Kept
  <2>2. QED
    BY <1>1, <1>2, <2>1 DEF MarkedAs
<1>6. ASSUME NEW e \in Engines, Beat(e) PROVE Released
  <2>1. SUFFICES ASSUME NEW s \in DOMAIN source, source[s].held, ~source'[s].held
                 PROVE  s \in controller[EngineOf(s)].open
    BY DEF Released
  <2>2. source' = Heard(e, controller[e].applied, controller[e].denied)
    BY <1>6 DEF Beat
  <2>3. /\ controller[e].applied = Version(e) /\ s \in Version(e)
        /\ ~Acknowledged(s, controller[e].denied).held
    BY <2>1, <2>2 DEF Heard
  <2>4. s \notin controller[e].denied /\ EngineOf(s) = e
    BY <2>3 DEF Acknowledged, Version, TypeOK, SourceRow
  <2>5. controller[e].open = Endpoints(Version(e)) \ controller[e].denied
    BY <1>6, <2>3 DEF Beat, BeatsReportTheFirewall
  <2>6. Version(e) # Null
    BY ConnectionAssumption DEF Version, TypeOK
  <2>7. QED
    BY <2>3, <2>4, <2>5, <2>6 DEF Endpoints
<1>7. ASSUME NEW e \in Engines, Sync(e) \/ Adopt(e) \/ GiveUp(e) \/ Restart(e)
      PROVE  source' = source
  BY <1>7 DEF Sync, Adopt, GiveUp, Restart
<1>8. QED
  BY <1>1, <1>3, <1>4, <1>5, <1>6, <1>7 DEF Next, Cancel, Crash, BeatLate, NothingIsLate, vars

(* Where no beat is served after it was given up, a source is released only *)
(* while the firewall of its engine admits it, whatever the beats, failing  *)
(* names, reassignments and restarts of the controller.                     *)
THEOREM ReleaseNeedsFirewall ==
  ASSUME ~LateBeats
  PROVE  Spec => ReleasedMeansInstalled
<1>1. Init => NothingIsLate /\ BeatsReportTheFirewall
  BY DEF Init, NothingIsLate, BeatsReportTheFirewall
<1>2. TypeOK /\ NothingIsLate /\ BeatsReportTheFirewall /\ [Next]_vars =>
        NothingIsLate' /\ BeatsReportTheFirewall' /\ Released
  BY ReportsPreserved, LatePreserved, ReleasedByBeat
<1>3. Released => [\A s \in DOMAIN source :
        source[s].held /\ ~source'[s].held => s \in controller[EngineOf(s)].open]_vars
  BY DEF Released
<1>4. QED
  BY <1>1, <1>2, <1>3, Initially, TypesPreserved, PTL DEF Spec, ReleasedMeansInstalled

----------------------------------------------------------------------------
(* What ended, what was archived and what is connected *)

(* An acknowledgment, like every step but those of users and gateways,     *)
(* leaves the runs alone and connects nothing.                             *)
Acknowledges ==
  /\ run' = run /\ DOMAIN source' = DOMAIN source
  /\ \A s \in DOMAIN source :
       /\ source'[s].engine = source[s].engine
       /\ source[s].status = "archived" => source'[s] = source[s]
       /\ source'[s].status = "connected" => source[s].status = "connected"

LEMMA Steps ==
  ASSUME TypeOK, [Next]_vars
  PROVE  \/ \E s \in Sources : Retry(s) \/ Archive(s) \/ \E e \in Engines : Create(s, e) \/ Assign(s, e)
         \/ \E i \in DOMAIN run : WorkStep(i)
         \/ Acknowledges
<1>1. ASSUME run' = run, source' = source PROVE Acknowledges
  BY <1>1 DEF Acknowledges
<1>2. CASE UNCHANGED vars
  BY <1>1, <1>2 DEF vars
<1>3. ASSUME NEW i \in DOMAIN run, Cancel(i) PROVE WorkStep(i)
  <2>1. /\ run[i].state \in Active /\ source' = source /\ run[i].via \in Engines \cup {Null}
        /\ run' = [run EXCEPT ![i].state = "cancelled"]
    BY <1>3, Runs DEF Cancel, Cancelled, Cancellable, Active, RunRow
  <2>2. QED
    BY <2>1, StateAdvanced DEF WorkStep, CalledOff, Kept
<1>4. ASSUME NEW e \in Engines, Sync(e) \/ Adopt(e) \/ GiveUp(e) \/ Restart(e) PROVE Acknowledges
  BY <1>1, <1>4 DEF Sync, Adopt, GiveUp, Restart
<1>5. ASSUME NEW e \in Engines, Beat(e) PROVE Acknowledges
  <2>1. source' = Heard(e, controller[e].applied, controller[e].denied) /\ run' = run
    BY <1>5 DEF Beat
  <2>2. /\ DOMAIN source' = DOMAIN source
        /\ \A s \in DOMAIN source : source'[s].engine = source[s].engine
        /\ \A s \in DOMAIN source : source[s].status = "archived" => source'[s] = source[s]
        /\ \A s \in DOMAIN source : source'[s].status = "connected" => source[s].status = "connected"
    BY <2>1, HeardRows
  <2>3. QED
    BY <2>1, <2>2 DEF Acknowledges
<1>6. ASSUME NEW b \in late, BeatLate(b) PROVE Acknowledges
  <2>1. source' = Heard(b.engine, b.applied, b.denied) /\ run' = run
    BY <1>6 DEF BeatLate
  <2>2. /\ DOMAIN source' = DOMAIN source
        /\ \A s \in DOMAIN source : source'[s].engine = source[s].engine
        /\ \A s \in DOMAIN source : source[s].status = "archived" => source'[s] = source[s]
        /\ \A s \in DOMAIN source : source'[s].status = "connected" => source[s].status = "connected"
    BY <2>1, HeardRows
  <2>3. QED
    BY <2>1, <2>2 DEF Acknowledges
<1>7. ASSUME NEW g \in Gateways, Crash(g) PROVE Acknowledges
  BY <1>1, <1>7 DEF Crash
<1>8. QED
  BY <1>2, <1>3, <1>4, <1>5, <1>6, <1>7, Works DEF Next

Ended == \A i \in DOMAIN run : run[i].state \notin Active => run'[i] = run[i]

(* What a run ended as is never rewritten.                                 *)
THEOREM EndsForGood == Spec => EndedStaysEnded
<1>1. TypeOK /\ [Next]_vars => Ended
  <2> SUFFICES ASSUME TypeOK, [Next]_vars PROVE Ended
    OBVIOUS
  <2>1. CASE run' = run
    BY <2>1 DEF Ended
  <2>2. ASSUME NEW s \in Sources, Adds(s) PROVE Ended
    BY <2>2, Added DEF Ended
  <2>3. ASSUME NEW i \in DOMAIN run, Moves(i) PROVE Ended
    BY <2>3 DEF Ended, Moves
  <2>4. QED
    BY <2>1, <2>2, <2>3, RunSteps DEF RunStep, vars
<1>2. Ended => [\A i \in DOMAIN run : run[i].state \notin Active => run'[i] = run[i]]_vars
  BY DEF Ended
<1>3. QED
  BY <1>1, <1>2, Initially, TypesPreserved, PTL DEF Spec, EndedStaysEnded

Untouched(s) ==
  /\ source'[s] = source[s]
  /\ \A i \in RunsOf(s) : run'[i].state # run[i].state =>
       \/ run'[i].state = "cancelled"
       \/ run[i].state # "queued" /\ run'[i].state # "complete"

(* An archived source stays as it is, and none of its runs starts or       *)
(* completes, whatever was under way when it was archived.                 *)
THEOREM ArchivedForGood == Spec => ArchivedIsFinal
<1>1. ASSUME TypeOK, [Next]_vars, NEW s \in DOMAIN source, source[s].status = "archived"
      PROVE  Untouched(s)
  <2>1. RunsOf(s) \subseteq DOMAIN run
    BY DEF RunsOf
  <2>2. ASSUME NEW u \in Sources, Adds(u) PROVE \A i \in RunsOf(s) : run'[i] = run[i]
    BY <1>1, <2>1, <2>2, Added
  <2>3. ASSUME NEW u \in Sources, Retry(u) \/ Archive(u) PROVE Untouched(s)
    <3>1. u # s /\ source'[s] = source[s]
      BY <1>1, <2>3 DEF Retry, Archive, Live, TypeOK
    <3>2. run' = run \/ Adds(u)
      BY <2>3 DEF Retry, Archive, Adds, Request, Live
    <3>3. QED
      BY <2>2, <3>1, <3>2 DEF Untouched
  <2>4. ASSUME NEW u \in Sources, NEW e \in Engines, Assign(u, e) PROVE Untouched(s)
    <3>1. u # s /\ source'[s] = source[s]
      BY <1>1, <2>4 DEF Assign, Assigned, Live, TypeOK
    <3>2. run' = run \/ Adds(u)
      BY <2>4 DEF Assign, Assigned, Adds, Request, Live
    <3>3. QED
      BY <2>2, <3>1, <3>2 DEF Untouched
  <2>5. ASSUME NEW u \in Sources, NEW e \in Engines, Create(u, e) PROVE Untouched(s)
    <3>1. source'[s] = source[s]
      BY <2>5 DEF Create
    <3>2. ActiveRuns(u) = {} /\ u \in DOMAIN source'
      BY <1>1, <2>5, Runs DEF Create, ActiveRuns, RunsOf
    <3>3. run' = run \/ Adds(u)
      BY <2>5, <3>2 DEF Create, Adds, Request
    <3>4. QED
      BY <2>2, <3>1, <3>3 DEF Untouched
  <2>6. ASSUME NEW i \in DOMAIN run, WorkStep(i) PROVE Untouched(s)
    <3>1. run[i] \in RunRow /\ source[run[i].source] \in SourceRow
      BY <1>1, Runs
    <3>2. CASE run[i].source = s
      <4>1. ~Live(run[i].source)
        BY <1>1, <3>2 DEF Live
      <4>2. (run' = run /\ source' = source) \/ Tested(i) \/ WasRead(i) \/ CalledOff(i) \/ Failed(i)
        BY <2>6, <4>1 DEF WorkStep, Taken, Published, MarkedAs
      <4>3. source' = source
        BY <4>1, <4>2 DEF Tested, WasRead, CalledOff, Failed, Kept, MarkedAs
      <4>4. run' = run \/ Moves(i)
        BY <4>2 DEF Tested, WasRead, CalledOff, Failed, Kept
      <4>5. \/ run' = run \/ run'[i].state = "cancelled"
            \/ run[i].state # "queued" /\ run'[i].state # "complete"
        BY <4>2 DEF Tested, WasRead, CalledOff, Failed
      <4>6. QED
        BY <2>1, <4>3, <4>4, <4>5 DEF Untouched, Moves
    <3>3. CASE run[i].source # s
      <4>1. \/ source' = source
            \/ \E status \in {"unreachable", "connected"} : MarkedAs(run[i].source, status)
        BY <2>6 DEF WorkStep, Taken, Tested, WasRead, CalledOff, Failed, Published, Kept
      <4>2. source'[s] = source[s]
        BY <1>1, <3>3, <4>1 DEF MarkedAs, TypeOK
      <4>3. run' = run \/ Moves(i)
        BY <2>6 DEF WorkStep, Taken, Tested, WasRead, CalledOff, Failed, Published, Kept
      <4>4. \A j \in RunsOf(s) : run'[j] = run[j]
        BY <3>3, <4>3 DEF Moves, RunsOf
      <4>5. QED
        BY <4>2, <4>4 DEF Untouched
    <3>4. QED
      BY <3>2, <3>3
  <2>7. CASE Acknowledges
    BY <1>1, <2>7 DEF Acknowledges, Untouched
  <2>8. QED
    BY <1>1, <2>3, <2>4, <2>5, <2>6, <2>7, Steps
<1>2. (\A s \in DOMAIN source : source[s].status = "archived" => Untouched(s))
        => [\A s \in DOMAIN source : source[s].status = "archived" =>
              /\ source'[s] = source[s]
              /\ \A i \in RunsOf(s) : run'[i].state # run[i].state =>
                   \/ run'[i].state = "cancelled"
                   \/ run[i].state # "queued" /\ run'[i].state # "complete"]_vars
  BY DEF Untouched
<1>3. TypeOK /\ [Next]_vars => \A s \in DOMAIN source : source[s].status = "archived" => Untouched(s)
  BY <1>1
<1>4. QED
  BY <1>2, <1>3, Initially, TypesPreserved, PTL DEF Spec, ArchivedIsFinal

----------------------------------------------------------------------------
(* Connected means connected through the engine of now *)

(* A run that was tested names the engine its source is still assigned to: *)
(* a source is not reassigned while a run of it is under way.              *)
TestedThroughItsEngine ==
  \A i \in DOMAIN run :
    run[i].state \in {"reading", "diffing"} => run[i].via = EngineOf(run[i].source)

(* Run i is the last one of source s that completed, through engine e.     *)
LastDone(s, e, i) ==
  /\ i \in RunsOf(s) /\ run[i].state = "complete" /\ run[i].via = e
  /\ \A j \in RunsOf(s) : run[j].state = "complete" => j <= i

(* It stays so where a step completes no run of the source.                *)
LEMMA StaysLast ==
  ASSUME TypeOK, NEW s, NEW e, NEW i, LastDone(s, e, i),
         run' = run \/ (\E u \in Sources : Adds(u))
           \/ (\E k \in DOMAIN run : Moves(k) /\ (run[k].source = s => run'[k].state # "complete"))
  PROVE  LastDone(s, e, i)'
<1>1. i \in DOMAIN run /\ run[i].source = s /\ run[i].state = "complete"
  BY DEF LastDone, RunsOf
<1>2. ASSUME /\ DOMAIN run \subseteq DOMAIN run' /\ run'[i] = run[i]
             /\ \A j \in DOMAIN run' : run'[j].source = s /\ run'[j].state = "complete" =>
                  j \in DOMAIN run /\ run[j].source = s /\ run[j].state = "complete"
      PROVE  LastDone(s, e, i)'
  BY <1>1, <1>2 DEF LastDone, RunsOf
<1>3. CASE run' = run
  BY <1>2, <1>3
<1>4. ASSUME NEW u \in Sources, Adds(u) PROVE LastDone(s, e, i)'
  <2>1. /\ DOMAIN run' = DOMAIN run \cup {Len(run) + 1}
        /\ \A j \in DOMAIN run : run'[j] = run[j]
        /\ run'[Len(run) + 1] = Queued(u)
    BY <1>4, Added
  <2>2. QED
    BY <1>1, <1>2, <2>1 DEF Queued
<1>5. ASSUME NEW k \in DOMAIN run, Moves(k), run[k].source = s => run'[k].state # "complete"
      PROVE  LastDone(s, e, i)'
  <2>1. k # i
    BY <1>1, <1>5 DEF Moves, Active
  <2>2. QED
    BY <1>1, <1>2, <1>5, <2>1 DEF Moves
<1>6. QED
  BY <1>3, <1>4, <1>5

(* What a step of a user does to runs and rows.                            *)
LEMMA UserSteps ==
  ASSUME TypeOK, NEW s \in Sources,
         Retry(s) \/ Archive(s) \/ \E e \in Engines : Create(s, e) \/ Assign(s, e)
  PROVE  /\ run' = run \/ Adds(s)
         /\ \A u \in DOMAIN source : u # s => source'[u] = source[u]
         /\ s \in DOMAIN source' => source'[s].status # "connected"
         /\ \A u \in DOMAIN source' : u # s => u \in DOMAIN source
         /\ s \in DOMAIN source =>
              source'[s].engine = source[s].engine \/ \A i \in ActiveRuns(s) : run[i].state = "queued"
<1>1. CASE Retry(s) \/ Archive(s)
  <2>1. s \in DOMAIN source /\ source[s] \in SourceRow
    BY <1>1 DEF Retry, Archive, Live, TypeOK
  <2>2. \E status \in {"pending", "archived"} : source' = [source EXCEPT ![s].status = status]
    BY <1>1 DEF Retry, Archive
  <2>3. run' = run \/ Adds(s)
    BY <1>1, <2>1, <2>2 DEF Retry, Archive, Adds, Request
  <2>4. QED
    BY <2>1, <2>2, <2>3 DEF TypeOK, SourceRow
<1>2. ASSUME NEW e \in Engines, Create(s, e)
      PROVE  /\ run' = run \/ Adds(s)
             /\ s \notin DOMAIN source /\ DOMAIN source' = DOMAIN source \cup {s}
             /\ source'[s].status = "pending_egress"
             /\ \A u \in DOMAIN source : source'[u] = source[u]
  <2>1. ActiveRuns(s) = {} /\ s \in DOMAIN source'
    BY <1>2, Runs DEF Create, ActiveRuns, RunsOf
  <2>2. run' = run \/ Adds(s)
    BY <1>2, <2>1 DEF Create, Adds, Request
  <2>3. QED
    BY <1>2, <2>2 DEF Create, HeldAt
<1>3. ASSUME NEW e \in Engines, Assign(s, e)
      PROVE  /\ run' = run \/ Adds(s)
             /\ s \in DOMAIN source /\ DOMAIN source' = DOMAIN source
             /\ source'[s].status = "pending_egress"
             /\ \A u \in DOMAIN source : u # s => source'[u] = source[u]
             /\ \A i \in ActiveRuns(s) : run[i].state = "queued"
  <2>1. s \in DOMAIN source /\ source' = [source EXCEPT ![s] = HeldAt(e)]
    BY <1>3 DEF Assign, Assigned, Live
  <2>2. run' = run \/ Adds(s)
    BY <1>3, <2>1 DEF Assign, Adds, Request
  <2>3. QED
    BY <1>3, <2>1, <2>2 DEF Assign, HeldAt, TypeOK
<1>4. QED
  BY <1>1, <1>2, <1>3

LEMMA TestedPreserved ==
  ASSUME TypeOK, TestedThroughItsEngine, [Next]_vars
  PROVE  TestedThroughItsEngine'
<1>1. SUFFICES ASSUME NEW i \in DOMAIN run', run'[i].state \in {"reading", "diffing"}
               PROVE  run'[i].via = source'[run'[i].source].engine
  BY DEF TestedThroughItsEngine, EngineOf
<1>2. ASSUME i \in DOMAIN run, run'[i] = run[i],
             source'[run[i].source].engine = source[run[i].source].engine
      PROVE  run'[i].via = source'[run'[i].source].engine
  BY <1>1, <1>2 DEF TestedThroughItsEngine, EngineOf
<1>3. ASSUME NEW s \in Sources, Retry(s) \/ Archive(s) \/ \E e \in Engines : Create(s, e) \/ Assign(s, e)
      PROVE  run'[i].via = source'[run'[i].source].engine
  <2>1. i \in DOMAIN run /\ run'[i] = run[i]
    <3>1. CASE run' = run
      BY <1>1, <3>1
    <3>2. CASE Adds(s)
      <4>1. /\ DOMAIN run' = DOMAIN run \cup {Len(run) + 1}
            /\ \A j \in DOMAIN run : run'[j] = run[j]
            /\ run'[Len(run) + 1] = Queued(s)
        BY <3>2, Added
      <4>2. QED
        BY <1>1, <4>1 DEF Queued
    <3>3. QED
      BY <1>3, <3>1, <3>2, UserSteps
  <2>2. source'[run[i].source].engine = source[run[i].source].engine
    <3>1. run[i].source \in DOMAIN source
      BY <2>1, Runs
    <3>2. run[i].source = s => i \in ActiveRuns(s) /\ run[i].state # "queued"
      BY <1>1, <2>1 DEF ActiveRuns, RunsOf, Active
    <3>3. QED
      BY <1>3, <3>1, <3>2, UserSteps
  <2>3. QED
    BY <1>2, <2>1, <2>2
<1>4. ASSUME NEW k \in DOMAIN run, WorkStep(k)
      PROVE  run'[i].via = source'[run'[i].source].engine
  <2>1. \A s \in DOMAIN source : source'[s].engine = source[s].engine
    <3>1. \/ source' = source
          \/ \E status \in {"unreachable", "connected"} : MarkedAs(run[k].source, status)
      BY <1>4 DEF WorkStep, Taken, Tested, WasRead, CalledOff, Failed, Published, Kept
    <3>2. ASSUME NEW s \in DOMAIN source, NEW u, NEW status, source' = [source EXCEPT ![u].status = status]
          PROVE  source'[s].engine = source[s].engine
      <4>1. source[s] \in SourceRow
        BY DEF TypeOK
      <4>2. QED
        BY <3>2, <4>1 DEF TypeOK, SourceRow
    <3>3. QED
      BY <3>1, <3>2 DEF MarkedAs
  <2>2. CASE run' = run
    BY <1>1, <1>2, <2>1, <2>2, Runs
  <2>3. CASE run' # run /\ i # k
    <3>1. Moves(k)
      BY <1>4, <2>3 DEF WorkStep, Taken, Tested, WasRead, CalledOff, Failed, Published, Kept
    <3>2. i \in DOMAIN run /\ run'[i] = run[i]
      BY <1>1, <2>3, <3>1 DEF Moves
    <3>3. QED
      BY <1>2, <2>1, <3>2, Runs
  <2>4. CASE run' # run /\ i = k
    <3>1. Tested(k) \/ WasRead(k)
      BY <1>1, <1>4, <2>4 DEF WorkStep, Taken, CalledOff, Failed, Published
    <3>2. run'[k].source = run[k].source /\ run'[k].via = EngineOf(run[k].source)
      BY <3>1 DEF Tested, WasRead, Kept, Moves, TestedThroughItsEngine
    <3>3. QED
      BY <2>1, <2>4, <3>2, Runs DEF EngineOf
  <2>5. QED
    BY <2>2, <2>3, <2>4
<1>5. CASE Acknowledges
  BY <1>1, <1>2, <1>5, Runs DEF Acknowledges
<1>6. QED
  BY <1>3, <1>4, <1>5, Steps

LEMMA ConnectedPreserved ==
  ASSUME TypeOK, ActiveIsLatest, TestedThroughItsEngine, ConnectedThroughItsEngine, [Next]_vars
  PROVE  ConnectedThroughItsEngine'
<1>1. SUFFICES ASSUME NEW s \in DOMAIN source', source'[s].status = "connected",
                      NEW e, e = source'[s].engine
               PROVE  \E i : LastDone(s, e, i)'
  BY DEF ConnectedThroughItsEngine, LastDone, EngineOf
<1>2. ASSUME s \in DOMAIN source, source[s].status = "connected", source[s].engine = e,
             run' = run \/ (\E u \in Sources : Adds(u))
               \/ (\E k \in DOMAIN run : Moves(k) /\ (run[k].source = s => run'[k].state # "complete"))
      PROVE  \E i : LastDone(s, e, i)'
  <2>1. \E i : LastDone(s, e, i)
    BY <1>2 DEF ConnectedThroughItsEngine, LastDone, EngineOf
  <2>2. QED
    BY <1>2, <2>1, StaysLast
<1>3. ASSUME NEW u \in Sources, Retry(u) \/ Archive(u) \/ \E x \in Engines : Create(u, x) \/ Assign(u, x)
      PROVE  \E i : LastDone(s, e, i)'
  <2>1. u # s
    BY <1>1, <1>3, UserSteps
  <2>2. s \in DOMAIN source /\ source'[s] = source[s] /\ (run' = run \/ Adds(u))
    BY <1>1, <1>3, <2>1, UserSteps
  <2>3. QED
    BY <1>1, <1>2, <2>2
<1>4. ASSUME NEW k \in DOMAIN run, WorkStep(k)
      PROVE  \E i : LastDone(s, e, i)'
  <2>1. DOMAIN source' = DOMAIN source
    BY <1>4 DEF WorkStep, Taken, Tested, WasRead, CalledOff, Failed, Published, Kept, MarkedAs
  <2>2. source[s] \in SourceRow
    BY <1>1, <2>1 DEF TypeOK
  <2>3. CASE Published(k) /\ run[k].source = s
    <3>1. /\ k \in DOMAIN run' /\ DOMAIN run' = DOMAIN run
          /\ run'[k].source = s /\ run'[k].state = "complete" /\ run'[k].via = run[k].via
          /\ \A j \in DOMAIN run : run'[j].source = run[j].source
          /\ run[k].state = "diffing"
      BY <2>3 DEF Published, Moves
    <3>2. run[k].via = e
      BY <1>1, <2>1, <2>2, <2>3, <3>1
         DEF TestedThroughItsEngine, EngineOf, Published, MarkedAs, SourceRow, TypeOK
    <3>3. \A j \in DOMAIN run : run[j].source = s => j <= k
      BY <2>3, <3>1 DEF ActiveIsLatest, Active
    <3>4. LastDone(s, e, k)'
      BY <3>1, <3>2, <3>3 DEF LastDone, RunsOf
    <3>5. QED
      BY <3>4
  <2>4. CASE ~(Published(k) /\ run[k].source = s)
    <3>1. source[s].status = "connected" /\ source[s].engine = e
      <4>1. \/ source' = source
            \/ MarkedAs(run[k].source, "unreachable")
            \/ MarkedAs(run[k].source, "connected") /\ run[k].source # s
        BY <1>4, <2>4 DEF WorkStep, Taken, Tested, WasRead, CalledOff, Failed, Published, Kept
      <4>2. QED
        BY <1>1, <2>1, <2>2, <4>1 DEF MarkedAs, TypeOK, SourceRow
    <3>2. run' = run \/ (Moves(k) /\ (run[k].source = s => run'[k].state # "complete"))
      BY <1>4, <2>4 DEF WorkStep, Taken, Tested, WasRead, CalledOff, Failed, Published, Kept
    <3>3. QED
      BY <1>1, <1>2, <2>1, <3>1, <3>2
  <2>5. QED
    BY <2>3, <2>4
<1>5. CASE Acknowledges
  BY <1>1, <1>2, <1>5 DEF Acknowledges
<1>6. QED
  BY <1>3, <1>4, <1>5, Steps

(* A source shown as connected was last introspected through the engine it *)
(* is assigned to now.                                                     *)
THEOREM ConnectedThroughTheEngineOfNow == Spec => []ConnectedThroughItsEngine
<1>1. Init => ActiveIsLatest /\ TestedThroughItsEngine /\ ConnectedThroughItsEngine
  BY DEF Init, ActiveIsLatest, TestedThroughItsEngine, ConnectedThroughItsEngine
<1>2. TypeOK /\ ActiveIsLatest /\ TestedThroughItsEngine /\ ConnectedThroughItsEngine /\ [Next]_vars
        => (ActiveIsLatest /\ TestedThroughItsEngine /\ ConnectedThroughItsEngine)'
  BY LatestPreserved, TestedPreserved, ConnectedPreserved
<1>3. QED
  BY <1>1, <1>2, Initially, TypesPreserved, PTL DEF Spec
===============================================================================
