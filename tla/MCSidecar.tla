------------------------------ MODULE MCSidecar ------------------------------
(* The engine's own modules.  They share no state: a behaviour is one of the *)
(* admission queue or of another part, chosen as it begins, while the        *)
(* variables of the others keep their first value.                           *)
EXTENDS ExecutionQueue, SequenceTheorems, FiniteSetTheorems, WellFoundedInduction, TLAPS

CONSTANTS
  Operation, MaxConnections, Source, MaxStagingRows, MaxScans, None, Call,
  Client, Attempts, MaxChanges, Zone, Pid, Delays, MaxStarts, Separate, Sheet,
  Later, Declaration, MaxFilings, MaxAlterations, Restored

VARIABLES
  part,
  mode, caller, reader, client, expired, attempt, known, outcome, asked_late,
  leases,
  op, scans, pc, at, read, origin, sessions, lease, timer, reached, contacted,
  usedKey, tokens, staged, verdict, answer,
  app, socket, handler, reply, pin, process, durable, asked, changes,
  supervising, failures, halting, child, diagnostic, lock, other, starts,
  unstable,
  file, filing, declared, strategy, reading, landing, spilled, landed, group,
  recorded, alterations

Scopes == INSTANCE SourceScope WITH active <- leases, late <- asked_late
Stages == INSTANCE StagedExecution
Calls == INSTANCE EngineCalls
Supervisor == INSTANCE EngineSupervision WITH phase <- supervising, attempt <- failures
Extraction == INSTANCE FilingExtraction WITH MaxChanges <- MaxAlterations, reader <- reading

ofScopes == <<mode, caller, reader, client, expired, attempt, known, outcome, asked_late, leases>>
ofStages ==
  <<op, scans, pc, at, read, origin, sessions, lease, timer, reached, contacted, usedKey,
    tokens, staged, verdict, answer>>
ofCalls == <<app, socket, handler, reply, pin, process, durable, asked, changes>>
ofSupervisor == <<supervising, failures, halting, child, diagnostic, lock, other, starts, unstable>>
ofExtraction ==
  <<file, filing, declared, strategy, reading, landing, spilled, landed, group, recorded,
    alterations>>
all == <<part, vars, ofScopes, ofStages, ofCalls, ofSupervisor, ofExtraction>>

PartInit ==
  /\ part \in {"queue", "scope", "staged", "calls", "supervisor", "extraction"}
  /\ Init
  /\ part # "queue" => setting = CHOOSE n \in Concurrency : TRUE
  /\ Scopes!Init
  /\ part # "scope" => mode = [o \in Operation |-> "run"]
  /\ Stages!Init
  /\ part # "staged" => op = "validate" /\ Len(scans) = 1 /\ scans[1] = CHOOSE s \in Stages!Scan : TRUE
  /\ Calls!Init
  /\ part # "calls" => pin = CHOOSE k \in Client : TRUE
  /\ Supervisor!Init
  /\ file \in IF part = "extraction" THEN Sheet ELSE {CHOOSE s \in Sheet : TRUE}
  /\ declared \in IF part = "extraction" THEN Declaration ELSE {CHOOSE d \in Declaration : TRUE}
  /\ Extraction!Init
  /\ part # "extraction" => strategy = "append_as_at"

PartNext ==
  \/ part = "queue" /\ Next /\ UNCHANGED <<part, ofScopes, ofStages, ofCalls, ofSupervisor, ofExtraction>>
  \/ part = "scope" /\ Scopes!Next
     /\ UNCHANGED <<part, vars, ofStages, ofCalls, ofSupervisor, ofExtraction>>
  \/ part = "staged" /\ Stages!Next
     /\ UNCHANGED <<part, vars, ofScopes, ofCalls, ofSupervisor, ofExtraction>>
  \/ part = "calls" /\ Calls!Next
     /\ UNCHANGED <<part, vars, ofScopes, ofStages, ofSupervisor, ofExtraction>>
  \/ part = "supervisor" /\ Supervisor!Next
     /\ UNCHANGED <<part, vars, ofScopes, ofStages, ofCalls, ofExtraction>>
  \/ part = "extraction" /\ Extraction!Next
     /\ UNCHANGED <<part, vars, ofScopes, ofStages, ofCalls, ofSupervisor>>

(* What the modules assume of their own steps.  *)
PartFairness ==
  /\ \A r \in Request : WF_vars(part = "queue" /\ TimePasses(r))
  /\ \A r \in Request : WF_vars(part = "queue" /\ Expire(r))
  /\ \A o \in Operation : WF_ofScopes(part = "scope" /\ Scopes!Interrupt(o))
  /\ \A o \in Operation : WF_ofScopes(part = "scope" /\ Scopes!Settle(o))
  /\ \A o \in Operation : WF_ofScopes(part = "scope" /\ Scopes!Cancelled(o))
  /\ \A o \in Operation : WF_ofScopes(part = "scope" /\ Scopes!Close(o))
  /\ \A o \in Operation : WF_ofScopes(part = "scope" /\ mode[o] = "external" /\ (Scopes!Answered(o) \/ Scopes!Fails(o)))
  /\ WF_ofSupervisor(part = "supervisor" /\ Supervisor!BeforeStart)
  /\ WF_ofSupervisor(part = "supervisor" /\ Supervisor!Spawn)
  /\ WF_ofSupervisor(part = "supervisor" /\ Supervisor!AfterExit)
  /\ WF_ofSupervisor(part = "supervisor" /\ Supervisor!Schedule)
  /\ WF_ofSupervisor(part = "supervisor" /\ Supervisor!Wake)
  /\ WF_ofSupervisor(part = "supervisor" /\ Supervisor!ExhaustedStops)
  /\ WF_ofSupervisor(part = "supervisor" /\ Supervisor!Terminated)
  /\ WF_ofSupervisor(part = "supervisor" /\ Supervisor!Dies /\ child.told)

PartSpec == PartInit /\ [][PartNext]_all /\ PartFairness

(* What is delivered, and declared of it. *)
Samples == INSTANCE FilingExtraction WITH
  Sheet <- {}, Later <- {}, Declaration <- {}, MaxChanges <- MaxAlterations, reader <- reading

DeliveredFirst == Samples!SomeSheets
DeliveredLater == Samples!LaterSheets
DeclaredOnce == Samples!SomeDeclarations

------------------------------------------------------------------------------
(* An operation is answered and its lease given back also when the source    *)
(* never answers (SourceScope).                                              *)
EveryLeaseReturns == Scopes!EveryLeaseReturns

(* Connections stay below the ceiling and nothing is asked after expiry; a   *)
(* staged answer is whole, reports what it used and leaves nothing open;      *)
(* samples are audited and nothing is asked of a source twice for one call;  *)
(* what a child left locked is reclaimed and its restarts are bounded; rows   *)
(* are dated by the last day of their period (SourceScope, StagedExecution,   *)
(* EngineCalls, EngineSupervision, FilingExtraction).                         *)
EngineKeepsItsWord ==
  /\ Scopes!WithinCeiling /\ Scopes!ExpiredAsksNothing
  /\ Stages!AnswerIsWhole /\ Stages!UsageIsReported /\ Stages!NothingLeftOpen
  /\ Calls!SamplesAreAudited /\ Calls!AskedOnce
  /\ Supervisor!NothingLeftLocked /\ Supervisor!RestartsAreBounded
  /\ Extraction!AsAtEndsItsPeriod

(* What lands is the delivered file, under its own headers, and a workbook's  *)
(* strings stay on disk only while it is read (FilingExtraction).             *)
FilesLandWhole ==
  Extraction!LandedIsTheFile /\ Extraction!NamesAreTheHeaders /\ Extraction!NothingSpilled

(* No step answers a replaced certificate, removes the lock of a living      *)
(* owner, or changes what earlier filings established in the landing         *)
(* database (EngineCalls, EngineSupervision, FilingExtraction).              *)
OthersAreLeftAlone ==
  /\ Calls!AnswersGoToTheTrusted
  /\ Supervisor!LocksOfOthersStay
  /\ Extraction!EstablishedStays

(* A supervisor told to stop ends (EngineSupervision). *)
StopEnds == Supervisor!StopEnds

------------------------------------------------------------------------------
(* The invariants behind EngineKeepsItsWord and OthersAreLeftAlone.          *)

(* The operations that hold a lease on the source.                           *)
Lent == {o \in Operation : caller[o] \in {"waiting", "cancelling", "closing"}}

ScopesTypeOK ==
  /\ mode \in [Operation -> {"run", "external"}]
  /\ caller \in [Operation -> {"idle", "waiting", "cancelling", "closing", "done"}]
  /\ reader \in [Operation -> Scopes!Steps \union {"idle", "read", "failed"}]
  /\ client \in [Operation -> {"none", "connecting", "open"}]
  /\ expired \in [Operation -> BOOLEAN]
  /\ asked_late \in [Operation -> BOOLEAN]

(* A connection is of an operation that holds a lease; a caller has left its *)
(* reader only when that is expired.                                         *)
ScopeInv(o) ==
  /\ client[o] # "none" => o \in Lent
  /\ caller[o] = "idle" => reader[o] = "idle"
  /\ caller[o] \in {"cancelling", "closing", "done"} => expired[o] \/ reader[o] = "idle"
  /\ ~asked_late[o]

ScopesInv ==
  /\ ScopesTypeOK
  /\ leases = Cardinality(Lent) /\ leases <= MaxConnections
  /\ \A o \in Operation : ScopeInv(o)

(* Where a staged request is, and what holds of it there.                    *)
StagesTypeOK ==
  /\ op \in {"execute", "preview", "validate"}
  /\ scans \in Seq(Stages!Scan) /\ Len(scans) >= 1
  /\ pc \in {"start", "inspect", "estimate", "asked", "stage", "reading", "count", "query", "close", "finally", "done"}
  /\ at \in 1..(Len(scans) + 1) /\ read \in Nat
  /\ staged \in [1..Len(scans) -> Nat]
  /\ verdict \in {"none", "ok", "refused", "cancelled"}

StagesPlaced ==
  /\ pc \in {"start", "inspect", "query"} => at = 1
  /\ pc \in {"asked", "reading", "count"} => at <= Len(scans)
  /\ pc \notin {"close", "finally", "done"} => verdict = "none"
  /\ pc # "done" => answer.kind = "none"
  /\ pc \in {"finally", "done"} => sessions = {}
  /\ pc = "done" => ~lease /\ ~timer

(* The scans that have been estimated. *)
Asked(i) ==
  \/ pc \in {"query", "stage", "reading", "count"}
  \/ pc = "estimate" /\ i < at
  \/ pc = "asked" /\ i <= at

StagesUsed ==
  op = "execute" =>
    /\ contacted \subseteq reached /\ (tokens => usedKey)
    /\ \A i \in 1..Len(scans) : Asked(i) /\ scans[i].kind # "withheld" => scans[i].source \in reached
    /\ pc = "done" => contacted \subseteq answer.reached /\ (tokens => answer.key)

(* An object is withheld, or all of it was staged. *)
Whole(i) ==
  \/ scans[i].kind = "withheld"
  \/ scans[i].size <= MaxStagingRows /\ (scans[i].kind # "filtered" => staged[i] = scans[i].size)

NoneStaged == \A i \in 1..Len(scans) : staged[i] = 0
AllWhole == \A i \in 1..Len(scans) : Whole(i)

StagesWhole ==
  op = "execute" =>
    /\ pc \in {"start", "inspect", "estimate", "asked", "query"} => NoneStaged
    /\ pc \in {"stage", "reading", "count"} =>
         \A i \in 1..Len(scans) : (i < at => Whole(i)) /\ (i > at => staged[i] = 0)
    /\ pc = "stage" /\ at <= Len(scans) => staged[at] = 0
    /\ pc = "reading" =>
         /\ scans[at].kind \in {"tokenized", "filtered"}
         /\ read <= MaxStagingRows /\ read <= Stages!Capped
         /\ scans[at].kind = "tokenized" => staged[at] = read
    /\ pc = "count" /\ staged[at] <= MaxStagingRows => Whole(at)
    /\ verdict = "ok" =>
         \/ at = 1 /\ NoneStaged /\ (pc = "close" \/ Stages!Aborted)
         \/ at > Len(scans) /\ AllWhole
    /\ answer.kind = "rows" => ~Stages!Aborted /\ AllWhole /\ \A i \in 1..Len(scans) : scans[i].kind # "withheld"

StagesInv == StagesTypeOK /\ StagesPlaced /\ StagesUsed /\ StagesWhole

Results == Calls!Answers \union {None, "forbidden", "unavailable", "mismatch", "timeout", "cancelled"}

Calling ==
  [at : {"idle", "connecting", "tls", "waiting", "done"}, op : Calls!Operations,
   as : Client \union {None}, leg : {"health", "operation"}, attempt : Nat, result : Results]
Handling ==
  [at : {"none", "arrived", "reading", "invoked", "running", "ending", "answering"},
   aborted : BOOLEAN, outcome : {None, "ok", "failed", "audit_failed"}]

CallsTypeOK ==
  /\ app \in [Call -> Calling]
  /\ handler \in [Call -> Handling]
  /\ socket \in [Call -> {"none", "open", "closed"}]
  /\ reply \in [Call -> Calls!Answers \union {None}]
  /\ asked \in [Call -> Nat]

(* A connection belongs to a call that waits on it, and is open only in a    *)
(* process that runs; what is handled on it came with the trusted            *)
(* certificate, and is answered once.                                        *)
ConnectionHeld(c) ==
  /\ socket[c] = "open" => app[c].at \in {"tls", "waiting"} /\ process # "down"
  /\ app[c].at \in {"idle", "connecting", "tls"} => handler[c].at = "none" /\ asked[c] = 0
  /\ reply[c] # None => handler[c].at = "none" /\ app[c].at = "waiting"
  /\ socket[c] = "open" /\ handler[c].at # "none" => app[c].as = pin

(* Only the request of the operation's own leg reaches the source, and once. *)
ReachesOnce(c) ==
  /\ handler[c].at \in {"invoked", "running", "ending", "answering"} =>
       app[c].leg = "operation" /\ app[c].at \in {"waiting", "done"}
  /\ asked[c] > 0 =>
       /\ asked[c] = 1 /\ app[c].leg = "operation" /\ app[c].at \in {"waiting", "done"}
       /\ handler[c].at \in {"none", "ending", "answering"}

(* A sample is recorded as started before the source is asked, and as        *)
(* completed before it is answered.                                          *)
RecordedFirst(c) ==
  app[c].op = "sample" =>
    /\ handler[c].at \in {"running", "ending"} \/ asked[c] > 0 => <<c, "started">> \in durable
    /\ \/ handler[c].at = "answering" /\ handler[c].outcome = "ok"
       \/ reply[c] = "ok" /\ app[c].leg = "operation"
       \/ app[c].result = "ok"
       => {<<c, "started">>, <<c, "completed">>} \subseteq durable

CallInv(c) == ConnectionHeld(c) /\ ReachesOnce(c) /\ RecordedFirst(c)
CallsInv == CallsTypeOK /\ \A c \in Call : CallInv(c)

Children ==
  [pid : Pid, at : {"early", "probing", "opening", "ready", "steady", "gone"}, opened : SUBSET Zone,
   taking : Zone \union {None}, told : BOOLEAN, closing : (SUBSET Zone) \union {None}]
Locks == [says : Pid \union {None}, owner : Nat]

SupervisorTypeOK ==
  /\ failures \in Nat /\ halting \in BOOLEAN /\ diagnostic \in BOOLEAN
  /\ child \in Children \union {None}
  /\ lock \in [Zone -> Locks \union {None}]
  /\ other \in Pid \union {None}
  /\ starts \in Nat /\ unstable \in Nat

(* There is a child just while the supervisor waits for its end; the status  *)
(* listener is closed by then, and no other process has its number unless    *)
(* numbers are given out apart.                                              *)
OneChild ==
  /\ child # None <=> supervising = "running"
  /\ supervising \in {"spawning", "running"} => ~diagnostic
  /\ child # None => starts >= 1 /\ (child.pid # other \/ Separate)

(* The zones of a living child have its locks.                               *)
ChildHolds ==
  Supervisor!Alive =>
    /\ \A z \in child.opened : lock[z] # None /\ lock[z].owner # 0
    /\ child.taking # None => lock[child.taking] # None /\ lock[child.taking].owner # 0
    /\ child.closing # None => child.closing \subseteq child.opened

(* A lock that a child has signed is the present child's, unless the         *)
(* supervisor gave up with an error.                                         *)
SignedByTheChild ==
  \A z \in Zone : lock[z] # None /\ lock[z].owner # 0 /\ lock[z].says # None =>
    supervising = "failed" \/ (child # None /\ lock[z].says = child.pid)

(* Each start since the last stable period used up one of the restarts.      *)
StartsCounted ==
  /\ failures <= Delays
  /\ supervising = "waiting" => failures < Delays
  /\ unstable <= failures + 1
  /\ supervising = "spawning" \/ (supervising = "starting" /\ ~halting) => unstable <= failures

SupervisorInv == SupervisorTypeOK /\ OneChild /\ ChildHolds /\ SignedByTheChild /\ StartsCounted

(* While the rows of a filing are read, nothing of it has landed, and the    *)
(* strategy the source is landed with is the recorded one.                   *)
ExtractionInv ==
  reading # None =>
    /\ "pass" \in DOMAIN reading
    /\ reading.pass \in {"again", "rows"} => landed = {} /\ recorded \in {None, strategy}

(* What has landed is dated as the declarations it landed under say.         *)
DatedInv ==
  /\ declared \in Declaration
  /\ \A left \in landed :
       left.under \in Declaration /\ left.asAt = Extraction!periodAsAt(left.under.period, left.under.form)

PartInv == ScopesInv /\ StagesInv /\ CallsInv /\ SupervisorInv /\ ExtractionInv /\ DatedInv

(* What stands for nothing is none of the things it stands beside.  A period *)
(* is one its form can read: a year and one of its months or quarters.       *)
ASSUME SidecarAssumption ==
  /\ IsFiniteSet(Operation) /\ {MaxConnections, MaxStagingRows, Delays} \subseteq Nat
  /\ None \notin Calls!Answers
  /\ None \notin Pid /\ None \notin Zone /\ \A zones \in SUBSET Zone : None # zones
  /\ None \notin Children /\ None \notin Locks /\ None \notin Nat \X Nat \X Nat
  /\ \A d \in Declaration : d.period \in Nat \X (IF d.form = "quarter_end" THEN 1..4 ELSE 1..12)

------------------------------------------------------------------------------
(* The admission queue, for any number of requests, any settings of the      *)
(* concurrency and any bound of the queue: places and waiters are counted    *)
(* exactly, nobody waits for nothing, waiters are served in order and nobody *)
(* is admitted who has waited too long.                                      *)

(* The requests in a phase can be counted.                                  *)
LEMMA Countable ==
  ASSUME NEW p
  PROVE  IsFiniteSet(In(p)) /\ Cardinality(In(p)) \in Nat
<1>1. In(p) \in SUBSET Request /\ IsFiniteSet(Request)
  BY QueueAssumption DEF In
<1>2. IsFiniteSet(In(p))
  BY <1>1, FS_Subset
<1>3. QED
  BY <1>2, FS_CardinalityType

(* A set of numbers that is not empty has a least one, and Min is it.       *)
LEMMA Least ==
  ASSUME NEW S, S \subseteq Nat, S # {}
  PROVE  Min(S) \in S /\ \A x \in S : Min(S) <= x
<1>1. PICK x \in S : \A y \in S : ~ (<<y, x>> \in OpToRel(<, Nat))
  BY NatLessThanWellFounded, WFMin
<1>2. \A y \in S : x <= y
  <2> SUFFICES ASSUME NEW y \in S, ~ (x <= y) PROVE FALSE
    OBVIOUS
  <2>1. x \in Nat /\ y \in Nat /\ y < x
    OBVIOUS
  <2>2. <<y, x>> \in OpToRel(<, Nat)
    BY <2>1 DEF OpToRel
  <2>3. QED
    BY <1>1, <2>2
<1>3. QED
  BY <1>2 DEF Min

(* The first waiter in time: whoever waits before it is overdue.            *)
LEMMA FirstWaiter ==
  ASSUME waiting \in Seq(Request)
  PROVE  /\ FirstInTime \in 1..(Len(waiting) + 1)
         /\ FirstInTime <= Len(waiting) => waiting[FirstInTime] \notin overdue
         /\ \A i \in 1..Len(waiting) : i < FirstInTime => waiting[i] \in overdue
<1> DEFINE S == {i \in 1..Len(waiting) : waiting[i] \notin overdue} \union {Len(waiting) + 1}
<1>1. Len(waiting) \in Nat
  OBVIOUS
<1>2. S \subseteq Nat /\ S # {}
  BY <1>1
<1>3. FirstInTime = Min(S)
  BY DEF FirstInTime
<1>4. FirstInTime \in S /\ \A i \in S : FirstInTime <= i
  BY <1>2, <1>3, Least
<1>5. FirstInTime \in 1..(Len(waiting) + 1)
  BY <1>1, <1>4
<1>6. \A i \in 1..Len(waiting) : i < FirstInTime => waiting[i] \in overdue
  BY <1>1, <1>4, <1>5
<1>7. QED
  BY <1>1, <1>4, <1>5, <1>6

(* What is behind the n-th waiter is a queue of just those.                 *)
LEMMA Rest ==
  ASSUME NEW s \in Seq(Request), IsInjective(s), NEW n \in 1..(Len(s) + 1),
         NEW t, t = SubSeq(s, n + 1, Len(s))
  PROVE  /\ t \in Seq(Request) /\ Len(t) <= Len(s)
         /\ n >= Len(s) => t = << >>
         /\ Range(t) \subseteq Range(s)
         /\ n <= Len(s) => s[n] \notin Range(t)
         /\ IsInjective(t)
<1>1. Len(s) \in Nat /\ DOMAIN s = 1..Len(s) /\ n \in Int /\ n >= 1
  OBVIOUS
<1>2. \A i \in (n + 1)..Len(s) : s[i] \in Request
  BY <1>1, ElementOfSeq
<1>3. /\ t \in Seq(Request)
      /\ Len(t) = IF n + 1 <= Len(s) THEN Len(s) - n ELSE 0
      /\ \A i \in 1..(Len(s) - n) : t[i] = s[n + i]
  <2>1. /\ t \in Seq(Request)
        /\ Len(t) = IF n + 1 <= Len(s) THEN Len(s) - (n + 1) + 1 ELSE 0
        /\ \A i \in 1..(Len(s) - (n + 1) + 1) : t[i] = s[(n + 1) + i - 1]
    BY <1>1, <1>2, SubSeqProperties, n + 1 \in Int, Len(s) \in Int
  <2>2. \A i \in 1..(Len(s) - n) : (n + 1) + i - 1 = n + i
    BY <1>1
  <2>3. Len(s) - (n + 1) + 1 = Len(s) - n
    BY <1>1
  <2>4. QED
    BY <2>1, <2>2, <2>3
<1>4. n >= Len(s) => t = << >>
  BY <1>1, SubSeqEmpty, n + 1 \in Int, Len(s) \in Int
<1>5. DOMAIN t = 1..Len(t)
  BY <1>3
<1>6. \A i \in DOMAIN t : n + i \in DOMAIN s /\ t[i] = s[n + i]
  <2> SUFFICES ASSUME NEW i \in 1..Len(t) PROVE n + i \in 1..Len(s) /\ t[i] = s[n + i]
    BY <1>1, <1>5
  <2>1. i \in 1..(Len(s) - n)
    BY <1>1, <1>3
  <2>2. n + i \in 1..Len(s)
    BY <1>1, <2>1
  <2>3. QED
    BY <1>3, <2>1, <2>2
<1>7. Range(t) \subseteq Range(s)
  BY <1>6 DEF Range
<1>8. n <= Len(s) => s[n] \notin Range(t)
  <2> SUFFICES ASSUME n <= Len(s), NEW i \in DOMAIN t, t[i] = s[n] PROVE FALSE
    BY DEF Range
  <2>1. i \in Nat /\ i >= 1
    BY <1>3, <1>5
  <2>2. n \in DOMAIN s /\ n + i \in DOMAIN s /\ s[n + i] = s[n]
    BY <1>1, <1>6
  <2>3. n + i = n
    BY <2>2 DEF IsInjective
  <2>4. QED
    BY <1>1, <2>1, <2>3
<1>9. IsInjective(t)
  <2> SUFFICES ASSUME NEW i \in DOMAIN t, NEW j \in DOMAIN t, t[i] = t[j] PROVE i = j
    BY DEF IsInjective
  <2>1. n + i = n + j
    BY <1>6 DEF IsInjective
  <2>2. i \in Nat /\ j \in Nat
    BY <1>3, <1>5
  <2>3. QED
    BY <1>1, <2>1, <2>2
<1>10. Len(t) <= Len(s)
  BY <1>1, <1>3
<1>11. QED
  BY <1>3, <1>4, <1>7, <1>8, <1>9, <1>10

(* Taking one waiter out leaves a queue of the others.                      *)
LEMMA Shortened ==
  ASSUME NEW s \in Seq(Request), IsInjective(s), NEW k \in DOMAIN s,
         NEW t, t = RemoveAt(s, k)
  PROVE  /\ t \in Seq(Request) /\ Len(t) = Len(s) - 1
         /\ Range(t) = Range(s) \ {s[k]}
         /\ IsInjective(t)
<1> DEFINE front == SubSeq(s, 1, k - 1)
           back == SubSeq(s, k + 1, Len(s))
<1>1. Len(s) \in Nat /\ DOMAIN s = 1..Len(s) /\ k \in 1..Len(s)
  OBVIOUS
<1>2. /\ front \in Seq(Request) /\ Len(front) = k - 1
      /\ \A i \in 1..(k - 1) : front[i] = s[i]
  <2>1. \A i \in 1..(k - 1) : s[i] \in Request
    BY <1>1, ElementOfSeq
  <2>2. /\ front \in Seq(Request)
        /\ Len(front) = IF 1 <= k - 1 THEN (k - 1) - 1 + 1 ELSE 0
        /\ \A i \in 1..((k - 1) - 1 + 1) : front[i] = s[1 + i - 1]
    BY <1>1, <2>1, SubSeqProperties, 1 \in Int, k - 1 \in Int
  <2>3. (k - 1) - 1 + 1 = k - 1 /\ \A i \in 1..(k - 1) : 1 + i - 1 = i
    BY <1>1
  <2>4. Len(front) = k - 1
    BY <1>1, <2>2
  <2>5. QED
    BY <2>2, <2>3, <2>4
<1>3. /\ back \in Seq(Request) /\ Len(back) = Len(s) - k
      /\ \A i \in 1..(Len(s) - k) : back[i] = s[k + i]
  <2>1. \A i \in (k + 1)..Len(s) : s[i] \in Request
    BY <1>1, ElementOfSeq
  <2>2. /\ back \in Seq(Request)
        /\ Len(back) = IF k + 1 <= Len(s) THEN Len(s) - (k + 1) + 1 ELSE 0
        /\ \A i \in 1..(Len(s) - (k + 1) + 1) : back[i] = s[(k + 1) + i - 1]
    BY <1>1, <2>1, SubSeqProperties, k + 1 \in Int, Len(s) \in Int
  <2>3. /\ Len(s) - (k + 1) + 1 = Len(s) - k
        /\ \A i \in 1..(Len(s) - k) : (k + 1) + i - 1 = k + i
    BY <1>1
  <2>4. Len(back) = Len(s) - k
    BY <1>1, <2>2
  <2>5. QED
    BY <2>2, <2>3, <2>4
<1>4. t = front \o back
  BY DEF RemoveAt
<1> HIDE DEF front, back
<1>5. /\ t \in Seq(Request) /\ Len(t) = Len(s) - 1
      /\ \A i \in 1..(Len(s) - 1) : t[i] = IF i <= k - 1 THEN front[i] ELSE back[i - (k - 1)]
  <2> DEFINE both == front \o back
  <2> front \in Seq(Request) /\ back \in Seq(Request)
    BY <1>2, <1>3
  <2>0. /\ both \in Seq(Request) /\ Len(both) = Len(front) + Len(back)
        /\ \A i \in 1..(Len(front) + Len(back)) :
             both[i] = IF i <= Len(front) THEN front[i] ELSE back[i - Len(front)]
    BY ConcatProperties, Zenon
  <2>1. /\ t \in Seq(Request) /\ Len(t) = Len(front) + Len(back)
        /\ \A i \in 1..(Len(front) + Len(back)) :
             t[i] = IF i <= Len(front) THEN front[i] ELSE back[i - Len(front)]
    BY <1>4, <2>0
  <2>2. Len(front) + Len(back) = Len(s) - 1
    BY <1>1, <1>2, <1>3
  <2>3. QED
    BY <1>2, <2>1, <2>2
<1>6. DOMAIN t = 1..(Len(s) - 1)
  BY <1>5
<1>7. \A i \in 1..(Len(s) - 1) : t[i] = IF i < k THEN s[i] ELSE s[i + 1]
  <2> SUFFICES ASSUME NEW i \in 1..(Len(s) - 1) PROVE t[i] = IF i < k THEN s[i] ELSE s[i + 1]
    OBVIOUS
  <2>1. CASE i < k
    <3>1. i <= k - 1 /\ i \in 1..(k - 1)
      BY <1>1, <2>1
    <3>2. QED
      BY <1>2, <1>5, <2>1, <3>1
  <2>2. CASE ~ (i < k)
    <3>1. ~ (i <= k - 1) /\ i - (k - 1) \in 1..(Len(s) - k) /\ k + (i - (k - 1)) = i + 1
      BY <1>1, <2>2
    <3>2. QED
      BY <1>3, <1>5, <2>2, <3>1
  <2>3. QED
    BY <2>1, <2>2
<1>8. Range(t) \subseteq Range(s) \ {s[k]}
  <2> SUFFICES ASSUME NEW i \in 1..(Len(s) - 1) PROVE t[i] \in Range(s) \ {s[k]}
    BY <1>6 DEF Range
  <2>1. PICK j \in 1..Len(s) : t[i] = s[j] /\ j # k
    <3>1. CASE i < k
      <4>1. i \in 1..Len(s) /\ i # k /\ t[i] = s[i]
        BY <1>1, <1>7, <3>1
      <4>2. QED
        BY <4>1
    <3>2. CASE ~ (i < k)
      <4>1. i + 1 \in 1..Len(s) /\ i + 1 # k /\ t[i] = s[i + 1]
        BY <1>1, <1>7, <3>2
      <4>2. QED
        BY <4>1
    <3>3. QED
      BY <3>1, <3>2
  <2>2. s[j] # s[k]
    BY <1>1, <2>1 DEF IsInjective
  <2>3. QED
    BY <1>1, <2>1, <2>2 DEF Range
<1>9. Range(s) \ {s[k]} \subseteq Range(t)
  <2> SUFFICES ASSUME NEW j \in 1..Len(s), j # k PROVE s[j] \in Range(t)
    BY <1>1 DEF Range
  <2>1. CASE j < k
    <3>1. j \in 1..(Len(s) - 1) /\ t[j] = s[j]
      BY <1>1, <1>7, <2>1
    <3>2. QED
      BY <1>6, <3>1 DEF Range
  <2>2. CASE k < j
    <3>1. j - 1 \in 1..(Len(s) - 1) /\ ~ (j - 1 < k) /\ (j - 1) + 1 = j
      BY <1>1, <2>2
    <3>2. t[j - 1] = s[j]
      BY <1>7, <3>1
    <3>3. QED
      BY <1>6, <3>1, <3>2 DEF Range
  <2>3. QED
    BY <1>1, <2>1, <2>2
<1>10. IsInjective(t)
  <2> DEFINE place(i) == IF i < k THEN i ELSE i + 1
  <2>1. \A i \in 1..(Len(s) - 1) : place(i) \in 1..Len(s) /\ t[i] = s[place(i)]
    BY <1>1, <1>7
  <2>2. \A i, j \in 1..(Len(s) - 1) : place(i) = place(j) => i = j
    BY <1>1
  <2> HIDE DEF place
  <2>3. \A i, j \in 1..(Len(s) - 1) : t[i] = t[j] => place(i) = place(j)
    BY <1>1, <2>1 DEF IsInjective
  <2>4. QED
    BY <1>6, <2>2, <2>3 DEF IsInjective
<1>11. QED
  BY <1>5, <1>8, <1>9, <1>10

Phases == {"planned", "waiting", "running", "ended", "refused"}

(* One request changes its phase; the others stay where they are.           *)
LEMMA Moved ==
  ASSUME phase \in [Request -> Phases], NEW r \in Request, NEW p \in Phases, Becomes(r, p)
  PROVE  /\ phase' \in [Request -> Phases]
         /\ \A q : In(q)' = IF q = p THEN In(q) \union {r} ELSE In(q) \ {r}
  BY DEF Becomes, In

(* Initially nobody runs and nobody waits.                                  *)
LEMMA Initially == Init => TypeOK
<1> SUFFICES ASSUME Init PROVE TypeOK
  OBVIOUS
<1>1. In("running") = {} /\ In("waiting") = {}
  BY DEF Init, In
<1>2. waiting = << >> /\ Range(waiting) = {} /\ IsInjective(waiting) /\ Len(waiting) = 0
  BY DEF Init, Range, IsInjective
<1>3. 0 <= MaxQueued /\ << >> \in Seq(Request)
  BY QueueAssumption
<1>4. Cardinality({}) = 0
  BY FS_EmptySet
<1>5. QED
  BY <1>1, <1>2, <1>3, <1>4 DEF Init, TypeOK

(* A request that is admitted takes one place more.                         *)
LEMMA AdmitTypes ==
  ASSUME TypeOK, NEW r \in Request, Admit(r)
  PROVE  TypeOK'
<1>1. /\ phase \in [Request -> Phases] /\ phase[r] = "planned" /\ Becomes(r, "running")
      /\ UNCHANGED <<setting, waiting, overdue>> /\ active' = active + 1
      /\ allowed' = [allowed EXCEPT ![r] = setting]
  BY DEF TypeOK, Admit, Arrives, Phases
<1>2. /\ phase' \in [Request -> Phases]
      /\ In("running")' = In("running") \union {r}
      /\ In("waiting")' = In("waiting") \ {r}
  BY <1>1, Moved DEF Phases
<1>3. r \notin In("running") /\ r \notin In("waiting")
  BY <1>1 DEF In
<1>4. Cardinality(In("running")') = Cardinality(In("running")) + 1
  BY <1>2, <1>3, Countable, FS_AddElement
<1>5. active' = Cardinality(In("running"))'
  BY <1>1, <1>4 DEF TypeOK
<1>6. allowed' \in [Request -> Concurrency \union {0}]
  BY <1>1 DEF TypeOK
<1>7. Range(waiting)' = In("waiting")' /\ IsInjective(waiting)'
  BY <1>1, <1>2, <1>3 DEF TypeOK
<1>8. QED
  BY <1>1, <1>2, <1>5, <1>6, <1>7 DEF TypeOK, Phases

(* A request that joins the queue is its last waiter.                       *)
LEMMA EnqueueTypes ==
  ASSUME TypeOK, NEW r \in Request, Enqueue(r)
  PROVE  TypeOK'
<1>1. /\ phase \in [Request -> Phases] /\ phase[r] = "planned" /\ Becomes(r, "waiting")
      /\ UNCHANGED <<setting, active, overdue>> /\ waiting' = Append(waiting, r)
      /\ allowed' = [allowed EXCEPT ![r] = setting] /\ Len(waiting) < MaxQueued
  BY DEF TypeOK, Enqueue, Arrives, Phases
<1>2. /\ phase' \in [Request -> Phases]
      /\ In("running")' = In("running") \ {r}
      /\ In("waiting")' = In("waiting") \union {r}
  BY <1>1, Moved DEF Phases
<1>3. r \notin In("running") /\ r \notin In("waiting")
  BY <1>1 DEF In
<1>4. /\ waiting \in Seq(Request) /\ r \notin Range(waiting)
      /\ Range(waiting) = In("waiting") /\ IsInjective(waiting)
  BY <1>3 DEF TypeOK
<1>5. /\ waiting' \in Seq(Request) /\ Len(waiting') = Len(waiting) + 1
      /\ \A i \in 1..Len(waiting) : waiting'[i] = waiting[i]
      /\ waiting'[Len(waiting) + 1] = r
  BY <1>1, <1>4, AppendProperties
<1>6. DOMAIN waiting' = 1..(Len(waiting) + 1) /\ DOMAIN waiting = 1..Len(waiting) /\ Len(waiting) \in Nat
  BY <1>4, <1>5
<1>7. Range(waiting') = Range(waiting) \union {r}
  <2>1. \A i \in 1..(Len(waiting) + 1) : i \in 1..Len(waiting) \/ i = Len(waiting) + 1
    BY <1>6
  <2>2. Range(waiting') \subseteq Range(waiting) \union {r}
    BY <1>5, <1>6, <2>1 DEF Range
  <2>3. 1..Len(waiting) \subseteq 1..(Len(waiting) + 1) /\ Len(waiting) + 1 \in 1..(Len(waiting) + 1)
    BY <1>6
  <2>4. Range(waiting) \subseteq Range(waiting')
    BY <1>5, <1>6, <2>3 DEF Range
  <2>5. r \in Range(waiting')
    BY <1>5, <1>6, <2>3 DEF Range
  <2>6. QED
    BY <2>2, <2>4, <2>5
<1>8. IsInjective(waiting')
  <2> SUFFICES ASSUME NEW i \in 1..(Len(waiting) + 1), NEW j \in 1..(Len(waiting) + 1),
                      waiting'[i] = waiting'[j]
               PROVE  i = j
    BY <1>6 DEF IsInjective
  <2>1. \A k \in 1..Len(waiting) : waiting'[k] # r
    BY <1>4, <1>5, <1>6 DEF Range
  <2>2. CASE i \in 1..Len(waiting) /\ j \in 1..Len(waiting)
    BY <1>4, <1>5, <1>6, <2>2 DEF IsInjective
  <2>3. CASE i = Len(waiting) + 1 \/ j = Len(waiting) + 1
    BY <1>5, <1>6, <2>1, <2>3
  <2>4. QED
    BY <1>6, <2>2, <2>3
<1>9. Len(waiting') <= MaxQueued
  BY <1>1, <1>5, <1>6, QueueAssumption
<1>10. allowed' \in [Request -> Concurrency \union {0}]
  BY <1>1 DEF TypeOK
<1>11. active' = Cardinality(In("running"))'
  BY <1>1, <1>2, <1>3 DEF TypeOK
<1>12. Range(waiting)' = In("waiting")'
  BY <1>2, <1>4, <1>7
<1>13. QED
  BY <1>1, <1>2, <1>5, <1>8, <1>9, <1>10, <1>11, <1>12 DEF TypeOK, Phases

(* A request that is refused at once touches neither places nor queue.      *)
LEMMA RefuseTypes ==
  ASSUME TypeOK, NEW r \in Request, Refuse(r)
  PROVE  TypeOK'
<1>1. /\ phase \in [Request -> Phases] /\ phase[r] = "planned" /\ Becomes(r, "refused")
      /\ UNCHANGED <<setting, active, waiting, overdue>>
      /\ allowed' = [allowed EXCEPT ![r] = setting]
  BY DEF TypeOK, Refuse, Arrives, Phases
<1>2. /\ phase' \in [Request -> Phases]
      /\ In("running")' = In("running") \ {r}
      /\ In("waiting")' = In("waiting") \ {r}
  BY <1>1, Moved DEF Phases
<1>3. In("running")' = In("running") /\ In("waiting")' = In("waiting")
  BY <1>1, <1>2 DEF In
<1>4. allowed' \in [Request -> Concurrency \union {0}]
  BY <1>1 DEF TypeOK
<1>5. QED
  BY <1>1, <1>2, <1>3, <1>4 DEF TypeOK, Phases

(* A waiter that goes away or is overdue leaves the others in the queue.    *)
LEMMA LeavesTypes ==
  ASSUME TypeOK, NEW r \in Request, Leaves(r)
  PROVE  TypeOK'
<1>1. /\ phase \in [Request -> Phases] /\ phase[r] = "waiting" /\ Becomes(r, "refused")
      /\ UNCHANGED <<setting, allowed, active, overdue>>
  BY DEF TypeOK, Leaves, Phases
<1>2. PICK k \in DOMAIN waiting : waiting[k] = r /\ waiting' = RemoveAt(waiting, k)
  BY DEF Leaves
<1>3. /\ phase' \in [Request -> Phases]
      /\ In("running")' = In("running") \ {r}
      /\ In("waiting")' = In("waiting") \ {r}
  BY <1>1, Moved DEF Phases
<1>4. r \notin In("running")
  BY <1>1 DEF In
<1>5. /\ waiting \in Seq(Request) /\ IsInjective(waiting)
      /\ Range(waiting) = In("waiting") /\ Len(waiting) <= MaxQueued
  BY DEF TypeOK
<1>6. /\ waiting' \in Seq(Request) /\ Len(waiting') = Len(waiting) - 1
      /\ Range(waiting') = Range(waiting) \ {r}
      /\ IsInjective(waiting')
  BY <1>2, <1>5, Shortened
<1>7. Len(waiting') <= MaxQueued
  BY <1>5, <1>6, QueueAssumption
<1>8. active' = Cardinality(In("running"))'
  BY <1>1, <1>3, <1>4 DEF TypeOK
<1>9. QED
  BY <1>1, <1>3, <1>5, <1>6, <1>7, <1>8 DEF TypeOK, Phases

(* A place that is passed on is held by one request before and after; the   *)
(* waiters behind the one that got it wait on, and nobody else does.        *)
LEMMA PassesTypes ==
  ASSUME TypeOK, NEW r \in Request, NEW n \in 1..(Len(waiting) + 1),
         Passes(r, n, SubSeq(waiting, n + 1, Len(waiting)))
  PROVE  TypeOK'
<1> DEFINE left == SubSeq(waiting, n + 1, Len(waiting))
<1>1. /\ phase \in [Request -> Phases] /\ phase[r] = "running"
      /\ phase' = [q \in Request |->
                      IF q = r THEN "ended"
                      ELSE IF n <= Len(waiting) /\ q = waiting[n] THEN "running"
                      ELSE IF q \in Range(waiting) \ Range(left) THEN "refused" ELSE phase[q]]
      /\ active' = IF n <= Len(waiting) THEN active ELSE active - 1
      /\ waiting' = left
      /\ UNCHANGED <<setting, allowed, overdue>>
  BY DEF TypeOK, Passes, Phases
<1>2. /\ waiting \in Seq(Request) /\ IsInjective(waiting)
      /\ Range(waiting) = In("waiting") /\ Len(waiting) <= MaxQueued
      /\ active = Cardinality(In("running"))
  BY DEF TypeOK
<1>3. /\ left \in Seq(Request) /\ Len(left) <= Len(waiting)
      /\ n >= Len(waiting) => left = << >>
      /\ Range(left) \subseteq Range(waiting)
      /\ n <= Len(waiting) => waiting[n] \notin Range(left)
      /\ IsInjective(left)
  BY <1>2, Rest
<1> HIDE DEF left
<1>4. Len(waiting) \in Nat /\ n \in Nat /\ n >= 1 /\ DOMAIN waiting = 1..Len(waiting)
  BY <1>2
<1>5. n <= Len(waiting) => waiting[n] \in Range(waiting)
  BY <1>4 DEF Range
<1>6. phase' \in [Request -> Phases]
  BY <1>1 DEF Phases
<1>7. In("waiting")' = Range(left)
  <2>1. ASSUME NEW q \in Request
        PROVE  phase'[q] = "waiting" <=> q \in Range(left)
    <3>1. CASE q = r
      BY <1>1, <1>2, <1>3, <2>1, <3>1 DEF In
    <3>2. CASE q # r /\ n <= Len(waiting) /\ q = waiting[n]
      BY <1>1, <1>3, <2>1, <3>2
    <3>3. CASE q # r /\ ~ (n <= Len(waiting) /\ q = waiting[n]) /\ q \in Range(waiting) \ Range(left)
      BY <1>1, <2>1, <3>3
    <3>4. CASE q # r /\ ~ (n <= Len(waiting) /\ q = waiting[n]) /\ q \notin Range(waiting) \ Range(left)
      <4>1. phase'[q] = phase[q]
        BY <1>1, <2>1, <3>4
      <4>2. phase[q] = "waiting" <=> q \in Range(waiting)
        BY <1>2, <2>1 DEF In
      <4>3. QED
        BY <1>3, <3>4, <4>1, <4>2
    <3>5. QED
      BY <3>1, <3>2, <3>3, <3>4
  <2>2. Range(left) \subseteq Request
    BY <1>2, <1>3 DEF In
  <2>3. QED
    BY <2>1, <2>2 DEF In
<1>8. active' = Cardinality(In("running"))'
  <2>1. ASSUME NEW q \in Request
        PROVE  phase'[q] = "running" <=>
                 (q \in In("running") \ {r}) \/ (n <= Len(waiting) /\ q = waiting[n])
    <3>1. q \in Range(waiting) => phase[q] = "waiting"
      BY <1>2 DEF In
    <3>2. r \notin Range(waiting)
      BY <1>1, <1>2 DEF In
    <3>3. QED
      BY <1>1, <1>5, <2>1, <3>1, <3>2 DEF In
  <2>2. IsFiniteSet(In("running")) /\ Cardinality(In("running")) \in Nat /\ r \in In("running")
    BY <1>1, Countable DEF In
  <2>3. /\ IsFiniteSet(In("running") \ {r})
        /\ Cardinality(In("running") \ {r}) = Cardinality(In("running")) - 1
    BY <2>2, FS_RemoveElement
  <2>4. CASE n <= Len(waiting)
    <3>1. waiting[n] \in Request /\ waiting[n] \notin In("running") \ {r}
      BY <1>2, <1>5, <2>4 DEF In
    <3>2. In("running")' = (In("running") \ {r}) \union {waiting[n]}
      BY <2>1, <2>4, <3>1 DEF In
    <3>3. Cardinality((In("running") \ {r}) \union {waiting[n]}) = Cardinality(In("running") \ {r}) + 1
      BY <2>3, <3>1, FS_AddElement
    <3>4. Cardinality((In("running") \ {r}) \union {waiting[n]}) = Cardinality(In("running"))
      BY <2>2, <2>3, <3>3
    <3>5. active' = Cardinality(In("running"))
      BY <1>1, <1>2, <2>4
    <3>6. QED
      BY <3>2, <3>4, <3>5
  <2>5. CASE ~ (n <= Len(waiting))
    <3>1. In("running")' = In("running") \ {r}
      BY <2>1, <2>5 DEF In
    <3>2. QED
      BY <1>1, <1>2, <2>2, <2>3, <2>5, <3>1
  <2>6. QED
    BY <2>4, <2>5
<1>9. waiting' \in Seq(Request) /\ Len(waiting') <= MaxQueued
  <2>1. Len(left) \in Nat
    BY <1>3
  <2>2. QED
    BY <1>1, <1>2, <1>3, <1>4, <2>1, QueueAssumption
<1>10. Range(waiting)' = In("waiting")' /\ IsInjective(waiting)'
  BY <1>1, <1>3, <1>7
<1>11. QED
  BY <1>1, <1>6, <1>8, <1>9, <1>10 DEF TypeOK, Phases

(* Every step counts places and waiters exactly.                            *)
LEMMA StepTypes == TypeOK /\ [Next]_vars => TypeOK'
<1> SUFFICES ASSUME TypeOK, [Next]_vars PROVE TypeOK'
  OBVIOUS
<1>1. CASE ChangeSetting
  BY <1>1 DEF ChangeSetting, TypeOK, In
<1>2. ASSUME NEW r \in Request, Admit(r) PROVE TypeOK'
  BY <1>2, AdmitTypes
<1>3. ASSUME NEW r \in Request, Enqueue(r) PROVE TypeOK'
  BY <1>3, EnqueueTypes
<1>4. ASSUME NEW r \in Request, Refuse(r) PROVE TypeOK'
  BY <1>4, RefuseTypes
<1>5. ASSUME NEW r \in Request, Release(r) PROVE TypeOK'
  <2>1. waiting \in Seq(Request)
    BY DEF TypeOK
  <2>2. FirstInTime \in 1..(Len(waiting) + 1)
    BY <2>1, FirstWaiter
  <2>3. QED
    BY <1>5, <2>2, PassesTypes DEF Release
<1>6. ASSUME NEW r \in Request, Cancel(r) \/ Expire(r) PROVE TypeOK'
  BY <1>6, LeavesTypes DEF Cancel, Expire
<1>7. ASSUME NEW r \in Request, TimePasses(r) PROVE TypeOK'
  BY <1>7 DEF TimePasses, TypeOK, In
<1>8. CASE UNCHANGED vars
  BY <1>8 DEF vars, TypeOK, In
<1>9. QED
  BY <1>1, <1>2, <1>3, <1>4, <1>5, <1>6, <1>7, <1>8 DEF Next

(* active is the number of executions that hold a place, and the queue      *)
(* holds exactly the unanswered waiters, each once (queue.ts acquire,       *)
(* release, grant, expire and cancel): no place is lost or given twice.     *)
THEOREM Counting == Spec => []TypeOK
  BY Initially, StepTypes, PTL DEF Spec

(* Whoever waits, waits for an execution that holds a place and will pass   *)
(* it on (queue.ts acquire enqueues only while every place is taken).       *)
THEOREM SomebodyRuns == Spec => []NobodyWaitsForNothing
<1>1. Init => NobodyWaitsForNothing
  BY DEF Init, NobodyWaitsForNothing
<1>2. TypeOK /\ NobodyWaitsForNothing /\ [Next]_vars => NobodyWaitsForNothing'
  <2> SUFFICES ASSUME TypeOK, NobodyWaitsForNothing, [Next]_vars PROVE NobodyWaitsForNothing'
    OBVIOUS
  <2>1. active \in Nat
    BY Countable DEF TypeOK
  <2>2. waiting # << >> => active > 0
    BY DEF NobodyWaitsForNothing
  <2>3. CASE ChangeSetting
    BY <2>2, <2>3 DEF ChangeSetting, NobodyWaitsForNothing
  <2>4. ASSUME NEW r \in Request, Admit(r) PROVE NobodyWaitsForNothing'
    BY <2>1, <2>4 DEF Admit, NobodyWaitsForNothing
  <2>5. ASSUME NEW r \in Request, Enqueue(r) PROVE NobodyWaitsForNothing'
    <3>1. setting \in Nat \ {0}
      BY QueueAssumption DEF TypeOK
    <3>2. active >= setting /\ active' = active
      BY <2>5 DEF Enqueue
    <3>3. QED
      BY <2>1, <3>1, <3>2 DEF NobodyWaitsForNothing
  <2>6. ASSUME NEW r \in Request, Refuse(r) PROVE NobodyWaitsForNothing'
    BY <2>2, <2>6 DEF Refuse, NobodyWaitsForNothing
  <2>7. ASSUME NEW r \in Request, Release(r) PROVE NobodyWaitsForNothing'
    <3> DEFINE n == FirstInTime
    <3>1. waiting \in Seq(Request) /\ IsInjective(waiting) /\ Len(waiting) \in Nat
      BY DEF TypeOK
    <3>2. n \in 1..(Len(waiting) + 1)
      BY <3>1, FirstWaiter
    <3>3. /\ waiting' = SubSeq(waiting, n + 1, Len(waiting))
          /\ active' = IF n <= Len(waiting) THEN active ELSE active - 1
      BY <2>7 DEF Release, Passes
    <3>4. n >= Len(waiting) => waiting' = << >>
      BY <3>1, <3>2, <3>3, Rest
    <3> HIDE DEF n
    <3>5. CASE n >= Len(waiting)
      BY <3>4, <3>5 DEF NobodyWaitsForNothing
    <3>6. CASE ~ (n >= Len(waiting))
      <4>1. n <= Len(waiting) /\ Len(waiting) # 0
        BY <3>1, <3>2, <3>6
      <4>2. active' = active /\ waiting # << >>
        BY <3>1, <3>3, <4>1
      <4>3. QED
        BY <2>2, <4>2 DEF NobodyWaitsForNothing
    <3>7. QED
      BY <3>5, <3>6
  <2>8. ASSUME NEW r \in Request, Cancel(r) \/ Expire(r) PROVE NobodyWaitsForNothing'
    <3>1. PICK k \in DOMAIN waiting : waiting[k] = r
      BY <2>8 DEF Cancel, Expire, Leaves
    <3>2. waiting \in Seq(Request)
      BY DEF TypeOK
    <3>3. waiting # << >>
      BY <3>1, <3>2
    <3>4. active' = active
      BY <2>8 DEF Cancel, Expire, Leaves
    <3>5. QED
      BY <2>2, <3>3, <3>4 DEF NobodyWaitsForNothing
  <2>9. ASSUME NEW r \in Request, TimePasses(r) PROVE NobodyWaitsForNothing'
    BY <2>2, <2>9 DEF TimePasses, NobodyWaitsForNothing
  <2>10. CASE UNCHANGED vars
    BY <2>2, <2>10 DEF vars, NobodyWaitsForNothing
  <2>11. QED
    BY <2>3, <2>4, <2>5, <2>6, <2>7, <2>8, <2>9, <2>10 DEF Next
<1>3. QED
  BY <1>1, <1>2, Counting, PTL DEF Spec

(* Only a release lets a waiter in, and it is the first that is in time.    *)
LEMMA OnlyByRelease ==
  ASSUME TypeOK, [Next]_vars, NEW q \in Request, phase[q] = "waiting", phase'[q] = "running"
  PROVE  /\ FirstInTime \in 1..Len(waiting) /\ q = waiting[FirstInTime]
         /\ \E r \in Request : Release(r)
<1>1. \A r \in Request, p \in Phases : Becomes(r, p) => phase'[q] = phase[q] \/ (q = r /\ phase'[q] = p)
  BY DEF Becomes, TypeOK
<1>2. ~ \E r \in Request : Admit(r)
  BY <1>1 DEF Admit, Arrives, Phases
<1>3. ~ \E r \in Request : Enqueue(r) \/ Refuse(r) \/ Cancel(r) \/ Expire(r)
  BY <1>1 DEF Enqueue, Refuse, Cancel, Expire, Leaves, Phases
<1>4. ~ ChangeSetting /\ ~ UNCHANGED vars /\ ~ \E r \in Request : TimePasses(r)
  BY DEF ChangeSetting, vars, TimePasses
<1>5. PICK r \in Request : Release(r)
  BY <1>2, <1>3, <1>4 DEF Next
<1>6. waiting \in Seq(Request) /\ FirstInTime \in 1..(Len(waiting) + 1)
  BY FirstWaiter DEF TypeOK
<1>7. FirstInTime <= Len(waiting) /\ q = waiting[FirstInTime]
  BY <1>5 DEF Release, Passes
<1>8. QED
  BY <1>5, <1>6, <1>7

(* A waiter gets a place only when everyone who waited before it has been   *)
(* answered (queue.ts grant skips only those it refuses).                   *)
THEOREM Admission == Spec => AdmittedInOrder
<1>1. ASSUME TypeOK, [Next]_vars
      PROVE  \A i, j \in 1..Len(waiting) :
               i < j /\ phase'[waiting[j]] = "running" => phase'[waiting[i]] # "waiting"
  <2> SUFFICES ASSUME NEW i \in 1..Len(waiting), NEW j \in 1..Len(waiting), i < j,
                      phase'[waiting[j]] = "running"
               PROVE  phase'[waiting[i]] # "waiting"
    OBVIOUS
  <2>1. /\ waiting \in Seq(Request) /\ IsInjective(waiting) /\ Range(waiting) = In("waiting")
        /\ DOMAIN waiting = 1..Len(waiting) /\ Len(waiting) \in Nat
    BY <1>1 DEF TypeOK
  <2>2. \A k \in 1..Len(waiting) : waiting[k] \in Request /\ phase[waiting[k]] = "waiting"
    BY <2>1 DEF Range, In
  <2>3. /\ FirstInTime \in 1..Len(waiting) /\ waiting[j] = waiting[FirstInTime]
        /\ \E r \in Request : Release(r)
    BY <1>1, <2>2, OnlyByRelease
  <2>4. j = FirstInTime
    BY <2>1, <2>3 DEF IsInjective
  <2>5. PICK r \in Request : Release(r)
    BY <2>3
  <2> DEFINE left == SubSeq(waiting, j + 1, Len(waiting))
  <2>6. waiting[i] \notin Range(left)
    <3>1. \A k \in (j + 1)..Len(waiting) : waiting[k] \in Request
      BY <2>1, <2>2
    <3>2. /\ Len(left) = IF j + 1 <= Len(waiting) THEN Len(waiting) - (j + 1) + 1 ELSE 0
          /\ \A k \in 1..(Len(waiting) - (j + 1) + 1) : left[k] = waiting[(j + 1) + k - 1]
          /\ left \in Seq(Request)
      BY <2>1, <3>1, SubSeqProperties, j + 1 \in Int, Len(waiting) \in Int
    <3> HIDE DEF left
    <3>3. SUFFICES ASSUME NEW k \in 1..Len(left), left[k] = waiting[i] PROVE FALSE
      BY <3>2 DEF Range
    <3>4. k \in 1..(Len(waiting) - (j + 1) + 1)
      <4>1. CASE j + 1 <= Len(waiting)
        BY <3>2, <4>1
      <4>2. CASE ~ (j + 1 <= Len(waiting))
        BY <3>2, <4>2
      <4>3. QED
        BY <4>1, <4>2
    <3>5. (j + 1) + k - 1 \in 1..Len(waiting) /\ (j + 1) + k - 1 # i
      BY <2>1, <3>4
    <3>6. waiting[(j + 1) + k - 1] = waiting[i]
      BY <3>2, <3>3, <3>4
    <3>7. QED
      BY <2>1, <3>5, <3>6 DEF IsInjective
  <2>7. /\ phase[r] = "running"
        /\ phase' = [q \in Request |->
                        IF q = r THEN "ended"
                        ELSE IF j <= Len(waiting) /\ q = waiting[j] THEN "running"
                        ELSE IF q \in Range(waiting) \ Range(left) THEN "refused" ELSE phase[q]]
    BY <2>4, <2>5 DEF Release, Passes
  <2> HIDE DEF left
  <2>8. waiting[i] \in Request /\ waiting[i] \in Range(waiting)
    BY <2>1, <2>2 DEF Range
  <2>9. QED
    BY <2>6, <2>7, <2>8
<1>2. TypeOK /\ [Next]_vars => [\A i, j \in 1..Len(waiting) :
               i < j /\ phase'[waiting[j]] = "running" => phase'[waiting[i]] # "waiting"]_vars
  BY <1>1
<1>3. QED
  BY <1>2, Counting, PTL DEF Spec, AdmittedInOrder

(* Nobody whose wait has reached its bound is admitted, although its timer  *)
(* has not run yet (queue.ts grant looks at the clock again).               *)
THEOREM Timeliness == Spec => OverdueIsRefused
<1>1. ASSUME TypeOK, [Next]_vars, NEW r \in In("waiting") \intersect overdue
      PROVE  phase'[r] # "running"
  <2> SUFFICES ASSUME phase'[r] = "running" PROVE FALSE
    OBVIOUS
  <2>1. r \in Request /\ phase[r] = "waiting" /\ waiting \in Seq(Request)
    BY <1>1 DEF In, TypeOK
  <2>2. FirstInTime \in 1..Len(waiting) /\ r = waiting[FirstInTime]
    BY <1>1, <2>1, OnlyByRelease
  <2>3. FirstInTime <= Len(waiting) => waiting[FirstInTime] \notin overdue
    BY <2>1, FirstWaiter
  <2>4. QED
    BY <1>1, <2>2, <2>3
<1>2. TypeOK /\ [Next]_vars => [\A r \in In("waiting") \intersect overdue : phase'[r] # "running"]_vars
  BY <1>1
<1>3. QED
  BY <1>2, Counting, PTL DEF Spec, OverdueIsRefused

------------------------------------------------------------------------------
(* The leases on a source.                                                  *)

LEMMA LentAreFinite == IsFiniteSet(Lent) /\ Cardinality(Lent) \in Nat
  BY SidecarAssumption, FS_Subset, FS_CardinalityType DEF Lent

LEMMA ScopeStartKeeps ==
  ASSUME ScopesInv, NEW o \in Operation, Scopes!Start(o)
  PROVE  ScopesInv'
<1>1. ScopesTypeOK'
  BY DEF ScopesInv, ScopesTypeOK, Scopes!Start, Scopes!Steps
<1>2. ASSUME NEW p \in Operation PROVE ScopeInv(p)'
  BY DEF ScopesInv, ScopesTypeOK, ScopeInv, Lent, Scopes!Start
<1>3. (leases = Cardinality(Lent) /\ leases <= MaxConnections)'
  <2>1. CASE leases >= MaxConnections
    <3>1. Lent' = Lent /\ leases' = leases
      BY <2>1 DEF ScopesInv, ScopesTypeOK, Lent, Scopes!Start
    <3>2. QED
      BY <3>1 DEF ScopesInv
  <2>2. CASE ~(leases >= MaxConnections)
    <3>1. Lent' = Lent \union {o} /\ o \notin Lent /\ leases' = leases + 1
      <4>1. /\ caller[o] = "idle" /\ caller' = [caller EXCEPT ![o] = "waiting"] /\ leases' = leases + 1
        BY <2>2 DEF Scopes!Start
      <4>2. caller'[o] = "waiting" /\ \A p \in Operation \ {o} : caller'[p] = caller[p]
        BY <4>1 DEF ScopesInv, ScopesTypeOK
      <4>3. QED
        BY <4>1, <4>2 DEF Lent
    <3>2. Cardinality(Lent') = Cardinality(Lent) + 1
      BY <3>1, LentAreFinite, FS_AddElement
    <3>3. QED
      BY <2>2, <3>1, <3>2, LentAreFinite, SidecarAssumption DEF ScopesInv
  <2>3. QED
    BY <2>1, <2>2
<1>4. QED
  BY <1>1, <1>2, <1>3 DEF ScopesInv

LEMMA ScopeCloseKeeps ==
  ASSUME ScopesInv, NEW o \in Operation, Scopes!Close(o)
  PROVE  ScopesInv'
<1>1. ScopesTypeOK'
  BY DEF ScopesInv, ScopesTypeOK, Scopes!Close
<1>2. ASSUME NEW p \in Operation PROVE ScopeInv(p)'
  BY DEF ScopesInv, ScopesTypeOK, ScopeInv, Lent, Scopes!Close
<1>3. (leases = Cardinality(Lent) /\ leases <= MaxConnections)'
  <2>1. Lent' = Lent \ {o} /\ o \in Lent /\ leases' = leases - 1
    BY DEF ScopesInv, ScopesTypeOK, Lent, Scopes!Close
  <2>2. Cardinality(Lent') = Cardinality(Lent) - 1
    BY <2>1, LentAreFinite, FS_RemoveElement
  <2>3. QED
    BY <2>1, <2>2, LentAreFinite, SidecarAssumption DEF ScopesInv
<1>4. QED
  BY <1>1, <1>2, <1>3 DEF ScopesInv

(* The other steps lend nothing and give nothing back.                       *)
LEMMA LentStays ==
  ASSUME ScopesInv, ScopesTypeOK', \A p \in Operation : ScopeInv(p)', Lent' = Lent, leases' = leases
  PROVE  ScopesInv'
  BY DEF ScopesInv

LEMMA AnsweredOnTime ==
  ASSUME ScopesInv, NEW o \in Operation, Scopes!Answered(o)
  PROVE  ScopesInv'
<1>1. /\ reader[o] \in Scopes!Steps /\ expired[o] \in BOOLEAN
      /\ UNCHANGED <<mode, caller, expired, outcome, leases>>
  BY DEF ScopesInv, ScopesTypeOK, Scopes!Answered
<1>2. Scopes!After(o) \in Scopes!Steps \union {"idle", "read", "failed"}
  BY <1>1 DEF Scopes!After, Scopes!Steps
<1>3. Scopes!After(o) = "work" => ~expired[o]
  BY <1>1 DEF Scopes!After, Scopes!Steps
<1>4. Scopes!After(o) = "connect" => reader[o] = "credentials" /\ ~expired[o]
  BY <1>1 DEF Scopes!After, Scopes!Steps
<1>5. /\ reader' = [reader EXCEPT ![o] = Scopes!After(o)]
      /\ asked_late' = [asked_late EXCEPT ![o] = @ \/ (Scopes!After(o) = "work" /\ expired[o])]
      /\ client' = [client EXCEPT ![o] = CASE Scopes!After(o) = "connect" -> "connecting"
                                           [] reader[o] = "connect" -> "open" [] OTHER -> @]
      /\ reader[o] = "connect" => client[o] = "connecting"
  BY DEF Scopes!Answered
<1>6. ~asked_late'[o]
  BY <1>3, <1>5 DEF ScopesInv, ScopesTypeOK, ScopeInv
<1>7. asked_late' = asked_late
  BY <1>5, <1>6 DEF ScopesInv, ScopesTypeOK, ScopeInv
<1>8. client'[o] \in {"none", "connecting", "open"} /\ (client'[o] # "none" => o \in Lent)
  <2>1. client'[o] = CASE Scopes!After(o) = "connect" -> "connecting"
                       [] reader[o] = "connect" -> "open" [] OTHER -> client[o]
    BY <1>5 DEF ScopesInv, ScopesTypeOK
  <2>2. Scopes!After(o) = "connect" => o \in Lent
    BY <1>4 DEF ScopesInv, ScopesTypeOK, ScopeInv, Lent
  <2>3. QED
    BY <2>1, <2>2, <1>5 DEF ScopesInv, ScopesTypeOK, ScopeInv
<1>9. ScopesTypeOK' /\ Lent' = Lent
  BY <1>1, <1>2, <1>5, <1>7, <1>8 DEF ScopesInv, ScopesTypeOK, Lent
<1>10. ASSUME NEW p \in Operation PROVE ScopeInv(p)'
  <2>1. reader[o] # "idle" /\ caller[o] # "idle"
    BY <1>1 DEF ScopesInv, ScopeInv, Scopes!Steps
  <2>2. QED
    BY <1>1, <1>5, <1>7, <1>8, <1>9, <2>1 DEF ScopesInv, ScopesTypeOK, ScopeInv
<1>11. QED
  BY <1>1, <1>9, <1>10, LentStays

LEMMA ScopesSteps == ScopesInv /\ Scopes!Next => ScopesInv'
<1> SUFFICES ASSUME ScopesInv, NEW o \in Operation,
                    \/ Scopes!Start(o) \/ Scopes!Answered(o) \/ Scopes!Statement(o) \/ Scopes!ConnectFails(o)
                    \/ Scopes!Fails(o) \/ Scopes!ClosedUnder(o) \/ Scopes!Interrupt(o) \/ Scopes!Settle(o)
                    \/ Scopes!Cancelled(o) \/ Scopes!Close(o)
             PROVE  ScopesInv'
  BY DEF Scopes!Next
<1>1. CASE Scopes!Start(o)
  BY <1>1, ScopeStartKeeps
<1>2. CASE Scopes!Answered(o)
  BY <1>2, AnsweredOnTime
<1>3. CASE Scopes!Close(o)
  BY <1>3, ScopeCloseKeeps
<1>4. CASE Scopes!Statement(o) \/ Scopes!ClosedUnder(o)
  <2>1. ScopesTypeOK' /\ Lent' = Lent /\ leases' = leases
    BY <1>4 DEF ScopesInv, ScopesTypeOK, Lent, Scopes!Statement, Scopes!ClosedUnder
  <2>2. ASSUME NEW p \in Operation PROVE ScopeInv(p)'
    BY <1>4 DEF ScopesInv, ScopesTypeOK, ScopeInv, Lent, Scopes!Statement, Scopes!ClosedUnder, Scopes!Steps
  <2>3. QED
    BY <2>1, <2>2, LentStays
<1>5. CASE Scopes!ConnectFails(o)
  <2>1. ScopesTypeOK' /\ Lent' = Lent /\ leases' = leases
    BY <1>5 DEF ScopesInv, ScopesTypeOK, Lent, Scopes!ConnectFails
  <2>2. ASSUME NEW p \in Operation PROVE ScopeInv(p)'
    BY <1>5 DEF ScopesInv, ScopesTypeOK, ScopeInv, Lent, Scopes!ConnectFails
  <2>3. QED
    BY <2>1, <2>2, LentStays
<1>6. CASE Scopes!Fails(o)
  <2>1. ScopesTypeOK' /\ Lent' = Lent /\ leases' = leases
    BY <1>6 DEF ScopesInv, ScopesTypeOK, Lent, Scopes!Fails
  <2>2. ASSUME NEW p \in Operation PROVE ScopeInv(p)'
    BY <1>6 DEF ScopesInv, ScopesTypeOK, ScopeInv, Lent, Scopes!Fails, Scopes!Steps
  <2>3. QED
    BY <2>1, <2>2, LentStays
<1>7. CASE Scopes!Interrupt(o)
  <2>1. ScopesTypeOK' /\ Lent' = Lent /\ leases' = leases
    BY <1>7 DEF ScopesInv, ScopesTypeOK, Lent, Scopes!Interrupt
  <2>2. ASSUME NEW p \in Operation PROVE ScopeInv(p)'
    BY <1>7 DEF ScopesInv, ScopesTypeOK, ScopeInv, Lent, Scopes!Interrupt
  <2>3. QED
    BY <2>1, <2>2, LentStays
<1>8. CASE Scopes!Settle(o) \/ Scopes!Cancelled(o)
  <2>1. ScopesTypeOK' /\ Lent' = Lent /\ leases' = leases
    BY <1>8 DEF ScopesInv, ScopesTypeOK, Lent, Scopes!Settle, Scopes!Cancelled
  <2>2. ASSUME NEW p \in Operation PROVE ScopeInv(p)'
    BY <1>8 DEF ScopesInv, ScopesTypeOK, ScopeInv, Lent, Scopes!Settle, Scopes!Cancelled
  <2>3. QED
    BY <2>1, <2>2, LentStays
<1>9. QED
  BY <1>1, <1>2, <1>3, <1>4, <1>5, <1>6, <1>7, <1>8

LEMMA ScopesBegin == Scopes!Init => ScopesInv
<1> SUFFICES ASSUME Scopes!Init PROVE ScopesInv
  OBVIOUS
<1>1. ScopesTypeOK
  BY DEF Scopes!Init, ScopesTypeOK
<1>2. Lent = {} /\ leases = 0
  BY DEF Scopes!Init, Lent
<1>3. ASSUME NEW o \in Operation PROVE ScopeInv(o)
  BY DEF Scopes!Init, ScopeInv
<1>4. QED
  BY <1>1, <1>2, <1>3, FS_EmptySet, SidecarAssumption DEF ScopesInv

LEMMA ScopesKept == ScopesInv => Scopes!WithinCeiling /\ Scopes!ExpiredAsksNothing
<1> SUFFICES ASSUME ScopesInv PROVE Scopes!WithinCeiling /\ Scopes!ExpiredAsksNothing
  OBVIOUS
<1> DEFINE Connected == {o \in Operation : client[o] # "none"}
<1>1. Connected \subseteq Lent
  BY DEF ScopesInv, ScopeInv
<1>2. Cardinality(Connected) \in Nat /\ Cardinality(Connected) <= Cardinality(Lent)
  BY <1>1, LentAreFinite, FS_Subset, FS_CardinalityType
<1>3. Cardinality(Connected) <= MaxConnections
  BY <1>2, LentAreFinite, SidecarAssumption DEF ScopesInv
<1>4. Scopes!Cardinality(Connected) = Cardinality(Connected)
  BY Zenon DEF Scopes!Cardinality, Cardinality
<1>5. QED
  BY <1>3, <1>4 DEF Scopes!WithinCeiling, Scopes!ExpiredAsksNothing, ScopesInv, ScopeInv

------------------------------------------------------------------------------
(* The staged requests.                                                     *)

(* What is asked for, as its kinds and sizes. *)
LEMMA ScansAre ==
  ASSUME StagesTypeOK, NEW i \in 1..Len(scans)
  PROVE  /\ scans[i] \in Stages!Scan /\ scans[i].size \in Nat /\ staged[i] \in Nat
         /\ scans[i].kind \in {"plain", "tokenized", "filtered", "withheld"}
<1>1. scans[i] \in Stages!Scan
  BY DEF StagesTypeOK
<1>2. staged[i] \in Nat
  BY DEF StagesTypeOK
<1>3. QED
  BY <1>1, <1>2, SidecarAssumption DEF Stages!Scan, Stages!Kinds

(* A request that is lost keeps what was staged, and is not answered yet. *)
LEMMA LostWhole ==
  ASSUME StagesInv, pc \notin {"finally", "done"}, pc' \in {"close", "finally"}, verdict' \in {"refused", "cancelled"},
         UNCHANGED <<op, scans, answer>>
  PROVE  StagesWhole'
BY DEF StagesInv, StagesPlaced, StagesWhole

LEMMA StagedAbortKeeps ==
  ASSUME StagesInv, NEW by \in {"parent", "engine_deadline"}, Stages!Abort(by)
  PROVE  StagesInv'
<1>1. StagesTypeOK'
  BY DEF StagesInv, StagesTypeOK, StagesPlaced, Stages!Abort, Stages!request, Stages!usage, Stages!Aborted
<1>2. StagesPlaced'
  BY <1>1 DEF StagesInv, StagesTypeOK, StagesPlaced, Stages!Abort, Stages!request, Stages!usage, Stages!Aborted
<1>3. StagesUsed'
  BY <1>1 DEF StagesInv, StagesTypeOK, StagesPlaced, StagesUsed, Asked, Stages!Abort, Stages!request,
            Stages!usage, Stages!Aborted
<1>4. StagesWhole'
  BY <1>1 DEF StagesInv, StagesTypeOK, StagesPlaced, StagesWhole, NoneStaged, AllWhole, Whole, Stages!Abort,
            Stages!request, Stages!usage, Stages!Aborted, Stages!Capped, Stages!Here
<1>5. QED
  BY <1>1, <1>2, <1>3, <1>4 DEF StagesInv

LEMMA StagedNotAdmittedKeeps ==
  ASSUME StagesInv, Stages!NotAdmitted
  PROVE  StagesInv'
<1>1. StagesTypeOK'
  BY DEF StagesInv, StagesTypeOK, StagesPlaced, Stages!NotAdmitted, Stages!request, Stages!usage,
       Stages!Aborted, Stages!End, Stages!Lose
<1>2. StagesPlaced'
  BY <1>1 DEF StagesInv, StagesTypeOK, StagesPlaced, Stages!NotAdmitted, Stages!request, Stages!usage,
            Stages!Aborted, Stages!End, Stages!Lose
<1>3. StagesUsed'
  BY <1>1 DEF StagesInv, StagesTypeOK, StagesPlaced, StagesUsed, Asked, Stages!NotAdmitted, Stages!request,
            Stages!usage, Stages!Aborted, Stages!End, Stages!Lose
<1>4. StagesWhole'
  BY <1>1 DEF StagesInv, StagesTypeOK, StagesPlaced, StagesWhole, NoneStaged, AllWhole, Whole,
            Stages!NotAdmitted, Stages!request, Stages!usage, Stages!Aborted, Stages!End, Stages!Lose
<1>5. QED
  BY <1>1, <1>2, <1>3, <1>4 DEF StagesInv

LEMMA StagedAdmitKeeps ==
  ASSUME StagesInv, Stages!Admit
  PROVE  StagesInv'
<1>1. StagesTypeOK'
  BY DEF StagesInv, StagesTypeOK, StagesPlaced, Stages!Admit, Stages!request, Stages!usage, Stages!Aborted
<1>2. StagesPlaced'
  BY <1>1 DEF StagesInv, StagesTypeOK, StagesPlaced, Stages!Admit, Stages!request, Stages!usage, Stages!Aborted
<1>3. StagesUsed'
  BY <1>1 DEF StagesInv, StagesTypeOK, StagesPlaced, StagesUsed, Asked, Stages!Admit, Stages!request,
            Stages!usage, Stages!Aborted
<1>4. StagesWhole'
  BY <1>1 DEF StagesInv, StagesTypeOK, StagesPlaced, StagesWhole, NoneStaged, AllWhole, Whole, Stages!Admit,
            Stages!request, Stages!usage, Stages!Aborted
<1>5. QED
  BY <1>1, <1>2, <1>3, <1>4 DEF StagesInv

LEMMA StagedOpenKeeps ==
  ASSUME StagesInv, Stages!Open
  PROVE  StagesInv'
<1>1. StagesTypeOK'
  BY DEF StagesInv, StagesTypeOK, StagesPlaced, Stages!Open, Stages!request, Stages!usage, Stages!Aborted,
       Stages!End, Stages!Lose, Stages!Wanted
<1>2. StagesPlaced'
  BY <1>1 DEF StagesInv, StagesTypeOK, StagesPlaced, Stages!Open, Stages!request, Stages!usage, Stages!Aborted,
            Stages!End, Stages!Lose, Stages!Wanted
<1>3. StagesUsed'
  BY <1>1 DEF StagesInv, StagesTypeOK, StagesPlaced, StagesUsed, Asked, Stages!Open, Stages!request,
            Stages!usage, Stages!Aborted, Stages!End, Stages!Lose, Stages!Wanted
<1>4. StagesWhole'
  BY <1>1 DEF StagesInv, StagesTypeOK, StagesPlaced, StagesWhole, NoneStaged, AllWhole, Whole, Stages!Open,
            Stages!request, Stages!usage, Stages!Aborted, Stages!End, Stages!Lose, Stages!Wanted
<1>5. QED
  BY <1>1, <1>2, <1>3, <1>4 DEF StagesInv

LEMMA StagedInspectKeeps ==
  ASSUME StagesInv, Stages!Inspect
  PROVE  StagesInv'
<1>1. StagesTypeOK'
  BY DEF StagesInv, StagesTypeOK, StagesPlaced, Stages!Inspect, Stages!request, Stages!usage, Stages!Aborted,
       Stages!End, Stages!Wanted
<1>2. StagesPlaced'
  BY <1>1 DEF StagesInv, StagesTypeOK, StagesPlaced, Stages!Inspect, Stages!request, Stages!usage,
            Stages!Aborted, Stages!End, Stages!Wanted
<1>3. StagesUsed'
  BY <1>1 DEF StagesInv, StagesTypeOK, StagesPlaced, StagesUsed, Asked, Stages!Inspect, Stages!request,
            Stages!usage, Stages!Aborted, Stages!End, Stages!Wanted
<1>4. StagesWhole'
  <2>1. sessions # {} /\ pc = "inspect" /\ at = 1
    <3>1. Cardinality(sessions) = Len(Stages!Wanted) /\ Len(Stages!Wanted) # 0
      <4>1. Cardinality(sessions) = Len(Stages!Wanted)
        BY Zenon DEF Stages!Inspect, Stages!Cardinality, Cardinality
      <4>2. Len(Stages!Wanted) # 0
        BY DEF Stages!Wanted
      <4>3. QED
        BY <4>1, <4>2
    <3>2. QED
      BY <3>1, FS_EmptySet DEF Stages!Inspect, StagesInv, StagesPlaced
  <2>2. pc' = "close" /\ at' = 1 /\ UNCHANGED <<op, scans, staged, origin, answer>>
    BY <2>1 DEF Stages!Inspect, Stages!End, Stages!request
  <2>3. QED
    BY <2>1, <2>2 DEF StagesInv, StagesPlaced, StagesWhole, NoneStaged, AllWhole, Whole, Stages!Aborted
<1>5. QED
  BY <1>1, <1>2, <1>3, <1>4 DEF StagesInv

LEMMA StagedCloseKeeps ==
  ASSUME StagesInv, Stages!Close
  PROVE  StagesInv'
<1>1. StagesTypeOK'
  BY DEF StagesInv, StagesTypeOK, StagesPlaced, Stages!Close, Stages!request, Stages!usage, Stages!Aborted,
       Stages!GoOn
<1>2. StagesPlaced'
  BY <1>1 DEF StagesInv, StagesTypeOK, StagesPlaced, Stages!Close, Stages!request, Stages!usage, Stages!Aborted,
            Stages!GoOn
<1>3. StagesUsed'
  BY <1>1 DEF StagesInv, StagesTypeOK, StagesPlaced, StagesUsed, Asked, Stages!Close, Stages!request,
            Stages!usage, Stages!Aborted, Stages!GoOn
<1>4. StagesWhole'
  <2>1. pc = "close" /\ UNCHANGED <<op, scans, staged, at, origin, answer>>
    BY DEF Stages!Close, Stages!request
  <2>2. CASE pc' = "estimate" /\ verdict' = "none" /\ at = 1
    <3>1. verdict = "ok" /\ Len(scans) >= 1 /\ answer.kind = "none"
      BY <2>1, <2>2 DEF Stages!Close, Stages!GoOn, StagesInv, StagesTypeOK, StagesPlaced
    <3>2. op = "execute" => NoneStaged
      BY <2>1, <2>2, <3>1 DEF StagesInv, StagesTypeOK, StagesWhole
    <3>3. QED
      BY <2>1, <2>2, <3>1, <3>2 DEF StagesInv, StagesPlaced, StagesWhole, NoneStaged, AllWhole, Whole,
                        Stages!Aborted
  <2>3. CASE pc' = "finally" /\ verdict' = verdict
    BY <2>1, <2>3 DEF Stages!Close, Stages!GoOn,  StagesInv, StagesWhole, NoneStaged, AllWhole, Whole,
                  Stages!Aborted
  <2>4. QED
    BY <2>2, <2>3 DEF Stages!Close, Stages!GoOn
<1>5. QED
  BY <1>1, <1>2, <1>3, <1>4 DEF StagesInv

LEMMA StagedEstimateKeeps ==
  ASSUME StagesInv, Stages!Estimate
  PROVE  StagesInv'
<1>1. StagesTypeOK'
  BY DEF StagesInv, StagesTypeOK, StagesPlaced, Stages!Estimate, Stages!request, Stages!Here, Stages!Skipped
<1>2. StagesPlaced'
  BY <1>1 DEF StagesInv, StagesTypeOK, StagesPlaced, Stages!Estimate, Stages!request, Stages!Here,
            Stages!Skipped
<1>3. StagesUsed'
  BY <1>1 DEF StagesInv, StagesTypeOK, StagesPlaced, StagesUsed, Asked, Stages!Estimate, Stages!request,
            Stages!Here, Stages!Skipped
<1>4. StagesWhole'
  BY <1>1 DEF StagesInv, StagesTypeOK, StagesPlaced, StagesWhole, NoneStaged, AllWhole, Whole, Stages!Estimate,
            Stages!request, Stages!Here, Stages!Skipped
<1>5. QED
  BY <1>1, <1>2, <1>3, <1>4 DEF StagesInv

LEMMA StagedEstimatedKeeps ==
  ASSUME StagesInv, Stages!Estimated
  PROVE  StagesInv'
<1>1. StagesTypeOK'
  <2>1. pc = "asked" /\ at \in 1..Len(scans) /\ UNCHANGED <<op, scans, read, staged>>
    BY DEF Stages!Estimated, Stages!request, StagesInv, StagesTypeOK, StagesPlaced
  <2>2. at' \in {at, at + 1} /\ pc' \in {"estimate", "close", "finally"} /\ verdict' \in {verdict, "refused", "cancelled"}
    BY <2>1 DEF Stages!Estimated, Stages!Lose, Stages!End
  <2>3. at' \in 1..(Len(scans) + 1)
    BY <2>1, <2>2
  <2>4. QED
    BY <2>1, <2>2, <2>3 DEF StagesInv, StagesTypeOK
<1>2. StagesPlaced'
  BY <1>1 DEF StagesInv, StagesTypeOK, StagesPlaced, Stages!Estimated, Stages!request, Stages!usage,
            Stages!Aborted, Stages!End, Stages!Lose
<1>3. StagesUsed'
  BY <1>1 DEF StagesInv, StagesTypeOK, StagesPlaced, StagesUsed, Asked, Stages!Estimated, Stages!request,
            Stages!usage, Stages!Aborted, Stages!End, Stages!Lose
<1>4. StagesWhole'
  BY <1>1 DEF StagesInv, StagesTypeOK, StagesPlaced, StagesWhole, NoneStaged, AllWhole, Whole, Stages!Estimated,
            Stages!request, Stages!usage, Stages!Aborted, Stages!End, Stages!Lose
<1>5. QED
  BY <1>1, <1>2, <1>3, <1>4 DEF StagesInv

LEMMA StagedSkipWithheldKeeps ==
  ASSUME StagesInv, Stages!SkipWithheld
  PROVE  StagesInv'
<1>1. StagesTypeOK'
  BY DEF StagesInv, StagesTypeOK, StagesPlaced, Stages!SkipWithheld, Stages!request, Stages!usage, Stages!Here,
       Stages!Skipped
<1>2. StagesPlaced'
  BY <1>1 DEF StagesInv, StagesTypeOK, StagesPlaced, Stages!SkipWithheld, Stages!request, Stages!usage,
            Stages!Here, Stages!Skipped
<1>3. StagesUsed'
  BY <1>1 DEF StagesInv, StagesTypeOK, StagesPlaced, StagesUsed, Asked, Stages!SkipWithheld, Stages!request,
            Stages!usage, Stages!Here, Stages!Skipped
<1>4. StagesWhole'
  BY <1>1 DEF StagesInv, StagesTypeOK, StagesPlaced, StagesWhole, NoneStaged, AllWhole, Whole,
            Stages!SkipWithheld, Stages!request, Stages!usage, Stages!Here, Stages!Skipped
<1>5. QED
  BY <1>1, <1>2, <1>3, <1>4 DEF StagesInv

LEMMA StagedAllEstimatedKeeps ==
  ASSUME StagesInv, Stages!AllEstimated
  PROVE  StagesInv'
<1>1. StagesTypeOK'
  BY DEF StagesInv, StagesTypeOK, StagesPlaced, Stages!AllEstimated, Stages!request, Stages!usage
<1>2. StagesPlaced'
  BY <1>1 DEF StagesInv, StagesTypeOK, StagesPlaced, Stages!AllEstimated, Stages!request, Stages!usage
<1>3. StagesUsed'
  BY <1>1 DEF StagesInv, StagesTypeOK, StagesPlaced, StagesUsed, Asked, Stages!AllEstimated, Stages!request,
            Stages!usage
<1>4. StagesWhole'
  BY <1>1 DEF StagesInv, StagesTypeOK, StagesPlaced, StagesWhole, NoneStaged, AllWhole, Whole,
            Stages!AllEstimated, Stages!request, Stages!usage
<1>5. QED
  BY <1>1, <1>2, <1>3, <1>4 DEF StagesInv

LEMMA StagedBeginStagingKeeps ==
  ASSUME StagesInv, Stages!BeginStaging
  PROVE  StagesInv'
<1>1. StagesTypeOK'
  BY DEF StagesInv, StagesTypeOK, StagesPlaced, Stages!BeginStaging, Stages!request, Stages!usage
<1>2. StagesPlaced'
  BY <1>1 DEF StagesInv, StagesTypeOK, StagesPlaced, Stages!BeginStaging, Stages!request, Stages!usage
<1>3. StagesUsed'
  BY <1>1 DEF StagesInv, StagesTypeOK, StagesPlaced, StagesUsed, Asked, Stages!BeginStaging, Stages!request,
            Stages!usage
<1>4. StagesWhole'
  BY <1>1 DEF StagesInv, StagesTypeOK, StagesPlaced, StagesWhole, NoneStaged, AllWhole, Whole,
            Stages!BeginStaging, Stages!request, Stages!usage
<1>5. QED
  BY <1>1, <1>2, <1>3, <1>4 DEF StagesInv

LEMMA StagedStageScanKeeps ==
  ASSUME StagesInv, Stages!StageScan
  PROVE  StagesInv'
<1>1. StagesTypeOK'
  <2>1. pc = "stage" /\ at \in 1..Len(scans) /\ UNCHANGED <<op, scans>>
    BY DEF Stages!StageScan, Stages!request, StagesInv, StagesTypeOK
  <2>2. Stages!Capped \in Nat
    BY <2>1, ScansAre, SidecarAssumption DEF StagesInv, Stages!Capped, Stages!Here
  <2>3. at' \in 1..(Len(scans) + 1)
    BY <2>1 DEF StagesInv, StagesTypeOK, Stages!StageScan
  <2>4. staged' \in [1..Len(scans) -> Nat] /\ read' \in Nat
    BY <2>1, <2>2 DEF StagesInv, StagesTypeOK, Stages!StageScan
  <2>5. pc' \in {"stage", "count", "reading", "close", "finally"} /\ verdict' \in {verdict, "refused", "cancelled"}
    BY <2>1 DEF Stages!StageScan, Stages!Lose, Stages!End
  <2>6. QED
    BY <2>1, <2>3, <2>4, <2>5 DEF StagesInv, StagesTypeOK
<1>2. StagesPlaced'
  BY <1>1 DEF StagesInv, StagesTypeOK, StagesPlaced, Stages!StageScan, Stages!request, Stages!Aborted,
            Stages!End, Stages!Lose, Stages!Here, Stages!Skipped, Stages!Capped
<1>3. StagesUsed'
  BY <1>1 DEF StagesInv, StagesTypeOK, StagesPlaced, StagesUsed, Asked, Stages!StageScan, Stages!request,
            Stages!Aborted, Stages!End, Stages!Lose, Stages!Here, Stages!Skipped, Stages!Capped
<1>4. StagesWhole'
  <2>1. CASE pc' \in {"close", "finally"} /\ verdict' \in {"refused", "cancelled"}
    BY <2>1, LostWhole DEF Stages!StageScan, Stages!request
  <2>2. CASE Stages!Skipped /\ at' = at + 1 /\ UNCHANGED <<pc, read, contacted, staged, verdict>>
    <3>1. op = "execute" => Whole(at)
      BY <2>2 DEF Whole, Stages!Skipped, Stages!Here
    <3>2. at \in 1..Len(scans) /\ pc = "stage" /\ UNCHANGED <<op, scans, answer, origin>>
      BY DEF StagesInv, StagesTypeOK, Stages!StageScan, Stages!request
    <3>3. QED
      BY <2>2, <3>1, <3>2 DEF StagesInv, StagesTypeOK, StagesPlaced, StagesWhole, Whole, NoneStaged, AllWhole,
                        Stages!Aborted
  <2>3. CASE Stages!Here.kind = "plain" /\ staged' = [staged EXCEPT ![at] = Stages!Capped] /\ pc' = "count"
             /\ UNCHANGED <<at, read, verdict>>
    <3>1. at \in 1..Len(scans) /\ pc = "stage" /\ UNCHANGED <<op, scans, answer, origin>> /\ verdict = "none" /\ answer.kind = "none"
      BY DEF StagesInv, StagesTypeOK, StagesPlaced, Stages!StageScan, Stages!request
    <3>2. staged'[at] = Stages!Capped /\ \A i \in 1..Len(scans) : i # at => staged'[i] = staged[i]
      BY <2>3, <3>1 DEF StagesInv, StagesTypeOK
    <3>3. staged'[at] <= MaxStagingRows => Whole(at)'
      BY <2>3, <3>1, <3>2, ScansAre, SidecarAssumption DEF StagesInv, Whole, Stages!Capped, Stages!Here
    <3>4. op = "execute" => \A i \in 1..Len(scans) : (i < at => Whole(i)') /\ (i > at => staged'[i] = 0)
      BY <3>1, <3>2 DEF StagesInv, StagesTypeOK, StagesWhole, Whole
    <3>5. QED
      BY <2>3, <3>1, <3>3, <3>4 DEF StagesWhole
  <2>4. CASE pc' = "reading" /\ read' = 0 /\ UNCHANGED <<at, staged, verdict>>
    <3>1. at \in 1..Len(scans) /\ pc = "stage" /\ UNCHANGED <<op, scans, answer, origin>> /\ verdict = "none" /\ answer.kind = "none"
      BY DEF StagesInv, StagesTypeOK, StagesPlaced, Stages!StageScan, Stages!request
    <3>2. op = "execute" => scans[at].kind \in {"tokenized", "filtered"}
      BY <2>4 DEF Stages!StageScan, Stages!Here, Stages!Lose, Stages!End
    <3>3. 0 <= Stages!Capped'
      BY <2>4, <3>1, ScansAre, SidecarAssumption DEF StagesInv, Stages!Capped, Stages!Here
    <3>4. QED
      BY <2>4, <3>1, <3>2, <3>3, SidecarAssumption DEF StagesInv, StagesWhole, Whole
  <2>5. QED
    BY <2>1, <2>2, <2>3, <2>4 DEF Stages!StageScan, Stages!Lose, Stages!End
<1>5. QED
  BY <1>1, <1>2, <1>3, <1>4 DEF StagesInv

LEMMA StagedBatchKeeps ==
  ASSUME StagesInv, Stages!Batch
  PROVE  StagesInv'
<1>1. StagesTypeOK'
  <2>1. pc = "reading" /\ at \in 1..Len(scans) /\ UNCHANGED <<op, scans, at>>
    BY DEF Stages!Batch, Stages!request, StagesInv, StagesTypeOK, StagesPlaced
  <2>2. read' \in {read, read + 1} /\ staged' \in {staged, [staged EXCEPT ![at] = @ + 1]}
    BY DEF Stages!Batch
  <2>3. staged' \in [1..Len(scans) -> Nat] /\ read' \in Nat
    BY <2>1, <2>2 DEF StagesInv, StagesTypeOK
  <2>4. pc' \in {pc, "close", "finally"} /\ verdict' \in {verdict, "refused", "cancelled"}
    BY DEF Stages!Batch, Stages!Lose, Stages!End
  <2>5. QED
    BY <2>1, <2>3, <2>4 DEF StagesInv, StagesTypeOK
<1>2. StagesPlaced'
  BY <1>1 DEF StagesInv, StagesTypeOK, StagesPlaced, Stages!Batch, Stages!request, Stages!Aborted, Stages!End,
            Stages!Lose, Stages!Here, Stages!Capped
<1>3. StagesUsed'
  BY <1>1 DEF StagesInv, StagesTypeOK, StagesPlaced, StagesUsed, Asked, Stages!Batch, Stages!request,
            Stages!Aborted, Stages!End, Stages!Lose, Stages!Here, Stages!Capped
<1>4. StagesWhole'
  <2>1. CASE pc' \in {"close", "finally"} /\ verdict' \in {"refused", "cancelled"}
    BY <2>1, LostWhole DEF Stages!Batch, Stages!request
  <2>2. CASE /\ read < MaxStagingRows /\ read' = read + 1 /\ UNCHANGED <<pc, verdict>>
             /\ \/ staged' = [staged EXCEPT ![at] = @ + 1]
                \/ Stages!Here.kind \in {"filtered", "withheld"} /\ UNCHANGED staged
    <3>1. /\ at \in 1..Len(scans) /\ pc = "reading" /\ UNCHANGED <<op, scans, at, answer, origin>>
          /\ verdict = "none" /\ answer.kind = "none" /\ read < Stages!Capped /\ read \in Nat
      BY DEF StagesInv, StagesTypeOK, StagesPlaced, Stages!Batch, Stages!request
    <3>2. /\ scans[at].kind = "tokenized" => staged'[at] = staged[at] + 1
          /\ \A i \in 1..Len(scans) : i # at => staged'[i] = staged[i]
      BY <2>2, <3>1 DEF StagesInv, StagesTypeOK, Stages!Here
    <3>3. Stages!Capped' = Stages!Capped /\ Stages!Capped \in Nat
      BY <3>1, ScansAre, SidecarAssumption DEF StagesInv, Stages!Capped, Stages!Here
    <3>4. op = "execute" => \A i \in 1..Len(scans) : (i < at => Whole(i)') /\ (i > at => staged'[i] = 0)
      BY <3>1, <3>2 DEF StagesInv, StagesTypeOK, StagesWhole, Whole
    <3>5. op = "execute" => /\ scans[at].kind \in {"tokenized", "filtered"}
                            /\ scans[at].kind = "tokenized" => staged'[at] = read + 1
      BY <3>1, <3>2 DEF StagesInv, StagesWhole
    <3>6. read + 1 <= MaxStagingRows /\ read + 1 <= Stages!Capped
      BY <2>2, <3>1, <3>3, SidecarAssumption
    <3>7. QED
      BY <2>2, <3>1, <3>3, <3>4, <3>5, <3>6 DEF StagesWhole
  <2>3. QED
    BY <2>1, <2>2, SidecarAssumption DEF StagesInv, StagesTypeOK, Stages!Batch, Stages!Lose, Stages!End
<1>5. QED
  BY <1>1, <1>2, <1>3, <1>4 DEF StagesInv

LEMMA StagedReadAllKeeps ==
  ASSUME StagesInv, Stages!ReadAll
  PROVE  StagesInv'
<1>1. StagesTypeOK'
  BY DEF StagesInv, StagesTypeOK, StagesPlaced, Stages!ReadAll, Stages!request, Stages!usage, Stages!Aborted,
       Stages!End, Stages!Lose, Stages!Here, Stages!Capped
<1>2. StagesPlaced'
  BY <1>1 DEF StagesInv, StagesTypeOK, StagesPlaced, Stages!ReadAll, Stages!request, Stages!usage,
            Stages!Aborted, Stages!End, Stages!Lose, Stages!Here, Stages!Capped
<1>3. StagesUsed'
  BY <1>1 DEF StagesInv, StagesTypeOK, StagesPlaced, StagesUsed, Asked, Stages!ReadAll, Stages!request,
            Stages!usage, Stages!Aborted, Stages!End, Stages!Lose, Stages!Here, Stages!Capped
<1>4. StagesWhole'
  <2>1. CASE pc' \in {"close", "finally"} /\ verdict' \in {"refused", "cancelled"}
    BY <2>1, LostWhole DEF Stages!ReadAll, Stages!request
  <2>2. CASE pc' = "count" /\ UNCHANGED verdict
    <3>1. /\ at \in 1..Len(scans) /\ pc = "reading" /\ UNCHANGED <<op, scans, at, staged, answer, origin>>
          /\ verdict = "none" /\ answer.kind = "none" /\ read = Stages!Capped /\ read \in Nat
      BY DEF StagesInv, StagesTypeOK, StagesPlaced, Stages!ReadAll, Stages!request
    <3>2. op = "execute" => Whole(at)
      BY <3>1, ScansAre, SidecarAssumption DEF StagesInv, StagesWhole, Whole, Stages!Capped, Stages!Here
    <3>3. QED
      BY <2>2, <3>1, <3>2 DEF StagesInv, StagesWhole, Whole
  <2>3. QED
    BY <2>1, <2>2 DEF Stages!ReadAll, Stages!Lose, Stages!End
<1>5. QED
  BY <1>1, <1>2, <1>3, <1>4 DEF StagesInv

LEMMA StagedCountKeeps ==
  ASSUME StagesInv, Stages!Count
  PROVE  StagesInv'
<1>1. StagesTypeOK'
  BY DEF StagesInv, StagesTypeOK, StagesPlaced, Stages!Count, Stages!request, Stages!usage, Stages!Aborted,
       Stages!End, Stages!Lose
<1>2. StagesPlaced'
  BY <1>1 DEF StagesInv, StagesTypeOK, StagesPlaced, Stages!Count, Stages!request, Stages!usage, Stages!Aborted,
            Stages!End, Stages!Lose
<1>3. StagesUsed'
  BY <1>1 DEF StagesInv, StagesTypeOK, StagesPlaced, StagesUsed, Asked, Stages!Count, Stages!request,
            Stages!usage, Stages!Aborted, Stages!End, Stages!Lose
<1>4. StagesWhole'
  <2>1. CASE pc' \in {"close", "finally"} /\ verdict' \in {"refused", "cancelled"}
    BY <2>1, LostWhole DEF Stages!Count, Stages!request
  <2>2. CASE staged[at] <= MaxStagingRows /\ pc' = "stage" /\ at' = at + 1 /\ UNCHANGED verdict
    <3>1. /\ at \in 1..Len(scans) /\ pc = "count" /\ UNCHANGED <<op, scans, staged, answer, origin>>
          /\ verdict = "none" /\ answer.kind = "none"
      BY DEF StagesInv, StagesTypeOK, StagesPlaced, Stages!Count, Stages!request
    <3>2. op = "execute" => Whole(at)
      BY <2>2, <3>1 DEF StagesInv, StagesWhole
    <3>3. op = "execute" => \A i \in 1..Len(scans) : (i < at + 1 => Whole(i)) /\ (i >= at + 1 => staged[i] = 0)
      BY <3>1, <3>2 DEF StagesInv, StagesWhole
    <3>4. QED
      BY <2>2, <3>1, <3>3 DEF StagesWhole, Whole
  <2>3. QED
    BY <2>1, <2>2 DEF Stages!Count, Stages!Lose, Stages!End
<1>5. QED
  BY <1>1, <1>2, <1>3, <1>4 DEF StagesInv

LEMMA StagedQueryKeeps ==
  ASSUME StagesInv, Stages!Query
  PROVE  StagesInv'
<1>1. StagesTypeOK'
  BY DEF StagesInv, StagesTypeOK, StagesPlaced, Stages!Query, Stages!request, Stages!usage, Stages!Aborted,
       Stages!End, Stages!Lose
<1>2. StagesPlaced'
  BY <1>1 DEF StagesInv, StagesTypeOK, StagesPlaced, Stages!Query, Stages!request, Stages!usage, Stages!Aborted,
            Stages!End, Stages!Lose
<1>3. StagesUsed'
  BY <1>1 DEF StagesInv, StagesTypeOK, StagesPlaced, StagesUsed, Asked, Stages!Query, Stages!request,
            Stages!usage, Stages!Aborted, Stages!End, Stages!Lose
<1>4. StagesWhole'
  <2>1. CASE pc' \in {"close", "finally"} /\ verdict' \in {"refused", "cancelled"}
    BY <2>1, LostWhole DEF Stages!Query, Stages!request
  <2>2. CASE pc' \in {"close", "finally"} /\ verdict' = "ok"
    <3>1. /\ at > Len(scans) /\ pc = "stage" /\ UNCHANGED <<op, scans, at, staged, answer, origin>> /\ answer.kind = "none"
      BY DEF StagesInv, StagesPlaced, Stages!Query, Stages!request
    <3>2. op = "execute" => AllWhole
      BY <3>1 DEF StagesInv, StagesTypeOK, StagesWhole, AllWhole
    <3>3. QED
      BY <2>2, <3>1, <3>2 DEF StagesWhole, AllWhole, Whole
  <2>3. QED
    BY <2>1, <2>2 DEF Stages!Query, Stages!Lose, Stages!End
<1>5. QED
  BY <1>1, <1>2, <1>3, <1>4 DEF StagesInv

LEMMA StagedAnswerKeeps ==
  ASSUME StagesInv, Stages!Answer
  PROVE  StagesInv'
<1>1. StagesTypeOK'
  BY DEF StagesInv, StagesTypeOK, StagesPlaced, Stages!Answer, Stages!request, Stages!usage, Stages!Aborted
<1>2. StagesPlaced'
  BY <1>1 DEF StagesInv, StagesTypeOK, StagesPlaced, Stages!Answer, Stages!request, Stages!usage, Stages!Aborted
<1>3. StagesUsed'
  BY <1>1 DEF StagesInv, StagesTypeOK, StagesPlaced, StagesUsed, Asked, Stages!Answer, Stages!request,
            Stages!usage, Stages!Aborted
<1>4. StagesWhole'
  <2>1. /\ pc = "finally" /\ pc' = "done" /\ UNCHANGED <<op, scans, at, staged, verdict, origin>>
    BY DEF Stages!Answer, Stages!request
  <2>2. op = "execute" /\ answer'.kind = "rows" =>
          verdict = "ok" /\ ~Stages!Aborted /\ \A i \in 1..Len(scans) : scans[i].kind # "withheld"
    <3>1. DOMAIN scans = 1..Len(scans)
      BY DEF StagesInv, StagesTypeOK
    <3>2. answer'.kind = CASE op # "preview" /\ Stages!Aborted -> "cancelled" [] verdict # "ok" -> verdict
                   [] op = "validate" \/ \E i \in DOMAIN scans : scans[i].kind = "withheld" -> "no rows" [] OTHER -> "rows"
      BY DEF Stages!Answer
    <3>3. verdict # "rows"
      BY DEF StagesInv, StagesTypeOK
    <3>4. QED
      BY <3>1, <3>2, <3>3
  <2>3. QED
    BY <2>1, <2>2 DEF StagesInv, StagesWhole, NoneStaged, AllWhole, Whole, Stages!Aborted
<1>5. QED
  BY <1>1, <1>2, <1>3, <1>4 DEF StagesInv

LEMMA StagesSteps == StagesInv /\ Stages!Next => StagesInv'
  BY StagedAbortKeeps, StagedNotAdmittedKeeps, StagedAdmitKeeps, StagedOpenKeeps, StagedInspectKeeps,
     StagedCloseKeeps, StagedEstimateKeeps, StagedEstimatedKeeps, StagedSkipWithheldKeeps,
     StagedAllEstimatedKeeps, StagedBeginStagingKeeps, StagedStageScanKeeps, StagedBatchKeeps,
     StagedReadAllKeeps, StagedCountKeeps, StagedQueryKeeps, StagedAnswerKeeps DEF Stages!Next

LEMMA StagesBegin == Stages!Init => StagesInv
<1> SUFFICES ASSUME Stages!Init PROVE StagesInv
  OBVIOUS
<1>1. PICK n \in 1..(IF op = "preview" THEN 1 ELSE MaxScans) : scans \in [1..n -> Stages!Scan]
  BY DEF Stages!Init
<1>2. scans \in Seq(Stages!Scan) /\ Len(scans) = n /\ n >= 1 /\ n \in Nat
  <2>1. n \in Nat /\ n >= 1
    OBVIOUS
  <2>2. QED
    BY <1>1, <2>1
<1>3. DOMAIN scans = 1..Len(scans)
  BY <1>2
<1>4. StagesTypeOK
  BY <1>2, <1>3 DEF Stages!Init, StagesTypeOK
<1>5. StagesPlaced /\ StagesUsed
  BY DEF Stages!Init, Stages!Unanswered, StagesPlaced, StagesUsed, Asked
<1>6. StagesWhole
  BY <1>3 DEF Stages!Init, Stages!Unanswered, StagesWhole, NoneStaged
<1>7. QED
  BY <1>4, <1>5, <1>6 DEF StagesInv

LEMMA StagesKept == StagesInv => Stages!AnswerIsWhole /\ Stages!UsageIsReported /\ Stages!NothingLeftOpen
<1> SUFFICES ASSUME StagesInv
             PROVE  Stages!AnswerIsWhole /\ Stages!UsageIsReported /\ Stages!NothingLeftOpen
  OBVIOUS
<1>1. DOMAIN scans = 1..Len(scans)
  BY DEF StagesInv, StagesTypeOK
<1>2. Stages!AnswerIsWhole
  BY <1>1 DEF StagesInv, StagesWhole, AllWhole, Whole, Stages!AnswerIsWhole
<1>3. Stages!UsageIsReported /\ Stages!NothingLeftOpen
  BY DEF StagesInv, StagesUsed, StagesPlaced, Stages!UsageIsReported, Stages!NothingLeftOpen
<1>4. QED
  BY <1>2, <1>3

------------------------------------------------------------------------------
(* The calls of an engine.                                                   *)

(* What a step writes of a call's entry, and of its handler's.               *)
LEMMA CallMoves ==
  ASSUME app \in [Call -> Calling], NEW c \in Call,
         NEW v \in {"idle", "connecting", "tls", "waiting", "done"}, app' = [app EXCEPT ![c].at = v]
  PROVE  /\ app' \in [Call -> Calling]
         /\ \A d \in Call \ {c} : app'[d] = app[d]
         /\ app'[c].at = v /\ app'[c].op = app[c].op /\ app'[c].as = app[c].as
         /\ app'[c].leg = app[c].leg /\ app'[c].result = app[c].result
<1>1. app[c] \in Calling /\ app'[c] = [app[c] EXCEPT !.at = v]
  OBVIOUS
<1>2. app'[c] \in Calling
  BY <1>1 DEF Calling
<1>3. QED
  BY <1>1, <1>2 DEF Calling

LEMMA CallEnds ==
  ASSUME app \in [Call -> Calling], NEW c \in Call, NEW r \in Results, app' = Calls!Finish(c, r)
  PROVE  /\ app' \in [Call -> Calling]
         /\ \A d \in Call \ {c} : app'[d] = app[d]
         /\ app'[c].at = "done" /\ app'[c].op = app[c].op /\ app'[c].as = app[c].as
         /\ app'[c].leg = app[c].leg /\ app'[c].result = r
<1>1. app[c] \in Calling /\ app'[c] = [app[c] EXCEPT !.at = "done", !.result = r]
  BY DEF Calls!Finish
<1>2. app'[c] \in Calling
  BY <1>1 DEF Calling
<1>3. app' \in [Call -> Calling] /\ \A d \in Call \ {c} : app'[d] = app[d]
  BY <1>2 DEF Calls!Finish
<1>4. QED
  BY <1>1, <1>3 DEF Calling

LEMMA HandlerMoves ==
  ASSUME handler \in [Call -> Handling], NEW c \in Call,
         NEW v \in {"none", "arrived", "reading", "invoked", "running", "ending", "answering"},
         handler' = [handler EXCEPT ![c].at = v]
  PROVE  /\ handler' \in [Call -> Handling]
         /\ \A d \in Call \ {c} : handler'[d] = handler[d]
         /\ handler'[c].at = v /\ handler'[c].outcome = handler[c].outcome
<1>1. handler[c] \in Handling /\ handler'[c] = [handler[c] EXCEPT !.at = v]
  OBVIOUS
<1>2. handler'[c] \in Handling
  BY <1>1 DEF Handling
<1>3. QED
  BY <1>1, <1>2 DEF Handling

LEMMA HandlerResults ==
  ASSUME handler \in [Call -> Handling], NEW c \in Call,
         NEW v \in {"ending", "answering"}, NEW o \in {"ok", "failed", "audit_failed"},
         handler' = [handler EXCEPT ![c].at = v, ![c].outcome = o]
  PROVE  /\ handler' \in [Call -> Handling]
         /\ \A d \in Call \ {c} : handler'[d] = handler[d]
         /\ handler'[c].at = v /\ handler'[c].outcome = o
<1>1. handler[c] \in Handling /\ handler'[c] = [handler[c] EXCEPT !.at = v, !.outcome = o]
  OBVIOUS
<1>2. handler'[c] \in Handling
  BY <1>1 DEF Handling
<1>3. QED
  BY <1>1, <1>2 DEF Handling

LEMMA HandlerAborts ==
  ASSUME handler \in [Call -> Handling], NEW c \in Call,
         NEW h, h = [handler[c] EXCEPT !.aborted = TRUE]
  PROVE  h \in Handling /\ h.at = handler[c].at /\ h.outcome = handler[c].outcome
<1>1. handler[c] \in Handling
  OBVIOUS
<1>2. QED
  BY <1>1 DEF Handling

LEMMA HandlerEnds ==
  ASSUME handler \in [Call -> Handling], NEW c \in Call, handler' = Calls!Ended(c)
  PROVE  /\ handler' \in [Call -> Handling]
         /\ \A d \in Call \ {c} : handler'[d] = handler[d]
         /\ handler'[c].at = "none" /\ handler'[c].outcome = None
  BY DEF Calls!Ended, Calls!NoHandler, Handling
(* A step of a call, of its handler or of the engine keeps the invariant.   *)
LEMMA BeginKeeps ==
  ASSUME CallsInv, NEW c \in Call, Calls!Begin(c)
  PROVE  CallsInv'
<1>1. CallsTypeOK /\ \A d \in Call : CallInv(d)
  BY DEF CallsInv
<1>2. UNCHANGED <<socket, reply, handler, pin, process, durable, asked>>
  BY DEF Calls!Begin, Calls!engine
<1>3. PICK o \in Calls!Operations, a \in Client :
        app' = [app EXCEPT ![c] = [Calls!Idle EXCEPT !.at = "connecting", !.op = o, !.as = a]]
  BY DEF Calls!Begin
<1>4. /\ app' \in [Call -> Calling]
      /\ \A d \in Call \ {c} : app'[d] = app[d]
      /\ app'[c].at = "connecting" /\ app'[c].result = None
  BY <1>1, <1>3 DEF CallsTypeOK, Calling, Calls!Idle, Results
<1>5. app[c].at = "idle"
  BY DEF Calls!Begin
<1>6. CallsTypeOK'
  BY <1>1, <1>2, <1>3, <1>4, <1>5 DEF CallsTypeOK, Calls!Answers
<1>7. ASSUME NEW d \in Call PROVE CallInv(d)'
  BY <1>1, <1>2, <1>3, <1>4, <1>5, SidecarAssumption, <1>6 DEF CallInv, ConnectionHeld, ReachesOnce, RecordedFirst, CallsTypeOK, Calls!Answers
<1>8. QED
  BY <1>6, <1>7 DEF CallsInv

LEMMA RefuseUnconsentedKeeps ==
  ASSUME CallsInv, NEW c \in Call, Calls!RefuseUnconsented(c)
  PROVE  CallsInv'
<1>1. CallsTypeOK /\ \A d \in Call : CallInv(d)
  BY DEF CallsInv
<1>2. UNCHANGED <<socket, reply, handler, pin, process, durable, asked>>
  BY DEF Calls!RefuseUnconsented, Calls!engine
<1>3. /\ app' \in [Call -> Calling]
      /\ \A d \in Call \ {c} : app'[d] = app[d]
      /\ app'[c].at = "done" /\ app'[c].result = "forbidden"
  BY <1>1 DEF Calls!RefuseUnconsented, CallsTypeOK, Calling, Calls!Idle, Calls!Operations, Results
<1>4. CallsTypeOK'
  BY <1>1, <1>2, <1>3 DEF CallsTypeOK, Calls!RefuseUnconsented
<1>5. ASSUME NEW d \in Call PROVE CallInv(d)'
  BY <1>1, <1>2, <1>3, SidecarAssumption, <1>4 DEF CallInv, ConnectionHeld, ReachesOnce, RecordedFirst, CallsTypeOK, Calls!Answers, Calls!RefuseUnconsented
<1>6. QED
  BY <1>4, <1>5 DEF CallsInv

LEMMA ConnectedKeeps ==
  ASSUME CallsInv, NEW c \in Call, Calls!Connected(c)
  PROVE  CallsInv'
<1>1. CallsTypeOK /\ \A d \in Call : CallInv(d)
  BY DEF CallsInv
<1>2. UNCHANGED <<reply, handler, pin, process, durable, asked>>
  BY DEF Calls!Connected, Calls!engine
<1>3. /\ app' \in [Call -> Calling]
      /\ \A d \in Call \ {c} : app'[d] = app[d]
      /\ app'[c].at = "tls" /\ app'[c].op = app[c].op /\ app'[c].as = app[c].as
      /\ app'[c].leg = app[c].leg /\ app'[c].result = app[c].result
  BY <1>1, CallMoves DEF CallsTypeOK, Calls!Connected
<1>4. CallsTypeOK'
  BY <1>1, <1>2, <1>3 DEF CallsTypeOK, Calls!Connected
<1>5. ASSUME NEW d \in Call PROVE CallInv(d)'
  BY <1>1, <1>2, <1>3, SidecarAssumption, <1>4 DEF CallInv, ConnectionHeld, ReachesOnce, RecordedFirst, CallsTypeOK, Calls!Answers, Calls!Connected
<1>6. QED
  BY <1>4, <1>5 DEF CallsInv

LEMMA ConnectExpiresKeeps ==
  ASSUME CallsInv, NEW c \in Call, Calls!ConnectExpires(c)
  PROVE  CallsInv'
<1>1. CallsTypeOK /\ \A d \in Call : CallInv(d)
  BY DEF CallsInv
<1>2. UNCHANGED <<reply, pin, process, durable, asked>>
  BY DEF Calls!ConnectExpires, Calls!engine
<1>3. app[c].at = "connecting" /\ handler[c].at = "none"
  BY <1>1 DEF Calls!ConnectExpires, Calls!MayRetry, CallInv, ConnectionHeld
<1>4. handler' = handler
  BY <1>1, <1>3 DEF Calls!ConnectExpires, CallsTypeOK
<1>5. app[c] \in Calling /\ app'[c] = [app[c] EXCEPT !.attempt = @ + 1, !.at = "connecting"]
  BY <1>1 DEF CallsTypeOK, Calls!ConnectExpires
<1>6. app'[c] = [at |-> "connecting", op |-> app[c].op, as |-> app[c].as, leg |-> app[c].leg,
               attempt |-> app[c].attempt + 1, result |-> app[c].result]
  BY <1>5 DEF Calling
<1>7. /\ app' \in [Call -> Calling]
      /\ \A d \in Call \ {c} : app'[d] = app[d]
      /\ app'[c].at = "connecting" /\ app'[c].op = app[c].op /\ app'[c].as = app[c].as
      /\ app'[c].leg = app[c].leg /\ app'[c].result = app[c].result
  BY <1>1, <1>5, <1>6 DEF CallsTypeOK, Calls!ConnectExpires, Calling
<1>8. CallsTypeOK'
  BY <1>1, <1>2, <1>3, <1>4, <1>5, <1>6, <1>7 DEF CallsTypeOK, Calls!ConnectExpires
<1>9. ASSUME NEW d \in Call PROVE CallInv(d)'
  BY <1>1, <1>2, <1>3, <1>4, <1>5, <1>6, <1>7, SidecarAssumption, <1>8 DEF CallInv, ConnectionHeld, ReachesOnce, RecordedFirst, CallsTypeOK, Calls!Answers, Calls!ConnectExpires
<1>10. QED
  BY <1>8, <1>9 DEF CallsInv

LEMMA ConnectFailsKeeps ==
  ASSUME CallsInv, NEW c \in Call, Calls!ConnectFails(c)
  PROVE  CallsInv'
<1>1. CallsTypeOK /\ \A d \in Call : CallInv(d)
  BY DEF CallsInv
<1>2. UNCHANGED <<socket, reply, handler, pin, process, durable, asked>>
  BY DEF Calls!ConnectFails, Calls!engine
<1>3. /\ app' \in [Call -> Calling]
      /\ \A d \in Call \ {c} : app'[d] = app[d]
      /\ app'[c].at = "done" /\ app'[c].op = app[c].op /\ app'[c].as = app[c].as
      /\ app'[c].leg = app[c].leg /\ app'[c].result = "unavailable"
  BY <1>1, CallEnds DEF CallsTypeOK, Results, Calls!ConnectFails
<1>4. CallsTypeOK'
  BY <1>1, <1>2, <1>3 DEF CallsTypeOK, Calls!ConnectFails
<1>5. ASSUME NEW d \in Call PROVE CallInv(d)'
  BY <1>1, <1>2, <1>3, SidecarAssumption, <1>4 DEF CallInv, ConnectionHeld, ReachesOnce, RecordedFirst, CallsTypeOK, Calls!Answers, Calls!ConnectFails
<1>6. QED
  BY <1>4, <1>5 DEF CallsInv

LEMMA SecuredKeeps ==
  ASSUME CallsInv, NEW c \in Call, Calls!Secured(c)
  PROVE  CallsInv'
<1>1. CallsTypeOK /\ \A d \in Call : CallInv(d)
  BY DEF CallsInv
<1>2. UNCHANGED <<reply, pin, process, durable, asked>>
  BY DEF Calls!Secured, Calls!engine
<1>3. /\ app' \in [Call -> Calling]
      /\ \A d \in Call \ {c} : app'[d] = app[d]
      /\ app'[c].at = "waiting" /\ app'[c].op = app[c].op /\ app'[c].as = app[c].as
      /\ app'[c].leg = app[c].leg /\ app'[c].result = app[c].result
  BY <1>1, CallMoves DEF CallsTypeOK, Calls!Secured
<1>4. \/ app[c].as = pin /\ handler' = [handler EXCEPT ![c].at = "arrived"] /\ UNCHANGED socket
      \/ socket' = [socket EXCEPT ![c] = "closed"] /\ UNCHANGED handler
  BY DEF Calls!Secured
<1>5. /\ handler' \in [Call -> Handling]
      /\ \A d \in Call \ {c} : handler'[d] = handler[d]
      /\ handler'[c].at \in {"none", "arrived"}
      /\ socket'[c] # "closed" => app[c].as = pin
  BY <1>1, <1>4 DEF CallsTypeOK, Handling, Calls!Secured
<1>6. CallsTypeOK'
  BY <1>1, <1>2, <1>3, <1>4, <1>5 DEF CallsTypeOK, Calls!Secured
<1>7. ASSUME NEW d \in Call PROVE CallInv(d)'
  BY <1>1, <1>2, <1>3, <1>4, <1>5, SidecarAssumption, <1>6 DEF CallInv, ConnectionHeld, ReachesOnce, RecordedFirst, CallsTypeOK, Calls!Answers, Calls!Secured
<1>8. QED
  BY <1>6, <1>7 DEF CallsInv

LEMMA LostKeeps ==
  ASSUME CallsInv, NEW c \in Call, Calls!Lost(c)
  PROVE  CallsInv'
<1>1. CallsTypeOK /\ \A d \in Call : CallInv(d)
  BY DEF CallsInv
<1>2. UNCHANGED <<socket, handler, pin, process, durable, asked>>
  BY DEF Calls!Lost, Calls!engine
<1>3. /\ app' \in [Call -> Calling]
      /\ \A d \in Call \ {c} : app'[d] = app[d]
      /\ app'[c].at = "done" /\ app'[c].op = app[c].op /\ app'[c].as = app[c].as
      /\ app'[c].leg = app[c].leg /\ app'[c].result = "unavailable"
  BY <1>1, CallEnds DEF CallsTypeOK, Results, Calls!Lost
<1>4. CallsTypeOK'
  BY <1>1, <1>2, <1>3 DEF CallsTypeOK, Calls!Lost
<1>5. ASSUME NEW d \in Call PROVE CallInv(d)'
  BY <1>1, <1>2, <1>3, SidecarAssumption, <1>4 DEF CallInv, ConnectionHeld, ReachesOnce, RecordedFirst, CallsTypeOK, Calls!Answers, Calls!Lost
<1>6. QED
  BY <1>4, <1>5 DEF CallsInv

LEMMA ReceivedKeeps ==
  ASSUME CallsInv, NEW c \in Call, Calls!Received(c)
  PROVE  CallsInv'
<1>1. CallsTypeOK /\ \A d \in Call : CallInv(d)
  BY DEF CallsInv
<1>2. UNCHANGED <<handler, pin, process, durable, asked>>
  BY DEF Calls!Received, Calls!engine
<1>3. PICK r \in Results : \/ app' = Calls!Finish(c, r) /\ (r = "ok" => reply[c] = "ok" /\ app[c].leg = "operation")
         \/ /\ app' = [app EXCEPT ![c].leg = "operation", ![c].at = "connecting", ![c].attempt = 1]
            /\ r = app[c].result /\ app[c].leg = "health"
  BY <1>1 DEF Calls!Received, CallsTypeOK, Calling, Results
<1>4. /\ app' \in [Call -> Calling]
      /\ \A d \in Call \ {c} : app'[d] = app[d]
      /\ app'[c].op = app[c].op /\ app'[c].as = app[c].as /\ app'[c].result = r
      /\ \/ app'[c].at = "done" /\ app'[c].leg = app[c].leg /\ (r = "ok" => reply[c] = "ok" /\ app[c].leg = "operation")
         \/ app'[c].at = "connecting" /\ app'[c].leg = "operation" /\ app[c].leg = "health" /\ r = app[c].result
  <2>1. CASE app' = Calls!Finish(c, r) /\ (r = "ok" => reply[c] = "ok" /\ app[c].leg = "operation")
    BY <1>1, <2>1, CallEnds DEF CallsTypeOK
  <2>2. CASE /\ app' = [app EXCEPT ![c].leg = "operation", ![c].at = "connecting", ![c].attempt = 1]
             /\ r = app[c].result /\ app[c].leg = "health"
    <3>1. app[c] \in Calling /\ app'[c] = [app[c] EXCEPT !.leg = "operation", !.at = "connecting", !.attempt = 1]
      BY <1>1, <2>2 DEF CallsTypeOK
    <3>2. app'[c] = [at |-> "connecting", op |-> app[c].op, as |-> app[c].as, leg |-> "operation",
                     attempt |-> 1, result |-> app[c].result]
      BY <3>1 DEF Calling
    <3>3. QED
      BY <1>1, <2>2, <3>1, <3>2 DEF CallsTypeOK, Calling
  <2>3. QED
    BY <1>3, <2>1, <2>2
<1>5. /\ reply[c] # None /\ reply' = [reply EXCEPT ![c] = None]
      /\ socket' = [socket EXCEPT ![c] = "closed"]
  BY DEF Calls!Received
<1>6. CallsTypeOK'
  BY <1>1, <1>2, <1>3, <1>4, <1>5 DEF CallsTypeOK, Calls!Answers
<1>7. ASSUME NEW d \in Call PROVE CallInv(d)'
  BY <1>1, <1>2, <1>3, <1>4, <1>5, SidecarAssumption, <1>6 DEF CallInv, ConnectionHeld, ReachesOnce, RecordedFirst, CallsTypeOK, Calls!Answers
<1>8. QED
  BY <1>6, <1>7 DEF CallsInv

LEMMA GiveUpKeeps ==
  ASSUME CallsInv, NEW c \in Call, Calls!GiveUp(c)
  PROVE  CallsInv'
<1>1. CallsTypeOK /\ \A d \in Call : CallInv(d)
  BY DEF CallsInv
<1>2. UNCHANGED <<handler, pin, process, durable, asked>>
  BY DEF Calls!GiveUp, Calls!engine
<1>3. PICK r \in {"timeout", "cancelled"} : app' = Calls!Finish(c, r)
  BY DEF Calls!GiveUp
<1>4. /\ app' \in [Call -> Calling]
      /\ \A d \in Call \ {c} : app'[d] = app[d]
      /\ app'[c].at = "done" /\ app'[c].op = app[c].op /\ app'[c].as = app[c].as
      /\ app'[c].leg = app[c].leg /\ app'[c].result = r
  BY <1>1, <1>3, CallEnds DEF CallsTypeOK, Results
<1>5. CallsTypeOK'
  BY <1>1, <1>2, <1>3, <1>4 DEF CallsTypeOK, Calls!GiveUp
<1>6. ASSUME NEW d \in Call PROVE CallInv(d)'
  BY <1>1, <1>2, <1>3, <1>4, SidecarAssumption, <1>5 DEF CallInv, ConnectionHeld, ReachesOnce, RecordedFirst, CallsTypeOK, Calls!Answers, Calls!GiveUp
<1>7. QED
  BY <1>5, <1>6 DEF CallsInv

LEMMA NoticeClosedKeeps ==
  ASSUME CallsInv, NEW c \in Call, Calls!NoticeClosed(c)
  PROVE  CallsInv'
<1>1. CallsTypeOK /\ \A d \in Call : CallInv(d)
  BY DEF CallsInv
<1>2. UNCHANGED <<reply, durable, asked, app, socket, pin, process>>
  BY DEF Calls!NoticeClosed, Calls!client
<1>3. socket[c] # "open"
  BY DEF Calls!NoticeClosed
<1>4. /\ handler' \in [Call -> Handling]
      /\ \A d \in Call \ {c} : handler'[d] = handler[d]
      /\ \/ handler'[c].at = "none"
         \/ handler'[c].at = handler[c].at /\ handler'[c].outcome = handler[c].outcome
  <2>1. CASE handler' = Calls!Ended(c)
    BY <1>1, <2>1, HandlerEnds DEF CallsTypeOK
  <2>2. CASE handler' = [handler EXCEPT ![c].aborted = TRUE]
    <3>1. handler'[c] = [handler[c] EXCEPT !.aborted = TRUE]
      BY <1>1, <2>2 DEF CallsTypeOK
    <3>2. QED
      BY <1>1, <2>2, <3>1, HandlerAborts DEF CallsTypeOK
  <2>3. QED
    BY <2>1, <2>2 DEF Calls!NoticeClosed
<1>5. CallsTypeOK'
  BY <1>1, <1>2, <1>3, <1>4 DEF CallsTypeOK, Calls!Answers
<1>6. ASSUME NEW d \in Call PROVE CallInv(d)'
  BY <1>1, <1>2, <1>3, <1>4, SidecarAssumption, <1>5 DEF CallInv, ConnectionHeld, ReachesOnce, RecordedFirst, CallsTypeOK, Calls!Answers
<1>7. QED
  BY <1>5, <1>6 DEF CallsInv

LEMMA HandleKeeps ==
  ASSUME CallsInv, NEW c \in Call, Calls!Handle(c)
  PROVE  CallsInv'
<1>1. CallsTypeOK /\ \A d \in Call : CallInv(d)
  BY DEF CallsInv
<1>2. UNCHANGED <<durable, asked, app, pin, process>>
  BY DEF Calls!Handle, Calls!client
<1>3. handler[c].at = "arrived" /\ socket[c] = "open"
  BY DEF Calls!Handle
<1>4. \/ /\ socket' = [socket EXCEPT ![c] = "closed"] /\ handler' = Calls!Ended(c) /\ UNCHANGED reply
      \/ /\ reply' = [reply EXCEPT ![c] = "closing"] /\ handler' = Calls!Ended(c) /\ UNCHANGED socket
      \/ /\ handler' = [handler EXCEPT ![c].at = "reading"] /\ UNCHANGED <<reply, socket>>
  BY <1>1, <1>3 DEF Calls!Handle, Calls!Send, CallsTypeOK
<1>5. /\ handler' \in [Call -> Handling]
      /\ \A d \in Call \ {c} : handler'[d] = handler[d]
      /\ \/ handler'[c].at = "none"
         \/ handler'[c].at = "reading" /\ UNCHANGED <<reply, socket>>
  BY <1>1, <1>4, HandlerEnds, HandlerMoves DEF CallsTypeOK
<1>6. CallsTypeOK'
  BY <1>1, <1>2, <1>3, <1>4, <1>5 DEF CallsTypeOK, Calls!Answers
<1>7. ASSUME NEW d \in Call PROVE CallInv(d)'
  BY <1>1, <1>2, <1>3, <1>4, <1>5, SidecarAssumption, <1>6 DEF CallInv, ConnectionHeld, ReachesOnce, RecordedFirst, CallsTypeOK, Calls!Answers
<1>8. QED
  BY <1>6, <1>7 DEF CallsInv

LEMMA ReadBodyKeeps ==
  ASSUME CallsInv, NEW c \in Call, Calls!ReadBody(c)
  PROVE  CallsInv'
<1>1. CallsTypeOK /\ \A d \in Call : CallInv(d)
  BY DEF CallsInv
<1>2. UNCHANGED <<durable, asked, app, socket, pin, process>>
  BY DEF Calls!ReadBody, Calls!client
<1>3. handler[c].at = "reading" /\ app[c].at \in {"waiting", "done"}
  BY <1>1 DEF Calls!ReadBody, CallInv, ConnectionHeld, CallsTypeOK, Calling
<1>4. /\ \/ handler' = Calls!Ended(c)
         \/ /\ app[c].leg = "operation" /\ UNCHANGED reply
            /\ handler' = [handler EXCEPT ![c].at = "invoked"]
      /\ \/ UNCHANGED reply
         \/ /\ socket[c] = "open" /\ handler' = Calls!Ended(c)
            /\ \/ reply' = [reply EXCEPT ![c] = "refused"]
               \/ reply' = [reply EXCEPT ![c] = "ok"] /\ app[c].leg = "health"
  BY <1>1 DEF Calls!ReadBody, Calls!Send, CallsTypeOK
<1>5. /\ handler' \in [Call -> Handling]
      /\ \A d \in Call \ {c} : handler'[d] = handler[d]
      /\ \/ handler'[c].at = "none"
         \/ handler'[c].at = "invoked" /\ app[c].leg = "operation" /\ UNCHANGED reply
  BY <1>1, <1>4, HandlerEnds, HandlerMoves DEF CallsTypeOK
<1>6. /\ \A d \in Call \ {c} : reply'[d] = reply[d]
      /\ \/ reply'[c] = reply[c]
         \/ /\ socket[c] = "open" /\ handler'[c].at = "none"
            /\ reply'[c] = "refused" \/ (reply'[c] = "ok" /\ app[c].leg = "health")
      /\ reply' \in [Call -> Calls!Answers \union {None}]
  BY <1>1, <1>4, <1>5, HandlerEnds DEF CallsTypeOK, Calls!Answers
<1>7. CallsTypeOK'
  BY <1>1, <1>2, <1>3, <1>5, <1>6 DEF CallsTypeOK, Calls!Answers
<1>8. ASSUME NEW d \in Call PROVE CallInv(d)'
  BY <1>1, <1>2, <1>3, <1>5, <1>6, SidecarAssumption, <1>7 DEF CallInv, ConnectionHeld, ReachesOnce, RecordedFirst, CallsTypeOK, Calls!Answers
<1>9. QED
  BY <1>7, <1>8 DEF CallsInv

LEMMA InvokeKeeps ==
  ASSUME CallsInv, NEW c \in Call, Calls!Invoke(c)
  PROVE  CallsInv'
<1>1. CallsTypeOK /\ \A d \in Call : CallInv(d)
  BY DEF CallsInv
<1>2. UNCHANGED <<reply, asked, app, socket, pin, process>>
  BY DEF Calls!Invoke, Calls!client
<1>3. handler[c].at = "invoked"
  BY DEF Calls!Invoke
<1>4. /\ durable \subseteq durable'
      /\ \/ /\ handler' = [handler EXCEPT ![c].at = "running"]
            /\ app[c].op = "sample" => <<c, "started">> \in durable'
         \/ handler' = [handler EXCEPT ![c].at = "answering", ![c].outcome = "audit_failed"]
  BY DEF Calls!Invoke, Calls!Record
<1>5. /\ handler' \in [Call -> Handling]
      /\ \A d \in Call \ {c} : handler'[d] = handler[d]
      /\ \/ /\ handler'[c].at = "running"
            /\ app[c].op = "sample" => <<c, "started">> \in durable'
         \/ handler'[c].at = "answering" /\ handler'[c].outcome = "audit_failed"
  BY <1>1, <1>4, HandlerResults, HandlerMoves DEF CallsTypeOK
<1>6. CallsTypeOK'
  BY <1>1, <1>2, <1>3, <1>4, <1>5 DEF CallsTypeOK, Calls!Answers
<1>7. ASSUME NEW d \in Call PROVE CallInv(d)'
  BY <1>1, <1>2, <1>3, <1>4, <1>5, SidecarAssumption, <1>6 DEF CallInv, ConnectionHeld, ReachesOnce, RecordedFirst, CallsTypeOK, Calls!Answers
<1>8. QED
  BY <1>6, <1>7 DEF CallsInv

LEMMA AskSourceKeeps ==
  ASSUME CallsInv, NEW c \in Call, Calls!AskSource(c)
  PROVE  CallsInv'
<1>1. CallsTypeOK /\ \A d \in Call : CallInv(d)
  BY DEF CallsInv
<1>2. UNCHANGED <<reply, durable, app, socket, pin, process>>
  BY DEF Calls!AskSource, Calls!client
<1>3. handler[c].at = "running"
  BY DEF Calls!AskSource
<1>4. /\ \E o \in {"ok", "failed"} : handler' = [handler EXCEPT ![c].at = "ending", ![c].outcome = o]
      /\ asked' = [asked EXCEPT ![c] = @ + 1] \/ UNCHANGED asked
  BY DEF Calls!AskSource
<1>5. /\ handler' \in [Call -> Handling]
      /\ \A d \in Call \ {c} : handler'[d] = handler[d]
      /\ handler'[c].at = "ending"
  BY <1>1, <1>4, HandlerResults DEF CallsTypeOK
<1>6. CallsTypeOK'
  BY <1>1, <1>2, <1>3, <1>4, <1>5 DEF CallsTypeOK, Calls!Answers
<1>7. ASSUME NEW d \in Call PROVE CallInv(d)'
  BY <1>1, <1>2, <1>3, <1>4, <1>5, SidecarAssumption, <1>6 DEF CallInv, ConnectionHeld, ReachesOnce, RecordedFirst, CallsTypeOK, Calls!Answers
<1>8. QED
  BY <1>6, <1>7 DEF CallsInv

LEMMA RecordEndedKeeps ==
  ASSUME CallsInv, NEW c \in Call, Calls!RecordEnded(c)
  PROVE  CallsInv'
<1>1. CallsTypeOK /\ \A d \in Call : CallInv(d)
  BY DEF CallsInv
<1>2. UNCHANGED <<reply, asked, app, socket, pin, process>>
  BY DEF Calls!RecordEnded, Calls!client
<1>3. handler[c].at = "ending"
  BY DEF Calls!RecordEnded
<1>4. /\ durable \subseteq durable'
      /\ \/ /\ handler' = [handler EXCEPT ![c].at = "answering"]
            /\ app[c].op = "sample" /\ handler[c].outcome = "ok" => <<c, "completed">> \in durable'
         \/ handler' = [handler EXCEPT ![c].at = "answering", ![c].outcome = "audit_failed"]
  BY DEF Calls!RecordEnded, Calls!Record
<1>5. /\ handler' \in [Call -> Handling]
      /\ \A d \in Call \ {c} : handler'[d] = handler[d]
      /\ handler'[c].at = "answering"
      /\ app[c].op = "sample" /\ handler'[c].outcome = "ok" => <<c, "completed">> \in durable'
  BY <1>1, <1>4, HandlerResults, HandlerMoves DEF CallsTypeOK
<1>6. CallsTypeOK'
  BY <1>1, <1>2, <1>3, <1>4, <1>5 DEF CallsTypeOK, Calls!Answers
<1>7. ASSUME NEW d \in Call PROVE CallInv(d)'
  BY <1>1, <1>2, <1>3, <1>4, <1>5, SidecarAssumption, <1>6 DEF CallInv, ConnectionHeld, ReachesOnce, RecordedFirst, CallsTypeOK, Calls!Answers
<1>8. QED
  BY <1>6, <1>7 DEF CallsInv

LEMMA AnswerKeeps ==
  ASSUME CallsInv, NEW c \in Call, Calls!Answer(c)
  PROVE  CallsInv'
<1>1. CallsTypeOK /\ \A d \in Call : CallInv(d)
  BY DEF CallsInv
<1>2. UNCHANGED <<durable, asked, app, socket, pin, process>>
  BY DEF Calls!Answer, Calls!client
<1>3. handler[c].at = "answering" /\ handler' = Calls!Ended(c)
  BY DEF Calls!Answer
<1>4. /\ handler' \in [Call -> Handling]
      /\ \A d \in Call \ {c} : handler'[d] = handler[d]
      /\ handler'[c].at = "none"
  BY <1>1, <1>3, HandlerEnds DEF CallsTypeOK
<1>5. UNCHANGED reply \/ (socket[c] = "open" /\ reply' = [reply EXCEPT ![c] = handler[c].outcome])
  BY <1>1 DEF Calls!Answer, Calls!Send, CallsTypeOK
<1>6. handler[c].outcome \in Calls!Answers \union {None}
  BY <1>1 DEF CallsTypeOK, Handling, Calls!Answers
<1>7. CallsTypeOK'
  BY <1>1, <1>2, <1>3, <1>4, <1>5, <1>6 DEF CallsTypeOK, Calls!Answers
<1>8. ASSUME NEW d \in Call PROVE CallInv(d)'
  BY <1>1, <1>2, <1>3, <1>4, <1>5, <1>6, SidecarAssumption, <1>7 DEF CallInv, ConnectionHeld, ReachesOnce, RecordedFirst, CallsTypeOK, Calls!Answers
<1>9. QED
  BY <1>7, <1>8 DEF CallsInv

LEMMA ReplaceTrustedClientKeeps ==
  ASSUME CallsInv, Calls!ReplaceTrustedClient
  PROVE  CallsInv'
<1>1. CallsTypeOK /\ \A d \in Call : CallInv(d)
  BY DEF CallsInv
<1>2. UNCHANGED <<app, handler, reply, process, durable, asked>>
  BY DEF Calls!ReplaceTrustedClient
<1>3. socket' \in [Call -> {"none", "open", "closed"}] /\ \A d \in Call : socket'[d] # "open"
  BY <1>1 DEF Calls!ReplaceTrustedClient, Calls!CloseSockets, CallsTypeOK
<1>4. CallsTypeOK'
  BY <1>1, <1>2, <1>3 DEF CallsTypeOK, Calls!Answers
<1>5. ASSUME NEW d \in Call PROVE CallInv(d)'
  BY <1>1, <1>2, <1>3, SidecarAssumption, <1>4 DEF CallInv, ConnectionHeld, ReachesOnce, RecordedFirst, CallsTypeOK, Calls!Answers
<1>6. QED
  BY <1>4, <1>5 DEF CallsInv

LEMMA StopKeeps ==
  ASSUME CallsInv, Calls!Stop
  PROVE  CallsInv'
<1>1. CallsTypeOK /\ \A d \in Call : CallInv(d)
  BY DEF CallsInv
<1>2. UNCHANGED <<app, socket, reply, pin, durable, asked>>
  BY DEF Calls!Stop
<1>3. process' = "closing"
  BY DEF Calls!Stop
<1>4. handler' \in [Call -> Handling]
      /\ \A d \in Call : handler'[d].at = handler[d].at /\ handler'[d].outcome = handler[d].outcome
  <2>1. \A d \in Call : handler'[d] = IF handler[d].at \in {"none", "arrived"} THEN handler[d]
                                      ELSE [handler[d] EXCEPT !.aborted = TRUE]
    BY DEF Calls!Stop
  <2>2. \A d \in Call : /\ handler'[d] \in Handling /\ handler'[d].at = handler[d].at
                        /\ handler'[d].outcome = handler[d].outcome
    BY <1>1, <2>1, HandlerAborts DEF CallsTypeOK
  <2>3. DOMAIN handler' = Call /\ handler' = [d \in Call |-> handler'[d]]
    BY DEF Calls!Stop
  <2>4. QED
    BY <2>2, <2>3
<1>5. CallsTypeOK'
  BY <1>1, <1>2, <1>3, <1>4 DEF CallsTypeOK, Calls!Answers
<1>6. ASSUME NEW d \in Call PROVE CallInv(d)'
  BY <1>1, <1>2, <1>3, <1>4, SidecarAssumption, <1>5 DEF CallInv, ConnectionHeld, ReachesOnce, RecordedFirst, CallsTypeOK, Calls!Answers
<1>7. QED
  BY <1>5, <1>6 DEF CallsInv

LEMMA StopEndsKeeps ==
  ASSUME CallsInv, Calls!StopEnds
  PROVE  CallsInv'
<1>1. CallsTypeOK /\ \A d \in Call : CallInv(d)
  BY DEF CallsInv
<1>2. UNCHANGED <<app, reply, pin, durable, asked>>
  BY DEF Calls!StopEnds, Calls!Gone
<1>3. /\ socket' \in [Call -> {"none", "open", "closed"}] /\ \A d \in Call : socket'[d] # "open"
      /\ handler' \in [Call -> Handling] /\ \A d \in Call : handler'[d].at = "none"
  BY <1>1 DEF Calls!StopEnds, Calls!Gone, Calls!NoHandler, Handling, Calls!CloseSockets, CallsTypeOK
<1>4. CallsTypeOK'
  BY <1>1, <1>2, <1>3 DEF CallsTypeOK, Calls!Answers
<1>5. ASSUME NEW d \in Call PROVE CallInv(d)'
  BY <1>1, <1>2, <1>3, SidecarAssumption, <1>4 DEF CallInv, ConnectionHeld, ReachesOnce, RecordedFirst, CallsTypeOK, Calls!Answers
<1>6. QED
  BY <1>4, <1>5 DEF CallsInv

LEMMA CrashKeeps ==
  ASSUME CallsInv, Calls!Crash
  PROVE  CallsInv'
<1>1. CallsTypeOK /\ \A d \in Call : CallInv(d)
  BY DEF CallsInv
<1>2. UNCHANGED <<app, reply, pin, durable, asked>>
  BY DEF Calls!Crash, Calls!Gone
<1>3. /\ socket' \in [Call -> {"none", "open", "closed"}] /\ \A d \in Call : socket'[d] # "open"
      /\ handler' \in [Call -> Handling] /\ \A d \in Call : handler'[d].at = "none"
  BY <1>1 DEF Calls!Crash, Calls!Gone, Calls!NoHandler, Handling, Calls!CloseSockets, CallsTypeOK
<1>4. CallsTypeOK'
  BY <1>1, <1>2, <1>3 DEF CallsTypeOK, Calls!Answers
<1>5. ASSUME NEW d \in Call PROVE CallInv(d)'
  BY <1>1, <1>2, <1>3, SidecarAssumption, <1>4 DEF CallInv, ConnectionHeld, ReachesOnce, RecordedFirst, CallsTypeOK, Calls!Answers
<1>6. QED
  BY <1>4, <1>5 DEF CallsInv

LEMMA RestartKeeps ==
  ASSUME CallsInv, Calls!Restart
  PROVE  CallsInv'
<1>1. CallsTypeOK /\ \A d \in Call : CallInv(d)
  BY DEF CallsInv
<1>2. UNCHANGED <<app, socket, handler, reply, durable, asked>>
  BY DEF Calls!Restart
<1>3. process = "down"
  BY DEF Calls!Restart
<1>4. CallsTypeOK'
  BY <1>1, <1>2, <1>3 DEF CallsTypeOK, Calls!Answers
<1>5. ASSUME NEW d \in Call PROVE CallInv(d)'
  BY <1>1, <1>2, <1>3, SidecarAssumption, <1>4 DEF CallInv, ConnectionHeld, ReachesOnce, RecordedFirst, CallsTypeOK, Calls!Answers
<1>6. QED
  BY <1>4, <1>5 DEF CallsInv

------------------------------------------------------------------------------
(* The supervision of an engine.                                             *)

(* What the supervisor's processes leave of a lock that is another's: it, as *)
(* long as the two do not have one number.                                   *)
Spared(z) ==
  lock[z] # None /\ other # None /\ lock[z] = [says |-> other, owner |-> 0] =>
    lock'[z] = lock[z] \/ Supervisor!NumbersMeet

(* A child's entry after a step.                                             *)
LEMMA ChildMoves ==
  ASSUME child \in Children, NEW v \in {"early", "probing", "opening", "ready", "steady", "gone"},
         child' = [child EXCEPT !.at = v]
  PROVE  /\ child' \in Children /\ child'.at = v /\ child'.pid = child.pid
         /\ child'.opened = child.opened /\ child'.taking = child.taking /\ child'.closing = child.closing
  BY DEF Children

LEMMA ChildIsThere ==
  ASSUME SupervisorInv, Supervisor!Alive
  PROVE  /\ child \in Children /\ child # None /\ child.at # "gone"
         /\ starts \in Nat /\ starts >= 1 /\ lock \in [Zone -> Locks \union {None}]
         /\ \A z \in child.opened : lock[z] # None /\ lock[z].owner # 0
         /\ child.taking # None => lock[child.taking] # None /\ lock[child.taking].owner # 0
         /\ child.closing # None => child.closing \subseteq child.opened
  BY DEF SupervisorInv, SupervisorTypeOK, OneChild, ChildHolds, Supervisor!Alive

(* A step of the child that leaves it its zones, and the others theirs.      *)
LEMMA ChildSteps ==
  ASSUME SupervisorInv, child \in Children, child # None, child' \in Children, child'.pid = child.pid,
         UNCHANGED other, UNCHANGED Supervisor!supervisor,
         lock' \in [Zone -> Locks \union {None}],
         \A z \in Zone : lock'[z] # None /\ lock'[z] # lock[z] =>
           lock'[z].owner = 0 \/ lock'[z].says \in {None, child.pid},
         ChildHolds'
  PROVE  SupervisorInv'
<1>1. /\ UNCHANGED <<supervising, failures, halting, diagnostic, starts, unstable, other>>
      /\ child' # None
  BY SidecarAssumption DEF Supervisor!supervisor
<1>2. SupervisorTypeOK'
  BY <1>1 DEF SupervisorInv, SupervisorTypeOK
<1>3. OneChild'
  BY <1>1 DEF SupervisorInv, OneChild
<1>4. SignedByTheChild'
  BY <1>1 DEF SupervisorInv, SignedByTheChild
<1>5. StartsCounted'
  BY <1>1 DEF SupervisorInv, StartsCounted
<1>6. QED
  BY <1>2, <1>3, <1>4, <1>5 DEF SupervisorInv

(* It only goes on, or ends.                                                 *)
LEMMA ChildGoesOn ==
  ASSUME SupervisorInv, Supervisor!Alive,
         Supervisor!Checks \/ Supervisor!Probe \/ Supervisor!Dies \/ Supervisor!Steady
  PROVE  SupervisorInv' /\ \A z \in Zone : Spared(z)
<1>1. UNCHANGED <<lock, other>> /\ UNCHANGED Supervisor!supervisor
  BY DEF Supervisor!Checks, Supervisor!Probe, Supervisor!Dies, Supervisor!Steady
<1>2. PICK v \in {"probing", "opening", "steady", "gone"} : child' = [child EXCEPT !.at = v]
  BY DEF Supervisor!Checks, Supervisor!Probe, Supervisor!Dies, Supervisor!Steady, Supervisor!Exit
<1>3. /\ child' \in Children /\ child'.at = v /\ child'.pid = child.pid
      /\ child'.opened = child.opened /\ child'.taking = child.taking /\ child'.closing = child.closing
  BY <1>2, ChildIsThere, ChildMoves
<1>4. ChildHolds'
  BY <1>1, <1>3, ChildIsThere DEF ChildHolds, Supervisor!Alive
<1>5. SupervisorInv'
  BY <1>1, <1>3, <1>4, ChildIsThere, ChildSteps
<1>6. QED
  BY <1>1, <1>5 DEF Spared

(* A child that has ended holds nothing.                                     *)
LEMMA ChildEnds ==
  ASSUME SupervisorInv, Supervisor!Alive, Supervisor!Exit,
         UNCHANGED other, UNCHANGED Supervisor!supervisor,
         lock' \in [Zone -> Locks \union {None}],
         \A z \in Zone : lock'[z] = lock[z] \/ (lock'[z] = None /\ lock[z] # None /\ lock[z].owner # 0)
  PROVE  SupervisorInv' /\ \A z \in Zone : Spared(z)
<1>1. child' = [child EXCEPT !.at = "gone"]
  BY DEF Supervisor!Exit
<1>2. child' \in Children /\ child'.at = "gone" /\ child'.pid = child.pid
  BY <1>1, ChildIsThere, ChildMoves
<1>3. ChildHolds'
  BY <1>2 DEF ChildHolds, Supervisor!Alive
<1>4. SupervisorInv'
  BY <1>2, <1>3, ChildIsThere, ChildSteps
<1>5. ASSUME NEW z \in Zone PROVE Spared(z)
  BY DEF Spared
<1>6. QED
  BY <1>4, <1>5

LEMMA StartupEnds ==
  ASSUME SupervisorInv, Supervisor!Alive, NEW locks,
         locks = lock \/ (child.taking \in Zone /\ locks = [lock EXCEPT ![child.taking] = None]),
         Supervisor!StartupFails(locks), UNCHANGED other, UNCHANGED Supervisor!supervisor
  PROVE  SupervisorInv' /\ \A z \in Zone : Spared(z)
<1>1. /\ Supervisor!Exit
      /\ lock' = [z \in Zone |-> IF z \in child.opened THEN None ELSE locks[z]]
  BY DEF Supervisor!StartupFails
<1>2. \A z \in Zone : locks[z] = lock[z] \/ (locks[z] = None /\ z = child.taking /\ child.taking # None)
  BY ChildIsThere, SidecarAssumption
<1>3. lock' \in [Zone -> Locks \union {None}]
  BY <1>1, <1>2, ChildIsThere
<1>4. \A z \in Zone : lock'[z] = lock[z] \/ (lock'[z] = None /\ lock[z] # None /\ lock[z].owner # 0)
  BY <1>1, <1>2, ChildIsThere
<1>5. QED
  BY <1>1, <1>3, <1>4, ChildEnds

LEMMA TakeLockKeeps ==
  ASSUME SupervisorInv, NEW y \in Zone, Supervisor!TakeLock(y)
  PROVE  SupervisorInv' /\ \A z \in Zone : Spared(z)
<1>1. Supervisor!Alive /\ UNCHANGED other /\ UNCHANGED Supervisor!supervisor
  BY DEF Supervisor!TakeLock
<1>2. CASE lock[y] # None
  BY <1>1, <1>2, StartupEnds DEF Supervisor!TakeLock
<1>3. CASE lock[y] = None
  <2>1. /\ lock' = [lock EXCEPT ![y] = [says |-> None, owner |-> starts]]
        /\ child' = [child EXCEPT !.taking = y]
    BY <1>3 DEF Supervisor!TakeLock, Supervisor!Empty
  <2>2. /\ child' \in Children /\ child'.pid = child.pid /\ child'.taking = y
        /\ child'.opened = child.opened /\ child'.closing = child.closing
    BY <1>1, <2>1, ChildIsThere DEF Children
  <2>3. /\ lock' \in [Zone -> Locks \union {None}]
        /\ lock'[y] = [says |-> None, owner |-> starts] /\ \A z \in Zone \ {y} : lock'[z] = lock[z]
    BY <1>1, <2>1, ChildIsThere DEF Locks
  <2>4. lock'[y] # None /\ lock'[y].owner # 0 /\ lock'[y].says = None
    BY <1>1, <2>3, ChildIsThere, SidecarAssumption DEF Locks
  <2>5. child.opened \subseteq Zone
    BY <1>1, ChildIsThere DEF Children
  <2>6. ChildHolds'
    BY <1>1, <1>3, <2>2, <2>3, <2>4, <2>5, ChildIsThere DEF ChildHolds
  <2>7. SupervisorInv'
    BY <1>1, <2>2, <2>3, <2>4, <2>6, ChildIsThere, ChildSteps
  <2>8. QED
    BY <1>3, <2>3, <2>7 DEF Spared
<1>4. QED
  BY <1>2, <1>3

LEMMA WriteLockKeeps ==
  ASSUME SupervisorInv, NEW y \in Zone, Supervisor!WriteLock(y)
  PROVE  SupervisorInv' /\ \A z \in Zone : Spared(z)
<1>1. /\ Supervisor!Alive /\ UNCHANGED <<child, other>> /\ UNCHANGED Supervisor!supervisor
      /\ child.taking = y /\ lock' = [lock EXCEPT ![y].says = child.pid]
  BY DEF Supervisor!WriteLock
<1>2. y # None /\ lock[y] # None /\ lock[y] \in Locks /\ lock[y].owner # 0 /\ child.pid \in Pid
  BY <1>1, ChildIsThere, SidecarAssumption DEF Children
<1>3. lock'[y] = [lock[y] EXCEPT !.says = child.pid] /\ \A z \in Zone \ {y} : lock'[z] = lock[z]
  BY <1>1, ChildIsThere
<1>4. lock'[y] \in Locks /\ lock'[y].owner = lock[y].owner /\ lock'[y].says = child.pid
  BY <1>2, <1>3 DEF Locks
<1>5. lock' \in [Zone -> Locks \union {None}] /\ lock'[y] # None
  BY <1>1, <1>4, ChildIsThere, SidecarAssumption
<1>6. child.opened \subseteq Zone
  BY <1>1, ChildIsThere DEF Children
<1>7. ChildHolds'
  BY <1>1, <1>2, <1>3, <1>4, <1>5, <1>6, ChildIsThere DEF ChildHolds
<1>8. SupervisorInv'
  BY <1>1, <1>3, <1>4, <1>5, <1>7, ChildIsThere, ChildSteps
<1>9. QED
  BY <1>2, <1>3, <1>8 DEF Spared

LEMMA OpenZoneKeeps ==
  ASSUME SupervisorInv, NEW y \in Zone, Supervisor!OpenZone(y)
  PROVE  SupervisorInv' /\ \A z \in Zone : Spared(z)
<1>1. Supervisor!Alive /\ UNCHANGED other /\ UNCHANGED Supervisor!supervisor /\ child.taking = y
  BY DEF Supervisor!OpenZone
<1>2. CASE Supervisor!StartupFails([lock EXCEPT ![y] = None])
  BY <1>1, <1>2, StartupEnds
<1>3. CASE child' = [child EXCEPT !.opened = @ \union {y}, !.taking = None] /\ UNCHANGED lock
  <2>1. /\ child' \in Children /\ child'.pid = child.pid /\ child'.taking = None
        /\ child'.opened = child.opened \union {y} /\ child'.closing = child.closing
    BY <1>1, <1>3, ChildIsThere DEF Children
  <2>2. y # None
    BY SidecarAssumption
  <2>3. ChildHolds'
    BY <1>1, <1>3, <2>1, <2>2, ChildIsThere DEF ChildHolds
  <2>4. lock' \in [Zone -> Locks \union {None}]
    BY <1>1, <1>3, ChildIsThere
  <2>5. SupervisorInv'
    BY <1>1, <1>3, <2>1, <2>3, <2>4, ChildIsThere, ChildSteps
  <2>6. QED
    BY <1>3, <2>5 DEF Spared
<1>4. QED
  BY <1>2, <1>3 DEF Supervisor!OpenZone

LEMMA ListenKeeps ==
  ASSUME SupervisorInv, Supervisor!Listen
  PROVE  SupervisorInv' /\ \A z \in Zone : Spared(z)
<1>1. Supervisor!Alive /\ UNCHANGED other /\ UNCHANGED Supervisor!supervisor
  BY DEF Supervisor!Listen
<1>2. CASE Supervisor!StartupFails(lock)
  BY <1>1, <1>2, StartupEnds
<1>3. CASE child' = [child EXCEPT !.at = "ready"] /\ UNCHANGED lock
  <2>1. /\ child' \in Children /\ child'.pid = child.pid
        /\ child'.opened = child.opened /\ child'.taking = child.taking /\ child'.closing = child.closing
    BY <1>1, <1>3, ChildIsThere, ChildMoves
  <2>2. ChildHolds'
    BY <1>1, <1>3, <2>1, ChildIsThere DEF ChildHolds
  <2>3. lock' \in [Zone -> Locks \union {None}]
    BY <1>1, <1>3, ChildIsThere
  <2>4. SupervisorInv'
    BY <1>1, <1>3, <2>1, <2>2, <2>3, ChildIsThere, ChildSteps
  <2>5. QED
    BY <1>3, <2>4 DEF Spared
<1>4. QED
  BY <1>2, <1>3 DEF Supervisor!Listen

LEMMA TerminatedKeeps ==
  ASSUME SupervisorInv, Supervisor!Terminated
  PROVE  SupervisorInv' /\ \A z \in Zone : Spared(z)
<1>1. /\ Supervisor!Alive /\ UNCHANGED <<lock, other>> /\ UNCHANGED Supervisor!supervisor
      /\ lock' \in [Zone -> Locks \union {None}]
  BY ChildIsThere DEF Supervisor!Terminated
<1>2. CASE Supervisor!Exit
  BY <1>1, <1>2, ChildEnds
<1>3. CASE child' = [child EXCEPT !.closing = child.opened]
  <2>1. /\ child' \in Children /\ child'.pid = child.pid
        /\ child'.opened = child.opened /\ child'.taking = child.taking /\ child'.closing = child.opened
    BY <1>1, <1>3, ChildIsThere DEF Children
  <2>2. ChildHolds'
    BY <1>1, <2>1, ChildIsThere DEF ChildHolds
  <2>3. SupervisorInv'
    BY <1>1, <2>1, <2>2, ChildIsThere, ChildSteps
  <2>4. QED
    BY <1>1, <2>3 DEF Spared
<1>4. QED
  BY <1>2, <1>3 DEF Supervisor!Terminated

LEMMA ClosedKeeps ==
  ASSUME SupervisorInv, Supervisor!Closed
  PROVE  SupervisorInv' /\ \A z \in Zone : Spared(z)
<1>1. /\ Supervisor!Alive /\ Supervisor!Exit /\ UNCHANGED other /\ UNCHANGED Supervisor!supervisor
      /\ lock' = [z \in Zone |-> IF z \in child.closing THEN None ELSE lock[z]]
      /\ child.closing # None
  BY DEF Supervisor!Closed, Supervisor!Without
<1>2. lock' \in [Zone -> Locks \union {None}]
  BY <1>1, ChildIsThere
<1>3. \A z \in Zone : lock'[z] = lock[z] \/ (lock'[z] = None /\ lock[z] # None /\ lock[z].owner # 0)
  BY <1>1, ChildIsThere
<1>4. QED
  BY <1>1, <1>2, <1>3, ChildEnds

(* The supervisor's own steps.                                               *)
LEMMA BeforeStartKeeps ==
  ASSUME SupervisorInv, Supervisor!BeforeStart
  PROVE  SupervisorInv' /\ \A z \in Zone : Spared(z)
<1>1. /\ UNCHANGED <<failures, halting, child, lock, other, starts, unstable>>
      /\ supervising = "starting" /\ diagnostic' = FALSE
      /\ supervising' = IF halting THEN "stopped" ELSE "spawning"
  BY DEF Supervisor!BeforeStart
<1>2. SupervisorTypeOK'
  BY <1>1 DEF SupervisorInv, SupervisorTypeOK
<1>3. OneChild' /\ ChildHolds' /\ SignedByTheChild' /\ StartsCounted'
  BY <1>1 DEF SupervisorInv, OneChild, ChildHolds, Supervisor!Alive, SignedByTheChild, StartsCounted
<1>4. QED
  BY <1>1, <1>2, <1>3 DEF SupervisorInv, Spared

LEMMA SpawnKeeps ==
  ASSUME SupervisorInv, Supervisor!Spawn
  PROVE  SupervisorInv' /\ \A z \in Zone : Spared(z)
<1>1. /\ UNCHANGED <<failures, halting, diagnostic, lock, other>>
      /\ supervising = "spawning" /\ supervising' = "running"
      /\ starts' = starts + 1 /\ unstable' = unstable + 1
  BY DEF Supervisor!Spawn
<1>2. PICK p \in Pid :
        /\ p # other \/ Separate
        /\ child' = [pid |-> p, at |-> "early", opened |-> {}, taking |-> None, told |-> halting,
                     closing |-> None]
  BY SidecarAssumption DEF Supervisor!Spawn, Supervisor!TermAtSpawn
<1>3. child' \in Children /\ child' # None /\ child'.pid = p /\ child'.opened = {}
      /\ child'.taking = None /\ child'.closing = None
  BY <1>2, SidecarAssumption DEF SupervisorInv, SupervisorTypeOK, Children
<1>4. SupervisorTypeOK'
  BY <1>1, <1>3 DEF SupervisorInv, SupervisorTypeOK
<1>5. OneChild'
  BY <1>1, <1>2, <1>3 DEF SupervisorInv, SupervisorTypeOK, OneChild
<1>6. ChildHolds'
  BY <1>3 DEF ChildHolds
<1>7. SignedByTheChild'
  BY <1>1 DEF SupervisorInv, OneChild, SignedByTheChild
<1>8. StartsCounted'
  BY <1>1, SidecarAssumption DEF SupervisorInv, SupervisorTypeOK, StartsCounted
<1>9. QED
  BY <1>1, <1>4, <1>5, <1>6, <1>7, <1>8 DEF SupervisorInv, Spared

LEMMA ReplenishKeeps ==
  ASSUME SupervisorInv, Supervisor!Replenish
  PROVE  SupervisorInv' /\ \A z \in Zone : Spared(z)
<1>1. /\ UNCHANGED <<supervising, halting, child, diagnostic, lock, other, starts>>
      /\ failures' = 0 /\ unstable' = 1 /\ child # None
  BY DEF Supervisor!Replenish, Supervisor!MayReplenish, Supervisor!Sustained, Supervisor!Alive
<1>2. SupervisorTypeOK'
  BY <1>1 DEF SupervisorInv, SupervisorTypeOK
<1>3. OneChild' /\ ChildHolds' /\ SignedByTheChild'
  BY <1>1 DEF SupervisorInv, OneChild, ChildHolds, Supervisor!Alive, SignedByTheChild
<1>4. StartsCounted'
  BY <1>1, SidecarAssumption DEF SupervisorInv, OneChild, StartsCounted
<1>5. QED
  BY <1>1, <1>2, <1>3, <1>4 DEF SupervisorInv, Spared

(* The child's own locks go, and only they.                                  *)
LEMMA Reclaimed ==
  ASSUME SupervisorInv, child # None, child.at = "gone", Supervisor!ReleaseChildLocks
  PROVE  /\ lock' \in [Zone -> Locks \union {None}]
         /\ \A z \in Zone : lock'[z] = IF lock[z] # None /\ lock[z].says = child.pid THEN None ELSE lock[z]
         /\ \A z \in Zone : Spared(z)
<1>1. lock' = [z \in Zone |-> IF lock[z] # None /\ lock[z].says = child.pid THEN None ELSE lock[z]]
  BY DEF Supervisor!ReleaseChildLocks, Supervisor!Without, Supervisor!OwnedByChild
<1>2. ASSUME NEW z \in Zone PROVE Spared(z)
  BY <1>1 DEF Spared, SupervisorInv, OneChild, Supervisor!NumbersMeet
<1>3. QED
  BY <1>1, <1>2 DEF SupervisorInv, SupervisorTypeOK

LEMMA AfterExitKeeps ==
  ASSUME SupervisorInv, Supervisor!AfterExit
  PROVE  SupervisorInv' /\ \A z \in Zone : Spared(z)
<1>1. /\ UNCHANGED <<failures, halting, other, starts, unstable>>
      /\ child # None /\ child.at = "gone" /\ child' = None /\ Supervisor!ReleaseChildLocks
      /\ diagnostic' = ~halting /\ supervising = "running" /\ supervising' = "exited"
  BY DEF Supervisor!AfterExit
<1>2. SupervisorTypeOK'
  BY <1>1, Reclaimed DEF SupervisorInv, SupervisorTypeOK
<1>3. OneChild' /\ ChildHolds' /\ StartsCounted'
  BY <1>1 DEF SupervisorInv, OneChild, ChildHolds, Supervisor!Alive, StartsCounted
<1>4. SignedByTheChild'
  BY <1>1, Reclaimed DEF SupervisorInv, SignedByTheChild
<1>5. QED
  BY <1>1, <1>2, <1>3, <1>4, Reclaimed DEF SupervisorInv

LEMMA AfterExitFailsKeeps ==
  ASSUME SupervisorInv, Supervisor!AfterExitFails
  PROVE  SupervisorInv' /\ \A z \in Zone : Spared(z)
<1>1. /\ UNCHANGED <<failures, halting, diagnostic, other, starts, unstable>>
      /\ child # None /\ child.at = "gone" /\ child' = None /\ (Supervisor!ReleaseChildLocks \/ UNCHANGED lock)
      /\ supervising = "running" /\ supervising' = "failed"
  BY DEF Supervisor!AfterExitFails
<1>2. lock' \in [Zone -> Locks \union {None}] /\ \A z \in Zone : Spared(z)
  BY <1>1, Reclaimed DEF SupervisorInv, SupervisorTypeOK, Spared
<1>3. SupervisorTypeOK'
  BY <1>1, <1>2 DEF SupervisorInv, SupervisorTypeOK
<1>4. OneChild' /\ ChildHolds' /\ SignedByTheChild' /\ StartsCounted'
  BY <1>1 DEF SupervisorInv, OneChild, ChildHolds, Supervisor!Alive, SignedByTheChild, StartsCounted
<1>5. QED
  BY <1>2, <1>3, <1>4 DEF SupervisorInv

LEMMA PausesKeep ==
  ASSUME SupervisorInv, Supervisor!Schedule \/ Supervisor!Wake \/ Supervisor!ExhaustedStops
  PROVE  SupervisorInv' /\ \A z \in Zone : Spared(z)
<1>1. UNCHANGED <<halting, child, lock, other, starts, unstable>>
  BY DEF Supervisor!Schedule, Supervisor!Wake, Supervisor!ExhaustedStops
<1>2. \/ /\ supervising = "exited" /\ UNCHANGED <<failures, diagnostic>>
         /\ supervising' = IF halting THEN "stopped" ELSE IF failures = Delays THEN "exhausted" ELSE "waiting"
      \/ /\ supervising = "waiting" /\ supervising' = "starting" /\ UNCHANGED diagnostic
         /\ failures' = IF halting THEN failures ELSE failures + 1
      \/ /\ supervising = "exhausted" /\ supervising' = "stopped" /\ UNCHANGED failures
         /\ diagnostic' = FALSE
  BY DEF Supervisor!Schedule, Supervisor!Wake, Supervisor!ExhaustedStops
<1>3. SupervisorTypeOK'
  <2>1. failures' \in Nat
    BY <1>2 DEF SupervisorInv, SupervisorTypeOK
  <2>2. diagnostic' \in BOOLEAN
    BY <1>2 DEF SupervisorInv, SupervisorTypeOK
  <2>3. QED
    BY <1>1, <2>1, <2>2 DEF SupervisorInv, SupervisorTypeOK
<1>4. OneChild' /\ ChildHolds' /\ SignedByTheChild'
  BY <1>1, <1>2 DEF SupervisorInv, OneChild, ChildHolds, Supervisor!Alive, SignedByTheChild
<1>5. StartsCounted'
  BY <1>1, <1>2, SidecarAssumption DEF SupervisorInv, SupervisorTypeOK, StartsCounted
<1>6. QED
  BY <1>1, <1>3, <1>4, <1>5 DEF SupervisorInv, Spared

LEMMA HaltKeeps ==
  ASSUME SupervisorInv, Supervisor!Halt
  PROVE  SupervisorInv' /\ \A z \in Zone : Spared(z)
<1>1. /\ UNCHANGED <<supervising, failures, diagnostic, lock, other, starts, unstable>>
      /\ ~halting /\ halting' = TRUE
      /\ child' = IF supervising = "running" THEN [child EXCEPT !.told = TRUE] ELSE child
  BY DEF Supervisor!Halt
<1>2. CASE supervising # "running"
  <2>1. child' = child /\ UNCHANGED lock
    BY <1>1, <1>2
  <2>2. SupervisorTypeOK'
    BY <1>1, <2>1 DEF SupervisorInv, SupervisorTypeOK
  <2>3. OneChild' /\ ChildHolds' /\ SignedByTheChild' /\ StartsCounted'
    BY <1>1, <2>1 DEF SupervisorInv, OneChild, ChildHolds, Supervisor!Alive, SignedByTheChild, StartsCounted
  <2>4. QED
    BY <1>1, <2>2, <2>3 DEF SupervisorInv, Spared
<1>3. CASE supervising = "running"
  <2>1. child \in Children /\ child # None /\ child' = [child EXCEPT !.told = TRUE]
    BY <1>1, <1>3 DEF SupervisorInv, SupervisorTypeOK, OneChild
  <2>2. /\ child' \in Children /\ child' # None /\ child'.pid = child.pid /\ child'.at = child.at
        /\ child'.opened = child.opened /\ child'.taking = child.taking /\ child'.closing = child.closing
    BY <2>1, SidecarAssumption DEF Children
  <2>3. SupervisorTypeOK'
    BY <1>1, <2>2 DEF SupervisorInv, SupervisorTypeOK
  <2>4. OneChild'
    BY <1>1, <2>1, <2>2 DEF SupervisorInv, OneChild
  <2>5. ChildHolds'
    BY <1>1, <2>1, <2>2 DEF SupervisorInv, ChildHolds, Supervisor!Alive
  <2>6. SignedByTheChild'
    BY <1>1, <2>1, <2>2 DEF SupervisorInv, SignedByTheChild
  <2>7. StartsCounted'
    BY <1>1 DEF SupervisorInv, StartsCounted
  <2>8. QED
    BY <1>1, <2>3, <2>4, <2>5, <2>6, <2>7 DEF SupervisorInv, Spared
<1>4. QED
  BY <1>2, <1>3

(* The other process takes what is free and leaves what is its own.          *)
LEMMA OtherTakesKeeps ==
  ASSUME SupervisorInv, NEW y \in Zone, Supervisor!OtherTakes(y)
  PROVE  SupervisorInv' /\ \A z \in Zone : Spared(z)
<1>1. /\ UNCHANGED <<child, supervising, failures, halting, diagnostic, starts, unstable>>
      /\ lock[y] = None
  BY DEF Supervisor!OtherTakes, Supervisor!supervisor
<1>2. PICK p \in Pid : /\ child # None => p # child.pid \/ Separate
                       /\ other' = p
                       /\ lock' = [lock EXCEPT ![y] = [says |-> p, owner |-> 0]]
  BY SidecarAssumption DEF Supervisor!OtherTakes
<1>3. /\ lock' \in [Zone -> Locks \union {None}]
      /\ lock'[y] = [says |-> p, owner |-> 0] /\ \A z \in Zone \ {y} : lock'[z] = lock[z]
  BY <1>2 DEF SupervisorInv, SupervisorTypeOK, Locks
<1>4. lock'[y].owner = 0 /\ lock'[y] # None
  BY <1>3, SidecarAssumption DEF Locks
<1>5. SupervisorTypeOK'
  BY <1>1, <1>2, <1>3 DEF SupervisorInv, SupervisorTypeOK
<1>6. OneChild'
  BY <1>1, <1>2 DEF SupervisorInv, OneChild
<1>7. ChildHolds'
  BY <1>1, <1>3, <1>4 DEF SupervisorInv, SupervisorTypeOK, Children, ChildHolds, Supervisor!Alive
<1>8. SignedByTheChild' /\ StartsCounted'
  BY <1>1, <1>3, <1>4 DEF SupervisorInv, SignedByTheChild, StartsCounted
<1>9. QED
  BY <1>1, <1>3, <1>5, <1>6, <1>7, <1>8 DEF SupervisorInv, Spared

LEMMA OtherLeavesKeeps ==
  ASSUME SupervisorInv, NEW y \in Zone, Supervisor!OtherLeaves(y)
  PROVE  SupervisorInv' /\ \A z \in Zone \ {y} : Spared(z)
<1>1. /\ UNCHANGED <<other, child, supervising, failures, halting, diagnostic, starts, unstable>>
      /\ lock[y] # None /\ lock[y] = [says |-> other, owner |-> 0]
      /\ lock' = [z \in Zone |-> IF z = y THEN None ELSE lock[z]]
  BY DEF Supervisor!OtherLeaves, Supervisor!supervisor, Supervisor!Without
<1>2. lock[y].owner = 0
  BY <1>1
<1>3. SupervisorTypeOK'
  BY <1>1 DEF SupervisorInv, SupervisorTypeOK
<1>4. OneChild' /\ StartsCounted' /\ SignedByTheChild'
  BY <1>1 DEF SupervisorInv, OneChild, StartsCounted, SignedByTheChild
<1>5. ChildHolds'
  BY <1>1, <1>2 DEF SupervisorInv, SupervisorTypeOK, Children, ChildHolds, Supervisor!Alive
<1>6. QED
  BY <1>1, <1>3, <1>4, <1>5 DEF SupervisorInv, Spared

LEMMA OtherDiesKeeps ==
  ASSUME SupervisorInv, Supervisor!OtherDies
  PROVE  SupervisorInv' /\ \A z \in Zone : Spared(z)
<1>1. /\ UNCHANGED <<lock, child, supervising, failures, halting, diagnostic, starts, unstable>>
      /\ other' = None
  BY DEF Supervisor!OtherDies, Supervisor!supervisor
<1>2. SupervisorTypeOK'
  BY <1>1 DEF SupervisorInv, SupervisorTypeOK
<1>3. OneChild'
  BY <1>1, SidecarAssumption DEF SupervisorInv, SupervisorTypeOK, Children, OneChild
<1>4. ChildHolds' /\ SignedByTheChild' /\ StartsCounted'
  BY <1>1 DEF SupervisorInv, ChildHolds, Supervisor!Alive, SignedByTheChild, StartsCounted
<1>5. QED
  BY <1>1, <1>2, <1>3, <1>4 DEF SupervisorInv, Spared

(* A step of the supervision keeps its invariant, and the others' locks.     *)
LEMMA SupervisorSteps ==
  ASSUME SupervisorInv, Supervisor!Next
  PROVE  SupervisorInv' /\ \A z \in Zone : Spared(z) \/ Supervisor!OtherLeaves(z)
<1>1. CASE Supervisor!ChildStep
  <2>1. CASE Supervisor!Checks \/ Supervisor!Probe \/ Supervisor!Dies \/ Supervisor!Steady
    <3>1. Supervisor!Alive
      BY <2>1 DEF Supervisor!Checks, Supervisor!Probe, Supervisor!Dies, Supervisor!Steady
    <3>2. QED
      BY <2>1, <3>1, ChildGoesOn
  <2>2. CASE Supervisor!Listen
    BY <2>2, ListenKeeps
  <2>3. CASE Supervisor!Terminated
    BY <2>3, TerminatedKeeps
  <2>4. CASE Supervisor!Closed
    BY <2>4, ClosedKeeps
  <2>5. ASSUME NEW y \in Zone, Supervisor!TakeLock(y) \/ Supervisor!WriteLock(y) \/ Supervisor!OpenZone(y)
        PROVE  SupervisorInv' /\ \A z \in Zone : Spared(z)
    BY <2>5, TakeLockKeeps, WriteLockKeeps, OpenZoneKeeps
  <2>6. QED
    BY <1>1, <2>1, <2>2, <2>3, <2>4, <2>5 DEF Supervisor!ChildStep
<1>2. CASE Supervisor!SupervisorStep
  BY <1>2, BeforeStartKeeps, SpawnKeeps, ReplenishKeeps, AfterExitKeeps, AfterExitFailsKeeps, PausesKeep
     DEF Supervisor!SupervisorStep
<1>3. CASE Supervisor!Halt
  BY <1>3, HaltKeeps
<1>4. CASE Supervisor!OtherDies
  BY <1>4, OtherDiesKeeps
<1>5. ASSUME NEW y \in Zone, Supervisor!OtherTakes(y) \/ Supervisor!OtherLeaves(y)
      PROVE  SupervisorInv' /\ \A z \in Zone : Spared(z) \/ Supervisor!OtherLeaves(z)
  BY <1>5, OtherTakesKeeps, OtherLeavesKeeps
<1>6. QED
  BY <1>1, <1>2, <1>3, <1>4, <1>5 DEF Supervisor!Next

------------------------------------------------------------------------------
(* The extraction of filings.                                                *)

(* What a step of the extraction does to the landing database.               *)
Establishes ==
  /\ group \subseteq group'
  /\ \A old \in group, c \in group' \ group : c.name # old.name
  /\ recorded # None => recorded' = recorded
  /\ <<group, recorded>>' # <<group, recorded>> => landed = {} /\ landed' # {}
  /\ landed' \notin {landed, {}} => landed = {} /\ reading.pass = "rows"

(* A reading that goes on keeps its pass.                                    *)
LEMMA PassStays ==
  ASSUME ExtractionInv, Extraction!ReadOne \/ Extraction!Insert
  PROVE  ExtractionInv' /\ Establishes
<1>1. /\ UNCHANGED <<strategy, landed, group, recorded>> /\ reading # None
      /\ \/ reading' = Extraction!Advanced
         \/ \E h : reading' = [Extraction!Advanced EXCEPT !.headers = h]
         \/ \E t : reading' = [Extraction!Advanced EXCEPT !.types = t, !.count = @ + 1]
  BY DEF Extraction!ReadOne, Extraction!Insert, Extraction!database, Extraction!HeaderRead, Extraction!DataRead,
         Extraction!Inspecting, Extraction!Rowing, Extraction!Running
<1>2. "pass" \in DOMAIN Extraction!Advanced /\ Extraction!Advanced.pass = reading.pass
  BY <1>1 DEF ExtractionInv, Extraction!Advanced
<1>3. "pass" \in DOMAIN reading' /\ reading'.pass = reading.pass
  BY <1>1, <1>2
<1>4. QED
  BY <1>1, <1>3 DEF ExtractionInv, Establishes

LEMMA Opens ==
  ASSUME NEW pass, NEW merges, reading' = Extraction!Reading(pass, merges)
  PROVE  "pass" \in DOMAIN reading' /\ reading'.pass = pass
  BY DEF Extraction!Reading

LEMMA CommitKeeps ==
  ASSUME ExtractionInv, NEW lost \in BOOLEAN, Extraction!Commit(lost)
  PROVE  ExtractionInv' /\ Establishes
<1>1. /\ reading # None /\ reading.pass = "rows" /\ reading' = None
      /\ group' = group \union {c \in Range(filing.extraction) : Extraction!Established(c.name) = {}}
      /\ recorded' = strategy /\ landed' # {}
  BY DEF Extraction!Commit, Extraction!Rowing, Extraction!Running, Extraction!Written, Extraction!Added,
         Extraction!Range, Range
<1>2. landed = {} /\ recorded \in {None, strategy}
  BY <1>1 DEF ExtractionInv
<1>3. \A old \in group, c \in group' \ group : c.name # old.name
  BY <1>1 DEF Extraction!Established
<1>4. QED
  BY <1>1, <1>2, <1>3 DEF ExtractionInv, Establishes

(* Declarations change while nothing runs, and what is committed is dated    *)
(* under those of the moment.                                                *)
LEMMA DatesStay ==
  ASSUME DatedInv, Extraction!Next
  PROVE  DatedInv'
<1>1. CASE landed' \subseteq landed /\ declared' \in Declaration
  BY <1>1 DEF DatedInv
<1>2. CASE \/ \E s \in Later : Extraction!Deliver(s)
           \/ \E s \in Later : Extraction!Rewrite(s)
           \/ Extraction!Reconfigure
  BY <1>1, <1>2 DEF DatedInv, Extraction!Deliver, Extraction!Rewrite, Extraction!Reconfigure, Extraction!database
<1>3. CASE \/ Extraction!Inspect \/ Extraction!ReadOne \/ Extraction!Refused \/ Extraction!Inspected \/ Extraction!Begin
           \/ Extraction!Replay \/ Extraction!Again \/ Extraction!Insert \/ Extraction!Aborts \/ Extraction!Outage
  <2>1. UNCHANGED <<declared, landed>>
    BY <1>3 DEF Extraction!Inspect, Extraction!ReadOne, Extraction!Refused, Extraction!Inspected, Extraction!Begin,
                Extraction!Replay, Extraction!Again, Extraction!Insert, Extraction!Aborts, Extraction!Outage,
                Extraction!Opened, Extraction!Quarantines, Extraction!database
  <2>2. QED
    BY <2>1 DEF DatedInv
<1>4. ASSUME NEW lost \in BOOLEAN, Extraction!Commit(lost) PROVE DatedInv'
  <2>1. declared' = declared /\ \A left \in landed' : left.under = declared /\ left.asAt = Extraction!AsAt
    BY <1>4 DEF Extraction!Commit, Extraction!Written
  <2>2. QED
    BY <2>1 DEF DatedInv, Extraction!AsAt
<1>5. QED
  BY <1>2, <1>3, <1>4 DEF Extraction!Next

(* A month has the days MonthDays says, and no day more.                     *)
LEMMA LastDays ==
  ASSUME NEW y \in Nat, NEW m \in 1..12
  PROVE  /\ Extraction!MonthDays(y, m) \in 28..31
         /\ Extraction!dateValue(<<Extraction!MonthDays(y, m), m, y>>, "DMY") # None
         /\ Extraction!dateValue(<<Extraction!MonthDays(y, m) + 1, m, y>>, "DMY") = None
<1> DEFINE days == Extraction!MonthDays(y, m)
<1>1. days \in 28..31
  BY DEF Extraction!MonthDays
<1> HIDE DEF days
<1>2. <<y, m, days>> # None
  BY <1>1, SidecarAssumption
<1>3. Extraction!dateValue(<<days, m, y>>, "DMY") = IF days \in 1..days THEN <<y, m, days>> ELSE None
  BY DEF Extraction!dateValue, days
<1>4. Extraction!dateValue(<<days + 1, m, y>>, "DMY") = IF days + 1 \in 1..days THEN <<y, m, days + 1>> ELSE None
  BY DEF Extraction!dateValue, days
<1>5. days \in 1..days /\ days + 1 \notin 1..days
  BY <1>1
<1>6. QED
  BY <1>1, <1>2, <1>3, <1>4, <1>5 DEF days

LEMMA DatedByTheLastDay == DatedInv => Extraction!AsAtEndsItsPeriod
<1> SUFFICES ASSUME DatedInv, NEW left \in landed, left.under.form # "month_start"
             PROVE  /\ Extraction!dateValue(<<left.asAt[3], left.asAt[2], left.asAt[1]>>, "DMY") # None
                    /\ Extraction!dateValue(<<left.asAt[3] + 1, left.asAt[2], left.asAt[1]>>, "DMY") = None
  BY DEF Extraction!AsAtEndsItsPeriod
<1> DEFINE d == left.under
           y == d.period[1]
           m == IF d.form = "quarter_end" THEN 3 * d.period[2] ELSE d.period[2]
<1>1. y \in Nat /\ m \in 1..12
  <2>1. d \in Declaration
    BY DEF DatedInv
  <2>2. y \in Nat /\ d.period[2] \in (IF d.form = "quarter_end" THEN 1..4 ELSE 1..12)
    BY <2>1, SidecarAssumption
  <2>3. QED
    BY <2>2
<1>2. left.asAt = <<y, m, Extraction!MonthDays(y, m)>>
  BY DEF DatedInv, Extraction!periodAsAt
<1> HIDE DEF y, m
<1>3. left.asAt[1] = y /\ left.asAt[2] = m /\ left.asAt[3] = Extraction!MonthDays(y, m)
  BY <1>2
<1>4. /\ Extraction!dateValue(<<Extraction!MonthDays(y, m), m, y>>, "DMY") # None
      /\ Extraction!dateValue(<<Extraction!MonthDays(y, m) + 1, m, y>>, "DMY") = None
  BY <1>1, LastDays
<1>5. QED
  BY <1>3, <1>4

(* A step of the extraction keeps its invariant, and what is established.    *)
LEMMA ExtractionSteps ==
  ASSUME ExtractionInv, Extraction!Next
  PROVE  ExtractionInv' /\ Establishes
<1>1. CASE \E s \in Later : Extraction!Deliver(s)
  BY <1>1 DEF Extraction!Deliver, Extraction!Idle, ExtractionInv, Establishes
<1>2. CASE \E s \in Later : Extraction!Rewrite(s)
  BY <1>2 DEF Extraction!Rewrite, Extraction!database, ExtractionInv, Establishes
<1>3. CASE Extraction!Reconfigure
  BY <1>3 DEF Extraction!Reconfigure, Extraction!Idle, Extraction!database, ExtractionInv, Establishes
<1>4. CASE Extraction!Inspect
  BY <1>4, Opens DEF Extraction!Inspect, Extraction!Opened, Extraction!Quarantines, Extraction!database,
                     ExtractionInv, Establishes
<1>5. CASE Extraction!ReadOne \/ Extraction!Insert
  BY <1>5, PassStays
<1>6. CASE Extraction!Refused \/ Extraction!Aborts
  BY <1>6 DEF Extraction!Refused, Extraction!Aborts, Extraction!Quarantines, Extraction!database,
              ExtractionInv, Establishes
<1>7. CASE Extraction!Inspected \/ Extraction!Replay
  BY <1>7 DEF Extraction!Inspected, Extraction!Replay, Extraction!Idle, Extraction!database, ExtractionInv, Establishes
<1>8. CASE Extraction!Begin
  <2>1. landed = {} /\ UNCHANGED <<strategy, landed, group, recorded>>
    BY <1>8 DEF Extraction!Begin, Extraction!Opened, Extraction!Quarantines, Extraction!database
  <2>2. CASE ~Extraction!Unlandable /\ Extraction!Opened("again")
    <3>1. recorded \in {None, strategy}
      BY <2>2 DEF Extraction!Unlandable
    <3>2. QED
      BY <2>1, <2>2, <3>1, Opens DEF Extraction!Opened, ExtractionInv, Establishes
  <2>3. CASE Extraction!Quarantines
    BY <2>1, <2>3 DEF Extraction!Quarantines, ExtractionInv, Establishes
  <2>4. QED
    BY <1>8, <2>2, <2>3 DEF Extraction!Begin
<1>9. CASE Extraction!Again
  BY <1>9, Opens DEF Extraction!Again, Extraction!Running, Extraction!database, ExtractionInv, Establishes
<1>10. CASE \E lost \in BOOLEAN : Extraction!Commit(lost)
  BY <1>10, CommitKeeps
<1>11. CASE Extraction!Outage
  BY <1>11 DEF Extraction!Outage, Extraction!database, ExtractionInv, Establishes
<1>12. QED
  BY <1>1, <1>2, <1>3, <1>4, <1>5, <1>6, <1>7, <1>8, <1>9, <1>10, <1>11 DEF Extraction!Next

------------------------------------------------------------------------------
(* The composition: a step is one of a part, and the others keep their state. *)

LEMMA CallsSteps ==
  ASSUME CallsInv, Calls!Next
  PROVE  CallsInv'
<1>1. ASSUME NEW c \in Call,
             \/ Calls!Begin(c) \/ Calls!RefuseUnconsented(c) \/ Calls!Connected(c) \/ Calls!ConnectExpires(c)
             \/ Calls!ConnectFails(c) \/ Calls!Secured(c) \/ Calls!Lost(c) \/ Calls!Received(c) \/ Calls!GiveUp(c)
      PROVE  CallsInv'
  BY <1>1, BeginKeeps, RefuseUnconsentedKeeps, ConnectedKeeps, ConnectExpiresKeeps, ConnectFailsKeeps,
     SecuredKeeps, LostKeeps, ReceivedKeeps, GiveUpKeeps
<1>2. ASSUME NEW c \in Call,
             \/ Calls!NoticeClosed(c) \/ Calls!Handle(c) \/ Calls!ReadBody(c) \/ Calls!Invoke(c)
             \/ Calls!AskSource(c) \/ Calls!RecordEnded(c) \/ Calls!Answer(c)
      PROVE  CallsInv'
  BY <1>2, NoticeClosedKeeps, HandleKeeps, ReadBodyKeeps, InvokeKeeps, AskSourceKeeps, RecordEndedKeeps, AnswerKeeps
<1>3. ASSUME \/ Calls!ReplaceTrustedClient \/ Calls!Stop \/ Calls!StopEnds \/ Calls!Crash \/ Calls!Restart
      PROVE  CallsInv'
  BY <1>3, ReplaceTrustedClientKeeps, StopKeeps, StopEndsKeeps, CrashKeeps, RestartKeeps
<1>4. QED
  BY <1>1, <1>2, <1>3 DEF Calls!Next

(* Only a handler answers, on a connection that is open.                     *)
LEMMA AnsweredToTheTrusted ==
  ASSUME CallsInv, Calls!Next, NEW c \in Call, reply[c] = None, reply'[c] # None
  PROVE  app[c].as = pin
<1>1. CallsTypeOK /\ CallInv(c)
  BY DEF CallsInv
<1>2. SUFFICES socket[c] = "open" /\ handler[c].at # "none"
  BY <1>1 DEF CallInv, ConnectionHeld
<1>3. ~ UNCHANGED reply
  OBVIOUS
<1>4. ASSUME NEW d \in Call, Calls!Lost(d) \/ Calls!Received(d) \/ Calls!GiveUp(d) PROVE FALSE
  <2>1. reply' = [reply EXCEPT ![d] = None]
    BY <1>4 DEF Calls!Lost, Calls!Received, Calls!GiveUp
  <2>2. QED
    BY <1>1, <2>1 DEF CallsTypeOK
<1>5. PICK d \in Call : Calls!Handle(d) \/ Calls!ReadBody(d) \/ Calls!Answer(d)
  BY <1>3, <1>4
     DEF Calls!Next, Calls!Begin, Calls!RefuseUnconsented, Calls!Connected, Calls!ConnectExpires, Calls!ConnectFails,
         Calls!Secured, Calls!NoticeClosed, Calls!Invoke, Calls!AskSource, Calls!RecordEnded,
         Calls!ReplaceTrustedClient, Calls!Stop, Calls!StopEnds, Calls!Crash, Calls!Gone, Calls!Restart
<1>6. PICK sent : reply' = [reply EXCEPT ![d] = IF socket[d] = "open" THEN sent ELSE @]
  BY <1>3, <1>5 DEF Calls!Handle, Calls!ReadBody, Calls!Answer, Calls!Send
<1>7. d = c /\ socket[d] = "open"
  BY <1>1, <1>6 DEF CallsTypeOK
<1>8. handler[d].at # "none"
  BY <1>5 DEF Calls!Handle, Calls!ReadBody, Calls!Answer
<1>9. QED
  BY <1>7, <1>8

LEMMA PartsBegin == PartInit => PartInv
<1> SUFFICES ASSUME PartInit PROVE PartInv
  OBVIOUS
<1>1. CallsTypeOK
  <2>1. /\ app = [c \in Call |-> Calls!Idle] /\ handler = [c \in Call |-> Calls!NoHandler]
        /\ socket = [c \in Call |-> "none"] /\ reply = [c \in Call |-> None] /\ asked = [c \in Call |-> 0]
    BY DEF PartInit, Calls!Init
  <2>2. Calls!Idle \in Calling /\ Calls!NoHandler \in Handling
    BY DEF Calls!Idle, Calls!NoHandler, Calling, Handling, Calls!Operations, Results
  <2>3. QED
    BY <2>1, <2>2 DEF CallsTypeOK
<1>2. ASSUME NEW c \in Call PROVE CallInv(c)
  <2>1. /\ app[c].at = "idle" /\ app[c].result = None /\ handler[c].at = "none"
        /\ socket[c] = "none" /\ reply[c] = None /\ asked[c] = 0
    BY DEF PartInit, Calls!Init, Calls!Idle, Calls!NoHandler
  <2>2. QED
    BY <2>1, SidecarAssumption DEF CallInv, ConnectionHeld, ReachesOnce, RecordedFirst, Calls!Answers
<1>3. SupervisorInv
  <2>1. /\ supervising = "starting" /\ failures = 0 /\ halting = FALSE /\ child = None /\ diagnostic = FALSE
        /\ lock = [z \in Zone |-> None] /\ other = None /\ starts = 0 /\ unstable = 0
    BY DEF PartInit, Supervisor!Init
  <2>2. SupervisorTypeOK
    BY <2>1 DEF SupervisorTypeOK
  <2>3. OneChild /\ ChildHolds /\ SignedByTheChild
    BY <2>1 DEF OneChild, ChildHolds, Supervisor!Alive, SignedByTheChild
  <2>4. StartsCounted
    BY <2>1, SidecarAssumption DEF StartsCounted
  <2>5. QED
    BY <2>2, <2>3, <2>4 DEF SupervisorInv
<1>4. ExtractionInv /\ DatedInv
  BY DEF PartInit, Extraction!Init, ExtractionInv, DatedInv
<1>5. ScopesInv /\ StagesInv
  BY ScopesBegin, StagesBegin DEF PartInit
<1>6. QED
  BY <1>1, <1>2, <1>3, <1>4, <1>5 DEF PartInv, CallsInv

LEMMA PartSteps == PartInv /\ [PartNext]_all => PartInv'
<1> SUFFICES ASSUME PartInv, [PartNext]_all PROVE PartInv'
  OBVIOUS
<1>1. ScopesInv /\ StagesInv /\ CallsInv /\ SupervisorInv /\ ExtractionInv /\ DatedInv
  BY DEF PartInv
<1>2. Calls!Next \/ UNCHANGED ofCalls
  BY DEF PartNext, all
<1>3. Supervisor!Next \/ UNCHANGED ofSupervisor
  BY DEF PartNext, all
<1>4. Extraction!Next \/ UNCHANGED ofExtraction
  BY DEF PartNext, all
<1>5. CallsInv'
  <2>1. CASE Calls!Next
    BY <1>1, <2>1, CallsSteps
  <2>2. CASE UNCHANGED ofCalls
    BY <1>1, <2>2 DEF ofCalls, CallsInv, CallsTypeOK, CallInv, ConnectionHeld, ReachesOnce, RecordedFirst
  <2>3. QED
    BY <1>2, <2>1, <2>2
<1>6. SupervisorInv'
  <2>1. CASE Supervisor!Next
    BY <1>1, <2>1, SupervisorSteps
  <2>2. CASE UNCHANGED ofSupervisor
    BY <1>1, <2>2 DEF ofSupervisor, SupervisorInv, SupervisorTypeOK, OneChild, ChildHolds, Supervisor!Alive,
                      SignedByTheChild, StartsCounted
  <2>3. QED
    BY <1>3, <2>1, <2>2
<1>7. ExtractionInv' /\ DatedInv'
  <2>1. CASE Extraction!Next
    BY <1>1, <2>1, ExtractionSteps, DatesStay
  <2>2. CASE UNCHANGED ofExtraction
    BY <1>1, <2>2 DEF ofExtraction, ExtractionInv, DatedInv
  <2>3. QED
    BY <1>4, <2>1, <2>2
<1>8. ScopesInv'
  <2>1. Scopes!Next \/ UNCHANGED ofScopes
    BY DEF PartNext, all
  <2>2. CASE UNCHANGED ofScopes
    BY <1>1, <2>2 DEF ofScopes, ScopesInv, ScopesTypeOK, ScopeInv, Lent
  <2>3. QED
    BY <1>1, <2>1, <2>2, ScopesSteps
<1>9. StagesInv'
  <2>1. Stages!Next \/ UNCHANGED ofStages
    BY DEF PartNext, all
  <2>2. CASE UNCHANGED ofStages
    BY <1>1, <2>2 DEF ofStages, StagesInv, StagesTypeOK, StagesPlaced, StagesUsed, Asked, StagesWhole,
                      NoneStaged, AllWhole, Whole, Stages!Aborted, Stages!Capped, Stages!Here
  <2>3. QED
    BY <1>1, <2>1, <2>2, StagesSteps
<1>10. QED
  BY <1>5, <1>6, <1>7, <1>8, <1>9 DEF PartInv

(* However operations are interrupted, aborted, retried, stopped or lost, a  *)
(* source has no more connections than its ceiling and is asked nothing for   *)
(* what has expired; rows are answered over whole objects only, and every     *)
(* answer names what was used; no sample is taken from a source, or held by   *)
(* the application, that the synced file does not record; one call asks its   *)
(* source at most once; what an engine's children locked is reclaimed and     *)
(* they are restarted no more than allowed; and landed rows are dated by the  *)
(* last day of their period (postgres-source-scope.ts, execute.ts,            *)
(* postgres-connector.ts, server.ts, engine-transport.ts, supervise.ts,       *)
(* supervision.ts, domain/landing.ts).                                        *)
THEOREM TheEngineKeepsItsWord == PartSpec => []EngineKeepsItsWord
<1>1. PartInv => EngineKeepsItsWord
  <2> SUFFICES ASSUME PartInv PROVE EngineKeepsItsWord
    OBVIOUS
  <2>1. Calls!SamplesAreAudited
    BY DEF PartInv, CallsInv, CallInv, RecordedFirst, Calls!SamplesAreAudited
  <2>2. Calls!AskedOnce
    <3>1. \A c \in Call : asked[c] \in Nat /\ (asked[c] > 0 => asked[c] = 1)
      BY DEF PartInv, CallsInv, CallsTypeOK, CallInv, ReachesOnce
    <3>2. QED
      BY <3>1 DEF Calls!AskedOnce
  <2>3. Supervisor!NothingLeftLocked
    BY DEF PartInv, SupervisorInv, OneChild, SignedByTheChild, Supervisor!NothingLeftLocked, Supervisor!Empty
  <2>4. Supervisor!RestartsAreBounded
    <3>1. unstable <= Delays + 1
      BY SidecarAssumption DEF PartInv, SupervisorInv, SupervisorTypeOK, StartsCounted
    <3>2. Supervisor!Alive => ~diagnostic
      BY DEF PartInv, SupervisorInv, OneChild, Supervisor!Alive
    <3>3. QED
      BY <3>1, <3>2 DEF Supervisor!RestartsAreBounded
  <2>5. QED
    BY <2>1, <2>2, <2>3, <2>4, ScopesKept, StagesKept, DatedByTheLastDay DEF PartInv, EngineKeepsItsWord
<1>2. QED
  BY <1>1, PartsBegin, PartSteps, PTL DEF PartSpec

(* No step answers a certificate that is trusted no more, takes the lock of  *)
(* a living process that holds it, or changes what an earlier filing         *)
(* established in the landing database (server.ts, supervision.ts,           *)
(* postgres-landing.ts).  Other processes may number theirs on their own:    *)
(* then a lock that says the number of the child being reaped does go.       *)
THEOREM NothingOfOthersIsTouched == PartSpec => OthersAreLeftAlone
<1>1. ASSUME PartInv, [PartNext]_all
      PROVE  [\A c \in Call : reply[c] = None /\ reply'[c] # None => app[c].as = pin]_Calls!vars
  <2>1. Calls!Next \/ UNCHANGED Calls!vars
    BY <1>1 DEF PartNext, all, ofCalls, Calls!vars
  <2>2. QED
    BY <1>1, <2>1, AnsweredToTheTrusted DEF PartInv
<1>2. ASSUME PartInv, [PartNext]_all
      PROVE  [\A z \in Zone :
                lock[z] # None /\ other # None /\ lock[z] = [says |-> other, owner |-> 0] /\ lock'[z] # lock[z]
                => Supervisor!OtherLeaves(z) \/ Supervisor!NumbersMeet]_Supervisor!vars
  <2>1. Supervisor!Next \/ UNCHANGED Supervisor!vars
    BY <1>2 DEF PartNext, all, ofSupervisor, Supervisor!vars
  <2>2. Supervisor!Next => \A z \in Zone : Spared(z) \/ Supervisor!OtherLeaves(z)
    BY <1>2, SupervisorSteps DEF PartInv
  <2>3. QED
    BY <2>1, <2>2 DEF Spared
<1>3. ASSUME PartInv, [PartNext]_all
      PROVE  [Establishes]_Extraction!vars
  <2>1. Extraction!Next \/ UNCHANGED Extraction!vars
    BY <1>3 DEF PartNext, all, ofExtraction, Extraction!vars, Extraction!database
  <2>2. QED
    BY <1>3, <2>1, ExtractionSteps DEF PartInv
<1>4. PartSpec => Calls!AnswersGoToTheTrusted
  BY <1>1, PartsBegin, PartSteps, PTL DEF PartSpec, Calls!AnswersGoToTheTrusted
<1>5. PartSpec => Supervisor!LocksOfOthersStay
  BY <1>2, PartsBegin, PartSteps, PTL DEF PartSpec, Supervisor!LocksOfOthersStay
<1>6. PartSpec => Extraction!EstablishedStays
  BY <1>3, PartsBegin, PartSteps, PTL DEF PartSpec, Extraction!EstablishedStays, Establishes
<1>7. QED
  BY <1>4, <1>5, <1>6, PTL DEF OthersAreLeftAlone
==============================================================================
