------------------------------ MODULE MCPlatform ------------------------------
(* The gateway's modules that promise something in the end.  They share no  *)
(* state: a behaviour is one of one part, chosen as it begins, while the    *)
(* variables of the others keep their first value.                          *)
EXTENDS Integers, FiniteSets, Sequences, SequenceTheorems, TLAPS

CONSTANTS
  Grant, Alias, Legacy, GraceEnds, Ttl, ReleaseTime, SigningKeys, MaxSwitches,
  Absent, Query, MaxVersions, RegistryChanges, Published, MaxOpens,
  MaxPending, HighWater, Session, Credential, SessionChanges, Request, Job

(* A grant lives for some time, keys are counted up to a bound, and the     *)
(* socket has a mark at which it is full.                                   *)
ASSUME PlatformAssumption == Ttl \in Nat /\ SigningKeys \in Nat /\ HighWater \in Nat

VARIABLES
  part,
  release_time, provider, signing_key, until, grant_row, escrow, sealing,
  claims, credential, retired, left, redeeming,
  reuse, registration, engine_state, observed, tracked, probe, query, checked,
  registry_changes,
  published, hub, channel, pending, sampled, sequence, response, aborted,
  socket, seen, opens,
  session_key, modes, session_changes, open, owner, principal, announced,
  batch, handled_request,
  phase, step, world, timer, ticks, served, early, late_stream

Releases == INSTANCE ReleaseCustody WITH
  MaxKeys <- SigningKeys, MaxTime <- ReleaseTime, row <- grant_row, now <-
  release_time, key <- signing_key
Registry == INSTANCE EngineRegistry WITH
  None <- Absent, MaxChanges <- RegistryChanges, changes <- registry_changes,
  seen <- observed, engine <- engine_state, row <- registration
Stream == INSTANCE ProjectStream WITH MaxChanges <- Published
Sessions == INSTANCE McpSessions WITH
  MaxChanges <- SessionChanges, changes <- session_changes, key <-
  session_key, handling <- handled_request
Process == INSTANCE GatewayLife WITH job <- timer, request <- served, late <- late_stream

ofReleases ==
  <<release_time, provider, signing_key, until, grant_row, escrow, sealing, claims,
    credential, retired, left, redeeming>>
ofRegistry ==
  <<reuse, registration, engine_state, observed, tracked, probe, query, checked,
    registry_changes>>
ofStream ==
  <<published, hub, channel, pending, sampled, sequence, response, aborted, socket, seen,
    opens>>
ofSessions ==
  <<session_key, modes, session_changes, open, owner, principal, announced, batch,
    handled_request>>
ofProcess == <<phase, step, world, timer, ticks, served, early, late_stream>>
vars == <<part, ofReleases, ofRegistry, ofStream, ofSessions, ofProcess>>

Init ==
  /\ part \in {"release", "registry", "stream", "session", "process"}
  /\ Releases!Init
  /\ Registry!Init
  /\ part # "registry" => reuse = TRUE /\ engine_state = "down"
  /\ Stream!Init
  /\ Sessions!Init
  /\ part # "session" => owner = [s \in Session |-> CHOOSE c \in Credential : TRUE]
  /\ Process!Init
  /\ part # "process" => world = {}

Next ==
  \/ part = "release" /\ Releases!Next
     /\ UNCHANGED <<part, ofRegistry, ofStream, ofSessions, ofProcess>>
  \/ part = "registry" /\ Registry!Next
     /\ UNCHANGED <<part, ofReleases, ofStream, ofSessions, ofProcess>>
  \/ part = "stream" /\ Stream!Next
     /\ UNCHANGED <<part, ofReleases, ofRegistry, ofSessions, ofProcess>>
  \/ part = "session" /\ Sessions!Next
     /\ UNCHANGED <<part, ofReleases, ofRegistry, ofStream, ofProcess>>
  \/ part = "process" /\ Process!Next
     /\ UNCHANGED <<part, ofReleases, ofRegistry, ofStream, ofSessions>>

(* What the modules assume of their own steps.  *)
Fairness ==
  /\ WF_ofReleases(part = "release" /\ Releases!Tick)
  /\ \A g \in Grant : SF_ofReleases(part = "release" /\ Releases!Sweep(g, TRUE))
  /\ \A v \in Registry!Version, kind \in Registry!Kinds : WF_ofRegistry(part = "registry" /\ Registry!ProbeStep(v, kind))
  /\ \A q \in Query : WF_ofRegistry(part = "registry" /\ Registry!QueryStep(q))
  /\ \A v \in Registry!Version : WF_ofRegistry(part = "registry" /\ Registry!Refresh(v))
  /\ WF_ofStream(part = "stream" /\ Stream!Listen)
  /\ WF_ofStream(part = "stream" /\ Stream!ReadSequence)
  /\ WF_ofStream(part = "stream" /\ Stream!Ready)
  /\ WF_ofStream(part = "stream" /\ Stream!Deliver)
  /\ WF_ofStream(part = "stream" /\ Stream!Read)
  /\ WF_ofSessions(part = "session" /\ Sessions!BeginBatch)
  /\ WF_ofSessions(part = "session" /\ Sessions!ReadBatch)
  /\ \A s \in Session : WF_ofSessions(part = "session" /\ Sessions!Apply(s))
  /\ WF_ofProcess(part = "process" /\ Process!Exit)
  /\ WF_ofProcess(part = "process" /\ Process!Advance)
  /\ WF_ofProcess(part = "process" /\ Process!GiveUp)
  /\ \A q \in Request : WF_ofProcess(part = "process" /\ Process!Answer(q))
  /\ \A j \in Job : WF_ofProcess(part = "process" /\ Process!Settle(j))
  /\ \A j \in Job : WF_ofProcess(part = "process" /\ Process!Tick(j))

Spec == Init /\ [][Next]_vars /\ Fairness

------------------------------------------------------------------------------
(* A stream has no gap, a live grant verifies, an agent's session stays its  *)
(* credential's and follows its pool's modes, and the process starts in      *)
(* order (ProjectStream, ReleaseCustody, McpSessions, GatewayLife).          *)
NoGap ==
  /\ Stream!NoGap /\ Releases!LiveGrantsVerify
  /\ Sessions!SessionsKeepTheirOwner /\ Sessions!QueriesFollowTheModes
  /\ Process!StartedInOrder /\ Process!OneRunAtATime

(* No step lets a share leave twice or for a grant that is not live, or      *)
(* dispatches a query on an observation that is not current, or closes a     *)
(* good session (ReleaseCustody, EngineRegistry, McpSessions).               *)
SharesLeaveOnce == Releases!ShareLeavesOnce /\ Registry!DispatchedIsCurrent /\ Sessions!GoodSessionsSurvive

(* An engine that is well is found so in the end (EngineRegistry). *)
HealsByItself == Registry!HealsByItself

(* A change reaches every open stream and every agent's session or ends it,  *)
(* and no escrow outlives its grant for ever (ProjectStream, McpSessions,    *)
(* ReleaseCustody).                                                          *)
EveryChangeIsTold == Stream!EveryChangeIsTold /\ Sessions!SessionsFollowTheirPool /\ Releases!EscrowsEnd

(* A process told to stop ends (GatewayLife). *)
ShutdownCompletes == Process!ShutdownCompletes

------------------------------------------------------------------------------
(* Proofs.  Each part has an invariant of its own; a step of the            *)
(* composition is a step of one part and leaves the others alone.           *)

(* The process.  *)
ProcessInv ==
  /\ ~early
  /\ step \in Nat /\ step <= 9
  /\ timer \in [Job -> {"off", "idle", "running"}] /\ ticks \in [Job -> {0, 1}]
  /\ \A j \in Job : timer[j] # "running" => ticks[j] = 0
  /\ step <= 4 => \A j \in Job : timer[j] = "off"

LEMMA StepsInOrder ==
  /\ Len(Process!StartOrder) = 9
  /\ \A i \in 1..9 : Process!StartOrder[i] = "readiness" => i = 5
  /\ \A i \in 1..9 : Process!StartOrder[i] = "listen" => i = 9
  /\ \A name \in Process!Gates : \E i \in 1..9 : Process!StartOrder[i] = name
  BY DEF Process!StartOrder, Process!Steps, Process!Gates

LEMMA ProcessInitially == Process!Init => ProcessInv
  BY DEF Process!Init, ProcessInv

LEMMA ProcessStep ==
  ASSUME ProcessInv, Process!Next PROVE ProcessInv'
<1> USE DEF ProcessInv
<1>1. CASE Process!Advance
  BY <1>1, StepsInOrder DEF Process!Advance, Process!StartTimers
<1>2. CASE Process!GiveUp \/ Process!Depend \/ Process!Close \/ Process!Exit
  BY <1>2 DEF Process!GiveUp, Process!Depend, Process!Close, Process!Exit
<1>3. ASSUME NEW q \in Request, Process!Accept(q) PROVE ProcessInv'
  <2>1. PICK i \in 1..step : Process!StartOrder[i] = "listen"
    BY <1>3 DEF Process!Accept, Process!Passed
  <2>2. step = 9
    BY <2>1, StepsInOrder
  <2>3. Process!Gates \subseteq Process!Passed
    BY <2>2, StepsInOrder DEF Process!Passed
  <2>4. QED
    BY <1>3, <2>3 DEF Process!Accept
<1>4. ASSUME NEW q \in Request, Process!Answer(q) \/ Process!OpenStream(q) \/ Process!LeaveStream(q) PROVE ProcessInv'
  BY <1>4 DEF Process!Answer, Process!OpenStream, Process!LeaveStream
<1>5. ASSUME NEW j \in Job, Process!Tick(j) PROVE ProcessInv'
  BY <1>5 DEF Process!Tick
<1>6. ASSUME NEW j \in Job, Process!Settle(j) PROVE ProcessInv'
  BY <1>6 DEF Process!Settle
<1>7. QED
  BY <1>1, <1>2, <1>3, <1>4, <1>5, <1>6 DEF Process!Next

LEMMA ProcessAside == ProcessInv /\ UNCHANGED ofProcess => ProcessInv'
  BY DEF ofProcess, ProcessInv

LEMMA ProcessPromises == ProcessInv => Process!StartedInOrder /\ Process!OneRunAtATime
  BY DEF ProcessInv, Process!StartedInOrder, Process!OneRunAtATime

------------------------------------------------------------------------------
(* The agents' sessions.  *)
Caller == [of : Credential \cup {"nobody"}, version : Nat, modes : BOOLEAN, fresh : {0, 1}]
Read == UNION {[D -> Caller] : D \in SUBSET Session}

SessionShape ==
  /\ session_key \in [Credential -> Nat] /\ modes \in BOOLEAN
  /\ open \subseteq Session /\ owner \in [Session -> Credential]
  /\ principal \in [Session -> Caller] /\ announced \in [Session -> BOOLEAN]
  /\ batch \in [at : {"idle", "reading", "read"}, of : Read, valid : SUBSET Session, modes : BOOLEAN]
  /\ handled_request \in [at : {"free", "handling", "inside", "query"}, session : Session \cup {"none"},
                          who : Caller, since : SUBSET BOOLEAN]

(* A key only grows, until it is revoked for good.  *)
Given(who) ==
  /\ who.of \in Credential /\ who.version # 0
  /\ session_key[who.of] = 0 \/ who.version <= session_key[who.of]

SessionsInv ==
  /\ SessionShape
  /\ \A s \in open : principal[s].of = owner[s] /\ Given(principal[s])
  /\ handled_request.at = "handling" =>
       /\ handled_request.session \in Session /\ Given(handled_request.who)
       /\ handled_request.who.of = owner[handled_request.session]
  /\ handled_request.at # "free" => handled_request.who.modes \in handled_request.since
  /\ handled_request.at = "query" => handled_request.who.modes
  /\ \A s \in DOMAIN batch.of :
       /\ Given(batch.of[s])
       /\ batch.at = "read" /\ s \notin batch.valid => session_key[batch.of[s].of] # batch.of[s].version

LEMMA SessionsInitially == Sessions!Init => SessionsInv
<1> SUFFICES ASSUME Sessions!Init PROVE SessionsInv
  OBVIOUS
<1>1. Sessions!None \in Caller
  BY DEF Sessions!None, Caller
<1>2. Sessions!Idle.of \in [{} -> Caller] /\ DOMAIN Sessions!Idle.of = {}
  BY <1>1 DEF Sessions!Idle
<1>3. Sessions!Idle.of \in Read
  BY <1>2 DEF Read
<1>4. Sessions!Idle \in [at : {"idle", "reading", "read"}, of : Read, valid : SUBSET Session, modes : BOOLEAN]
  BY <1>3 DEF Sessions!Idle
<1>5. QED
  BY <1>1, <1>2, <1>4 DEF Sessions!Init, Sessions!Free, SessionsInv, SessionShape

LEMMA ChangeKeeps == ASSUME SessionsInv, Sessions!Change PROVE SessionsInv'
<1>1. SessionShape /\ SessionShape'
  <2>1. handled_request' \in [at : {"free", "handling", "inside", "query"}, session : Session \cup {"none"},
                             who : Caller, since : SUBSET BOOLEAN]
    <3>1. Sessions!None \in Caller
      BY DEF Sessions!None, Caller
    <3>2. modes' \in BOOLEAN
      BY DEF Sessions!Change, SessionsInv, SessionShape
    <3>3. QED
      BY <3>1, <3>2 DEF Sessions!Change, Sessions!Free, SessionsInv, SessionShape
  <2>2. session_key' \in [Credential -> Nat] /\ modes' \in BOOLEAN
    <3>1. session_key \in [Credential -> Nat] /\ modes \in BOOLEAN
      BY DEF SessionsInv, SessionShape
    <3>2. CASE modes' = ~modes /\ UNCHANGED session_key
      BY <3>1, <3>2
    <3>3. ASSUME NEW c \in Credential, NEW v \in {0, session_key[c] + 1},
                 session_key' = [session_key EXCEPT ![c] = v], UNCHANGED modes
          PROVE  session_key' \in [Credential -> Nat] /\ modes' \in BOOLEAN
      BY <3>1, <3>3
    <3>4. QED
      BY <3>2, <3>3 DEF Sessions!Change
  <2>3. SessionShape
    BY DEF SessionsInv
  <2>4. UNCHANGED <<open, owner, principal, announced, batch>>
    BY DEF Sessions!Change
  <2>5. QED
    BY <2>1, <2>2, <2>3, <2>4 DEF SessionShape
<1>2. \A who \in Caller : Given(who) => Given(who)'
  BY <1>1 DEF Sessions!Change, SessionShape, Caller, Given
<1>3. \A who \in Caller : Given(who) /\ session_key[who.of] # who.version => session_key'[who.of] # who.version
  BY <1>1 DEF Sessions!Change, SessionShape, Caller, Given
<1>4. /\ handled_request'.at = handled_request.at
      /\ handled_request.at # "free" =>
           /\ handled_request'.session = handled_request.session /\ handled_request'.who = handled_request.who
           /\ handled_request.since \subseteq handled_request'.since
  BY <1>1 DEF Sessions!Change, Sessions!Free, SessionShape
<1>5. \A s \in open : principal[s] \in Caller
  BY <1>1 DEF SessionShape
<1>6. handled_request.who \in Caller
  BY <1>1 DEF SessionShape
<1>7. \A s \in DOMAIN batch.of : batch.of[s] \in Caller
  BY <1>1 DEF SessionShape, Read
<1>8. UNCHANGED <<open, owner, principal, announced, batch>>
  BY DEF Sessions!Change
<1>9. QED
  BY <1>1, <1>2, <1>3, <1>4, <1>5, <1>6, <1>7, <1>8 DEF SessionsInv

LEMMA AuthenticateKeeps ==
  ASSUME SessionsInv, NEW s \in Session, NEW c \in Credential, Sessions!Authenticate(s, c) PROVE SessionsInv'
<1>1. PICK who \in Caller : who = [of |-> c, version |-> session_key[c], modes |-> modes, fresh |-> 1 - principal[s].fresh]
  <2>1. session_key[c] \in Nat /\ modes \in BOOLEAN /\ principal[s] \in Caller
    BY DEF SessionsInv, SessionShape
  <2>2. 1 - principal[s].fresh \in {0, 1}
    BY <2>1 DEF Caller
  <2>3. QED
    BY <2>1, <2>2 DEF Caller
<1>2. handled_request' = [at |-> "handling", session |-> s, who |-> who, since |-> {modes}]
  BY <1>1 DEF Sessions!Authenticate
<1>3. SessionShape'
  BY <1>2 DEF Sessions!Authenticate, SessionsInv, SessionShape
<1>4. owner[s] = c
  BY DEF Sessions!Authenticate, SessionsInv
<1>5. Given(who)'
  BY <1>1 DEF Sessions!Authenticate, SessionsInv, SessionShape, Given
<1>6. UNCHANGED <<session_key, open, owner, principal, batch>>
  BY DEF Sessions!Authenticate
<1>7. QED
  BY <1>1, <1>2, <1>3, <1>4, <1>5, <1>6 DEF SessionsInv, Given

LEMMA HandleKeeps == ASSUME SessionsInv, Sessions!Handle PROVE SessionsInv'
<1> DEFINE s == handled_request.session who == handled_request.who
<1>1. /\ s \in Session /\ who \in Caller /\ Given(who) /\ who.of = owner[s]
      /\ handled_request.at = "handling" /\ UNCHANGED <<session_key, modes, owner, batch>>
  BY DEF Sessions!Handle, SessionsInv, SessionShape
<1>2. CASE session_key[who.of] = who.version
  <2>1. /\ handled_request' = [handled_request EXCEPT !.at = "inside"] /\ open' = open \cup {s}
        /\ principal' = [principal EXCEPT ![s] = who]
        /\ announced' = [announced EXCEPT ![s] = IF s \in open THEN @ ELSE who.modes]
    BY <1>2 DEF Sessions!Handle
  <2>2. SessionShape'
    BY <1>1, <2>1 DEF SessionsInv, SessionShape, Caller
  <2>3. QED
    BY <1>1, <2>1, <2>2 DEF SessionsInv, SessionShape, Given
<1>3. CASE session_key[who.of] # who.version
  <2>1. handled_request' = Sessions!Free /\ UNCHANGED <<open, principal, announced>>
    BY <1>3 DEF Sessions!Handle
  <2>2. Sessions!None \in Caller
    BY DEF Sessions!None, Caller
  <2>3. SessionShape'
    BY <1>1, <2>1, <2>2 DEF SessionsInv, SessionShape, Sessions!Free
  <2>4. handled_request'.at = "free"
    BY <2>1 DEF Sessions!Free
  <2>5. QED
    BY <1>1, <2>1, <2>3, <2>4 DEF SessionsInv, Given
<1>4. QED
  BY <1>2, <1>3

LEMMA AnswerKeeps == ASSUME SessionsInv, Sessions!Answered \/ Sessions!Replied PROVE SessionsInv'
<1>1. Sessions!None \in Caller
  BY DEF Sessions!None, Caller
<1>2. UNCHANGED <<session_key, modes, open, owner, principal, announced, batch>>
  BY DEF Sessions!Answered, Sessions!Replied
<1>3. \/ handled_request' = Sessions!Free
      \/ handled_request.at = "inside" /\ handled_request.who.modes /\ handled_request' = [handled_request EXCEPT !.at = "query"]
  BY DEF Sessions!Answered, Sessions!Replied, Sessions!Listed
<1>4. SessionShape'
  BY <1>1, <1>2, <1>3 DEF SessionsInv, SessionShape, Sessions!Free
<1>5. \/ handled_request'.at = "free"
      \/ /\ handled_request'.at = "query" /\ handled_request'.who = handled_request.who
         /\ handled_request'.since = handled_request.since /\ handled_request.at = "inside" /\ handled_request.who.modes
  BY <1>3 DEF SessionsInv, SessionShape, Sessions!Free
<1>6. QED
  BY <1>2, <1>4, <1>5 DEF SessionsInv, Given

LEMMA DisconnectKeeps == ASSUME SessionsInv, NEW s \in Session, Sessions!Disconnect(s) PROVE SessionsInv'
  BY DEF Sessions!Disconnect, SessionsInv, SessionShape, Given

LEMMA BeginKeeps == ASSUME SessionsInv, Sessions!BeginBatch PROVE SessionsInv'
<1>1. PICK read : read = [s \in open |-> principal[s]]
  OBVIOUS
<1>2. batch' = [at |-> "reading", of |-> read, valid |-> {}, modes |-> FALSE]
  BY <1>1 DEF Sessions!BeginBatch
<1>3. read \in [open -> Caller] /\ open \in SUBSET Session
  BY <1>1 DEF SessionsInv, SessionShape
<1>4. read \in Read
  BY <1>3 DEF Read
<1>5. UNCHANGED <<session_key, modes, open, owner, principal, announced, handled_request>>
  BY DEF Sessions!BeginBatch
<1>6. SessionShape'
  BY <1>2, <1>4, <1>5 DEF SessionsInv, SessionShape
<1>7. \A s \in DOMAIN batch'.of : s \in open /\ batch'.of[s] = principal[s]
  BY <1>1, <1>2, <1>3
<1>8. QED
  BY <1>2, <1>5, <1>6, <1>7 DEF SessionsInv, Given

LEMMA ReadKeeps == ASSUME SessionsInv, Sessions!ReadBatch PROVE SessionsInv'
<1>1. UNCHANGED <<session_key, modes, owner, principal, announced, handled_request>> /\ open' \subseteq open
  BY DEF Sessions!ReadBatch
<1>2. CASE batch' = [batch EXCEPT !.at = "read", !.modes = modes,
                       !.valid = {s \in DOMAIN batch.of : session_key[batch.of[s].of] = batch.of[s].version}]
  <2>1. DOMAIN batch.of \subseteq Session
    BY DEF SessionsInv, SessionShape, Read
  <2>2. PICK good \in SUBSET Session : good = {s \in DOMAIN batch.of : session_key[batch.of[s].of] = batch.of[s].version}
    BY <2>1
  <2>3. batch' = [batch EXCEPT !.at = "read", !.modes = modes, !.valid = good]
    BY <1>2, <2>2
  <2>4. SessionShape' /\ batch'.of = batch.of /\ batch'.valid = good
    BY <1>1, <2>3 DEF SessionsInv, SessionShape
  <2>5. QED
    BY <1>1, <2>2, <2>4 DEF SessionsInv, Given
<1>3. CASE batch' = Sessions!Idle
  <2>1. Sessions!None \in Caller
    BY DEF Sessions!None, Caller
  <2>2. Sessions!Idle.of \in [{} -> Caller] /\ DOMAIN Sessions!Idle.of = {}
    BY <2>1 DEF Sessions!Idle
  <2>3. Sessions!Idle.of \in Read
    BY <2>2 DEF Read
  <2>4. SessionShape'
    BY <1>1, <1>3, <2>3 DEF SessionsInv, SessionShape, Sessions!Idle
  <2>5. QED
    BY <1>1, <1>3, <2>2, <2>4 DEF SessionsInv, Given
<1>4. QED
  BY <1>2, <1>3 DEF Sessions!ReadBatch

(* What is left to be read says no more than before.  *)
LEMMA RestIsRead ==
  ASSUME SessionsInv, NEW s \in Session, batch.at = "read", batch' = Sessions!Rest(s)
  PROVE  /\ batch' \in [at : {"idle", "reading", "read"}, of : Read, valid : SUBSET Session, modes : BOOLEAN]
         /\ \A t \in DOMAIN batch'.of : t \in DOMAIN batch.of /\ batch'.of[t] = batch.of[t] /\ (t \notin batch'.valid => t \notin batch.valid)
<1>1. CASE DOMAIN batch.of = {s}
  <2>1. Sessions!None \in Caller
    BY DEF Sessions!None, Caller
  <2>2. Sessions!Idle.of \in [{} -> Caller] /\ DOMAIN Sessions!Idle.of = {}
    BY <2>1 DEF Sessions!Idle
  <2>3. Sessions!Idle.of \in Read
    BY <2>2 DEF Read
  <2>4. QED
    BY <1>1, <2>2, <2>3 DEF Sessions!Rest, Sessions!Idle
<1>2. CASE DOMAIN batch.of # {s}
  <2>1. PICK others : others = [t \in DOMAIN batch.of \ {s} |-> batch.of[t]]
    OBVIOUS
  <2>2. PICK good : good = batch.valid \ {s}
    OBVIOUS
  <2>3. batch' = [batch EXCEPT !.of = others, !.valid = good]
    BY <1>2, <2>1, <2>2 DEF Sessions!Rest
  <2>4. batch.of \in Read
    BY DEF SessionsInv, SessionShape
  <2>5. PICK D \in SUBSET Session : batch.of \in [D -> Caller]
    BY <2>4 DEF Read
  <2>6. others \in [D \ {s} -> Caller] /\ D \ {s} \in SUBSET Session
    BY <2>1, <2>5
  <2>7. others \in Read
    BY <2>6 DEF Read
  <2>8. good \in SUBSET Session
    BY <2>2 DEF SessionsInv, SessionShape
  <2>9. batch' \in [at : {"idle", "reading", "read"}, of : Read, valid : SUBSET Session, modes : BOOLEAN]
        /\ batch'.of = others /\ batch'.valid = good
    BY <2>3, <2>7, <2>8 DEF SessionsInv, SessionShape
  <2>10. QED
    BY <2>1, <2>2, <2>6, <2>9
<1>3. QED
  BY <1>1, <1>2

LEMMA ApplyKeeps == ASSUME SessionsInv, NEW s \in Session, Sessions!Apply(s) PROVE SessionsInv'
<1>1. /\ batch.at = "read" /\ batch' = Sessions!Rest(s)
      /\ UNCHANGED <<session_key, modes, owner, handled_request>> /\ open' \subseteq open
  BY DEF Sessions!Apply
<1>2. /\ batch' \in [at : {"idle", "reading", "read"}, of : Read, valid : SUBSET Session, modes : BOOLEAN]
      /\ \A t \in DOMAIN batch'.of : t \in DOMAIN batch.of /\ batch'.of[t] = batch.of[t] /\ (t \notin batch'.valid => t \notin batch.valid)
  BY <1>1, RestIsRead
<1>3. /\ principal' \in [Session -> Caller] /\ announced' \in [Session -> BOOLEAN]
      /\ \A t \in Session : principal'[t].of = principal[t].of /\ principal'[t].version = principal[t].version
  <2>1. CASE UNCHANGED <<principal, announced>>
    BY <2>1 DEF SessionsInv, SessionShape
  <2>2. CASE Sessions!Announce(s, batch.modes)
    <3>1. CASE batch.modes = announced[s]
      BY <2>1, <2>2, <3>1 DEF Sessions!Announce
    <3>2. CASE batch.modes # announced[s]
      <4>1. /\ principal' = [principal EXCEPT ![s].modes = batch.modes, ![s].fresh = 1 - @]
            /\ announced' = [announced EXCEPT ![s] = batch.modes]
        BY <2>2, <3>2 DEF Sessions!Announce
      <4>2. batch.modes \in BOOLEAN /\ principal \in [Session -> Caller] /\ announced \in [Session -> BOOLEAN]
        BY DEF SessionsInv, SessionShape
      <4>3. principal' \in [Session -> Caller]
        BY <4>1, <4>2 DEF Caller
      <4>4. QED
        BY <4>1, <4>2, <4>3 DEF Caller
    <3>3. QED
      BY <3>1, <3>2
  <2>3. QED
    BY <2>1, <2>2 DEF Sessions!Apply
<1>4. SessionShape'
  BY <1>1, <1>2, <1>3 DEF SessionsInv, SessionShape
<1>5. open \subseteq Session
  BY DEF SessionsInv, SessionShape
<1>6. QED
  BY <1>1, <1>2, <1>3, <1>4, <1>5 DEF SessionsInv, Given

LEMMA SessionsStep == ASSUME SessionsInv, Sessions!Next PROVE SessionsInv'
  BY ChangeKeeps, AuthenticateKeeps, HandleKeeps, AnswerKeeps, DisconnectKeeps, BeginKeeps, ReadKeeps, ApplyKeeps
     DEF Sessions!Next

LEMMA SessionsAside == SessionsInv /\ UNCHANGED ofSessions => SessionsInv'
  BY DEF ofSessions, SessionsInv, SessionShape, Given

LEMMA SessionsPromise == SessionsInv => Sessions!SessionsKeepTheirOwner /\ Sessions!QueriesFollowTheModes
  BY DEF SessionsInv, SessionShape, Caller, Sessions!SessionsKeepTheirOwner, Sessions!QueriesFollowTheModes

LEMMA GoodStayOpen ==
  ASSUME SessionsInv, Sessions!Next
  PROVE  \A s \in open : batch.at = "read" /\ batch' # batch /\ s \notin open' => session_key[principal[s].of] # principal[s].version
<1> SUFFICES ASSUME NEW s \in open, batch.at = "read", batch' # batch, s \notin open'
             PROVE  session_key[principal[s].of] # principal[s].version
  OBVIOUS
<1>1. PICK t \in Session : Sessions!Apply(t)
  BY DEF Sessions!Next, Sessions!Change, Sessions!Handle, Sessions!Answered, Sessions!Replied, Sessions!BeginBatch,
         Sessions!ReadBatch, Sessions!Disconnect, Sessions!Authenticate
<1>2. t = s /\ s \in DOMAIN batch.of /\ s \notin batch.valid
      /\ (principal[s] = batch.of[s] \/ Sessions!Same(principal[s], batch.of[s]))
  BY <1>1 DEF Sessions!Apply
<1>3. QED
  BY <1>2 DEF SessionsInv, Sessions!Same

------------------------------------------------------------------------------
(* The grants.  *)
Sealing == {"idle", "escrowed", "signed", "abandoned", "over"}
Claim == [exp : Nat, key : Nat, provider : Nat, alias : Alias \cup {CHOOSE a \in Alias : TRUE}]

ReleaseShape ==
  /\ release_time \in Nat /\ provider \in Nat /\ signing_key \in Nat \ {0}
  /\ until \in [1..SigningKeys -> Nat]
  /\ grant_row \in [Grant -> Releases!Rows] /\ sealing \in [Grant -> Sealing]
  /\ claims \in [Grant -> Claim] /\ left \in [Grant -> Nat] /\ redeeming \subseteq Grant

(* The key of a grant verifies for as long as the grant may live.  *)
Verified(c) ==
  \/ c.key = signing_key
  \/ c.key \in 1..SigningKeys /\ c.exp <= until[c.key]

GrantStands(g) ==
  /\ sealing[g] # "over" => grant_row[g].state = "none"
  /\ claims[g].exp <= release_time + Ttl
  /\ sealing[g] = "signed" \/ Releases!Exists(g) => Verified(claims[g])
  /\ grant_row[g].state \in {"none", "granted"} => left[g] = 0
  /\ grant_row[g].state = "granted" => "revoked" \notin grant_row[g].events /\ claims[g].alias \notin credential

ReleaseInv == ReleaseShape /\ \A g \in Grant : GrantStands(g)

LEMMA ReleasesInitially == Releases!Init => ReleaseInv
  BY PlatformAssumption DEF Releases!Init, Releases!NoRow, Releases!Rows, Releases!Exists, ReleaseInv, ReleaseShape, Sealing, Claim, GrantStands

LEMMA TickKeeps == ASSUME ReleaseInv, Releases!Tick PROVE ReleaseInv'
<1>1. ReleaseShape'
  BY DEF Releases!Tick, ReleaseInv, ReleaseShape
<1>2. ASSUME NEW g \in Grant PROVE GrantStands(g)'
  <2>1. claims[g].exp \in Nat /\ release_time \in Nat /\ Ttl \in Nat
    BY PlatformAssumption DEF ReleaseInv, ReleaseShape, Claim
  <2>2. release_time' = release_time + 1 /\ UNCHANGED <<until, signing_key, grant_row, sealing, claims, credential, left>>
    BY DEF Releases!Tick
  <2>3. QED
    BY <2>1, <2>2 DEF ReleaseInv, GrantStands, Verified, Releases!Exists
<1>3. QED
  BY <1>1, <1>2 DEF ReleaseInv

LEMMA EscrowKeeps == ASSUME ReleaseInv, NEW g \in Grant, NEW a \in Alias, Releases!Escrow(g, a) PROVE ReleaseInv'
<1>1. PICK c \in Claim : c = [exp |-> release_time + Ttl, key |-> 0, provider |-> provider, alias |-> a]
  <2>1. release_time + Ttl \in Nat /\ provider \in Nat
    BY PlatformAssumption DEF ReleaseInv, ReleaseShape
  <2>2. QED
    BY <2>1 DEF Claim
<1>2. /\ sealing[g] = "idle" /\ sealing' = [sealing EXCEPT ![g] = "escrowed"] /\ claims' = [claims EXCEPT ![g] = c]
      /\ UNCHANGED <<release_time, provider, signing_key, until, grant_row, credential, retired, left, redeeming>>
  BY <1>1 DEF Releases!Escrow
<1>3. ReleaseShape'
  BY <1>2 DEF ReleaseInv, ReleaseShape, Sealing
<1>4. ASSUME NEW h \in Grant PROVE GrantStands(h)'
  BY <1>1, <1>2, PlatformAssumption DEF ReleaseInv, ReleaseShape, GrantStands, Verified, Releases!Exists
<1>5. QED
  BY <1>3, <1>4 DEF ReleaseInv

LEMMA SignKeeps == ASSUME ReleaseInv, NEW g \in Grant, Releases!Sign(g) PROVE ReleaseInv'
<1>1. /\ sealing[g] = "escrowed" /\ claims' = [claims EXCEPT ![g].key = signing_key]
      /\ sealing' = [sealing EXCEPT ![g] = IF Releases!Expired(g) THEN "abandoned" ELSE "signed"]
      /\ UNCHANGED <<release_time, provider, signing_key, until, grant_row, credential, retired, left, redeeming>>
  BY DEF Releases!Sign
<1>2. ReleaseShape'
  BY <1>1 DEF ReleaseInv, ReleaseShape, Sealing, Claim
<1>3. \A h \in Grant : claims'[h].exp = claims[h].exp /\ (h # g => claims'[h] = claims[h])
  BY <1>1 DEF ReleaseInv, ReleaseShape, Claim
<1>4. claims'[g].key = signing_key
  BY <1>1 DEF ReleaseInv, ReleaseShape, Claim
<1>5. ASSUME NEW h \in Grant PROVE GrantStands(h)'
  BY <1>1, <1>3, <1>4 DEF ReleaseInv, ReleaseShape, GrantStands, Verified, Releases!Exists
<1>6. QED
  BY <1>2, <1>5 DEF ReleaseInv

(* Where neither keys, clock, claims nor credentials change, a grant stands *)
(* whose row only leaves the states in which its share can leave.           *)
LEMMA RowsMove ==
  ASSUME ReleaseInv, ReleaseShape', UNCHANGED <<release_time, signing_key, until, claims>>,
         NEW g \in Grant,
         sealing'[g] # "over" => sealing[g] # "over" /\ grant_row'[g] = grant_row[g],
         sealing'[g] = "signed" => sealing[g] = "signed",
         grant_row'[g].state # "none" => grant_row[g].state # "none" \/ sealing[g] = "signed",
         grant_row'[g].state \in {"none", "granted"} => left'[g] = left[g] /\ grant_row[g].state \in {"none", "granted"},
         grant_row'[g].state = "granted" => "revoked" \notin grant_row'[g].events /\ claims[g].alias \notin credential'
  PROVE  GrantStands(g)'
  BY DEF ReleaseInv, GrantStands, Verified, Releases!Exists

LEMMA IssueKeeps == ASSUME ReleaseInv, NEW g \in Grant, Releases!Issue(g) PROVE ReleaseInv'
<1>1. /\ sealing[g] = "signed" /\ UNCHANGED <<release_time, provider, signing_key, until, claims, credential, retired, left, redeeming>>
      /\ \/ /\ sealing' = [sealing EXCEPT ![g] = "over"]
            /\ \/ grant_row' = [grant_row EXCEPT ![g] = [state |-> "revoked", cleaned |-> FALSE, events |-> {"revoked"}]]
               \/ /\ grant_row' = [grant_row EXCEPT ![g] = [state |-> "granted", cleaned |-> FALSE, events |-> {"granted"}]]
                  /\ claims[g].alias \notin credential
         \/ sealing' = [sealing EXCEPT ![g] = "abandoned"] /\ UNCHANGED grant_row
  BY DEF Releases!Issue, Releases!CanIssue
<1>2. ReleaseShape'
  <2>1. grant_row \in [Grant -> Releases!Rows] /\ sealing \in [Grant -> Sealing]
    BY DEF ReleaseInv, ReleaseShape
  <2>2. \A s \in {"granted", "revoked"} : [state |-> s, cleaned |-> FALSE, events |-> {s}] \in Releases!Rows
    BY DEF Releases!Rows
  <2>3. grant_row' \in [Grant -> Releases!Rows]
    BY <1>1, <2>1, <2>2
  <2>4. sealing' \in [Grant -> Sealing]
    BY <1>1, <2>1 DEF Sealing
  <2>5. QED
    BY <1>1, <2>3, <2>4 DEF ReleaseInv, ReleaseShape
<1>3. grant_row[g].state = "none"
  BY <1>1 DEF ReleaseInv, GrantStands
<1>4. ASSUME NEW h \in Grant, h # g PROVE GrantStands(h)'
  BY <1>1, <1>4 DEF ReleaseInv, ReleaseShape, GrantStands, Verified, Releases!Exists
<1>5. GrantStands(g)'
  BY <1>1, <1>2, <1>3, RowsMove DEF ReleaseInv, ReleaseShape
<1>6. QED
  BY <1>2, <1>4, <1>5 DEF ReleaseInv

LEMMA FailKeeps ==
  ASSUME ReleaseInv, NEW g \in Grant, NEW ack \in BOOLEAN, Releases!IssueFails(g) \/ Releases!Abandon(g, ack) PROVE ReleaseInv'
<1>1. PICK next \in {"abandoned", "over"} : sealing' = [sealing EXCEPT ![g] = next]
  BY DEF Releases!IssueFails, Releases!Abandon
<1>2. UNCHANGED <<release_time, provider, signing_key, until, grant_row, claims, credential, retired, left, redeeming>>
  BY DEF Releases!IssueFails, Releases!Abandon
<1>3. sealing[g] # "over"
  BY DEF Releases!IssueFails, Releases!Abandon
<1>4. ReleaseShape'
  BY <1>1, <1>2 DEF ReleaseInv, ReleaseShape, Sealing
<1>5. ASSUME NEW h \in Grant PROVE GrantStands(h)'
  BY <1>1, <1>2, <1>3 DEF ReleaseInv, ReleaseShape, GrantStands, Verified, Releases!Exists
<1>6. QED
  BY <1>4, <1>5 DEF ReleaseInv

LEMMA OutsideKeeps ==
  ASSUME ReleaseInv, NEW g \in Grant, Releases!BeginRedeem(g) \/ Releases!RedeemEscrow(g) \/ Releases!RevokeLost(g) PROVE ReleaseInv'
<1>1. /\ UNCHANGED <<release_time, provider, signing_key, until, grant_row, sealing, claims, credential, retired, left>>
      /\ redeeming' \subseteq redeeming \cup {g}
  BY DEF Releases!BeginRedeem, Releases!RedeemEscrow, Releases!RevokeLost
<1>2. QED
  BY <1>1 DEF ReleaseInv, ReleaseShape, GrantStands, Verified, Releases!Exists

LEMMA RedeemKeeps == ASSUME ReleaseInv, NEW g \in Grant, Releases!Redeem(g) PROVE ReleaseInv'
<1>1. UNCHANGED <<release_time, provider, signing_key, until, sealing, claims, credential, retired>>
      /\ redeeming' \subseteq redeeming
  BY DEF Releases!Redeem
<1>2. \/ UNCHANGED <<grant_row, left>>
      \/ /\ grant_row[g].state = "granted"
         /\ \E s \in {"redeemed", "expired"} :
              grant_row' = [grant_row EXCEPT ![g].state = s, ![g].events = @ \cup {s}]
         /\ left' \in {left, [left EXCEPT ![g] = @ + 1]}
  BY DEF Releases!Redeem
<1>3. CASE UNCHANGED <<grant_row, left>>
  BY <1>1, <1>3 DEF ReleaseInv, ReleaseShape, GrantStands, Verified, Releases!Exists
<1>4. CASE ~UNCHANGED <<grant_row, left>>
  <2>1. PICK s \in {"redeemed", "expired"} :
          /\ grant_row' = [grant_row EXCEPT ![g].state = s, ![g].events = @ \cup {s}]
          /\ grant_row[g].state = "granted"
          /\ left' \in {left, [left EXCEPT ![g] = @ + 1]}
    BY <1>2, <1>4
  <2>2. grant_row \in [Grant -> Releases!Rows] /\ left \in [Grant -> Nat]
    BY DEF ReleaseInv, ReleaseShape
  <2>3. grant_row' \in [Grant -> Releases!Rows]
    <3>1. grant_row[g] \in Releases!Rows /\ grant_row[g].events \cup {s} \in SUBSET {"granted", "redeemed", "expired", "revoked", "provider_redeemed"}
      BY <2>2 DEF Releases!Rows
    <3>2. PICK r \in Releases!Rows : r = [grant_row[g] EXCEPT !.state = s, !.events = @ \cup {s}]
      BY <3>1 DEF Releases!Rows
    <3>3. grant_row' = [grant_row EXCEPT ![g] = r]
      BY <2>1, <2>2, <3>2
    <3>4. QED
      BY <2>2, <3>2, <3>3
  <2>4. grant_row'[g].state = s /\ \A h \in Grant \ {g} : grant_row'[h] = grant_row[h]
    BY <2>1, <2>2 DEF Releases!Rows
  <2>5. left' \in [Grant -> Nat] /\ \A h \in Grant \ {g} : left'[h] = left[h]
    BY <2>1, <2>2
  <2>6. ReleaseShape'
    BY <1>1, <2>3, <2>5 DEF ReleaseInv, ReleaseShape
  <2>7. ASSUME NEW h \in Grant, h # g PROVE GrantStands(h)'
    BY <1>1, <2>4, <2>5, <2>7 DEF ReleaseInv, GrantStands, Verified, Releases!Exists
  <2>8. GrantStands(g)'
    BY <1>1, <2>1, <2>4 DEF ReleaseInv, GrantStands, Verified, Releases!Exists
  <2>9. QED
    BY <2>6, <2>7, <2>8 DEF ReleaseInv
<1>5. QED
  BY <1>3, <1>4

(* What a revocation leaves of a row.  *)
LEMMA RevokedRow ==
  ASSUME NEW r \in Releases!Rows, NEW ack \in BOOLEAN
  PROVE  /\ Releases!Revoked(r, ack) \in Releases!Rows /\ Releases!Revoked(r, ack).state # "granted"
         /\ r.state # "none" /\ r.state # "granted" => Releases!Revoked(r, ack).state = r.state
         /\ r.state = "granted" => Releases!Revoked(r, ack).state = "revoked"
         /\ r.state = "none" => Releases!Revoked(r, ack).state = "none"
  BY DEF Releases!Revoked, Releases!Rows

(* Any number of rows that exist are revoked at once.  *)
LEMMA RevocationsKeep ==
  ASSUME ReleaseInv,
         UNCHANGED <<release_time, signing_key, until, sealing, claims, left, redeeming>>, provider' \in Nat,
         grant_row' \in [Grant -> Releases!Rows],
         \A g \in Grant : \/ grant_row'[g] = grant_row[g] /\ (grant_row[g].state = "granted" => claims[g].alias \notin credential')
                          \/ /\ Releases!Exists(g) /\ grant_row'[g].state \notin {"none", "granted"}
  PROVE  ReleaseInv'
<1>1. ReleaseShape'
  BY DEF ReleaseInv, ReleaseShape
<1>2. ASSUME NEW g \in Grant PROVE GrantStands(g)'
  BY DEF ReleaseInv, GrantStands, Verified, Releases!Exists
<1>3. QED
  BY <1>1, <1>2 DEF ReleaseInv

LEMMA RevokeKeeps == ASSUME ReleaseInv, NEW g \in Grant, NEW ack \in BOOLEAN, Releases!Revoke(g, ack) PROVE ReleaseInv'
<1>1. grant_row \in [Grant -> Releases!Rows] /\ Releases!Exists(g) /\ provider \in Nat
  BY DEF ReleaseInv, ReleaseShape, Releases!Revoke
<1>2. PICK r \in Releases!Rows : r = Releases!Revoked(grant_row[g], ack) /\ r.state \notin {"none", "granted"}
  BY <1>1, RevokedRow DEF Releases!Exists
<1>3. /\ grant_row' = [grant_row EXCEPT ![g] = r]
      /\ UNCHANGED <<release_time, provider, signing_key, until, sealing, claims, credential, left, redeeming>>
  BY <1>2 DEF Releases!Revoke
<1>4. \A h \in Grant : grant_row[h].state = "granted" => claims[h].alias \notin credential
  BY DEF ReleaseInv, GrantStands
<1>5. QED
  BY <1>1, <1>2, <1>3, <1>4, RevocationsKeep

LEMMA SwitchKeeps == ASSUME ReleaseInv, NEW done \in SUBSET Grant, Releases!SwitchProvider(done) PROVE ReleaseInv'
<1>1. grant_row \in [Grant -> Releases!Rows] /\ provider \in Nat
  BY DEF ReleaseInv, ReleaseShape
<1>2. /\ grant_row' = [g \in Grant |-> IF g \in done
                             THEN [Releases!Revoked(grant_row[g], TRUE) EXCEPT !.state = "revoked"] ELSE grant_row[g]]
      /\ provider' \in Nat /\ \A g \in done : Releases!Exists(g)
      /\ UNCHANGED <<release_time, signing_key, until, sealing, claims, credential, left, redeeming>>
  BY <1>1 DEF Releases!SwitchProvider, Releases!Live, Releases!Exists
<1>3. ASSUME NEW g \in done PROVE grant_row'[g] \in Releases!Rows /\ grant_row'[g].state = "revoked"
  <2>1. PICK r \in Releases!Rows : r = Releases!Revoked(grant_row[g], TRUE)
    BY <1>1, RevokedRow
  <2>2. grant_row'[g] = [r EXCEPT !.state = "revoked"]
    BY <1>2, <2>1
  <2>3. QED
    BY <2>1, <2>2 DEF Releases!Rows
<1>4. ASSUME NEW g \in Grant \ done PROVE grant_row'[g] = grant_row[g]
  BY <1>2
<1>5. grant_row' \in [Grant -> Releases!Rows]
  <2>1. \A g \in Grant : grant_row'[g] \in Releases!Rows
    BY <1>1, <1>3, <1>4
  <2>2. QED
    BY <1>2, <2>1
<1>6. \A h \in Grant : grant_row[h].state = "granted" => claims[h].alias \notin credential
  BY DEF ReleaseInv, GrantStands
<1>7. QED
  BY <1>2, <1>3, <1>4, <1>5, <1>6, RevocationsKeep

LEMMA CredentialKeeps == ASSUME ReleaseInv, NEW a \in Alias, Releases!RevokeCredential(a) PROVE ReleaseInv'
<1> DEFINE gone(g) == claims[g].alias = a /\ Releases!Exists(g) /\ (grant_row[g].state = "granted" \/ ~grant_row[g].cleaned \/ Releases!Live(g))
<1>1. grant_row \in [Grant -> Releases!Rows] /\ provider \in Nat
  BY DEF ReleaseInv, ReleaseShape
<1>2. /\ grant_row' = [g \in Grant |-> IF gone(g) THEN Releases!Revoked(grant_row[g], FALSE) ELSE grant_row[g]]
      /\ credential' = credential \cup {a}
      /\ UNCHANGED <<release_time, provider, signing_key, until, sealing, claims, left, redeeming>>
  BY DEF Releases!RevokeCredential
<1>3. ASSUME NEW g \in Grant, gone(g) PROVE grant_row'[g] \in Releases!Rows /\ grant_row'[g].state \notin {"none", "granted"} /\ Releases!Exists(g)
  BY <1>1, <1>2, <1>3, RevokedRow DEF Releases!Exists
<1>4. ASSUME NEW g \in Grant, ~gone(g) PROVE grant_row'[g] = grant_row[g] /\ (grant_row[g].state = "granted" => claims[g].alias # a)
  BY <1>2, <1>4 DEF Releases!Exists
<1>5. grant_row' \in [Grant -> Releases!Rows]
  <2>1. \A g \in Grant : grant_row'[g] \in Releases!Rows
    BY <1>1, <1>3, <1>4
  <2>2. QED
    BY <1>2, <2>1
<1>6. \A h \in Grant : grant_row[h].state = "granted" => claims[h].alias \notin credential
  BY DEF ReleaseInv, GrantStands
<1>7. QED
  <2> HIDE DEF gone
  <2>1. \A g \in Grant : \/ grant_row'[g] = grant_row[g] /\ (grant_row[g].state = "granted" => claims[g].alias \notin credential')
                         \/ Releases!Exists(g) /\ grant_row'[g].state \notin {"none", "granted"}
    BY <1>2, <1>3, <1>4, <1>6
  <2>2. QED
    BY <1>1, <1>2, <1>5, <2>1, RevocationsKeep

LEMMA RetireKeeps == ASSUME ReleaseInv, NEW a \in Alias, NEW acked \in SUBSET Grant, Releases!RetireAlias(a, acked) PROVE ReleaseInv'
<1> DEFINE due == {g \in Grant : claims[g].alias = a /\ Releases!Exists(g) /\ ~grant_row[g].cleaned}
<1>1. grant_row \in [Grant -> Releases!Rows] /\ provider \in Nat
  BY DEF ReleaseInv, ReleaseShape
<1>2. /\ grant_row' = [g \in Grant |-> IF g \in due THEN Releases!Revoked(grant_row[g], g \in acked) ELSE grant_row[g]]
      /\ UNCHANGED <<release_time, provider, signing_key, until, sealing, claims, credential, left, redeeming>>
  BY DEF Releases!RetireAlias
<1>3. ASSUME NEW g \in due PROVE grant_row'[g] \in Releases!Rows /\ grant_row'[g].state \notin {"none", "granted"} /\ Releases!Exists(g)
  <2>1. (g \in acked) \in BOOLEAN /\ g \in Grant /\ Releases!Exists(g) /\ grant_row[g] \in Releases!Rows
    BY <1>1
  <2>2. grant_row'[g] = Releases!Revoked(grant_row[g], g \in acked)
    BY <1>2
  <2>3. QED
    BY <2>1, <2>2, RevokedRow DEF Releases!Exists
<1>4. ASSUME NEW g \in Grant \ due PROVE grant_row'[g] = grant_row[g]
  BY <1>2
<1>5. grant_row' \in [Grant -> Releases!Rows]
  <2>1. \A g \in Grant : grant_row'[g] \in Releases!Rows
    BY <1>1, <1>3, <1>4
  <2>2. QED
    BY <1>2, <2>1
<1>6. \A h \in Grant : grant_row[h].state = "granted" => claims[h].alias \notin credential
  BY DEF ReleaseInv, GrantStands
<1>7. QED
  <2> HIDE DEF due
  <2>1. QED
    BY <1>1, <1>2, <1>3, <1>4, <1>5, <1>6, RevocationsKeep

LEMMA SweepKeeps == ASSUME ReleaseInv, NEW g \in Grant, NEW ack \in BOOLEAN, Releases!Sweep(g, ack) PROVE ReleaseInv'
<1>1. grant_row \in [Grant -> Releases!Rows]
  BY DEF ReleaseInv, ReleaseShape
<1>2. Releases!Exists(g)
  BY DEF Releases!Sweep, Releases!Due
<1>3. PICK r \in Releases!Rows :
        /\ grant_row' = [grant_row EXCEPT ![g] = r]
        /\ r.state = grant_row[g].state \/ r.state = "expired"
        /\ "revoked" \in r.events => "revoked" \in grant_row[g].events
  <2> DEFINE over == Releases!Expired(g) /\ grant_row[g].state = "granted"
             observe == (IF over THEN {"expired"} ELSE {}) \cup (IF escrow[g] = "taken" THEN {"provider_redeemed"} ELSE {})
             clean == /\ ack /\ ~grant_row[g].cleaned
                      /\ Releases!Expired(g) \/ escrow[g] = "taken" \/ grant_row[g].state = "revoked" \/ "revoked" \in grant_row[g].events
             r == [state |-> IF over THEN "expired" ELSE grant_row[g].state,
                   cleaned |-> grant_row[g].cleaned \/ clean, events |-> grant_row[g].events \cup observe]
  <2>1. grant_row' = [grant_row EXCEPT ![g] = r]
    BY DEF Releases!Sweep
  <2>2. grant_row[g] \in Releases!Rows
    BY <1>1
  <2>3. observe \subseteq {"expired", "provider_redeemed"}
    OBVIOUS
  <2>4. r \in Releases!Rows
    BY <2>2, <2>3 DEF Releases!Rows
  <2>5. "revoked" \in r.events => "revoked" \in grant_row[g].events
    BY <2>3
  <2>6. r.state = grant_row[g].state \/ r.state = "expired"
    OBVIOUS
  <2> HIDE DEF r
  <2>7. QED
    BY <2>1, <2>4, <2>5, <2>6
<1>4. UNCHANGED <<release_time, provider, signing_key, until, sealing, claims, credential, left, redeeming>>
  BY DEF Releases!Sweep
<1>5. ReleaseShape'
  BY <1>3, <1>4 DEF ReleaseInv, ReleaseShape
<1>6. ASSUME NEW h \in Grant, h # g PROVE GrantStands(h)'
  BY <1>1, <1>3, <1>4, <1>6 DEF ReleaseInv, GrantStands, Verified, Releases!Exists
<1>7. GrantStands(g)'
  BY <1>1, <1>2, <1>3, <1>4 DEF ReleaseInv, GrantStands, Verified, Releases!Exists
<1>8. QED
  BY <1>5, <1>6, <1>7 DEF ReleaseInv

(* What a key signed before it was rotated away may live no longer than one *)
(* that is signed at that moment.                                           *)
LEMMA RotateKeeps == ASSUME ReleaseInv, Releases!RotateKey PROVE ReleaseInv'
<1> DEFINE last == {release_time + Ttl} \cup {claims[g].exp : g \in {h \in Grant : Releases!Exists(h)}}
           m == CHOOSE t \in last : \A u \in last : u <= t
<1>1. \A g \in Grant : claims[g].exp \in Nat /\ claims[g].exp <= release_time + Ttl
  BY DEF ReleaseInv, ReleaseShape, Claim, GrantStands
<1>2. release_time + Ttl \in Nat
  BY PlatformAssumption DEF ReleaseInv, ReleaseShape
<1>3. m = release_time + Ttl
  <2>1. \E t \in last : \A u \in last : u <= t
    BY <1>1, <1>2
  <2>2. m \in last /\ \A u \in last : u <= m
    BY <2>1
  <2>3. release_time + Ttl <= m
    BY <2>2
  <2>4. m <= release_time + Ttl /\ m \in Nat
    BY <1>1, <1>2, <2>2
  <2>5. QED
    BY <1>2, <2>3, <2>4
<1>4. Releases!VerifyUntil = m
  BY DEF Releases!VerifyUntil
<1> HIDE DEF m
<1>5. /\ signing_key < SigningKeys /\ signing_key' = signing_key + 1 /\ until' = [until EXCEPT ![signing_key] = release_time + Ttl]
      /\ UNCHANGED <<release_time, provider, grant_row, sealing, claims, credential, left, redeeming>>
  BY <1>3, <1>4 DEF Releases!RotateKey
<1>6. signing_key \in 1..SigningKeys /\ until \in [1..SigningKeys -> Nat]
  BY <1>5, PlatformAssumption DEF ReleaseInv, ReleaseShape
<1>7. ReleaseShape'
  BY <1>2, <1>5, <1>6 DEF ReleaseInv, ReleaseShape
<1>8. ASSUME NEW g \in Grant, Verified(claims[g]) PROVE Verified(claims[g])'
  BY <1>1, <1>2, <1>5, <1>6, <1>8 DEF Verified
<1>9. QED
  BY <1>5, <1>7, <1>8 DEF ReleaseInv, GrantStands, Releases!Exists

LEMMA ReleasesStep == ASSUME ReleaseInv, Releases!Next PROVE ReleaseInv'
  BY TickKeeps, EscrowKeeps, SignKeeps, IssueKeeps, FailKeeps, OutsideKeeps, RedeemKeeps, RevokeKeeps, SwitchKeeps,
     CredentialKeeps, RetireKeeps, SweepKeeps, RotateKeeps DEF Releases!Next

LEMMA ReleasesAside == ReleaseInv /\ UNCHANGED ofReleases => ReleaseInv'
  BY DEF ofReleases, ReleaseInv, ReleaseShape, GrantStands, Verified, Releases!Exists

LEMMA ReleasesPromise == ReleaseInv => Releases!LiveGrantsVerify
<1> SUFFICES ASSUME ReleaseInv, NEW g \in Grant, grant_row[g].state = "granted", ~Releases!Expired(g)
             PROVE  Releases!Verifies(claims[g].key)
  BY DEF Releases!LiveGrantsVerify
<1>1. Verified(claims[g]) /\ claims[g].exp \in Nat /\ release_time \in Nat
  BY DEF ReleaseInv, ReleaseShape, GrantStands, Releases!Exists, Claim
<1>2. CASE claims[g].key = signing_key
  BY <1>2 DEF Releases!Verifies
<1>3. CASE claims[g].key \in 1..SigningKeys /\ claims[g].exp <= until[claims[g].key]
  BY <1>1, <1>3 DEF Releases!Verifies, Releases!Expired, ReleaseInv, ReleaseShape
<1>4. QED
  BY <1>1, <1>2, <1>3 DEF Verified

LEMMA ShareLeaves ==
  ASSUME ReleaseInv, Releases!Next, NEW g \in Grant, left'[g] # left[g]
  PROVE  /\ left'[g] = 1 /\ "redeemed" \in grant_row'[g].events
         /\ "revoked" \notin grant_row[g].events /\ ~Releases!Expired(g) /\ claims[g].alias \notin credential
<1>1. PICK h \in Grant : Releases!Redeem(h)
  BY DEF Releases!Next, Releases!Tick, Releases!Escrow, Releases!Sign, Releases!Issue, Releases!IssueFails, Releases!BeginRedeem,
         Releases!RedeemEscrow, Releases!RevokeLost, Releases!Abandon, Releases!Revoke, Releases!Sweep, Releases!SwitchProvider,
         Releases!RevokeCredential, Releases!RetireAlias, Releases!RotateKey
<1>2. left \in [Grant -> Nat] /\ grant_row \in [Grant -> Releases!Rows]
  BY DEF ReleaseInv, ReleaseShape
<1>3. /\ h = g /\ grant_row[g].state = "granted" /\ ~Releases!Expired(g) /\ left'[g] = left[g] + 1
      /\ grant_row' = [grant_row EXCEPT ![g].state = "redeemed", ![g].events = @ \cup {"redeemed"}]
  BY <1>1, <1>2 DEF Releases!Redeem
<1>4. left[g] = 0 /\ "revoked" \notin grant_row[g].events /\ claims[g].alias \notin credential
  BY <1>3 DEF ReleaseInv, GrantStands
<1>5. "redeemed" \in grant_row'[g].events
  BY <1>2, <1>3 DEF Releases!Rows
<1>6. QED
  BY <1>3, <1>4, <1>5

------------------------------------------------------------------------------
(* The stream.  What is on its way, held and passed on is one run of        *)
(* numbers that ends at the last one published.                             *)
Told == seen \o socket
Runs(s) == \A i \in 1..Len(s) - 1 : s[i + 1] = s[i] + 1
EndsAt(s, n) == \A i \in 1..Len(s) : s[i] = n - Len(s) + i

StreamShape ==
  /\ published \in Nat /\ hub \in {"none", "connecting", "listening", "ready", "closed"}
  /\ channel \in Seq(Nat) /\ pending \in Seq(Nat) /\ socket \in Seq(Nat) /\ seen \in Seq(Nat)
  /\ sampled = -1 \/ sampled \in Nat
  /\ sequence = -1 \/ sequence \in Nat
  /\ response \in {"none", "open", "ended", "gone"} /\ aborted \in BOOLEAN

HeldInOrder ==
  /\ EndsAt(pending, published - Len(channel))
  /\ sampled # -1 => published - Len(channel) - Len(pending) <= sampled /\ sampled <= published

ToldToTheEnd ==
  /\ response = "open" /\ ~aborted /\ Told # <<>> /\ Told[Len(Told)] = sequence
  /\ published - Len(channel) <= sequence /\ sequence <= published

StreamInv ==
  /\ StreamShape /\ Runs(Told)
  /\ hub \in {"connecting", "listening"} => seen = <<>> /\ socket = <<>> /\ (aborted \/ response = "open")
  /\ hub = "connecting" => channel = <<>> /\ pending = <<>> /\ sampled = -1
  /\ hub \in {"listening", "ready"} => EndsAt(channel, published)
  /\ hub = "listening" => HeldInOrder
  /\ hub = "ready" => ToldToTheEnd

LEMMA StreamInitially == Stream!Init => StreamInv
<1> SUFFICES ASSUME Stream!Init PROVE StreamInv
  OBVIOUS
<1>1. Len(Told) = 0
  BY DEF Stream!Init, Told
<1>2. Runs(Told)
  BY <1>1 DEF Runs
<1>3. StreamShape
  <2>1. sampled = -1 /\ sequence = -1
    BY DEF Stream!Init
  <2>2. /\ published \in Nat /\ hub \in {"none", "connecting", "listening", "ready", "closed"}
        /\ response \in {"none", "open", "ended", "gone"}
    BY DEF Stream!Init
  <2>3. channel \in Seq(Nat) /\ pending \in Seq(Nat) /\ socket \in Seq(Nat) /\ seen \in Seq(Nat)
    BY DEF Stream!Init
  <2>4. aborted \in BOOLEAN
    BY DEF Stream!Init
  <2>5. QED
    BY <2>1, <2>2, <2>3, <2>4 DEF StreamShape
<1>4. QED
  BY <1>2, <1>3 DEF Stream!Init, StreamInv

LEMMA RunGrows ==
  ASSUME NEW s \in Seq(Nat), NEW n \in Nat, Runs(s), s = <<>> \/ n = s[Len(s)] + 1
  PROVE  s \o <<n>> \in Seq(Nat) /\ Runs(s \o <<n>>) /\ s \o <<n>> # <<>> /\ (s \o <<n>>)[Len(s \o <<n>>)] = n
<1> DEFINE t == s \o <<n>>
<1>1. t \in Seq(Nat) /\ Len(t) = Len(s) + 1 /\ t[Len(s) + 1] = n /\ \A i \in 1..Len(s) : t[i] = s[i]
  OBVIOUS
<1>2. ASSUME NEW i \in 1..Len(t) - 1 PROVE t[i + 1] = t[i] + 1
  <2>1. CASE i < Len(s)
    BY <1>1, <2>1 DEF Runs
  <2>2. CASE i = Len(s)
    BY <1>1, <2>2
  <2>3. QED
    BY <1>1, <2>1, <2>2
<1>3. QED
  BY <1>1, <1>2 DEF Runs

LEMMA RunsBegin ==
  ASSUME NEW s \in Seq(Nat), Runs(s), NEW m \in 1..Len(s)
  PROVE  /\ SubSeq(s, 1, m) \in Seq(Nat) /\ Runs(SubSeq(s, 1, m)) /\ Len(SubSeq(s, 1, m)) = m
         /\ SubSeq(s, 1, m)[m] = s[m]
<1>1. SubSeq(s, 1, m) \in Seq(Nat) /\ Len(SubSeq(s, 1, m)) = m /\ \A i \in 1..m : SubSeq(s, 1, m)[i] = s[i]
  OBVIOUS
<1>2. QED
  BY <1>1 DEF Runs

LEMMA ReadMoves ==
  ASSUME NEW s \in Seq(Nat), NEW t \in Seq(Nat), t # <<>>
  PROVE  Append(s, Head(t)) \o Tail(t) = s \o t
<1>1. Append(s, Head(t)) \o Tail(t) \in Seq(Nat) /\ s \o t \in Seq(Nat)
  OBVIOUS
<1>2. Len(Append(s, Head(t)) \o Tail(t)) = Len(s \o t)
  OBVIOUS
<1>3. ASSUME NEW i \in 1..Len(s \o t) PROVE (Append(s, Head(t)) \o Tail(t))[i] = (s \o t)[i]
  <2>1. CASE i <= Len(s)
    BY <2>1
  <2>2. CASE i = Len(s) + 1
    BY <2>2
  <2>3. CASE i > Len(s) + 1
    BY <2>3
  <2>4. QED
    BY <2>1, <2>2, <2>3
<1>4. QED
  BY <1>1, <1>2, <1>3, SeqEqual

(* The snapshot and the changes after it are a run up to the last one held. *)
LEMMA SnapshotRuns ==
  ASSUME NEW held \in Seq(Nat), NEW n \in Nat, NEW last \in Int, EndsAt(held, last), last - Len(held) <= n
  PROVE  LET news == Stream!Beyond(held, n)
             events == <<n>> \o news
         IN  /\ news \in Seq(Nat) /\ events \in Seq(Nat) /\ Len(events) >= 1 /\ Runs(events)
             /\ events[Len(events)] = (IF news = <<>> THEN n ELSE news[Len(news)])
             /\ last <= events[Len(events)] /\ (events[Len(events)] = last \/ events[Len(events)] = n)
<1> DEFINE news == Stream!Beyond(held, n)
           events == <<n>> \o news
<1>1. Len(held) \in Nat /\ \A i \in 1..Len(held) : held[i] \in Nat /\ held[i] = last - Len(held) + i
  BY DEF EndsAt
<1>2. PICK k \in 0..Len(held) :
        k = n - (last - Len(held)) \/ (k = Len(held) /\ k <= n - (last - Len(held)))
  <2>1. CASE n - (last - Len(held)) <= Len(held)
    <3>1. n - (last - Len(held)) \in 0..Len(held)
      BY <1>1, <2>1
    <3>2. QED
      BY <3>1
  <2>2. CASE n - (last - Len(held)) > Len(held)
    <3>1. Len(held) \in 0..Len(held) /\ Len(held) <= n - (last - Len(held))
      BY <1>1, <2>2
    <3>2. QED
      BY <3>1
  <2>3. QED
    BY <1>1, <2>1, <2>2
<1>3. \A i \in 1..Len(held) : held[i] <= n <=> i <= k
  BY <1>1, <1>2
<1>4. PICK known \in SUBSET Int : known = {0} \cup {i \in 1..Len(held) : held[i] <= n}
  <2>1. {0} \cup {i \in 1..Len(held) : held[i] <= n} \in SUBSET Int
    BY <1>1
  <2>2. QED
    BY <2>1
<1>5. known = 0..k
  BY <1>1, <1>2, <1>3, <1>4
<1>6. Stream!Max(known) = k
  <2>1. k \in known /\ \A i \in known : k >= i
    BY <1>2, <1>5
  <2>2. \A m \in known : (\A i \in known : m >= i) => m = k
    BY <1>2, <1>5
  <2>3. QED
    BY <2>1, <2>2 DEF Stream!Max
<1>7. news = SubSeq(held, 1 + k, Len(held))
  BY <1>4, <1>6 DEF Stream!Beyond
<1>8. /\ news \in Seq(Nat) /\ Len(news) = Len(held) - k
      /\ \A i \in 1..Len(news) : news[i] = last - Len(held) + k + i
  <2>1. news \in Seq(Nat) /\ Len(news) = Len(held) - k /\ \A i \in 1..Len(news) : news[i] = held[i + k]
    BY <1>1, <1>2, <1>7
  <2>2. \A i \in 1..Len(held) - k : i + k \in 1..Len(held)
    BY <1>1, <1>2
  <2>3. QED
    BY <1>1, <1>2, <2>1, <2>2
<1> HIDE DEF news
<1>9. events \in Seq(Nat) /\ Len(events) = 1 + Len(news) /\ events[1] = n /\ \A i \in 1..Len(news) : events[i + 1] = news[i]
  <2>1. <<n>> \in Seq(Nat) /\ Len(<<n>>) = 1 /\ <<n>>[1] = n
    OBVIOUS
  <2>2. Len(news) \in Nat
    BY <1>8
  <2>3. events \in Seq(Nat) /\ Len(events) = 1 + Len(news)
    BY <1>8, <2>1, ConcatProperties
  <2>4. events[1] = n
    BY <1>8, <2>1, <2>2
  <2>5. ASSUME NEW i \in 1..Len(news) PROVE events[i + 1] = news[i]
    BY <1>8, <2>1, <2>2, <2>5
  <2>6. QED
    BY <2>3, <2>4, <2>5
<1> HIDE DEF events
<1>10. CASE news = <<>>
  <2>1. Len(events) = 1 /\ Len(held) = k
    BY <1>1, <1>2, <1>8, <1>9, <1>10
  <2>2. last <= n
    BY <1>1, <1>2, <2>1
  <2>3. QED
    BY <1>8, <1>9, <1>10, <2>1, <2>2 DEF Runs, news, events
<1>11. CASE news # <<>>
  <2>1. Len(news) \in Nat /\ Len(news) >= 1
    BY <1>8, <1>11
  <2>2. k = n - (last - Len(held)) /\ n + Len(news) = last
    BY <1>1, <1>2, <1>8, <2>1
  <2>3. \A i \in 1..Len(news) : news[i] = n + i
    BY <1>1, <1>8, <2>1, <2>2
  <2>4. ASSUME NEW i \in 1..Len(events), i # 1 PROVE events[i] = n + i - 1
    <3>1. PICK j \in 1..Len(news) : i = j + 1
      <4>1. i - 1 \in 1..Len(news) /\ i = (i - 1) + 1
        BY <1>9, <2>1, <2>4
      <4>2. QED
        BY <4>1
    <3>2. events[j + 1] = n + j
      BY <1>9, <2>3, <3>1
    <3>3. QED
      BY <2>1, <3>1, <3>2
  <2>5. \A i \in 1..Len(events) : events[i] = n + i - 1
    <3>1. events[1] = n + 1 - 1
      BY <1>9
    <3>2. QED
      BY <2>4, <3>1
  <2>6. Runs(events) /\ events[Len(events)] = last /\ news[Len(news)] = last
    <3>1. Len(events) \in Nat
      BY <1>9
    <3>2. Runs(events)
      <4>1. ASSUME NEW i \in 1..Len(events) - 1 PROVE events[i + 1] = events[i] + 1
        <5>1. i \in 1..Len(events) /\ i + 1 \in 1..Len(events)
          BY <3>1
        <5>2. events[i] = n + i - 1 /\ events[i + 1] = n + (i + 1) - 1
          BY <2>5, <5>1
        <5>3. QED
          BY <5>1, <5>2
      <4>2. QED
        BY <4>1 DEF Runs
    <3>3. Len(events) \in 1..Len(events) /\ Len(news) \in 1..Len(news)
      BY <1>9, <2>1
    <3>4. events[Len(events)] = last
      BY <1>9, <2>1, <2>2, <2>5, <3>3
    <3>5. news[Len(news)] = last
      BY <2>1, <2>2, <2>3, <3>3
    <3>6. QED
      BY <3>2, <3>4, <3>5
  <2>7. Len(events) >= 1 /\ last <= events[Len(events)]
    BY <1>9, <2>1, <2>6
  <2>8. QED
    BY <1>8, <1>9, <1>11, <2>6, <2>7 DEF news, events
<1>12. QED
  BY <1>10, <1>11 DEF news, events

Rest == <<published, channel, pending, sampled, sequence>>

(* Where nobody is told anything more and the hub does not move on, it is   *)
(* enough that a stream that goes on is still open.                         *)
LEMMA QuietKeeps ==
  ASSUME StreamInv, StreamShape', UNCHANGED Rest, Told' = Told,
         hub' = hub \/ hub' = "closed",
         hub' \in {"connecting", "listening"} => seen' = <<>> /\ socket' = <<>> /\ (aborted' \/ response' = "open"),
         hub' = "ready" => response' = "open" /\ ~aborted'
  PROVE  StreamInv'
  BY DEF StreamInv, Rest, HeldInOrder, ToldToTheEnd

LEMMA PublishKeeps == ASSUME StreamInv, Stream!Publish PROVE StreamInv'
<1>1. published' = published + 1 /\ UNCHANGED <<hub, pending, sampled, sequence, response, aborted, socket, seen>>
  BY DEF Stream!Publish
<1>2. published \in Nat /\ channel \in Seq(Nat) /\ Len(channel) \in Nat
  BY DEF StreamInv, StreamShape
<1>3. CASE hub \in {"listening", "ready"}
  <2>1. channel' = Append(channel, published + 1)
    BY <1>1, <1>3 DEF Stream!Publish
  <2>2. /\ channel' \in Seq(Nat) /\ Len(channel') = Len(channel) + 1 /\ channel'[Len(channel) + 1] = published + 1
        /\ \A i \in 1..Len(channel) : channel'[i] = channel[i]
    BY <1>2, <2>1
  <2>3. \A i \in 1..Len(channel) : channel[i] = published - Len(channel) + i
    BY <1>3 DEF StreamInv, EndsAt
  <2>4. ASSUME NEW i \in 1..Len(channel') PROVE channel'[i] = published' - Len(channel') + i
    <3>1. CASE i <= Len(channel)
      BY <1>1, <1>2, <2>2, <2>3, <3>1
    <3>2. CASE i = Len(channel) + 1
      BY <1>1, <1>2, <2>2, <3>2
    <3>3. QED
      BY <1>2, <2>2, <3>1, <3>2
  <2>5. published' - Len(channel') = published - Len(channel)
    BY <1>1, <1>2, <2>2
  <2>6. StreamShape'
    BY <1>1, <1>2, <2>2 DEF StreamInv, StreamShape
  <2>7. ASSUME hub = "listening" PROVE HeldInOrder'
    <3>1. HeldInOrder /\ (sampled = -1 \/ sampled \in Nat)
      BY <2>7 DEF StreamInv, StreamShape
    <3>2. EndsAt(pending, published - Len(channel))'
      BY <1>1, <2>5, <3>1 DEF HeldInOrder, EndsAt
    <3>3. sampled # -1 => published' - Len(channel') - Len(pending) <= sampled /\ sampled <= published'
      BY <1>1, <1>2, <2>5, <3>1 DEF HeldInOrder
    <3>4. QED
      BY <1>1, <3>2, <3>3 DEF HeldInOrder
  <2>8. ASSUME hub = "ready" PROVE ToldToTheEnd'
    <3>1. ToldToTheEnd /\ sequence \in Int
      BY <2>8 DEF StreamInv, StreamShape
    <3>2. Told' = Told
      BY <1>1 DEF Told
    <3>3. published' - Len(channel') <= sequence /\ sequence <= published'
      BY <1>1, <1>2, <2>5, <3>1 DEF ToldToTheEnd
    <3>4. QED
      BY <1>1, <3>1, <3>2, <3>3 DEF ToldToTheEnd
  <2>9. QED
    BY <1>1, <1>3, <2>4, <2>6, <2>7, <2>8 DEF StreamInv, EndsAt, Told
<1>4. CASE hub \notin {"listening", "ready"}
  BY <1>1, <1>2, <1>4 DEF Stream!Publish, StreamInv, StreamShape, Told
<1>5. QED
  BY <1>3, <1>4

LEMMA OpenKeeps == ASSUME StreamInv, Stream!Open PROVE StreamInv'
<1>1. /\ hub' = "connecting" /\ response' = "open" /\ aborted' = FALSE /\ seen' = <<>> /\ socket' = <<>>
      /\ channel' = <<>> /\ pending' = <<>> /\ sampled' = -1 /\ sequence' = -1 /\ published' = published
  BY DEF Stream!Open
<1>2. StreamShape'
  <2>1. channel' \in Seq(Nat) /\ pending' \in Seq(Nat) /\ socket' \in Seq(Nat) /\ seen' \in Seq(Nat)
    BY <1>1
  <2>2. published' \in Nat /\ aborted' \in BOOLEAN
    BY <1>1 DEF StreamInv, StreamShape
  <2>3. QED
    BY <1>1, <2>1, <2>2 DEF StreamShape
<1>3. Len(Told') = 0
  BY <1>1 DEF Told
<1>4. QED
  BY <1>1, <1>2, <1>3 DEF StreamInv, Runs

LEMMA ListenKeeps == ASSUME StreamInv, Stream!Listen PROVE StreamInv'
<1>1. /\ hub = "connecting" /\ hub' = "listening"
      /\ UNCHANGED <<published, channel, pending, sampled, sequence, response, aborted, socket, seen>>
  BY DEF Stream!Listen
<1>2. channel = <<>> /\ pending = <<>> /\ sampled = -1
  BY <1>1 DEF StreamInv
<1>3. QED
  BY <1>1, <1>2 DEF StreamInv, StreamShape, HeldInOrder, EndsAt, Told

LEMMA ReadSequenceKeeps == ASSUME StreamInv, Stream!ReadSequence PROVE StreamInv'
<1>1. /\ hub = "listening" /\ sampled' = published
      /\ UNCHANGED <<published, hub, channel, pending, sequence, response, aborted, socket, seen>>
  BY DEF Stream!ReadSequence
<1>2. Len(channel) \in Nat /\ Len(pending) \in Nat /\ published \in Nat
  BY DEF StreamInv, StreamShape
<1>3. QED
  BY <1>1, <1>2 DEF StreamInv, StreamShape, HeldInOrder, Told

(* What is written is a beginning of what there is to write, all of it      *)
(* unless the reader is let go.                                             *)
LEMMA Written ==
  ASSUME StreamShape, NEW events \in Seq(Nat), events # <<>>, Stream!Send(events), response = "open", ~aborted
  PROVE  /\ \E m \in 1..Len(events) : socket' = socket \o SubSeq(events, 1, m) /\ (m < Len(events) => aborted')
         /\ response' \in {"open", "ended"} /\ aborted' \in BOOLEAN /\ (~aborted' => response' = "open")
<1> DEFINE room == {1, HighWater - Len(socket)}
           most == {Len(events), Stream!Max(room)}
<1>1. Len(socket) \in Nat /\ Len(events) \in Nat /\ Len(events) >= 1 /\ HighWater \in Nat
  BY PlatformAssumption DEF StreamShape
<1>2. PICK r \in Nat : r >= 1 /\ r >= HighWater - Len(socket) /\ r = Stream!Max(room)
  <2>1. PICK r \in room : \A x \in room : r >= x
    BY <1>1
  <2>2. Stream!Max(room) \in room /\ \A x \in room : Stream!Max(room) >= x
    BY <2>1 DEF Stream!Max
  <2>3. QED
    BY <1>1, <2>2
<1>3. PICK m \in 1..Len(events) : (m = Len(events) \/ m = r) /\ m = Stream!Min(most)
  <2>1. PICK n \in most : \A x \in most : n <= x
    BY <1>1, <1>2
  <2>2. Stream!Min(most) \in most /\ \A x \in most : Stream!Min(most) <= x
    BY <2>1 DEF Stream!Min
  <2> HIDE DEF room
  <2>3. QED
    BY <1>1, <1>2, <2>2
<1>4. Stream!Writable(events) = SubSeq(events, 1, m)
  BY <1>3 DEF Stream!Writable
<1>5. socket' = socket \o SubSeq(events, 1, m)
  BY <1>4 DEF Stream!Send
<1>6. Len(socket') = Len(socket) + m
  BY <1>1, <1>5 DEF StreamShape
<1>7. IF Len(socket') >= HighWater THEN response' = "ended" /\ aborted' = TRUE ELSE UNCHANGED <<response, aborted>>
  BY <1>4, <1>5 DEF Stream!Send
<1>8. m < Len(events) => Len(socket') >= HighWater
  BY <1>1, <1>2, <1>3, <1>6
<1>9. QED
  BY <1>5, <1>7, <1>8 DEF StreamShape

LEMMA NothingWritten ==
  ASSUME StreamShape, NEW events \in Seq(Nat), Stream!Send(events), aborted
  PROVE  socket' = socket /\ aborted' = TRUE /\ response' \in {"none", "open", "ended", "gone"}
<1>1. Stream!Writable(events) = <<>>
  BY DEF Stream!Writable
<1>2. socket \o <<>> = socket
  BY DEF StreamShape
<1>3. QED
  BY <1>1, <1>2 DEF Stream!Send, StreamShape

LEMMA ReadyKeeps == ASSUME StreamInv, Stream!Ready PROVE StreamInv'
<1> DEFINE news == Stream!Beyond(pending, sampled)
           events == <<sampled>> \o news
           last == published - Len(channel)
<1>1. /\ hub = "listening" /\ sampled # -1 /\ Stream!Send(events)
      /\ sequence' = (IF news = <<>> THEN sampled ELSE news[Len(news)])
      /\ hub' = (IF aborted' THEN "closed" ELSE "ready") /\ pending' = <<>>
      /\ UNCHANGED <<published, channel, sampled, seen>>
  BY DEF Stream!Ready, Stream!Last
<1>2. /\ StreamShape /\ HeldInOrder /\ EndsAt(channel, published)
      /\ seen = <<>> /\ socket = <<>> /\ (aborted \/ response = "open")
  BY <1>1 DEF StreamInv
<1>3. /\ published \in Nat /\ sampled \in Nat /\ pending \in Seq(Nat) /\ channel \in Seq(Nat) /\ Len(channel) \in Nat
      /\ Len(pending) \in Nat /\ last - Len(pending) <= sampled /\ sampled <= published /\ EndsAt(pending, last)
  BY <1>1, <1>2 DEF StreamShape, HeldInOrder
<1>4. last \in Int
  BY <1>3
<1> HIDE DEF last
<1>5. /\ news \in Seq(Nat) /\ events \in Seq(Nat) /\ Len(events) >= 1 /\ Runs(events)
      /\ events[Len(events)] = (IF news = <<>> THEN sampled ELSE news[Len(news)])
      /\ last <= events[Len(events)] /\ (events[Len(events)] = last \/ events[Len(events)] = sampled)
  BY <1>3, <1>4, SnapshotRuns
<1> HIDE DEF news, events
<1>6. sequence' = events[Len(events)] /\ sequence' \in Nat /\ last <= sequence' /\ sequence' <= published
  BY <1>1, <1>3, <1>4, <1>5 DEF last
<1>7. CASE aborted
  <2>1. socket' = socket /\ aborted' = TRUE /\ response' \in {"none", "open", "ended", "gone"}
    BY <1>1, <1>2, <1>5, <1>7, NothingWritten
  <2>2. StreamShape'
    BY <1>1, <1>2, <1>6, <2>1 DEF StreamShape
  <2>3. hub' = "closed" /\ Told' = Told
    BY <1>1, <2>1 DEF Told
  <2>4. QED
    BY <2>2, <2>3 DEF StreamInv
<1>8. CASE ~aborted
  <2>1. events # <<>> /\ Len(events) \in Nat
    BY <1>5
  <2>2. PICK m \in 1..Len(events) : socket' = socket \o SubSeq(events, 1, m) /\ (m < Len(events) => aborted')
    BY <1>1, <1>2, <1>5, <1>8, <2>1, Written
  <2>3. response' \in {"open", "ended"} /\ aborted' \in BOOLEAN /\ (~aborted' => response' = "open")
    BY <1>1, <1>2, <1>5, <1>8, <2>1, Written
  <2>4. /\ SubSeq(events, 1, m) \in Seq(Nat) /\ Runs(SubSeq(events, 1, m)) /\ Len(SubSeq(events, 1, m)) = m
        /\ SubSeq(events, 1, m)[m] = events[m]
    BY <1>5, <2>2, RunsBegin
  <2>5. socket' = SubSeq(events, 1, m) /\ Told' = SubSeq(events, 1, m)
    BY <1>1, <1>2, <2>2, <2>4 DEF Told
  <2>6. StreamShape'
    BY <1>1, <1>2, <1>6, <2>3, <2>4, <2>5 DEF StreamShape
  <2>7. Runs(Told')
    BY <2>4, <2>5
  <2>8. ASSUME ~aborted' PROVE ToldToTheEnd'
    <3>1. m = Len(events)
      BY <2>1, <2>2, <2>8
    <3>2. Told' # <<>> /\ Told'[Len(Told')] = sequence'
      BY <1>6, <2>1, <2>4, <2>5, <3>1
    <3>3. QED
      BY <1>1, <1>6, <2>3, <2>8, <3>2 DEF ToldToTheEnd, last
  <2>9. hub' \in {"closed", "ready"} /\ (hub' = "ready" => ~aborted')
    BY <1>1
  <2>10. EndsAt(channel', published')
    BY <1>1, <1>2
  <2>11. QED
    BY <2>6, <2>7, <2>8, <2>9, <2>10 DEF StreamInv
<1>9. QED
  BY <1>7, <1>8

(* A message leaves the channel.  *)
LEMMA Taken ==
  ASSUME StreamInv, channel # <<>>, hub \in {"listening", "ready"}, channel' = Tail(channel), published' = published
  PROVE  /\ channel' \in Seq(Nat) /\ EndsAt(channel', published') /\ Len(channel') = Len(channel) - 1
         /\ Len(channel) \in Nat /\ Len(channel) >= 1 /\ published \in Nat
         /\ Head(channel) \in Nat /\ Head(channel) = published - Len(channel) + 1
<1>1. channel \in Seq(Nat) /\ published \in Nat /\ EndsAt(channel, published)
  BY DEF StreamInv, StreamShape
<1>2. Len(channel) \in Nat /\ Len(channel) >= 1 /\ Head(channel) = channel[1]
  BY <1>1
<1>3. channel' \in Seq(Nat) /\ Len(channel') = Len(channel) - 1 /\ \A i \in 1..Len(channel') : channel'[i] = channel[i + 1]
  BY <1>1, <1>2
<1>4. ASSUME NEW i \in 1..Len(channel') PROVE channel'[i] = published' - Len(channel') + i
  <2>1. i + 1 \in 1..Len(channel)
    BY <1>2, <1>3
  <2>2. channel[i + 1] = published - Len(channel) + (i + 1)
    BY <1>1, <2>1 DEF EndsAt
  <2>3. QED
    BY <1>1, <1>2, <1>3, <2>2
<1>5. QED
  BY <1>1, <1>2, <1>3, <1>4 DEF EndsAt

LEMMA DeliverKeeps == ASSUME StreamInv, Stream!Deliver PROVE StreamInv'
<1>1. channel # <<>> /\ channel' = Tail(channel) /\ UNCHANGED <<published, sampled, seen>>
  BY DEF Stream!Deliver
<1>2. StreamShape /\ channel' \in Seq(Nat)
  BY <1>1 DEF StreamInv, StreamShape
<1>3. CASE hub = "listening" /\ pending' = Append(pending, Head(channel)) /\ UNCHANGED <<hub, sequence, response, aborted, socket>>
  <2>1. /\ channel' \in Seq(Nat) /\ EndsAt(channel', published') /\ Len(channel') = Len(channel) - 1
        /\ Len(channel) \in Nat /\ Len(channel) >= 1 /\ published \in Nat
        /\ Head(channel) \in Nat /\ Head(channel) = published - Len(channel) + 1
    BY <1>1, <1>3, Taken
  <2>2. /\ pending' \in Seq(Nat) /\ Len(pending') = Len(pending) + 1 /\ Len(pending) \in Nat
        /\ pending'[Len(pending) + 1] = Head(channel) /\ \A i \in 1..Len(pending) : pending'[i] = pending[i]
    BY <1>2, <1>3, <2>1 DEF StreamShape
  <2>3. \A i \in 1..Len(pending) : pending[i] = published - Len(channel) - Len(pending) + i
    BY <1>3 DEF StreamInv, HeldInOrder, EndsAt
  <2>4. ASSUME NEW i \in 1..Len(pending') PROVE pending'[i] = published' - Len(channel') - Len(pending') + i
    <3>1. CASE i <= Len(pending)
      BY <1>1, <2>1, <2>2, <2>3, <3>1
    <3>2. CASE i = Len(pending) + 1
      BY <1>1, <2>1, <2>2, <3>2
    <3>3. QED
      BY <2>2, <3>1, <3>2
  <2>5. published' - Len(channel') - Len(pending') = published - Len(channel) - Len(pending)
    BY <1>1, <2>1, <2>2
  <2>6. HeldInOrder'
    BY <1>1, <1>3, <2>4, <2>5 DEF StreamInv, HeldInOrder, EndsAt
  <2>7. StreamShape'
    BY <1>1, <1>2, <1>3, <2>2 DEF StreamShape
  <2>8. QED
    BY <1>1, <1>3, <2>1, <2>6, <2>7 DEF StreamInv, Told
<1>4. CASE /\ hub = "listening" /\ hub' = "closed" /\ response' = IF response = "open" THEN "ended" ELSE response
           /\ UNCHANGED <<pending, sequence, aborted, socket>>
  BY <1>1, <1>2, <1>4 DEF StreamInv, StreamShape, Told
<1>5. CASE /\ hub = "ready" /\ Head(channel) > sequence /\ Stream!Send(<<Head(channel)>>) /\ sequence' = Head(channel)
           /\ hub' = (IF aborted' THEN "closed" ELSE hub) /\ UNCHANGED pending
  <2>1. /\ channel' \in Seq(Nat) /\ EndsAt(channel', published') /\ Len(channel') = Len(channel) - 1
        /\ Len(channel) \in Nat /\ Len(channel) >= 1 /\ published \in Nat
        /\ Head(channel) \in Nat /\ Head(channel) = published - Len(channel) + 1
    BY <1>1, <1>5, Taken
  <2>2. ToldToTheEnd /\ Runs(Told) /\ Told \in Seq(Nat)
    BY <1>2, <1>5 DEF StreamInv, StreamShape, Told
  <2>3. PICK n \in Nat : n = Head(channel)
    BY <2>1
  <2>4. sequence \in Int
    BY <1>2 DEF StreamShape
  <2>5. n = sequence + 1 /\ n = Told[Len(Told)] + 1
    BY <1>5, <2>1, <2>2, <2>3, <2>4 DEF ToldToTheEnd
  <2>6. Told \o <<n>> \in Seq(Nat) /\ Runs(Told \o <<n>>) /\ Told \o <<n>> # <<>> /\ (Told \o <<n>>)[Len(Told \o <<n>>)] = n
    BY <2>2, <2>5, RunGrows
  <2>7. <<n>> \in Seq(Nat) /\ <<n>> # <<>> /\ Len(<<n>>) = 1 /\ SubSeq(<<n>>, 1, 1) = <<n>>
    <3>1. <<n>> \in Seq(Nat) /\ <<n>> # <<>> /\ Len(<<n>>) = 1
      OBVIOUS
    <3>2. SubSeq(<<n>>, 1, 1) \in Seq(Nat) /\ Len(SubSeq(<<n>>, 1, 1)) = 1 /\ SubSeq(<<n>>, 1, 1)[1] = <<n>>[1]
      BY <3>1
    <3>3. \A i \in 1..1 : SubSeq(<<n>>, 1, 1)[i] = <<n>>[i]
      BY <3>2
    <3>4. QED
      BY <3>1, <3>2, <3>3, SeqEqual
  <2>8. /\ socket' = socket \o <<n>>
        /\ response' \in {"open", "ended"} /\ aborted' \in BOOLEAN /\ (~aborted' => response' = "open")
    <3>1. Stream!Send(<<n>>) /\ response = "open" /\ ~aborted
      BY <1>5, <2>2, <2>3 DEF ToldToTheEnd
    <3>2. PICK m \in 1..1 : socket' = socket \o SubSeq(<<n>>, 1, m)
      BY <1>2, <2>7, <3>1, Written
    <3>3. m = 1
      BY <3>2
    <3>4. QED
      BY <1>2, <2>7, <3>1, <3>2, <3>3, Written
  <2>9. Told' = Told \o <<n>>
    <3>1. seen \in Seq(Nat) /\ socket \in Seq(Nat) /\ Told' = seen \o (socket \o <<n>>)
      BY <1>1, <1>2, <2>8 DEF StreamShape, Told
    <3>2. (seen \o socket) \o <<n>> = seen \o (socket \o <<n>>)
      BY <2>7, <3>1, ConcatAssociative
    <3>3. QED
      BY <3>1, <3>2 DEF Told
  <2>10. socket' \in Seq(Nat)
    BY <1>2, <2>7, <2>8 DEF StreamShape
  <2>11. StreamShape'
    BY <1>1, <1>2, <1>5, <2>1, <2>8, <2>10 DEF StreamShape
  <2>12. ~aborted' => ToldToTheEnd'
    BY <1>1, <1>5, <2>1, <2>3, <2>6, <2>8, <2>9 DEF ToldToTheEnd
  <2>13. QED
    BY <1>5, <2>1, <2>6, <2>9, <2>11, <2>12 DEF StreamInv
<1>6. CASE /\ hub = "ready" /\ Head(channel) <= sequence
           /\ UNCHANGED <<hub, pending, sequence, response, aborted, socket>>
  <2>1. /\ channel' \in Seq(Nat) /\ EndsAt(channel', published') /\ Len(channel') = Len(channel) - 1
        /\ Len(channel) \in Nat /\ Len(channel) >= 1 /\ published \in Nat
        /\ Head(channel) \in Nat /\ Head(channel) = published - Len(channel) + 1
    BY <1>1, <1>6, Taken
  <2>2. sequence \in Int
    BY <1>2 DEF StreamShape
  <2>3. Told' = Told
    BY <1>1, <1>6 DEF Told
  <2>4. ToldToTheEnd'
    BY <1>1, <1>6, <2>1, <2>2, <2>3 DEF StreamInv, ToldToTheEnd
  <2>5. StreamShape'
    BY <1>1, <1>2, <1>6, <2>1 DEF StreamShape
  <2>6. QED
    BY <1>6, <2>1, <2>3, <2>4, <2>5 DEF StreamInv
<1>7. CASE hub = "closed" /\ UNCHANGED <<hub, pending, sequence, response, aborted, socket>>
  BY <1>1, <1>2, <1>7 DEF StreamInv, StreamShape, Told
<1>8. QED
  BY <1>3, <1>4, <1>5, <1>6, <1>7 DEF Stream!Deliver

LEMMA LoseKeeps == ASSUME StreamInv, Stream!Lose PROVE StreamInv'
  BY DEF Stream!Lose, StreamInv, StreamShape, Told

LEMMA LeaveKeeps == ASSUME StreamInv, Stream!Leave \/ Stream!Heartbeat PROVE StreamInv'
<1>1. CASE Stream!Heartbeat
  <2>1. StreamShape' /\ Told' = Told /\ UNCHANGED Rest
    BY <1>1 DEF Stream!Heartbeat, StreamInv, StreamShape, Told, Rest
  <2>2. Told # <<>>
    BY <1>1 DEF Stream!Heartbeat, Told
  <2>3. hub \notin {"connecting", "listening"}
    BY <2>2 DEF StreamInv, Told
  <2>4. QED
    BY <1>1, <2>1, <2>3, QuietKeeps DEF Stream!Heartbeat
<1>2. CASE Stream!Leave
  <2>1. StreamShape' /\ aborted' = TRUE /\ seen' = seen /\ socket' = <<>>
    BY <1>2 DEF Stream!Leave, StreamInv, StreamShape
  <2>2. CASE hub \in {"connecting", "listening"}
    BY <1>2, <2>1, <2>2 DEF Stream!Leave, StreamInv, HeldInOrder, Told
  <2>3. CASE hub \notin {"connecting", "listening"}
    <3>1. hub' \in {"none", "closed"}
      BY <1>2, <2>3 DEF Stream!Leave, StreamInv, StreamShape
    <3>2. Told \in Seq(Nat) /\ Told' = seen /\ seen \in Seq(Nat) /\ Len(seen) \in Nat /\ Len(Told) >= Len(seen)
          /\ \A i \in 1..Len(seen) : seen[i] = Told[i]
      BY <2>1 DEF Told, StreamInv, StreamShape
    <3>3. Runs(Told')
      <4>1. ASSUME NEW i \in 1..Len(seen) - 1 PROVE seen[i + 1] = seen[i] + 1
        <5>1. i \in 1..Len(seen) /\ i + 1 \in 1..Len(seen) /\ i \in 1..Len(Told) - 1 /\ Len(Told) \in Nat
          BY <3>2
        <5>2. Told[i + 1] = Told[i] + 1
          BY <5>1 DEF StreamInv, Runs
        <5>3. QED
          BY <3>2, <5>1, <5>2
      <4>2. QED
        BY <3>2, <4>1 DEF Runs
    <3>4. QED
      BY <2>1, <3>1, <3>3 DEF StreamInv
  <2>4. QED
    BY <2>2, <2>3
<1>3. QED
  BY <1>1, <1>2

LEMMA ReadKeepsTold == ASSUME StreamInv, Stream!Read PROVE StreamInv'
<1>1. /\ socket # <<>> /\ seen' = Append(seen, Head(socket)) /\ socket' = Tail(socket)
      /\ UNCHANGED <<published, hub, channel, pending, sampled, sequence, response, aborted>>
  BY DEF Stream!Read
<1>2. socket \in Seq(Nat) /\ seen \in Seq(Nat)
  BY DEF StreamInv, StreamShape
<1>3. Told' = Told
  BY <1>1, <1>2, ReadMoves DEF Told
<1>4. StreamShape'
  BY <1>1, <1>2 DEF StreamInv, StreamShape
<1>5. hub \notin {"connecting", "listening"}
  BY <1>1 DEF StreamInv
<1>6. hub = "ready" => response = "open" /\ ~aborted
  BY DEF StreamInv, ToldToTheEnd
<1>7. UNCHANGED Rest
  BY <1>1 DEF Rest
<1>8. QED
  BY <1>1, <1>3, <1>4, <1>5, <1>6, <1>7, QuietKeeps

LEMMA StreamStep == ASSUME StreamInv, Stream!Next PROVE StreamInv'
  BY PublishKeeps, OpenKeeps, ListenKeeps, ReadSequenceKeeps, ReadyKeeps, DeliverKeeps, LoseKeeps, LeaveKeeps, ReadKeepsTold
     DEF Stream!Next

LEMMA StreamAside == StreamInv /\ UNCHANGED ofStream => StreamInv'
  BY DEF ofStream, StreamInv, StreamShape, HeldInOrder, ToldToTheEnd, Told

LEMMA StreamPromises == StreamInv => Stream!NoGap
  BY DEF StreamInv, Runs, Told, Stream!NoGap

------------------------------------------------------------------------------
(* The engines' registry.  *)
Stage == {"idle", "routed", "waiting", "confirming", "admitted", "served", "refused"}
Routed == [at : Stage, version : Nat,
           kind : Registry!Kinds, last : BOOLEAN, holds : BOOLEAN]
Registration == [version : Nat, health : Registry!Health, applied : BOOLEAN, beat : {"none", "fresh", "stale"}]
RegistryInv == query \in [Query -> Routed] /\ registration \in Registration

LEMMA NotAskedIsRouted == Registry!NotAsked \in Routed /\ Registry!NotAsked.at = "idle"
  BY DEF Registry!NotAsked, Routed, Stage, Registry!Kinds

LEMMA RoutedMoves ==
  ASSUME NEW r \in Routed, NEW to \in Stage, NEW v \in Nat
  PROVE  [r EXCEPT !.at = to] \in Routed /\ [r EXCEPT !.at = to].at = to /\ [r EXCEPT !.version = v] \in Routed
  BY DEF Routed

LEMMA RoutedHolds ==
  ASSUME NEW r \in Routed, NEW to \in Stage, NEW held \in BOOLEAN
  PROVE  [r EXCEPT !.at = to, !.holds = held] \in Routed /\ [r EXCEPT !.at = to, !.holds = held].at = to
  BY DEF Routed

LEMMA RegistryInitially == Registry!Init => RegistryInv
<1>1. 1 \in Nat
  OBVIOUS
<1>2. QED
  BY <1>1, NotAskedIsRouted DEF Registry!Init, RegistryInv, Registration, Registry!Health

(* What a step of a query says of it: where it goes, and that an engine is  *)
(* served for it only as its registration stands.                           *)
Dispatches(q) ==
  query[q].at # "served" /\ query'[q].at = "served" =>
    Registry!IsFresh(query[q].version) /\ (reuse => Registry!Beating(query[q].version))

LEMMA MoveKeeps ==
  ASSUME RegistryInv, NEW q \in Query, NEW r \in Routed, query' = [query EXCEPT ![q] = r],
         r.at = "served" => Registry!IsFresh(query[q].version) /\ (reuse => Registry!Beating(query[q].version))
  PROVE  query' \in [Query -> Routed] /\ \A p \in Query : Dispatches(p)
<1>1. query \in [Query -> Routed]
  BY DEF RegistryInv
<1>2. query' \in [Query -> Routed]
  BY <1>1
<1>3. ASSUME NEW p \in Query PROVE Dispatches(p)
  BY <1>1 DEF Dispatches
<1>4. QED
  BY <1>2, <1>3

LEMMA AwaitsAre ==
  ASSUME RegistryInv, NEW q \in Query, NEW kind \in Registry!Kinds, NEW final \in BOOLEAN, Registry!Await(q, kind, final)
  PROVE  query' \in [Query -> Routed] /\ \A p \in Query : Dispatches(p)
<1>1. query \in [Query -> Routed]
  BY DEF RegistryInv
<1>2. PICK to \in {"refused", "waiting"} :
        query' = [query EXCEPT ![q].at = to, ![q].kind = kind, ![q].last = final, ![q].holds = FALSE]
  BY DEF Registry!Await
<1>3. query[q] \in Routed
  BY <1>1
<1>4. PICK r \in Routed : r = [query[q] EXCEPT !.at = to, !.kind = kind, !.last = final, !.holds = FALSE] /\ r.at = to
  <2>1. to \in Stage /\ 0 \in Nat /\ FALSE \in BOOLEAN
    BY DEF Stage
  <2>2. [query[q] EXCEPT !.at = to, !.kind = kind, !.last = final, !.holds = FALSE] \in Routed /\ [query[q] EXCEPT !.at = to, !.kind = kind, !.last = final, !.holds = FALSE].at = to
    BY <1>3, <2>1 DEF Routed
  <2>3. QED
    BY <2>2
<1>5. query' = [query EXCEPT ![q] = r]
  BY <1>1, <1>2, <1>4
<1>6. QED
  BY <1>4, <1>5, MoveKeeps

LEMMA MovesAre ==
  ASSUME RegistryInv, NEW q \in Query, NEW to \in Stage,
         Registry!Moved(q, to), to = "served" => Registry!IsFresh(query[q].version) /\ (reuse => Registry!Beating(query[q].version))
  PROVE  query' \in [Query -> Routed] /\ \A p \in Query : Dispatches(p)
<1>1. query[q] \in Routed /\ query \in [Query -> Routed]
  BY DEF RegistryInv
<1>2. PICK r \in Routed : r = [query[q] EXCEPT !.at = to] /\ r.at = to
  <2>1. "full" \in Registry!Kinds /\ 0 \in Nat /\ FALSE \in BOOLEAN
    BY DEF Registry!Kinds
  <2>2. [query[q] EXCEPT !.at = to] \in Routed /\ [query[q] EXCEPT !.at = to].at = to
    BY <1>1, <2>1, RoutedMoves
  <2>3. QED
    BY <2>2
<1>3. query' = [query EXCEPT ![q] = r]
  BY <1>1, <1>2 DEF Registry!Moved
<1>4. QED
  BY <1>2, <1>3, MoveKeeps

LEMMA RouteKeeps ==
  ASSUME RegistryInv, NEW q \in Query, Registry!Route(q) PROVE query' \in [Query -> Routed] /\ \A p \in Query : Dispatches(p)
<1>1. registration.version \in Nat
  BY DEF RegistryInv, Registration
<1>2. PICK b \in Routed : b = Registry!NotAsked
  BY NotAskedIsRouted
<1>3. PICK routed \in Routed : routed = [b EXCEPT !.version = registration.version]
  <2>1. "full" \in Registry!Kinds /\ "idle" \in Stage /\ FALSE \in BOOLEAN
    BY DEF Registry!Kinds, Stage
  <2>2. QED
    BY <1>1, <1>2, <2>1, RoutedMoves
<1>4. PICK to \in {"refused", "routed", "waiting"} : query' = [query EXCEPT ![q] = [routed EXCEPT !.at = to]]
  BY <1>2, <1>3 DEF Registry!Route
<1>5. PICK r \in Routed : r = [routed EXCEPT !.at = to] /\ r.at = to
  <2>1. "full" \in Registry!Kinds /\ to \in Stage /\ FALSE \in BOOLEAN
    BY DEF Registry!Kinds, Stage
  <2>2. [routed EXCEPT !.at = to] \in Routed /\ [routed EXCEPT !.at = to].at = to
    BY <1>1, <2>1, RoutedMoves
  <2>3. QED
    BY <2>2
<1>6. query' = [query EXCEPT ![q] = r]
  BY <1>4, <1>5
<1>7. QED
  BY <1>5, <1>6, MoveKeeps

LEMMA AdmitKeeps ==
  ASSUME RegistryInv, NEW q \in Query, Registry!Admit(q) PROVE query' \in [Query -> Routed] /\ \A p \in Query : Dispatches(p)
<1>1. "full" \in Registry!Kinds /\ "health" \in Registry!Kinds
  BY DEF Registry!Kinds
<1>2. \/ Registry!Moved(q, "refused") \/ Registry!Moved(q, "admitted")
      \/ Registry!Await(q, "health", FALSE) \/ Registry!Await(q, "full", FALSE)
  BY DEF Registry!Admit
<1>3. QED
  BY <1>1, <1>2, MovesAre, AwaitsAre DEF Stage

LEMMA ConfirmKeeps ==
  ASSUME RegistryInv, NEW q \in Query, Registry!Confirm(q) PROVE query' \in [Query -> Routed] /\ \A p \in Query : Dispatches(p)
<1>1. CASE Registry!Moved(q, "refused")
  BY <1>1, MovesAre DEF Stage
<1>2. CASE ~Registry!Moved(q, "refused")
  <2>1. PICK held \in BOOLEAN : query' = [query EXCEPT ![q].at = "admitted", ![q].holds = held]
    BY <1>2 DEF Registry!Confirm
  <2>2. query[q] \in Routed /\ query \in [Query -> Routed]
    BY DEF RegistryInv
  <2>3. PICK r \in Routed : r = [query[q] EXCEPT !.at = "admitted", !.holds = held] /\ r.at = "admitted"
    <3>1. "full" \in Registry!Kinds /\ "admitted" \in Stage /\ 0 \in Nat
      BY DEF Registry!Kinds, Stage
    <3>2. [query[q] EXCEPT !.at = "admitted", !.holds = held] \in Routed /\ [query[q] EXCEPT !.at = "admitted", !.holds = held].at = "admitted"
      BY <2>2, <3>1, RoutedHolds
    <3>3. QED
      BY <3>2
  <2>4. query' = [query EXCEPT ![q] = r]
    BY <2>1, <2>2, <2>3
  <2>5. QED
    BY <2>3, <2>4, MoveKeeps
<1>3. QED
  BY <1>1, <1>2

LEMMA DispatchKeeps ==
  ASSUME RegistryInv, NEW q \in Query, Registry!Dispatch(q) \/ Registry!DispatchConfirmed(q)
  PROVE  query' \in [Query -> Routed] /\ \A p \in Query : Dispatches(p)
<1>1. "health" \in Registry!Kinds
  BY DEF Registry!Kinds
<1>2. \/ Registry!Moved(q, "refused")
      \/ Registry!Moved(q, "served") /\ Registry!IsFresh(query[q].version) /\ (reuse => Registry!Beating(query[q].version))
      \/ Registry!Await(q, "health", TRUE)
  BY DEF Registry!Dispatch, Registry!DispatchConfirmed, Registry!Served, Registry!Rechecks
<1>3. QED
  BY <1>1, <1>2, MovesAre, AwaitsAre DEF Stage

LEMMA AgainKeeps ==
  ASSUME RegistryInv, NEW q \in Query, Registry!Again(q) PROVE query' \in [Query -> Routed] /\ \A p \in Query : Dispatches(p)
<1>1. PICK r \in Routed : r = Registry!NotAsked /\ r.at = "idle"
  BY NotAskedIsRouted
<1>2. query' = [query EXCEPT ![q] = r]
  BY <1>1 DEF Registry!Again
<1>3. QED
  BY <1>1, <1>2, MoveKeeps

(* An observation that is withdrawn moves nobody.                           *)
LEMMA WithdrawalKeeps ==
  ASSUME RegistryInv, NEW v \in Registry!Version, Registry!Withdrawn(v)
  PROVE  query' \in [Query -> Routed] /\ \A p \in Query : Dispatches(p)
<1> DEFINE held(p) == query[p].holds /\ query[p].version # v
<1>1. query \in [Query -> Routed]
  BY DEF RegistryInv
<1>2. query' = [p \in Query |-> [query[p] EXCEPT !.holds = held(p)]]
  BY DEF Registry!Withdrawn
<1>3. ASSUME NEW p \in Query PROVE query'[p] \in Routed /\ query'[p].at = query[p].at
  <2>1. query[p] \in Routed
    BY <1>1
  <2>2. PICK h \in BOOLEAN : h = held(p)
    BY <2>1 DEF Routed
  <2>3. query'[p] = [query[p] EXCEPT !.holds = h]
    BY <1>2, <2>2
  <2>4. QED
    BY <2>1, <2>3 DEF Routed
<1>4. query' = [p \in Query |-> query'[p]]
  BY <1>2
<1>5. QED
  BY <1>3, <1>4 DEF Dispatches

(* A probe that ends moves whom it tells, and nobody to an engine.          *)
LEMMA ProbesKeep ==
  ASSUME RegistryInv, NEW v \in Registry!Version, NEW kind \in Registry!Kinds, Registry!ProbeStep(v, kind)
  PROVE  query' \in [Query -> Routed] /\ \A p \in Query : Dispatches(p)
<1>1. query \in [Query -> Routed]
  BY DEF RegistryInv
<1>2. CASE UNCHANGED query
  BY <1>1, <1>2 DEF Dispatches
<1>3. CASE Registry!Told(v, kind, FALSE)
  <2>1. /\ DOMAIN query' = Query
        /\ \A p \in Query : query'[p] = query[p] \/ query'[p] = [query[p] EXCEPT !.at = "refused"]
    BY <1>3 DEF Registry!Told
  <2>2. \A p \in Query : query'[p] \in Routed /\ (query'[p].at = query[p].at \/ query'[p].at = "refused")
    BY <1>1, <2>1 DEF Routed, Stage
  <2>3. query' = [p \in Query |-> query'[p]]
    BY <1>3 DEF Registry!Told
  <2>4. QED
    BY <2>2, <2>3 DEF Dispatches
<1>4. CASE Registry!Save(v, kind)
  <2> DEFINE outcome == CASE probe[<<v, kind>>] = "saving" -> "healthy" [] probe[<<v, kind>>] = "mismatch" -> "mismatch" [] OTHER -> "unavailable"
             well == Registry!Saves(v) /\ outcome = "healthy"
             told(p) == query[p].at = "waiting" /\ query[p].version = v /\ query[p].kind = kind
             to(p) == IF ~told(p) THEN query[p].at ELSE IF well THEN "confirming" ELSE "refused"
             held(p) == query[p].holds /\ query[p].version # v
  <2>1. query' = [p \in Query |-> [query[p] EXCEPT !.at = to(p), !.holds = held(p)]]
    BY <1>4 DEF Registry!Save
  <2>2. ASSUME NEW p \in Query PROVE query'[p] \in Routed /\ (query'[p].at = query[p].at \/ query'[p].at \in {"confirming", "refused"})
    <3>1. query[p] \in Routed /\ query[p].at \in Stage
      BY <1>1 DEF Routed
    <3>2. PICK a \in Stage :
            a = to(p) /\ (a = query[p].at \/ a \in {"confirming", "refused"})
      BY <3>1 DEF Stage
    <3>3. PICK h \in BOOLEAN : h = held(p)
      BY <3>1 DEF Routed
    <3>4. query'[p] = [query[p] EXCEPT !.at = a, !.holds = h]
      BY <2>1, <3>2, <3>3
    <3>5. QED
      BY <3>1, <3>2, <3>4 DEF Routed
  <2>3. query' = [p \in Query |-> query'[p]]
    BY <2>1
  <2>4. QED
    BY <2>2, <2>3 DEF Dispatches
<1>5. CASE Registry!Withdrawn(v)
  BY <1>5, WithdrawalKeeps
<1>6. QED
  BY <1>2, <1>3, <1>4, <1>5 DEF Registry!ProbeStep, Registry!Ask, Registry!RegisterEgress, Registry!Forget, Registry!ProbeFails

LEMMA OthersKeep ==
  ASSUME RegistryInv,
         \/ Registry!Verify \/ \E here \in BOOLEAN : Registry!Update(here)
         \/ \E v \in Registry!Version :
              Registry!Refresh(v) \/ Registry!Untrack(v) \/ Registry!Sweep(v) \/ Registry!ObservationAges(v)
         \/ Registry!VerifiedElsewhere \/ Registry!Heartbeat \/ Registry!AssignmentsChange \/ Registry!HeartbeatAges
         \/ Registry!EngineChanges
  PROVE  query' \in [Query -> Routed] /\ \A p \in Query : Dispatches(p)
<1>1. query \in [Query -> Routed]
  BY DEF RegistryInv
<1>2. CASE UNCHANGED query
  BY <1>1, <1>2 DEF Dispatches
<1>3. CASE query' = [q \in Query |-> [query[q] EXCEPT !.holds = FALSE]]
  <2>1. \A p \in Query : query'[p] \in Routed /\ query'[p].at = query[p].at
    BY <1>1, <1>3 DEF Routed
  <2>2. QED
    BY <1>3, <2>1 DEF Dispatches
<1>4. ASSUME NEW v \in Registry!Version, Registry!Withdrawn(v)
      PROVE  query' \in [Query -> Routed] /\ \A p \in Query : Dispatches(p)
  BY <1>4, WithdrawalKeeps
<1>5. QED
  BY <1>2, <1>3, <1>4 DEF Registry!Verify, Registry!Update, Registry!Refresh, Registry!Untrack, Registry!Sweep, Registry!ObservationAges,
     Registry!VerifiedElsewhere, Registry!Heartbeat, Registry!AssignmentsChange, Registry!HeartbeatAges, Registry!EngineChanges

LEMMA RowsKeep == ASSUME RegistryInv, Registry!Next PROVE registration' \in Registration
<1>1. registration \in Registration
  BY DEF RegistryInv
<1>2. CASE UNCHANGED registration
  BY <1>1, <1>2
<1>3. ASSUME NEW h \in Registry!Health, registration' = [registration EXCEPT !.health = h] PROVE registration' \in Registration
  BY <1>1, <1>3 DEF Registration
<1>4. ASSUME NEW v \in Registry!Version, NEW kind \in Registry!Kinds, Registry!Save(v, kind) PROVE registration' \in Registration
  <2> DEFINE h == CASE probe[<<v, kind>>] = "saving" -> "healthy" [] probe[<<v, kind>>] = "mismatch" -> "mismatch" [] OTHER -> "unavailable"
  <2>1. h \in Registry!Health
    BY DEF Registry!Health
  <2>2. UNCHANGED registration \/ registration' = [registration EXCEPT !.health = h]
    BY <1>4 DEF Registry!Save
  <2> HIDE DEF h
  <2>3. QED
    BY <1>2, <1>3, <2>1, <2>2
<1>5. ASSUME NEW here \in BOOLEAN, Registry!Update(here) PROVE registration' \in Registration
  <2>1. PICK v \in Nat : v = registration.version + 1
    BY <1>1 DEF Registration
  <2>2. "unverified" \in Registry!Health
    BY DEF Registry!Health
  <2>3. registration' = [registration EXCEPT !.version = v, !.health = "unverified"]
    BY <1>5, <2>1 DEF Registry!Update
  <2>4. QED
    BY <1>1, <2>2, <2>3 DEF Registration
<1>6. CASE Registry!VerifiedElsewhere \/ Registry!Heartbeat \/ Registry!AssignmentsChange \/ Registry!HeartbeatAges
  BY <1>1, <1>6 DEF Registry!VerifiedElsewhere, Registry!Heartbeat, Registry!AssignmentsChange, Registry!HeartbeatAges, Registry!Health, Registration
<1>7. QED
  BY <1>2, <1>4, <1>5, <1>6 DEF Registry!Next, Registry!ProbeStep, Registry!Ask, Registry!RegisterEgress, Registry!Forget,
     Registry!QueryStep, Registry!Route, Registry!Admit, Registry!Confirm, Registry!Dispatch, Registry!DispatchConfirmed, Registry!Again,
     Registry!Verify, Registry!Refresh, Registry!Untrack, Registry!Sweep, Registry!ObservationAges, Registry!EngineChanges

LEMMA QueriesMove == ASSUME RegistryInv, Registry!Next PROVE query' \in [Query -> Routed] /\ \A p \in Query : Dispatches(p)
  BY ProbesKeep, RouteKeeps, AdmitKeeps, ConfirmKeeps, DispatchKeeps, AgainKeeps, OthersKeep DEF Registry!Next, Registry!QueryStep

LEMMA RegistryStep == ASSUME RegistryInv, Registry!Next PROVE RegistryInv'
  BY QueriesMove, RowsKeep DEF RegistryInv

LEMMA RegistryAside == RegistryInv /\ UNCHANGED ofRegistry => RegistryInv'
  BY DEF ofRegistry, RegistryInv

------------------------------------------------------------------------------
PlatformInv == ProcessInv /\ SessionsInv /\ ReleaseInv /\ StreamInv /\ RegistryInv

LEMMA PlatformInitially == Init => PlatformInv
  BY ProcessInitially, SessionsInitially, ReleasesInitially, StreamInitially, RegistryInitially DEF Init, PlatformInv

LEMMA PlatformStep == PlatformInv /\ [Next]_vars => PlatformInv'
<1> SUFFICES ASSUME PlatformInv, [Next]_vars PROVE PlatformInv'
  OBVIOUS
<1>1. ProcessInv'
  BY ProcessStep, ProcessAside DEF PlatformInv, Next, vars
<1>2. SessionsInv'
  BY SessionsStep, SessionsAside DEF PlatformInv, Next, vars
<1>3. ReleaseInv'
  BY ReleasesStep, ReleasesAside DEF PlatformInv, Next, vars
<1>4. StreamInv'
  BY StreamStep, StreamAside DEF PlatformInv, Next, vars
<1>5. RegistryInv'
  BY RegistryStep, RegistryAside DEF PlatformInv, Next, vars
<1>6. QED
  BY <1>1, <1>2, <1>3, <1>4, <1>5 DEF PlatformInv

(* NoStreamHasAGap: for any number of grants, sessions, credentials,        *)
(* requests and jobs and any lengths of time, what a reader is told is a    *)
(* snapshot and then every change after it, a grant that can be redeemed    *)
(* has a key that verifies it, a session stays with the credential it was   *)
(* opened with, a query is run only for a request whose pool has allowed    *)
(* it, and a process serves only when it is ready and runs no job twice.    *)
THEOREM NoStreamHasAGap == Spec => []NoGap
<1>1. PlatformInv => NoGap
  BY ProcessPromises, SessionsPromise, ReleasesPromise, StreamPromises DEF PlatformInv, NoGap
<1>2. QED
  BY <1>1, PlatformInitially, PlatformStep, PTL DEF Spec

(* EachShareLeavesOnce: a grant's own share leaves at most once, for a live *)
(* grant of a good credential; a query reaches only the engine that was     *)
(* just observed under the registration of that moment; and a batch of      *)
(* reads never closes a session whose key is good, for any of each.         *)
THEOREM EachShareLeavesOnce == Spec => SharesLeaveOnce
<1>1. PlatformInv /\ [Next]_vars =>
        [\A g \in Grant : left'[g] # left[g] =>
           /\ left'[g] = 1 /\ "redeemed" \in grant_row'[g].events
           /\ "revoked" \notin grant_row[g].events /\ ~Releases!Expired(g) /\ claims[g].alias \notin credential]_(Releases!vars)
  BY ShareLeaves DEF PlatformInv, Next, vars, ofReleases, Releases!vars
<1>2. PlatformInv /\ [Next]_vars =>
        [\A q \in Query : query[q].at # "served" /\ query'[q].at = "served" =>
           /\ Registry!IsFresh(query[q].version)
           /\ reuse => Registry!Beating(query[q].version)]_(Registry!vars)
  BY QueriesMove DEF PlatformInv, Next, vars, ofRegistry, Registry!vars, Dispatches
<1>3. PlatformInv /\ [Next]_vars =>
        [\A s \in open : batch.at = "read" /\ batch' # batch /\ s \notin open' =>
           session_key[principal[s].of] # principal[s].version]_(Sessions!vars)
  BY GoodStayOpen DEF PlatformInv, Next, vars, ofSessions, Sessions!vars
<1>4. QED
  BY <1>1, <1>2, <1>3, PlatformInitially, PlatformStep, PTL
     DEF Spec, SharesLeaveOnce, Releases!ShareLeavesOnce, Registry!DispatchedIsCurrent, Sessions!GoodSessionsSurvive
==============================================================================
