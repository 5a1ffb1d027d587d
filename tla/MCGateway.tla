------------------------------ MODULE MCGateway ------------------------------
(* The gateway's modules whose properties are of every state or step.  They *)
(* share no state: a behaviour is one of one part, chosen as it begins,     *)
(* while the variables of the others keep their first value.                *)
EXTENDS Integers, FiniteSets, Sequences, FiniteSetTheorems, SequenceTheorems,
        NaturalsInduction, WellFoundedInduction, TLAPS

CONSTANTS
  Source, Build, QueryChanges, DecidedPool, Decided, Rule, Treatment, Suits,
  Handler, Key, MaxVersion, Undecided, Absent, Agent, PoolCredential, Request,
  MaxPoolKeys, KeyTime, Grace, ReceiptLife, IdleTime, Stale, Gone, RequestChanges, Process,
  Ceiling, Budget, MaxRevisions, AuthzTime, Runs, EvidenceTime, PageSize,
  ExportChanges, Migration, Runner, MaxRuns, Scope, Branch, Statements,
  Gateway, MaxRefused, MaxCodes, MaxWork, MaxUpsets

VARIABLES
  part,
  policy_version, bound_sources, ready, build, disturbed, tool, reach,
  candidate, pc, snapshot, seen, plan, custody, refusal, progress, contacted,
  ran, usage, rows, shares, record, told_agent,
  decision, version, bearer, custodyUp, rules, older, receipt, delivered,
  handling, bulk, asked, reader,
  now, credential, pool_key, key_receipt, origin, shown, named, presence, signal,
  listed,
  http_request, http_step, session, held, actor, viewed, allowed, handled,
  http_status, request_changes,
  graph_schema, schema_loader, schema_found, graph, up, authz_time, cached,
  check, write, own, overlapped, authz_answer,
  evidence_time, at, text, policy, scan, permit, export_made, download, after,
  page, last, sent, outcome, owed, export_changes,
  files, ledger, effect, run, runs,
  holder, tx, role, tuned, previous, chain, step, scope_at, to_ask, state, drain, ended,
  outside, spilled,
  engine, volume, listener, claiming, package, command, backups, undone,
  upsets

Queries == INSTANCE QueryPath WITH
  MaxChanges <- QueryChanges, changes <- disturbed, answer <- told_agent,
  policy <- policy_version, bound <- bound_sources
Decisions == INSTANCE PolicyDecisions WITH Element <- Decided, Pool <- DecidedPool
Keys == INSTANCE PoolKeys WITH
  None <- Absent, Idle <- IdleTime, MaxKeys <- MaxPoolKeys, MaxTime <-
  KeyTime, Credential <- PoolCredential, key <- pool_key, receipt <-
  key_receipt, row <- presence
Requests == INSTANCE HttpRequest WITH
  MaxChanges <- RequestChanges, changes <- request_changes, request <-
  http_request, pc <- http_step, status <- http_status
Snapshots == INSTANCE AuthzSnapshots WITH
  MaxTime <- AuthzTime, schema <- graph_schema, loader <- schema_loader, ready
  <- schema_found, snapshot <- cached, answer <- authz_answer, now <-
  authz_time
Exports == INSTANCE EvidenceExport WITH
  MaxTime <- EvidenceTime, MaxChanges <- ExportChanges, now <- evidence_time,
  changes <- export_changes, made <- export_made
Schema == INSTANCE Migrations WITH Version <- Migration
Scopes == INSTANCE DatabaseScope WITH pc <- scope_at, left <- to_ask
Pairing == INSTANCE PackagePairing WITH
  None <- Absent, claim <- claiming, gateway <- package, job <- command

ofQueries ==
  <<policy_version, bound_sources, ready, build, disturbed, tool, reach, candidate, pc,
    snapshot, seen, plan, custody, refusal, progress, contacted, ran, usage, rows, shares,
    record, told_agent>>
ofDecisions ==
  <<decision, version, bearer, custodyUp, rules, older, receipt, delivered, handling,
    bulk, asked, reader>>
ofKeys == <<now, credential, pool_key, key_receipt, origin, shown, named, presence, signal, listed>>
ofRequests ==
  <<http_request, http_step, session, held, actor, viewed, allowed, handled, http_status,
    request_changes>>
ofSnapshots ==
  <<graph_schema, schema_loader, schema_found, graph, up, authz_time, cached, check,
    write, own, overlapped, authz_answer>>
ofExports ==
  <<evidence_time, at, text, policy, scan, permit, export_made, download, after, page,
    last, sent, outcome, owed, export_changes>>
ofSchema == <<files, ledger, effect, run, runs>>
ofScopes ==
  <<holder, tx, role, tuned, previous, chain, step, scope_at, to_ask, state, drain, ended, outside,
    spilled>>
ofPairing == <<engine, volume, listener, claiming, package, command, backups, undone, upsets>>
vars == <<part, ofQueries, ofDecisions, ofKeys, ofRequests, ofSnapshots, ofExports, ofSchema, ofScopes, ofPairing>>

Init ==
  /\ part \in {"query", "decisions", "keys", "request", "snapshots", "export", "schema", "scope", "pairing"}
  /\ ready \in IF part = "query" THEN {{}, {CHOOSE s \in Source : TRUE}, Source} ELSE {{}}
  /\ build = CHOOSE b \in Build : TRUE
  /\ Queries!Init
  /\ part # "query" => tool = "query"
  /\ Decisions!Init
  /\ Keys!Init
  /\ Requests!Init
  /\ part # "request" => /\ http_request = CHOOSE r \in Requests!Requests : TRUE
                         /\ session = FALSE /\ held = {}
  /\ Snapshots!Init
  /\ part # "snapshots" => graph_schema = FALSE
  /\ Exports!Init
  /\ Schema!Init
  /\ part # "schema" => files = [v \in Migration |-> 1]
  /\ Scopes!Init
  /\ Pairing!Init

Next ==
  \/ part = "query" /\ Queries!Next
     /\ UNCHANGED <<part, ofDecisions, ofKeys, ofRequests, ofSnapshots, ofExports, ofSchema, ofScopes, ofPairing>>
  \/ part = "decisions" /\ Decisions!Next
     /\ UNCHANGED <<part, ofQueries, ofKeys, ofRequests, ofSnapshots, ofExports, ofSchema, ofScopes, ofPairing>>
  \/ part = "keys" /\ Keys!Next
     /\ UNCHANGED <<part, ofQueries, ofDecisions, ofRequests, ofSnapshots, ofExports, ofSchema, ofScopes, ofPairing>>
  \/ part = "request" /\ Requests!Next
     /\ UNCHANGED <<part, ofQueries, ofDecisions, ofKeys, ofSnapshots, ofExports, ofSchema, ofScopes, ofPairing>>
  \/ part = "snapshots" /\ Snapshots!Next
     /\ UNCHANGED <<part, ofQueries, ofDecisions, ofKeys, ofRequests, ofExports, ofSchema, ofScopes, ofPairing>>
  \/ part = "export" /\ Exports!Next
     /\ UNCHANGED <<part, ofQueries, ofDecisions, ofKeys, ofRequests, ofSnapshots, ofSchema, ofScopes, ofPairing>>
  \/ part = "schema" /\ Schema!Next
     /\ UNCHANGED <<part, ofQueries, ofDecisions, ofKeys, ofRequests, ofSnapshots, ofExports, ofScopes, ofPairing>>
  \/ part = "scope" /\ Scopes!Next
     /\ UNCHANGED <<part, ofQueries, ofDecisions, ofKeys, ofRequests, ofSnapshots, ofExports, ofSchema, ofPairing>>
  \/ part = "pairing" /\ Pairing!Next
     /\ UNCHANGED <<part, ofQueries, ofDecisions, ofKeys, ofRequests, ofSnapshots, ofExports, ofSchema, ofScopes>>

Spec == Init /\ [][Next]_vars

\* Two rules about the first element; custody suits it, and not the second.
Rules == {[treatment |-> "clear", priority |-> 1, matches |-> {1}], [treatment |-> "custody", priority |-> 2, matches |-> {1}]}
Fit == {<<1, "clear">>, <<1, "custody">>, <<2, "clear">>}

------------------------------------------------------------------------------
(* A query is recorded as it went, a dry run reads nothing, the agent is told *)
(* what happened, and no share or refused join goes unrecorded (QueryPath).   *)
QueriesAreRecorded ==
  /\ Queries!RecordsAreTrue /\ Queries!AgentIsToldTheTruth /\ Queries!NoShareWithoutRecord
  /\ Queries!DryRunsAreDry /\ Queries!JoinRefusalsAreKept /\ Queries!NothingUnboundIsReached

(* A revocation names everybody the key was used by, and a request repeated  *)
(* while its receipt lasts makes no second key; a package is bound by its    *)
(* peer; custody is decided only where it can be bound (PoolKeys,            *)
(* PackagePairing, PolicyDecisions).                                         *)
CredentialsAreEarned ==
  /\ Keys!RevocationNamesAll /\ Keys!OneKeyPerRequest
  /\ Pairing!TrustIsMutual /\ Pairing!SecretsStay
  /\ Decisions!CustodyIsBound

(* Only those who may see an object learn that it exists, and a permission   *)
(* kept in memory is fresh or refused (HttpRequest, AuthzSnapshots).         *)
OnlyTheEntitledLearn == Requests!OnlyTheEntitledLearn /\ Snapshots!FreshOrRefused

(* What is there is told as it is: an export that ends is whole, the ledger  *)
(* tells the schema, a statement runs under its own settings and inside its  *)
(* transaction (EvidenceExport, Migrations, DatabaseScope).                  *)
NothingIsLost ==
  /\ Exports!CompleteMeansWhole /\ Schema!LedgerTellsTheSchema /\ Snapshots!LoadedIsThere
  /\ Scopes!SettingsStayTheirOwn /\ Scopes!AskedInTimeRunsInside

(* No step changes what a person decided, and a prepared policy is the       *)
(* current one (PolicyDecisions).                                            *)
DecidedByAPersonStays == Decisions!DecidedByAPersonStays /\ Decisions!PreparedIsCurrent

(* No step lets a peer go unasked, restores a mixture or redacts under no    *)
(* policy, and a sweep changes nothing a reader sees (PackagePairing,        *)
(* EvidenceExport, PoolKeys).                                                *)
StepsKeepFaith ==
  /\ Pairing!PeerStays /\ Pairing!RestoredIsWhole
  /\ Exports!DestroyedUnderPolicy /\ Keys!SweepsAreInvisible

(* Lengths of time and the bounds on keys and pages are numbers; runs and   *)
(* migrations are numbered, the migrations finitely many; a scope has some  *)
(* branches and is not nobody.                                              *)
ASSUME GatewayAssumption ==
  /\ Stale \in Nat /\ Gone \in Nat /\ IdleTime \in Nat /\ Grace \in Nat /\ ReceiptLife \in Nat
  /\ KeyTime \in Nat /\ MaxPoolKeys \in Nat
  /\ PageSize \in Nat \ {0} /\ Runs \subseteq Nat /\ Migration \subseteq Nat /\ IsFiniteSet(Migration)
  /\ IsFiniteSet(Branch) /\ Branch # {} /\ "nobody" \notin Scope

(* What stands for nothing is no gateway, no state and no receipt.          *)
ASSUME AbsentAssumption ==
  /\ Absent \notin Gateway
  /\ Absent \notin {"live", "revoked", "current", "retiring", "expired", "connecting", "active", "idle", "stale",
                    "disconnected", "connect", "request", "heartbeat"}
  /\ Absent \notin [command : Keys!Command, key : Nat, until : Nat]

------------------------------------------------------------------------------
(* Proofs.  Each part has an invariant of its own; a step of the            *)
(* composition is a step of one part and leaves the others alone.           *)

(* One request: what each step of the server has established before it.     *)
Guarded == http_request.route.permission \in Requests!Permissions

RequestInv ==
  /\ http_request.route.permission \in {"public", "authenticated", "view", "act"}
  /\ held \subseteq Requests!Permissions /\ actor \in BOOLEAN /\ viewed \in BOOLEAN /\ allowed \in BOOLEAN /\ handled \in BOOLEAN
  /\ http_step \in {"ingress", "route", "body", "actor", "view", "permission", "handle"} => ~handled /\ http_status = 0
  /\ http_step \in {"ingress", "route", "body", "actor", "view", "permission", "handle", "done"}
  /\ http_step = "actor" => http_request.route.permission # "public"
  /\ http_step \in {"view", "permission"} => actor /\ Guarded
  /\ http_step = "permission" => viewed
  /\ http_step = "handle" => /\ http_request.route.permission = "public" \/ actor
                             /\ Guarded => viewed /\ allowed
  /\ Requests!OnlyTheEntitledLearn

LEMMA RequestInitially == Requests!Init => RequestInv
<1> SUFFICES ASSUME Requests!Init PROVE RequestInv
  OBVIOUS
<1>1. http_request.route.permission \in {"public", "authenticated", "view", "act"}
  BY DEF Requests!Init, Requests!Requests, Requests!Routes
<1>2. Requests!OnlyTheEntitledLearn
  BY DEF Requests!Init, Requests!OnlyTheEntitledLearn
<1>3. QED
  BY <1>1, <1>2 DEF Requests!Init, RequestInv

LEMMA RequestStep ==
  ASSUME RequestInv, Requests!Next
  PROVE  RequestInv'
<1> USE DEF RequestInv, Requests!OnlyTheEntitledLearn, Requests!Permissions, Guarded, Requests!Answer,
        Requests!Goto, Requests!Keep
<1>1. CASE Requests!Change
  <2>1. UNCHANGED <<http_request, http_step, actor, viewed, allowed, handled, http_status>>
    BY <1>1 DEF Requests!Change
  <2>2. held' \subseteq Requests!Permissions
    BY <1>1 DEF Requests!Change
  <2>3. QED
    BY <2>1, <2>2
<1>2. CASE Requests!AcceptIngress
  BY <1>2 DEF Requests!AcceptIngress
<1>3. CASE Requests!RouteMatch
  BY <1>3 DEF Requests!RouteMatch
<1>4. CASE Requests!ReadBody
  BY <1>4 DEF Requests!ReadBody
<1>5. CASE Requests!Authenticate
  <2>1. CASE Requests!Known
    <3>1. actor' = TRUE /\ http_status' = http_status
      BY <1>5, <2>1 DEF Requests!Authenticate
    <3>2. http_step' = (IF http_request.route.permission = "authenticated" THEN "handle" ELSE "view")
      BY <1>5, <2>1 DEF Requests!Authenticate
    <3>3. UNCHANGED <<http_request, session, held, viewed, allowed, handled>>
      BY <1>5 DEF Requests!Authenticate
    <3>4. http_step = "actor"
      BY <1>5 DEF Requests!Authenticate
    <3>5. QED
      BY <3>1, <3>2, <3>3, <3>4
  <2>2. CASE ~Requests!Known
    <3>1. actor' = FALSE /\ http_status' = 401 /\ http_step' = "done"
      BY <1>5, <2>2 DEF Requests!Authenticate
    <3>2. UNCHANGED <<http_request, session, held, viewed, allowed, handled>>
      BY <1>5 DEF Requests!Authenticate
    <3>3. http_step = "actor"
      BY <1>5 DEF Requests!Authenticate
    <3>4. QED
      BY <3>1, <3>2, <3>3
  <2>3. QED
    BY <2>1, <2>2
<1>6. CASE Requests!CheckView
  BY <1>6 DEF Requests!CheckView
<1>7. CASE Requests!CheckPermission
  BY <1>7 DEF Requests!CheckPermission
<1>8. CASE Requests!CheckFails
  BY <1>8 DEF Requests!CheckFails
<1>9. CASE Requests!Handle
  BY <1>9 DEF Requests!Handle
<1>10. QED
  BY <1>1, <1>2, <1>3, <1>4, <1>5, <1>6, <1>7, <1>8, <1>9 DEF Requests!Next

LEMMA RequestAside ==
  ASSUME RequestInv, UNCHANGED ofRequests
  PROVE  RequestInv'
BY DEF RequestInv, ofRequests, Requests!OnlyTheEntitledLearn, Requests!Permissions, Guarded
-----------------------------------------------------------------------------
(* The checks of one question.  What a process keeps is at least as new as  *)
(* its own last answered write, unless a check overlapped that write.       *)
Kept == [revision : Nat \ {0}, allowed : BOOLEAN, at : Int]
Sent == [revision : {1}, kept : Kept \cup {Snapshots!None}, many : BOOLEAN, at : Int, began : Nat, after : Nat,
         calm : BOOLEAN]
Given == [revision : Nat \ {0}, allowed : BOOLEAN, live : BOOLEAN, age : Int, after : Nat, began : Nat, calm : BOOLEAN]
Excused(a) ==
  /\ a.live /\ a.calm => a.revision >= a.after
  /\ a.live => a.revision >= a.began
  /\ ~a.live /\ a.allowed => a.age <= Ceiling

SnapshotShape ==
  /\ graph \in Seq(BOOLEAN) /\ Len(graph) \in Nat \ {0} /\ authz_time \in Int
  /\ own \in [Process -> Nat] /\ write \in [Process -> Nat] /\ overlapped \in [Process -> BOOLEAN]
  /\ cached \in [Process -> Kept \cup {Snapshots!None}]
  /\ check \in [Process -> Sent \cup {Snapshots!None}]
  /\ authz_answer \in [Process -> Given \cup {Snapshots!None}]

Behind(p, n) ==
  /\ own[p] <= n /\ write[p] <= n
  /\ check[p] # Snapshots!None => check[p].after <= n /\ check[p].began <= n
KeptAfterOwn(p) ==
  /\ cached[p] # Snapshots!None /\ ~overlapped[p] => cached[p].revision >= own[p]
  /\ check[p] # Snapshots!None /\ ~overlapped[p] => check[p].after = own[p] /\ check[p].calm
SentAfterOwn(p) ==
  check[p] # Snapshots!None =>
    /\ check[p].calm /\ check[p].kept # Snapshots!None => check[p].kept.revision >= check[p].after
    /\ check[p].many => check[p].kept = Snapshots!None
AnsweredWell(p) == authz_answer[p] # Snapshots!None => Excused(authz_answer[p])

SnapshotInv ==
  /\ SnapshotShape
  /\ \A p \in Process : Behind(p, Len(graph)) /\ KeptAfterOwn(p) /\ SentAfterOwn(p) /\ AnsweredWell(p)

LEMMA SnapshotInitially == Snapshots!Init => SnapshotInv
<1> SUFFICES ASSUME Snapshots!Init PROVE SnapshotInv
  OBVIOUS
<1>1. graph = <<TRUE>> /\ Len(graph) = 1
  BY DEF Snapshots!Init
<1>2. own = [p \in Process |-> 0] /\ write = [p \in Process |-> 0] /\ overlapped = [p \in Process |-> FALSE]
  BY DEF Snapshots!Init
<1>3. /\ cached = [p \in Process |-> Snapshots!None] /\ check = [p \in Process |-> Snapshots!None]
      /\ authz_answer = [p \in Process |-> Snapshots!None]
  BY DEF Snapshots!Init
<1>4. authz_time = 0
  BY DEF Snapshots!Init
<1>5. SnapshotShape
  BY <1>1, <1>2, <1>3, <1>4 DEF SnapshotShape
<1>6. QED
  BY <1>1, <1>2, <1>3, <1>5 DEF SnapshotInv, Behind, KeptAfterOwn, SentAfterOwn, AnsweredWell

LEMMA NoneIsNoRecord ==
  /\ Snapshots!None \notin Kept /\ Snapshots!None \notin Sent /\ Snapshots!None \notin Given
BY DEF Snapshots!None, Kept, Sent, Given

LEMMA BeginKeeps ==
  ASSUME SnapshotInv, NEW p \in Process, NEW kept, NEW many \in BOOLEAN, kept = cached[p] \/ kept = Snapshots!None,
         many => kept = Snapshots!None, Snapshots!Begin(p, kept, many)
  PROVE  SnapshotInv'
<1> USE DEF SnapshotInv, SnapshotShape
<1> DEFINE c == [revision |-> 1, kept |-> kept, many |-> many, at |-> authz_time, began |-> Len(graph),
                 after |-> own[p], calm |-> ~overlapped[p]]
<1>1. c \in Sent /\ c.kept = kept /\ c.many = many /\ c.began = Len(graph) /\ c.after = own[p] /\ c.calm = ~overlapped[p]
  BY DEF Sent
<1> HIDE DEF c
<1>2. check' = [check EXCEPT ![p] = c]
  BY DEF Snapshots!Begin, Snapshots!Newest, c
<1>3. UNCHANGED <<graph, authz_time, cached, write, own, overlapped, authz_answer>>
  BY DEF Snapshots!Begin
<1>4. SnapshotShape'
  BY <1>1, <1>2, <1>3
<1>5. ASSUME NEW q \in Process PROVE Behind(q, Len(graph))' /\ KeptAfterOwn(q)' /\ SentAfterOwn(q)' /\ AnsweredWell(q)'
  <2>1. CASE q = p
    <3>1. check'[q] = c
      BY <1>2, <2>1
    <3>2. Behind(q, Len(graph))'
      BY <1>1, <1>3, <2>1, <3>1 DEF Behind
    <3>3. KeptAfterOwn(q)'
      BY <1>1, <1>3, <2>1, <3>1 DEF KeptAfterOwn
    <3>4. SentAfterOwn(q)'
      BY <1>1, <1>3, <2>1, <3>1 DEF SentAfterOwn, KeptAfterOwn
    <3>5. AnsweredWell(q)'
      BY <1>3 DEF AnsweredWell, Excused
    <3>6. QED
      BY <3>2, <3>3, <3>4, <3>5
  <2>2. CASE q # p
    BY <1>2, <1>3, <2>2 DEF Behind, KeptAfterOwn, SentAfterOwn, AnsweredWell, Excused
  <2>3. QED
    BY <2>1, <2>2
<1>6. QED
  BY <1>4, <1>5

LEMMA ReplyKeeps ==
  ASSUME SnapshotInv, NEW p \in Process, NEW a \in Given, Excused(a), check[p] # Snapshots!None,
         authz_answer' = [authz_answer EXCEPT ![p] = a], check' = [check EXCEPT ![p] = Snapshots!None],
         \/ UNCHANGED cached
         \/ \E k \in Kept : /\ cached' = [cached EXCEPT ![p] = k]
                            /\ ~overlapped[p] => k.revision >= own[p],
         UNCHANGED <<graph, authz_time, write, own, overlapped>>
  PROVE  SnapshotInv'
<1> USE DEF SnapshotInv, SnapshotShape
<1>1. SnapshotShape'
  OBVIOUS
<1>2. ASSUME NEW q \in Process PROVE Behind(q, Len(graph))' /\ KeptAfterOwn(q)' /\ SentAfterOwn(q)' /\ AnsweredWell(q)'
  <2>1. CASE q = p
    <3>1. check'[q] = Snapshots!None /\ authz_answer'[q] = a
      BY <2>1
    <3>2. cached'[q] = Snapshots!None \/ ~overlapped[q] => cached'[q].revision >= own[q] \/ cached'[q] = Snapshots!None
      BY <2>1 DEF KeptAfterOwn
    <3>3. QED
      BY <2>1, <3>1, <3>2 DEF Behind, KeptAfterOwn, SentAfterOwn, AnsweredWell, Excused
  <2>2. CASE q # p
    BY <2>2 DEF Behind, KeptAfterOwn, SentAfterOwn, AnsweredWell, Excused
  <2>3. QED
    BY <2>1, <2>2
<1>3. QED
  BY <1>1, <1>2

LEMMA AnsweredKeeps ==
  ASSUME SnapshotInv, NEW p \in Process, Snapshots!Answered(p)
  PROVE  SnapshotInv'
<1> USE DEF SnapshotInv, SnapshotShape
<1>1. check[p] # Snapshots!None /\ check[p] \in Sent
  BY DEF Snapshots!Answered
<1>2. PICK r \in 1..Len(graph) :
        /\ IF check[p].kept = Snapshots!None THEN r = Len(graph) ELSE r >= check[p].kept.revision
        /\ Snapshots!Reply(p, [revision |-> r, allowed |-> graph[r], live |-> TRUE, age |-> 0])
        /\ cached' = IF check[p].many THEN cached
                     ELSE [cached EXCEPT ![p] = [revision |-> r, allowed |-> graph[r], at |-> check[p].at]]
  BY DEF Snapshots!Answered, Snapshots!Newest
<1>3. graph[r] \in BOOLEAN /\ r \in Nat \ {0}
  BY <1>2
<1> DEFINE a == [revision |-> r, allowed |-> graph[r], live |-> TRUE, age |-> 0, after |-> check[p].after,
                 began |-> IF check[p].many THEN check[p].began ELSE 0, calm |-> check[p].calm]
           k == [revision |-> r, allowed |-> graph[r], at |-> check[p].at]
<1>4. check[p].calm \in BOOLEAN /\ check[p].many \in BOOLEAN /\ check[p].after \in Nat /\ check[p].began \in Nat /\ check[p].at \in Int
  BY <1>1 DEF Sent
<1>5. a \in Given /\ a.live = TRUE /\ a.revision = r /\ a.after = check[p].after /\ a.calm = check[p].calm
        /\ a.began = (IF check[p].many THEN check[p].began ELSE 0)
  BY <1>3, <1>4 DEF Given
<1>6. k \in Kept /\ k.revision = r
  BY <1>3, <1>4 DEF Kept
<1>7. authz_answer' = [authz_answer EXCEPT ![p] = a]
  BY <1>2 DEF Snapshots!Reply
<1>8. check[p].kept \in Kept \/ check[p].kept = Snapshots!None
  BY <1>1 DEF Sent
<1>9. /\ check[p].calm => r >= check[p].after
      /\ check[p].many => r >= check[p].began
  <2>1. check[p].after <= Len(graph) /\ check[p].began <= Len(graph)
    BY <1>1 DEF Behind
  <2>2. check[p].calm /\ check[p].kept # Snapshots!None => check[p].kept.revision >= check[p].after
    BY <1>1 DEF SentAfterOwn
  <2>3. check[p].many => check[p].kept = Snapshots!None
    BY <1>1 DEF SentAfterOwn
  <2>4. check[p].kept \in Kept => check[p].kept.revision \in Nat
    BY DEF Kept
  <2>5. CASE check[p].kept = Snapshots!None
    BY <1>2, <1>4, <2>1, <2>5
  <2>6. CASE check[p].kept # Snapshots!None
    BY <1>2, <1>4, <1>8, <2>2, <2>3, <2>4, <2>6
  <2>7. QED
    BY <2>5, <2>6
<1>10. Excused(a)
  BY <1>3, <1>4, <1>5, <1>9 DEF Excused
<1>11. ~overlapped[p] => k.revision >= own[p]
  BY <1>1, <1>6, <1>9 DEF KeptAfterOwn
<1> HIDE DEF a, k
<1>12. UNCHANGED cached \/ cached' = [cached EXCEPT ![p] = k]
  BY <1>2 DEF k
<1>13. check' = [check EXCEPT ![p] = Snapshots!None] /\ UNCHANGED <<graph, authz_time, write, own, overlapped>>
  BY DEF Snapshots!Answered
<1>14. QED
  BY <1>1, <1>5, <1>6, <1>7, <1>10, <1>11, <1>12, <1>13, ReplyKeeps

LEMMA DegradedKeeps ==
  ASSUME SnapshotInv, NEW p \in Process, Snapshots!Degraded(p)
  PROVE  SnapshotInv'
<1> USE DEF SnapshotInv, SnapshotShape
<1>1. check[p] # Snapshots!None /\ check[p] \in Sent /\ check[p].kept \in Kept
  BY DEF Snapshots!Degraded, Sent
<1>2. PICK age : age = check[p].at - check[p].kept.at
  OBVIOUS
<1>3. PICK yes : yes = (check[p].kept.allowed /\ age <= Ceiling)
  OBVIOUS
<1>4. /\ check[p].calm \in BOOLEAN /\ check[p].many \in BOOLEAN /\ check[p].after \in Nat /\ check[p].began \in Nat
      /\ check[p].at \in Int
  BY <1>1 DEF Sent
<1>5. check[p].kept.revision \in Nat \ {0} /\ check[p].kept.at \in Int /\ check[p].kept.allowed \in BOOLEAN
  BY <1>1 DEF Kept
<1>6. age \in Int /\ yes \in BOOLEAN /\ (yes => age <= Ceiling)
  <2>1. age \in Int
    BY <1>2, <1>4, <1>5
  <2>2. yes \in BOOLEAN
    BY <1>3
  <2>3. yes => age <= Ceiling
    BY <1>3
  <2>4. QED
    BY <2>1, <2>2, <2>3
<1> DEFINE a == [revision |-> check[p].kept.revision, allowed |-> yes, live |-> FALSE, age |-> age,
                 after |-> check[p].after, began |-> IF check[p].many THEN check[p].began ELSE 0, calm |-> check[p].calm]
<1>7. a \in Given /\ a.live = FALSE /\ a.allowed = yes /\ a.age = age
  BY <1>4, <1>5, <1>6 DEF Given
<1>8. authz_answer' = [authz_answer EXCEPT ![p] = a]
  BY <1>2, <1>3 DEF Snapshots!Degraded, Snapshots!Reply
<1>9. Excused(a)
  BY <1>6, <1>7 DEF Excused
<1> HIDE DEF a
<1>10. check' = [check EXCEPT ![p] = Snapshots!None] /\ UNCHANGED <<graph, authz_time, cached, write, own, overlapped>>
  BY DEF Snapshots!Degraded
<1>11. QED
  BY <1>1, <1>7, <1>8, <1>9, <1>10, ReplyKeeps

LEMMA WriteKeeps ==
  ASSUME SnapshotInv, NEW p \in Process, Snapshots!Write(p)
  PROVE  SnapshotInv'
<1> USE DEF SnapshotInv, SnapshotShape
<1>1. Len(graph') = Len(graph) + 1 /\ graph' \in Seq(BOOLEAN)
  BY DEF Snapshots!Write, Snapshots!Newest
<1>2. /\ write' = [write EXCEPT ![p] = Len(graph) + 1]
      /\ UNCHANGED <<authz_time, cached, check, own, overlapped, authz_answer>>
  BY DEF Snapshots!Write, Snapshots!Newest
<1>3. SnapshotShape'
  BY <1>1, <1>2
<1>4. ASSUME NEW q \in Process PROVE Behind(q, Len(graph))' /\ KeptAfterOwn(q)' /\ SentAfterOwn(q)' /\ AnsweredWell(q)'
  <2>1. Behind(q, Len(graph))'
    <3>1. check[q] # Snapshots!None => check[q].after \in Nat /\ check[q].began \in Nat
      BY DEF Sent
    <3>2. own[q] \in Nat /\ write[q] \in Nat /\ write'[q] = IF q = p THEN Len(graph) + 1 ELSE write[q]
      BY <1>2
    <3>3. QED
      BY <1>1, <1>2, <3>1, <3>2 DEF Behind
  <2>2. QED
    BY <1>2, <2>1 DEF KeptAfterOwn, SentAfterOwn, AnsweredWell, Excused
<1>5. QED
  BY <1>3, <1>4

LEMMA WriteAnsweredKeeps ==
  ASSUME SnapshotInv, NEW p \in Process, Snapshots!WriteAnswered(p)
  PROVE  SnapshotInv'
<1> USE DEF SnapshotInv, SnapshotShape
<1>1. PICK late : late = (check[p] # Snapshots!None)
  OBVIOUS
<1>2. late \in BOOLEAN
  BY <1>1
<1>3. /\ write' = [write EXCEPT ![p] = 0] /\ cached' = [cached EXCEPT ![p] = Snapshots!None]
      /\ own' = [own EXCEPT ![p] = write[p]] /\ overlapped' = [overlapped EXCEPT ![p] = late]
      /\ UNCHANGED <<graph, authz_time, check, authz_answer>>
  BY <1>1 DEF Snapshots!WriteAnswered
<1>4. SnapshotShape'
  BY <1>2, <1>3
<1>5. ASSUME NEW q \in Process PROVE Behind(q, Len(graph))' /\ KeptAfterOwn(q)' /\ SentAfterOwn(q)' /\ AnsweredWell(q)'
  <2>1. CASE q = p
    <3>1. write'[q] = 0 /\ cached'[q] = Snapshots!None /\ own'[q] = write[p] /\ overlapped'[q] = late
      BY <1>3, <2>1
    <3>2. Behind(q, Len(graph))'
      BY <1>3, <2>1, <3>1 DEF Behind
    <3>3. KeptAfterOwn(q)'
      BY <1>1, <1>3, <2>1, <3>1 DEF KeptAfterOwn
    <3>4. SentAfterOwn(q)' /\ AnsweredWell(q)'
      BY <1>3 DEF SentAfterOwn, AnsweredWell, Excused
    <3>5. QED
      BY <3>2, <3>3, <3>4
  <2>2. CASE q # p
    BY <1>3, <2>2 DEF Behind, KeptAfterOwn, SentAfterOwn, AnsweredWell, Excused
  <2>3. QED
    BY <2>1, <2>2
<1>6. QED
  BY <1>4, <1>5

LEMMA QuestionAside ==
  ASSUME SnapshotInv, UNCHANGED <<graph, cached, check, write, own, overlapped, authz_answer>>, authz_time' \in Int
  PROVE  SnapshotInv'
BY DEF SnapshotInv, SnapshotShape, Behind, KeptAfterOwn, SentAfterOwn, AnsweredWell, Excused

LEMMA SnapshotStep ==
  ASSUME SnapshotInv, Snapshots!Next
  PROVE  SnapshotInv'
<1>1. authz_time \in Int
  BY DEF SnapshotInv, SnapshotShape
<1>2. CASE Snapshots!Tick \/ Snapshots!Toggle \/ Snapshots!Attempt
  <2>1. UNCHANGED <<graph, cached, check, write, own, overlapped, authz_answer>>
    BY <1>2 DEF Snapshots!Tick, Snapshots!Toggle, Snapshots!Attempt
  <2>2. authz_time' \in Int
    <3>1. authz_time' = authz_time + 1 \/ authz_time' = authz_time
      BY <1>2 DEF Snapshots!Tick, Snapshots!Toggle, Snapshots!Attempt
    <3>2. QED
      BY <1>1, <3>1
  <2>3. QED
    BY <2>1, <2>2, QuestionAside
<1>3. ASSUME NEW p \in Process, Snapshots!RequireSchema(p) PROVE SnapshotInv'
  BY <1>1, <1>3, QuestionAside DEF Snapshots!RequireSchema
<1>4. ASSUME NEW p \in Process, Snapshots!BeginCheck(p) PROVE SnapshotInv'
  BY <1>4, BeginKeeps DEF Snapshots!BeginCheck
<1>5. ASSUME NEW p \in Process, Snapshots!BeginMany(p) \/ Snapshots!Explain(p) PROVE SnapshotInv'
  BY <1>5, BeginKeeps DEF Snapshots!BeginMany, Snapshots!Explain
<1>6. ASSUME NEW p \in Process, Snapshots!Throws(p) PROVE SnapshotInv'
  <2> USE DEF SnapshotInv, SnapshotShape
  <2>1. check' = [check EXCEPT ![p] = Snapshots!None] /\ UNCHANGED <<graph, authz_time, cached, write, own, overlapped, authz_answer>>
    BY <1>6 DEF Snapshots!Throws
  <2>2. ASSUME NEW q \in Process PROVE Behind(q, Len(graph))' /\ KeptAfterOwn(q)' /\ SentAfterOwn(q)' /\ AnsweredWell(q)'
    BY <2>1 DEF Behind, KeptAfterOwn, SentAfterOwn, AnsweredWell, Excused
  <2>3. QED
    BY <2>1, <2>2
<1>7. ASSUME NEW p \in Process,
             Snapshots!Answered(p) \/ Snapshots!Degraded(p) \/ Snapshots!Write(p) \/ Snapshots!WriteAnswered(p)
      PROVE SnapshotInv'
  BY <1>7, AnsweredKeeps, DegradedKeeps, WriteKeeps, WriteAnsweredKeeps
<1>8. QED
  BY <1>2, <1>3, <1>4, <1>5, <1>6, <1>7 DEF Snapshots!Next

LEMMA SnapshotAside ==
  ASSUME SnapshotInv, UNCHANGED ofSnapshots
  PROVE  SnapshotInv'
<1>1. authz_time' \in Int
  BY DEF SnapshotInv, SnapshotShape, ofSnapshots
<1>2. QED
  BY <1>1, QuestionAside DEF ofSnapshots

LEMMA SnapshotPromises == SnapshotInv => Snapshots!FreshOrRefused
BY DEF SnapshotInv, AnsweredWell, Excused, Snapshots!FreshOrRefused

------------------------------------------------------------------------------
(* One query: what holds of it at each of its steps.                        *)
Preparing == {"snapshot", "health", "filter", "check", "routed", "ready"}
Working == {"custody", "execute", "consistent", "seal", "output", "close", "discard"}
Ran == {"consistent", "seal", "output", "close", "discard"}
Records == [state : {"none", "open", "answered", "refused"}, stage : {"none", "validate", "resolve", "execute"},
            version : Nat, reached : SUBSET Source]

QueryShape ==
  /\ pc \in Preparing \cup Working \cup {"open", "refuse", "done"}
  /\ policy_version \in Nat \ {0} /\ snapshot \in [version : Nat, ready : SUBSET Source] /\ plan \subseteq Source
  /\ contacted \subseteq Source /\ usage \subseteq Source /\ reach \subseteq Source /\ bound_sources \subseteq Source
  /\ ready \subseteq Source /\ record \in Records /\ ran \in BOOLEAN
  /\ tool \in {"query", "explain", "describe"}
  /\ progress \in {"before", "unknown", "after"}
  /\ refusal \in {"none", "validate", "version", "join", "resolve", "engine", "result", "release"}

(* Before the engine is asked for anything.                                 *)
Unasked ==
  /\ pc # "done" => told_agent = "none"
  /\ pc \in Preparing => refusal = "none"
  /\ pc \in Preparing \cup {"open", "custody", "execute"} => contacted = {} /\ ~ran /\ usage = {}
  /\ pc \in Preparing \cup {"open", "custody"} => progress = "before"
  /\ pc = "execute" => progress = "unknown"
  /\ pc \in Preparing \cup {"open"} => record = Queries!NoRecord
  /\ tool # "query" => contacted = {} /\ ~ran /\ record = Queries!NoRecord /\ progress = "before"
  /\ tool = "describe" => pc \in {"snapshot", "check", "done"}
  /\ tool = "explain" => pc \notin Working

(* What is read and planned.                                                *)
Planned ==
  /\ pc # "snapshot" /\ pc # "done" => bound_sources \subseteq reach
  /\ tool # "describe" /\ pc \in Preparing /\ pc # "snapshot" => snapshot.version # 0
  /\ pc \in {"routed", "ready"} => plan \subseteq reach
  /\ pc = "open" /\ refusal = "none" => plan \subseteq reach /\ plan \subseteq snapshot.ready /\ snapshot.version # 0
  /\ pc \in {"custody", "execute"} => plan \subseteq reach
  /\ contacted \subseteq reach

(* The record as the query goes on, and what is known when it is refused.   *)
OnRecord ==
  /\ record.state \in {"none", "open"} => record.stage = "none"
  /\ pc \in Working => tool = "query" /\ refusal = "none" /\ record.version = snapshot.version
  /\ pc \in Working \ {"discard"} => record.state = "open"
  /\ pc = "discard" => record.state \in {"open", "answered"}
  /\ pc = "refuse" => refusal # "none" /\ (tool = "query" => record.state = "open")
  /\ pc \in Ran => ran
  /\ pc \in Ran \cup {"refuse"} => contacted \subseteq usage

Causes ==
  /\ progress = "before" => contacted = {}
  /\ progress = "after" => ran
  /\ refusal = "version" => contacted = {}
  /\ refusal = "result" => ran

QueryInv == QueryShape /\ Unasked /\ Planned /\ OnRecord /\ Causes /\ QueriesAreRecorded

LEMMA QueryInitially == Queries!Init => QueryInv
<1> SUFFICES ASSUME Queries!Init PROVE QueryInv
  OBVIOUS
<1> USE DEF Queries!Init, Queries!NoRecord
<1>1. QueryShape
  <2>1. record \in Records /\ snapshot \in [version : Nat, ready : SUBSET Source]
    BY DEF Records
  <2>2. policy_version = 1 /\ bound_sources = Source /\ ready \subseteq Source
    OBVIOUS
  <2>3. plan = {} /\ contacted = {} /\ usage = {} /\ reach = {} /\ ran = FALSE
    OBVIOUS
  <2>4. pc = "snapshot" /\ refusal = "none" /\ progress = "before" /\ tool \in {"query", "explain", "describe"}
    OBVIOUS
  <2>5. policy_version \in Nat \ {0}
    BY ONLY <2>2
  <2>8. ran \in BOOLEAN
    BY ONLY <2>3
  <2>6. plan \subseteq Source /\ contacted \subseteq Source /\ usage \subseteq Source /\ reach \subseteq Source
    BY ONLY <2>3
  <2>7. QED
    BY ONLY <2>1, <2>2, <2>4, <2>5, <2>6, <2>8 DEF QueryShape, Preparing
<1>2. Unasked /\ Causes
  BY DEF Unasked, Causes, Working
<1>3. Planned /\ OnRecord
  BY DEF Planned, OnRecord, Working, Ran
<1>4. QueriesAreRecorded
  BY DEF QueriesAreRecorded, Queries!RecordsAreTrue, Queries!AgentIsToldTheTruth, Queries!NoShareWithoutRecord,
         Queries!DryRunsAreDry, Queries!JoinRefusalsAreKept, Queries!NothingUnboundIsReached
<1>5. QED
  BY <1>1, <1>2, <1>3, <1>4 DEF QueryInv

(* A step of the preparation: nothing that was asked, recorded or told.     *)
Untouched == UNCHANGED <<build, tool, candidate, progress, contacted, ran, usage, rows, shares, record, told_agent>>

LEMMA SilentKeeps ==
  ASSUME QueryInv, Untouched, QueryShape', Unasked', Planned', OnRecord', Causes', pc # "done"
  PROVE  QueryInv'
BY DEF QueryInv, QueryShape, Untouched, Unasked, Planned, QueriesAreRecorded, Queries!RecordsAreTrue,
       Queries!AgentIsToldTheTruth, Queries!NoShareWithoutRecord,
       Queries!DryRunsAreDry, Queries!JoinRefusalsAreKept, Queries!NothingUnboundIsReached

LEMMA PreparationKeeps ==
  ASSUME QueryInv,
         \/ Queries!ReadSnapshot \/ Queries!Health \/ Queries!Filter \/ Queries!Check \/ Queries!Routed \/ Queries!Ready
  PROVE  QueryInv'
<1> USE DEF QueryInv, Queries!Go, Queries!Stop, Queries!Unprepared
<1>1. CASE Queries!ReadSnapshot
  <2> USE <1>1 DEF Queries!ReadSnapshot
  <2>1. snapshot' \in [version : Nat, ready : SUBSET Source] /\ (pc' = "health" => snapshot'.version # 0)
    BY DEF QueryShape
  <2>2. QueryShape'
    BY <2>1 DEF QueryShape, Preparing
  <2>3. Unasked' /\ Causes'
    BY DEF Unasked, Causes, Preparing, Working
  <2>4. Planned'
    BY <2>1 DEF Planned, Unasked, Preparing
  <2>5. OnRecord'
    BY DEF OnRecord, Unasked, Preparing, Working, Ran
  <2>6. QED
    BY <2>2, <2>3, <2>4, <2>5, SilentKeeps DEF Untouched
<1>2. CASE Queries!Health
  <2> USE <1>2 DEF Queries!Health
  <2>2. QueryShape'
    BY DEF QueryShape, Preparing
  <2>3. Unasked' /\ Causes'
    BY DEF Unasked, Causes, Preparing, Working
  <2>4. Planned'
    BY DEF Planned, Unasked, Preparing
  <2>5. OnRecord'
    BY DEF OnRecord, Unasked, Preparing, Working, Ran
  <2>6. QED
    BY <2>2, <2>3, <2>4, <2>5, SilentKeeps DEF Untouched
<1>3. CASE Queries!Filter
  <2> USE <1>3 DEF Queries!Filter
  <2>2. QueryShape'
    BY DEF QueryShape, Preparing
  <2>3. Unasked' /\ Causes'
    BY DEF Unasked, Causes, Preparing, Working
  <2>4. Planned'
    BY DEF Planned, Unasked, Preparing
  <2>5. OnRecord'
    BY DEF OnRecord, Unasked, Preparing, Working, Ran
  <2>6. QED
    BY <2>2, <2>3, <2>4, <2>5, SilentKeeps DEF Untouched
<1>4. CASE Queries!Check
  <2> USE <1>4 DEF Queries!Check
  <2>2. QueryShape'
    BY DEF QueryShape, Preparing
  <2>3. Unasked' /\ Causes'
    BY DEF Unasked, Causes, Preparing, Working
  <2>4. Planned'
    BY DEF Planned, Unasked, Preparing
  <2>5. OnRecord'
    BY DEF OnRecord, Unasked, Preparing, Working, Ran
  <2>6. QED
    BY <2>2, <2>3, <2>4, <2>5, SilentKeeps DEF Untouched
<1>5. CASE Queries!Routed
  <2> USE <1>5 DEF Queries!Routed
  <2>2. QueryShape'
    BY DEF QueryShape, Preparing
  <2>3. Unasked' /\ Causes'
    BY DEF Unasked, Causes, Preparing, Working
  <2>4. Planned'
    BY DEF Planned, Unasked, Preparing
  <2>5. OnRecord'
    BY DEF OnRecord, Unasked, Preparing, Working, Ran
  <2>6. QED
    BY <2>2, <2>3, <2>4, <2>5, SilentKeeps DEF Untouched
<1>6. CASE Queries!Ready
  <2> USE <1>6 DEF Queries!Ready
  <2>2. QueryShape'
    BY DEF QueryShape, Preparing
  <2>3. Unasked' /\ Causes'
    BY DEF Unasked, Causes, Preparing, Working
  <2>4. Planned'
    BY DEF Planned, Unasked, Preparing
  <2>5. OnRecord'
    BY DEF OnRecord, Unasked, Preparing, Working, Ran
  <2>6. QED
    BY <2>2, <2>3, <2>4, <2>5, SilentKeeps DEF Untouched
<1>7. QED
  BY <1>1, <1>2, <1>3, <1>4, <1>5, <1>6

LEMMA ChangeKeeps ==
  ASSUME QueryInv, Queries!Change
  PROVE  QueryInv'
<1> USE DEF QueryInv, Queries!Change
<1>1. policy_version' \in Nat \ {0} /\ bound_sources' \subseteq bound_sources /\ ready' \subseteq ready
  BY DEF QueryShape
<1>2. UNCHANGED <<tool, reach, candidate, pc, snapshot, seen, plan, custody, refusal, progress, contacted, ran, usage,
                  rows, shares, record, told_agent>>
  OBVIOUS
<1>3. QueryShape'
  BY <1>1, <1>2 DEF QueryShape
<1>4. Unasked' /\ Planned' /\ OnRecord' /\ Causes'
  BY <1>1, <1>2 DEF Unasked, Planned, OnRecord, Causes
<1>5. QueriesAreRecorded'
  <2>1. QueriesAreRecorded
    OBVIOUS
  <2>2. QED
    BY ONLY <1>2, <2>1 DEF QueriesAreRecorded, Queries!RecordsAreTrue, Queries!AgentIsToldTheTruth,
         Queries!NoShareWithoutRecord, Queries!DryRunsAreDry, Queries!JoinRefusalsAreKept, Queries!NothingUnboundIsReached
<1>6. QED
  BY <1>3, <1>4, <1>5

(* A step after which nothing is told yet.                                  *)
LEMMA UntoldKeeps ==
  ASSUME QueryInv, QueryShape', Unasked', Planned', OnRecord', Causes', pc' # "done", 
         \/ record'.state \in {"none", "open"}
         \/ record'.state = "answered" /\ contacted' \subseteq record'.reached /\ record'.stage = "execute",
         contacted' # {} => record'.state # "none"
  PROVE  QueryInv'
<1>1. told_agent' = "none" /\ contacted' \subseteq reach'
  BY DEF Unasked, Planned
<1>2. (tool = "explain" => contacted = {} /\ ~ran /\ record.state = "none")'
  BY DEF Unasked, Queries!NoRecord
<1>3. (record.stage \in {"validate", "resolve"} => contacted = {})'
  BY DEF OnRecord
<1>4. QED
  BY <1>1, <1>2, <1>3 DEF QueryInv, QueriesAreRecorded, Queries!RecordsAreTrue, Queries!AgentIsToldTheTruth,
       Queries!NoShareWithoutRecord, Queries!DryRunsAreDry, Queries!JoinRefusalsAreKept, Queries!NothingUnboundIsReached

LEMMA OpenEvidenceKeeps ==
  ASSUME QueryInv, Queries!OpenEvidence
  PROVE  QueryInv'
<1> USE DEF QueryInv
<1>0. /\ pc = "open" /\ tool = "query" /\ told_agent = "none" /\ record = Queries!NoRecord /\ contacted = {}
      /\ UNCHANGED <<policy_version, bound_sources, ready, build, disturbed, tool, reach, candidate, snapshot, seen, plan,
                     custody, refusal, progress, contacted, ran, usage, rows, shares>>
  BY DEF Queries!OpenEvidence, Queries!Prepared, Unasked
<1>1. CASE Queries!Tell("not run") /\ UNCHANGED record
  <2> USE <1>0, <1>1 DEF Queries!Tell
  <2>1. QueryShape' /\ Unasked' /\ Planned' /\ OnRecord' /\ Causes'
    BY DEF QueryShape, Unasked, Planned, OnRecord, Causes, Preparing, Working, Ran, Queries!NoRecord
  <2>2. QueriesAreRecorded'
    BY DEF QueriesAreRecorded, Queries!RecordsAreTrue, Queries!AgentIsToldTheTruth, Queries!NoShareWithoutRecord,
         Queries!DryRunsAreDry, Queries!JoinRefusalsAreKept, Queries!NothingUnboundIsReached, Queries!NoRecord
  <2>3. QED
    BY <2>1, <2>2
<1>2. CASE /\ record' = [Queries!NoRecord EXCEPT !.state = "open",
                                                 !.version = IF snapshot.version = 0 THEN policy_version ELSE snapshot.version]
           /\ pc' = (IF refusal # "none" THEN "refuse" ELSE "custody") /\ UNCHANGED told_agent
  <2>1. PICK v \in Nat : v = IF snapshot.version = 0 THEN policy_version ELSE snapshot.version
    BY DEF QueryShape
  <2>2. record' = [state |-> "open", stage |-> "none", version |-> v, reached |-> {}]
    BY <1>2, <2>1 DEF Queries!NoRecord
  <2>3. record' \in Records /\ record'.state = "open" /\ record'.stage = "none" /\ record'.version = v
    BY <2>2 DEF Records
  <2>4. pc' = (IF refusal # "none" THEN "refuse" ELSE "custody") /\ UNCHANGED told_agent
    BY <1>2
  <2>5. QueryShape'
    BY <1>0, <2>3, <2>4 DEF QueryShape, Working
  <2>6. Unasked' /\ Causes'
    BY <1>0, <2>4 DEF Unasked, Causes, Preparing, Working
  <2>7. Planned'
    BY <1>0, <2>4 DEF Planned, Preparing
  <2>8. OnRecord'
    BY <1>0, <2>1, <2>3, <2>4 DEF OnRecord, Planned, Working, Ran
  <2>9. QED
    BY <1>0, <2>3, <2>4, <2>5, <2>6, <2>7, <2>8, UntoldKeeps
<1>3. QED
  BY <1>1, <1>2 DEF Queries!OpenEvidence

LEMMA CustodyKeeps ==
  ASSUME QueryInv, Queries!CustodyAvailable
  PROVE  QueryInv'
<1> USE DEF QueryInv, Queries!CustodyAvailable, Queries!Prepared, Queries!Refuse
<1>1. pc' \in {"execute", "refuse"} /\ record' = record /\ contacted' = contacted
  OBVIOUS
<1>2. QueryShape'
  BY DEF QueryShape, Working
<1>3. Unasked' /\ Causes'
  BY DEF Unasked, Causes, Preparing, Working, OnRecord
<1>4. Planned'
  BY DEF Planned, Preparing
<1>5. OnRecord'
  BY DEF OnRecord, Unasked, Working, Ran
<1>6. record'.state = "open"
  BY DEF OnRecord, Working
<1>7. QED
  BY <1>1, <1>2, <1>3, <1>4, <1>5, <1>6, UntoldKeeps

LEMMA ExecuteKeeps ==
  ASSUME QueryInv, Queries!Execute
  PROVE  QueryInv'
<1> USE DEF QueryInv
<1>1. /\ pc = "execute" /\ tool = "query" /\ told_agent = "none" /\ contacted = {} /\ usage = {} /\ refusal = "none"
      /\ record.state = "open" /\ record.stage = "none" /\ record.version = snapshot.version
      /\ UNCHANGED <<policy_version, bound_sources, ready, build, disturbed, tool, reach, candidate, snapshot, seen, plan,
                     custody, shares, record>>
  BY DEF Queries!Execute, Queries!Prepared, Unasked, OnRecord, Working
<1>2. PICK some \in SUBSET plan, done \in BOOLEAN :
       /\ done => some = plan
       /\ contacted' = some /\ ran' = done
       /\ \/ /\ Queries!Tell("unknown") /\ UNCHANGED <<refusal, progress, usage, rows>>
          \/ /\ some = {} /\ ~done /\ Queries!EngineRefuses /\ progress' = "before" /\ UNCHANGED <<usage, rows, told_agent>>
          \/ /\ ~done /\ Queries!Refuse("engine") /\ usage' = some /\ UNCHANGED <<progress, rows, told_agent>>
          \/ /\ done /\ Queries!Refuse("engine") /\ usage' = some /\ progress' = "after" /\ UNCHANGED <<rows, told_agent>>
          \/ /\ done /\ usage' = some /\ progress' = "after" /\ pc' = "consistent"
             /\ rows' = [build |-> build, version |-> snapshot.version]
             /\ UNCHANGED <<refusal, told_agent>>
  BY DEF Queries!Execute
<1>3. some \subseteq plan /\ some \subseteq Source /\ some \subseteq reach
  BY <1>1, <1>2 DEF QueryShape, Planned
<1>5. CASE Queries!Tell("unknown") /\ UNCHANGED <<refusal, progress, usage, rows>> /\ progress # "before" /\ progress # "after"
  <2> USE <1>1, <1>2, <1>3, <1>5 DEF Queries!Tell
  <2>1. QueryShape' /\ Unasked'
    BY DEF QueryShape, Unasked, Preparing, Working
  <2>2. Planned' /\ OnRecord' /\ Causes'
    BY DEF Planned, OnRecord, Causes, Preparing, Working, Ran
  <2>3. QueriesAreRecorded'
    BY DEF QueriesAreRecorded, Queries!RecordsAreTrue, Queries!AgentIsToldTheTruth, Queries!NoShareWithoutRecord,
         Queries!DryRunsAreDry, Queries!JoinRefusalsAreKept, Queries!NothingUnboundIsReached
  <2>4. QED
    BY <2>1, <2>2, <2>3
<1>6. CASE /\ pc' = "refuse" /\ refusal' \in {"engine", "join"} /\ told_agent' = told_agent
           /\ contacted' \subseteq usage' /\ usage' \subseteq Source
           /\ \/ progress' = "before" /\ some = {}
              \/ progress' = "after" /\ done
              \/ progress' = "unknown"
  <2> USE <1>1, <1>2, <1>3, <1>6
  <2>1. QueryShape' /\ Unasked'
    BY DEF QueryShape, Unasked, Preparing, Working
  <2>2. Planned' /\ OnRecord' /\ Causes'
    BY DEF Planned, OnRecord, Causes, Preparing, Working, Ran
  <2>3. QED
    BY <2>1, <2>2, UntoldKeeps
<1>7. CASE /\ done /\ usage' = some /\ progress' = "after" /\ pc' = "consistent" /\ UNCHANGED <<refusal, told_agent>>
  <2> USE <1>1, <1>2, <1>3, <1>7
  <2>1. QueryShape' /\ Unasked'
    BY DEF QueryShape, Unasked, Preparing, Working
  <2>2. Planned' /\ OnRecord' /\ Causes'
    BY DEF Planned, OnRecord, Causes, Preparing, Working, Ran
  <2>3. QED
    BY <2>1, <2>2, UntoldKeeps
<1>8. progress = "unknown"
  BY <1>1 DEF Unasked
<1>9. QED
  BY <1>1, <1>2, <1>3, <1>5, <1>6, <1>7, <1>8 DEF Queries!EngineRefuses, Queries!Refuse

LEMMA JudgedKeeps ==
  ASSUME QueryInv, Queries!Consistent \/ Queries!Seal \/ Queries!Output
  PROVE  QueryInv'
<1> USE DEF QueryInv, Queries!Refuse
<1>1. /\ pc \in {"consistent", "seal", "output"} /\ pc' \in {"seal", "output", "close", "refuse"}
      /\ pc' = "refuse" => refusal' \in {"result", "release"}
      /\ pc' # "refuse" => UNCHANGED refusal
      /\ UNCHANGED <<policy_version, bound_sources, ready, build, disturbed, tool, reach, candidate, snapshot, seen, plan,
                     custody, progress, contacted, ran, usage, rows, record, told_agent>>
  BY DEF Queries!Consistent, Queries!Seal, Queries!Output, Queries!Prepared
<1>2. tool = "query" /\ refusal = "none" /\ record.state = "open" /\ record.stage = "none" /\ ran
  BY <1>1 DEF OnRecord, Working, Ran
<1>3. QueryShape' /\ Unasked'
  BY <1>1, <1>2 DEF QueryShape, Unasked, Preparing, Working
<1>4. Planned' /\ OnRecord' /\ Causes'
  BY <1>1, <1>2 DEF Planned, OnRecord, Causes, Preparing, Working, Ran
<1>5. QED
  BY <1>1, <1>2, <1>3, <1>4, UntoldKeeps

LEMMA ClosedRecord ==
  ASSUME QueryShape, NEW ended_as \in {"answered", "refused"}, NEW stage \in {"validate", "resolve", "execute"}
  PROVE  /\ Queries!Closed(ended_as, stage) \in Records
         /\ Queries!Closed(ended_as, stage).state = ended_as /\ Queries!Closed(ended_as, stage).stage = stage
         /\ Queries!Closed(ended_as, stage).version = record.version /\ Queries!Closed(ended_as, stage).reached = usage
<1>1. record \in Records /\ usage \in SUBSET Source
  BY DEF QueryShape
<1>2. PICK s \in {"none", "open", "answered", "refused"} : s = ended_as
  OBVIOUS
<1>3. PICK g \in {"none", "validate", "resolve", "execute"} : g = stage
  OBVIOUS
<1>4. PICK a : a = [record EXCEPT !.state = s]
  OBVIOUS
<1>5. a \in Records /\ a.state = s /\ a.version = record.version
  BY <1>1, <1>4 DEF Records
<1>6. PICK b : b = [a EXCEPT !.stage = g]
  OBVIOUS
<1>7. b \in Records /\ b.state = s /\ b.stage = g /\ b.version = record.version
  BY <1>5, <1>6 DEF Records
<1>8. PICK c : c = [b EXCEPT !.reached = usage]
  OBVIOUS
<1>9. c \in Records /\ c.state = s /\ c.stage = g /\ c.version = record.version /\ c.reached = usage
  BY <1>1, <1>7, <1>8 DEF Records
<1>10. Queries!Closed(ended_as, stage) = c
  BY <1>2, <1>3, <1>4, <1>6, <1>8 DEF Queries!Closed
<1>11. QED
  BY <1>2, <1>3, <1>9, <1>10

LEMMA CloseKeeps ==
  ASSUME QueryInv, Queries!Close
  PROVE  QueryInv'
<1> USE DEF QueryInv
<1>1. /\ pc = "close"
      /\ UNCHANGED <<policy_version, bound_sources, ready, build, disturbed, tool, reach, candidate, snapshot, seen, plan,
                     custody, refusal, progress, contacted, ran, usage, rows, shares>>
  BY DEF Queries!Close, Queries!Prepared
<1>2. /\ tool = "query" /\ refusal = "none" /\ record.state = "open" /\ ran /\ contacted \subseteq usage
      /\ record.version = snapshot.version /\ told_agent = "none"
  BY <1>1 DEF OnRecord, Unasked, Working, Ran
<1>3. PICK r : r = Queries!Closed("answered", "execute")
  OBVIOUS
<1>4. r \in Records /\ r.state = "answered" /\ r.stage = "execute" /\ r.version = snapshot.version /\ r.reached = usage
  BY <1>2, <1>3, ClosedRecord
<1>5. CASE record' = r /\ pc' = "done" /\ told_agent' = "rows"
  <2>1. QueryShape' /\ Unasked'
    BY <1>1, <1>2, <1>4, <1>5 DEF QueryShape, Unasked, Preparing, Working
  <2>2. Planned' /\ OnRecord' /\ Causes'
    BY <1>1, <1>2, <1>4, <1>5 DEF Planned, OnRecord, Causes, Preparing, Working, Ran
  <2>3. QueriesAreRecorded'
    BY <1>1, <1>2, <1>4, <1>5 DEF QueriesAreRecorded, Queries!RecordsAreTrue, Queries!AgentIsToldTheTruth,
         Queries!NoShareWithoutRecord, Queries!DryRunsAreDry, Queries!JoinRefusalsAreKept,
         Queries!NothingUnboundIsReached
  <2>4. QED
    BY <2>1, <2>2, <2>3
<1>6. CASE (record' = r \/ record' = record) /\ pc' = "discard" /\ told_agent' = told_agent
  <2>1. QueryShape' /\ Unasked'
    BY <1>1, <1>2, <1>4, <1>6 DEF QueryShape, Unasked, Preparing, Working
  <2>2. Planned' /\ OnRecord' /\ Causes'
    BY <1>1, <1>2, <1>4, <1>6 DEF Planned, OnRecord, Causes, Preparing, Working, Ran
  <2>3. /\ pc' # "done" /\ record'.state # "none"
        /\ \/ record'.state = "open"
           \/ record'.state = "answered" /\ contacted' \subseteq record'.reached /\ record'.stage = "execute"
    BY <1>1, <1>2, <1>4, <1>6
  <2>4. QED
    BY <2>1, <2>2, <2>3, UntoldKeeps
<1>7. QED
  BY <1>3, <1>5, <1>6 DEF Queries!Close, Queries!Tell

LEMMA DiscardKeeps ==
  ASSUME QueryInv, Queries!Discard
  PROVE  QueryInv'
<1> USE DEF QueryInv
<1>1. /\ pc = "discard" /\ pc' = "done"
      /\ UNCHANGED <<policy_version, bound_sources, ready, build, disturbed, tool, reach, candidate, snapshot, seen, plan,
                     custody, refusal, progress, contacted, ran, usage, rows, record>>
      /\ \/ told_agent' = "ran, not recorded" /\ shares' # "sealed"
         \/ told_agent' = "unknown"
  BY DEF Queries!Discard, Queries!Prepared, Queries!Tell
<1>2. tool = "query" /\ ran
  BY <1>1 DEF OnRecord, Working, Ran
<1>3. QueryShape' /\ Unasked'
  BY <1>1, <1>2 DEF QueryShape, Unasked, Preparing, Working
<1>4. Planned' /\ OnRecord' /\ Causes'
  BY <1>1, <1>2 DEF Planned, OnRecord, Causes, Preparing, Working, Ran
<1>5. QueriesAreRecorded'
  BY <1>1, <1>2 DEF QueriesAreRecorded, Queries!RecordsAreTrue, Queries!AgentIsToldTheTruth,
       Queries!NoShareWithoutRecord, Queries!DryRunsAreDry, Queries!JoinRefusalsAreKept,
       Queries!NothingUnboundIsReached
<1>6. QED
  BY <1>3, <1>4, <1>5

LEMMA RefuseRecordedKeeps ==
  ASSUME QueryInv, Queries!RefuseRecorded
  PROVE  QueryInv'
<1> USE DEF QueryInv
<1>1. /\ pc = "refuse" /\ pc' = "done" /\ tool = "query"
      /\ UNCHANGED <<policy_version, bound_sources, ready, build, disturbed, tool, reach, candidate, snapshot, seen, plan,
                     custody, refusal, progress, contacted, ran, usage, rows, shares>>
  BY DEF Queries!RefuseRecorded, Queries!Prepared, Queries!Tell
<1>2. refusal # "none" /\ record.state = "open" /\ record.stage = "none" /\ contacted \subseteq usage
  BY <1>1 DEF OnRecord
<1>3. PICK g : g = Queries!Stage
  OBVIOUS
<1>4. g \in {"validate", "resolve", "execute"} /\ (g # "execute" => contacted = {})
  BY <1>3 DEF Queries!Stage, Causes
<1>5. PICK r : r = Queries!Closed("refused", g)
  OBVIOUS
<1>6. r \in Records /\ r.state = "refused" /\ r.stage = g /\ r.reached = usage
  BY <1>4, <1>5, ClosedRecord
<1>7. record' = r \/ record' = record
  BY <1>3, <1>5 DEF Queries!RefuseRecorded
<1>8. \/ record' = r /\ told_agent' = Queries!Said
      \/ told_agent' = Queries!Unrecorded
  BY <1>3, <1>5 DEF Queries!RefuseRecorded, Queries!Tell
<1>9. /\ Queries!Said = "no source contacted" => contacted = {}
      /\ Queries!Said = "ran, not trusted" => ran
      /\ Queries!Said \in {"no source contacted", "ran, not trusted", "cannot be joined", "refused"}
  BY DEF Queries!Said, Causes
<1>10. /\ Queries!Unrecorded = "not run" => contacted = {}
       /\ Queries!Unrecorded = "ran, not recorded" => ran
       /\ Queries!Unrecorded \in {"not run", "ran, not recorded", "unknown"}
  BY DEF Queries!Unrecorded, Causes
<1>11. QueryShape' /\ Unasked'
  BY <1>1, <1>6, <1>7 DEF QueryShape, Unasked, Preparing, Working
<1>12. Planned' /\ OnRecord' /\ Causes'
  BY <1>1, <1>2, <1>4, <1>6, <1>7 DEF Planned, OnRecord, Causes, Preparing, Working, Ran
<1>13. Queries!RecordsAreTrue'
  BY <1>1, <1>2, <1>4, <1>6, <1>7, <1>8, <1>9, <1>10 DEF Queries!RecordsAreTrue
<1>14. Queries!AgentIsToldTheTruth' /\ Queries!NoShareWithoutRecord'
  BY <1>1, <1>2, <1>8, <1>9, <1>10 DEF Queries!AgentIsToldTheTruth, Queries!NoShareWithoutRecord
<1>15. Queries!DryRunsAreDry' /\ Queries!JoinRefusalsAreKept' /\ Queries!NothingUnboundIsReached'
  BY <1>1, <1>6, <1>8, <1>9, <1>10 DEF Queries!DryRunsAreDry, Queries!JoinRefusalsAreKept,
       Queries!NothingUnboundIsReached, QueriesAreRecorded
<1>16. QED
  BY <1>11, <1>12, <1>13, <1>14, <1>15 DEF QueriesAreRecorded

LEMMA ValidateKeeps ==
  ASSUME QueryInv, Queries!Validate
  PROVE  QueryInv'
<1> USE DEF QueryInv
<1>1. /\ pc = "open" /\ tool = "explain" /\ refusal = "none"
      /\ UNCHANGED <<policy_version, bound_sources, ready, build, disturbed, tool, reach, candidate, snapshot, seen, plan,
                     custody, progress, contacted, ran, usage, shares, record>>
      /\ rows' = [build |-> build, version |-> snapshot.version]
  BY DEF Queries!Validate, Queries!DryRun
<1>2. record = Queries!NoRecord /\ contacted = {} /\ ~ran /\ progress = "before" /\ told_agent = "none"
  BY <1>1 DEF Unasked
<1>3. rows'.build = build
  BY <1>1
<1>4. CASE build = seen /\ pc' = "done" /\ told_agent' = "permitted" /\ UNCHANGED refusal
  <2>1. QueryShape' /\ Unasked'
    BY <1>1, <1>2, <1>4 DEF QueryShape, Unasked, Preparing, Working
  <2>2. Planned' /\ OnRecord' /\ Causes'
    BY <1>1, <1>2, <1>4 DEF Planned, OnRecord, Causes, Preparing, Working, Ran
  <2>3. Queries!RecordsAreTrue' /\ Queries!AgentIsToldTheTruth' /\ Queries!NoShareWithoutRecord'
    BY <1>1, <1>2, <1>4 DEF QueriesAreRecorded, Queries!RecordsAreTrue, Queries!AgentIsToldTheTruth,
         Queries!NoShareWithoutRecord
  <2>4. plan \subseteq snapshot.ready
    BY <1>1 DEF Planned
  <2>5. Queries!DryRunsAreDry' /\ Queries!JoinRefusalsAreKept' /\ Queries!NothingUnboundIsReached'
    BY <1>1, <1>2, <1>3, <1>4, <2>4 DEF Queries!DryRunsAreDry, Queries!JoinRefusalsAreKept,
         Queries!NothingUnboundIsReached, Queries!NoRecord, QueriesAreRecorded
  <2>6. QED
    BY <2>1, <2>2, <2>3, <2>5 DEF QueriesAreRecorded
<1>5. CASE pc' = "refuse" /\ refusal' \in {"validate", "engine", "join"} /\ UNCHANGED told_agent
  <2>1. QueryShape' /\ Unasked'
    BY <1>1, <1>2, <1>5 DEF QueryShape, Unasked, Preparing, Working
  <2>2. Planned' /\ OnRecord' /\ Causes'
    BY <1>1, <1>2, <1>5 DEF Planned, OnRecord, Causes, Preparing, Working, Ran
  <2>3. QED
    BY <1>1, <1>2, <1>5, <2>1, <2>2, UntoldKeeps DEF Queries!NoRecord
<1>6. QED
  BY <1>4, <1>5 DEF Queries!Validate, Queries!EngineRefuses, Queries!Refuse, Queries!Tell

LEMMA RefuseDryKeeps ==
  ASSUME QueryInv, Queries!RefuseDry
  PROVE  QueryInv'
<1> USE DEF QueryInv
<1>1. /\ pc \in {"open", "refuse"} /\ pc' = "done" /\ tool = "explain"
      /\ UNCHANGED <<policy_version, bound_sources, ready, build, disturbed, tool, reach, snapshot, seen, plan,
                     custody, refusal, progress, contacted, ran, usage, rows, shares, record>>
  BY DEF Queries!RefuseDry, Queries!DryRun, Queries!Tell
<1>2. record = Queries!NoRecord /\ contacted = {} /\ ~ran /\ progress = "before"
  BY <1>1 DEF Unasked
<1>3. \/ told_agent' = Queries!Said /\ candidate' = (refusal = "join")
      \/ told_agent' = "refused"
  BY DEF Queries!RefuseDry, Queries!Tell
<1>4. /\ Queries!Said = "ran, not trusted" => ran
      /\ Queries!Said = "cannot be joined" => refusal = "join"
      /\ Queries!Said \in {"no source contacted", "ran, not trusted", "cannot be joined", "refused"}
  BY DEF Queries!Said, Causes
<1>5. QueryShape' /\ Unasked'
  BY <1>1, <1>2 DEF QueryShape, Unasked, Preparing, Working
<1>6. Planned' /\ OnRecord' /\ Causes'
  BY <1>1, <1>2 DEF Planned, OnRecord, Causes, Preparing, Working, Ran
<1>7. Queries!RecordsAreTrue' /\ Queries!AgentIsToldTheTruth' /\ Queries!NoShareWithoutRecord'
  BY <1>1, <1>2, <1>3, <1>4 DEF Queries!RecordsAreTrue, Queries!AgentIsToldTheTruth,
       Queries!NoShareWithoutRecord, QueriesAreRecorded
<1>8. Queries!JoinRefusalsAreKept'
  BY <1>3, <1>4 DEF Queries!JoinRefusalsAreKept
<1>9. Queries!DryRunsAreDry' /\ Queries!NothingUnboundIsReached'
  BY <1>1, <1>2, <1>3, <1>4 DEF Queries!DryRunsAreDry,
       Queries!NothingUnboundIsReached, Queries!NoRecord, QueriesAreRecorded
<1>10. QED
  BY <1>5, <1>6, <1>7, <1>8, <1>9 DEF QueriesAreRecorded

LEMMA DescriptionKeeps ==
  ASSUME QueryInv, Queries!ReadDecisions \/ Queries!Describe
  PROVE  QueryInv'
<1> USE DEF QueryInv
<1>1. /\ pc \in {"snapshot", "check"} /\ tool = "describe" /\ pc' \in {"check", "done"}
      /\ pc' = "check" => told_agent' = told_agent
      /\ pc' = "done" => told_agent' \in {"described", "refused"}
      /\ pc = "snapshot" => pc' # "done" \/ told_agent' = "refused"
      /\ UNCHANGED <<policy_version, bound_sources, ready, build, disturbed, tool, candidate, snapshot, seen, custody,
                     refusal, progress, contacted, ran, usage, rows, shares, record>>
  BY DEF Queries!ReadDecisions, Queries!Describe, Queries!Described, Queries!Tell
<1>2. /\ record = Queries!NoRecord /\ contacted = {} /\ usage = {} /\ ~ran /\ progress = "before" /\ refusal = "none"
      /\ told_agent = "none"
  BY <1>1 DEF Unasked, Preparing
<1>3. /\ plan' \subseteq Source /\ reach' \subseteq Source /\ bound_sources \subseteq reach'
      /\ pc = "check" => plan' \subseteq reach'
  BY <1>1 DEF Queries!ReadDecisions, Queries!Describe, QueryShape, Planned
<1>4. QueryShape' /\ Unasked'
  BY <1>1, <1>2, <1>3 DEF QueryShape, Unasked, Preparing, Working
<1>5. Planned' /\ OnRecord' /\ Causes'
  BY <1>1, <1>2, <1>3 DEF Planned, OnRecord, Causes, Preparing, Working, Ran
<1>6. Queries!RecordsAreTrue' /\ Queries!AgentIsToldTheTruth' /\ Queries!NoShareWithoutRecord'
  BY <1>1, <1>2 DEF Queries!RecordsAreTrue, Queries!AgentIsToldTheTruth,
       Queries!NoShareWithoutRecord, Queries!NoRecord
<1>7. Queries!DryRunsAreDry' /\ Queries!JoinRefusalsAreKept' /\ Queries!NothingUnboundIsReached'
  BY <1>1, <1>2, <1>3 DEF Queries!DryRunsAreDry, Queries!JoinRefusalsAreKept,
       Queries!NothingUnboundIsReached, Queries!NoRecord
<1>8. QED
  BY <1>4, <1>5, <1>6, <1>7 DEF QueriesAreRecorded

LEMMA QueryStep ==
  ASSUME QueryInv, Queries!Next
  PROVE  QueryInv'
<1>1. CASE \/ Queries!ReadSnapshot \/ Queries!Health \/ Queries!Filter \/ Queries!Check \/ Queries!Routed \/ Queries!Ready
           \/ Queries!Change
  BY <1>1, PreparationKeeps, ChangeKeeps
<1>2. CASE Queries!OpenEvidence \/ Queries!CustodyAvailable \/ Queries!Execute \/ Queries!Consistent \/ Queries!Seal \/ Queries!Output
  BY <1>2, OpenEvidenceKeeps, CustodyKeeps, ExecuteKeeps, JudgedKeeps
<1>3. CASE \/ Queries!Close \/ Queries!Discard \/ Queries!RefuseRecorded \/ Queries!Validate \/ Queries!RefuseDry
           \/ Queries!ReadDecisions \/ Queries!Describe
  BY <1>3, CloseKeeps, DiscardKeeps, RefuseRecordedKeeps, ValidateKeeps, RefuseDryKeeps, DescriptionKeeps
<1>4. QED
  BY <1>1, <1>2, <1>3 DEF Queries!Next

LEMMA QueryAside ==
  ASSUME QueryInv, UNCHANGED ofQueries
  PROVE  QueryInv'
<1>1. UNCHANGED <<policy_version, bound_sources, ready, build, tool, reach, candidate, pc, snapshot, seen, plan,
                  custody, refusal, progress, contacted, ran, usage, rows, shares, record, told_agent>>
  BY DEF ofQueries
<1>2. QueryShape' /\ Unasked' /\ Planned'
  BY <1>1 DEF QueryInv, QueryShape, Unasked, Planned
<1>3. OnRecord' /\ Causes'
  BY <1>1 DEF QueryInv, OnRecord, Causes
<1>4. QueriesAreRecorded'
  <2>1. QueriesAreRecorded
    BY DEF QueryInv
  <2>2. QED
    BY ONLY <1>1, <2>1 DEF QueriesAreRecorded, Queries!RecordsAreTrue, Queries!AgentIsToldTheTruth,
         Queries!NoShareWithoutRecord, Queries!DryRunsAreDry, Queries!JoinRefusalsAreKept, Queries!NothingUnboundIsReached
<1>5. QED
  BY <1>2, <1>3, <1>4 DEF QueryInv

------------------------------------------------------------------------------
(* Decisions: custody excludes bearer-only credentials, and a compilation   *)
(* that has read the policy under the current version has read all of it.   *)
DecisionInv ==
  /\ decision = [p \in DecidedPool |-> [e \in Decided |-> decision[p][e]]]
  /\ version \in Nat /\ bearer \subseteq DecidedPool
  /\ Decisions!CustodyIsBound
  /\ reader = [pc |-> reader.pc, version |-> reader.version, read |-> reader.read] /\ reader.version \in Nat
  /\ reader.pc \in {"versioned", "read"} => reader.version <= version
  /\ reader.pc = "read" /\ reader.version = version => reader.read = decision

LEMMA DecisionInitially == Decisions!Init => DecisionInv
<1> SUFFICES ASSUME Decisions!Init PROVE DecisionInv
  OBVIOUS
<1>1. decision = [p \in DecidedPool |-> [e \in Decided |-> Undecided]] /\ version = 1 /\ bearer = {}
  BY DEF Decisions!Init
<1>2. reader = [pc |-> "idle", version |-> 0, read |-> <<>>]
  BY DEF Decisions!Init, Decisions!NotReading
<1>3. decision = [p \in DecidedPool |-> [e \in Decided |-> decision[p][e]]]
  BY <1>1
<1>4. QED
  BY <1>1, <1>2, <1>3 DEF DecisionInv, Decisions!CustodyIsBound

(* What is written is decided by a person, or fills a gap.                  *)
LEMMA Deciding ==
  ASSUME DecisionInv, NEW p, NEW E, NEW t, NEW by, Decisions!Decide(p, E, t, by), ~Decisions!Raises(p, t),
         by # "user" => \A e \in E : decision[p][e] = Undecided, UNCHANGED <<bearer, reader>>
  PROVE  /\ DecisionInv'
         /\ \A q \in DecidedPool, e \in Decided :
              decision[q][e] # Undecided /\ decision'[q][e] # decision[q][e] => decision'[q][e].by = "user"
<1> USE DEF DecisionInv
<1>1. /\ decision' = [decision EXCEPT ![p] = [e \in Decided |->
                        IF e \in E THEN [treatment |-> t, by |-> by] ELSE decision[p][e]]]
      /\ version' = version + 1
  BY DEF Decisions!Decide
<1>2. ASSUME NEW q \in DecidedPool, NEW e \in Decided
      PROVE  decision'[q][e] = IF q = p /\ e \in E THEN [treatment |-> t, by |-> by] ELSE decision[q][e]
  <2>1. CASE q = p
    <3>1. decision'[q] = [i \in Decided |-> IF i \in E THEN [treatment |-> t, by |-> by] ELSE decision[p][i]]
      BY <1>1, <2>1
    <3>2. QED
      BY <2>1, <3>1
  <2>2. CASE q # p
    BY <1>1, <2>2
  <2>3. QED
    BY <2>1, <2>2
<1>3. decision' = [q \in DecidedPool |-> [e \in Decided |-> decision'[q][e]]]
  <2>1. ASSUME NEW q \in DecidedPool PROVE decision'[q] = [e \in Decided |-> decision'[q][e]]
    <3>1. CASE q = p
      BY <1>1, <3>1
    <3>2. CASE q # p
      BY <1>1, <3>2
    <3>3. QED
      BY <3>1, <3>2
  <2>2. QED
    BY <1>1, <2>1
<1>4. Decisions!CustodyIsBound'
  <2>1. ASSUME NEW q \in bearer, NEW e \in Decided, q \in DecidedPool, decision'[q][e] # Undecided,
               decision'[q][e].treatment = "custody"
        PROVE  FALSE
    <3>1. CASE q = p /\ e \in E
      BY <1>2, <2>1, <3>1 DEF Decisions!Raises
    <3>2. CASE ~(q = p /\ e \in E)
      <4>1. decision[q][e] # Undecided /\ decision[q][e].treatment = "custody"
        BY <1>2, <2>1, <3>2
      <4>2. QED
        BY <2>1, <4>1 DEF Decisions!CustodyIsBound, Decisions!Holds
    <3>3. QED
      BY <3>1, <3>2
  <2>2. bearer \subseteq DecidedPool
    OBVIOUS
  <2>3. QED
    BY <2>1, <2>2 DEF Decisions!CustodyIsBound, Decisions!Holds
<1>5. version' \in Nat /\ (reader.pc \in {"versioned", "read"} => reader.version < version')
  BY <1>1
<1>6. DecisionInv'
  BY <1>3, <1>4, <1>5
<1>7. ASSUME NEW q \in DecidedPool, NEW e \in Decided, decision[q][e] # Undecided, decision'[q][e] # decision[q][e]
      PROVE  decision'[q][e].by = "user"
  <2>1. q = p /\ e \in E /\ decision'[q][e] = [treatment |-> t, by |-> by]
    BY <1>2, <1>7
  <2>2. by = "user"
    BY <1>7, <2>1
  <2>3. QED
    BY <2>1, <2>2
<1>8. QED
  BY <1>6, <1>7

(* A step of the decisions, with what it may not do to those of a person.   *)
Stay == \A q \in DecidedPool, e \in Decided :
          decision[q][e] # Undecided /\ decision'[q][e] # decision[q][e] => decision'[q][e].by = "user"
Prepared == reader.pc = "read" /\ reader'.pc = "prepared" => reader.read = decision /\ reader.version = version

LEMMA ApplyKeeps ==
  ASSUME DecisionInv, NEW h \in Handler, Decisions!Apply(h)
  PROVE  DecisionInv' /\ Stay
<1> DEFINE e == handling[h]
           p == Decisions!Min(Decisions!Open(e))
<1> HIDE DEF p
<1>1. /\ \A r \in Decisions!Deciding(p, e) :
           ~Decisions!Raises(p, r.treatment) /\ Decisions!Decide(p, {e}, r.treatment, "rule")
      /\ Decisions!Deciding(p, e) = {} => UNCHANGED <<decision, version>>
      /\ UNCHANGED <<bearer, reader>>
  BY DEF Decisions!Apply, Decisions!decisions, p
<1>2. CASE Decisions!Deciding(p, e) = {}
  BY <1>1, <1>2 DEF DecisionInv, Stay, Decisions!CustodyIsBound, Decisions!Holds
<1>3. CASE Decisions!Deciding(p, e) # {}
  <2>1. PICK r : r \in Decisions!Deciding(p, e)
    BY <1>3
  <2>2. decision[p][e] = Undecided
    BY <2>1 DEF Decisions!Deciding
  <2>3. ~Decisions!Raises(p, r.treatment) /\ Decisions!Decide(p, {e}, r.treatment, "rule")
    BY <1>1, <2>1
  <2>4. QED
    BY <1>1, <2>2, <2>3, Deciding DEF Stay
<1>4. QED
  BY <1>2, <1>3

LEMMA CompileKeeps ==
  ASSUME DecisionInv, Decisions!Compile
  PROVE  DecisionInv' /\ Stay /\ Prepared
<1> USE DEF DecisionInv, Decisions!decisions
<1>1. UNCHANGED <<decision, version, bearer>>
  BY DEF Decisions!Compile, Decisions!ReadVersion, Decisions!ReadPolicy, Decisions!Answer, Decisions!Forget
<1>2. Stay
  BY <1>1 DEF Stay
<1>3. (decision = [p \in DecidedPool |-> [e \in Decided |-> decision[p][e]]])' /\ Decisions!CustodyIsBound'
  BY <1>1 DEF Decisions!CustodyIsBound, Decisions!Holds
<1>4. /\ (reader = [pc |-> reader.pc, version |-> reader.version, read |-> reader.read])'
      /\ reader'.version \in Nat
      /\ reader'.pc \in {"versioned", "read"} => reader'.version <= version
      /\ reader'.pc = "read" /\ reader'.version = version => reader'.read = decision
      /\ reader.pc = "read" /\ reader'.pc = "prepared" => reader.version = version
  <2>1. CASE Decisions!ReadVersion
    <3>1. reader' = [pc |-> "versioned", version |-> version, read |-> <<>>]
      BY <2>1 DEF Decisions!ReadVersion, Decisions!NotReading
    <3>2. QED
      BY <3>1
  <2>2. CASE Decisions!ReadPolicy
    <3>1. reader.pc = "versioned"
      BY <2>2 DEF Decisions!ReadPolicy
    <3>2. PICK r : r = [pc |-> reader.pc, version |-> reader.version, read |-> reader.read]
      OBVIOUS
    <3>3. reader' = [reader EXCEPT !.pc = "read", !.read = decision]
      BY <2>2 DEF Decisions!ReadPolicy
    <3>4. reader' = [pc |-> "read", version |-> reader.version, read |-> decision]
      BY <3>3
    <3>5. QED
      BY <3>1, <3>4
  <2>3. CASE Decisions!Answer
    <3>1. reader.pc = "read" /\ reader' = IF version = reader.version THEN [reader EXCEPT !.pc = "prepared"] ELSE Decisions!NotReading
      BY <2>3 DEF Decisions!Answer
    <3>2. CASE version = reader.version
      <4>1. reader' = [pc |-> "prepared", version |-> reader.version, read |-> reader.read]
        BY <3>1, <3>2
      <4>2. QED
        BY <3>2, <4>1
    <3>3. CASE version # reader.version
      <4>1. reader' = [pc |-> "idle", version |-> 0, read |-> <<>>]
        BY <3>1, <3>3 DEF Decisions!NotReading
      <4>2. QED
        BY <4>1
    <3>4. QED
      BY <3>2, <3>3
  <2>4. CASE Decisions!Forget
    <3>1. reader' = [pc |-> "idle", version |-> 0, read |-> <<>>]
      BY <2>4 DEF Decisions!Forget, Decisions!NotReading
    <3>2. QED
      BY <3>1
  <2>5. QED
    BY <2>1, <2>2, <2>3, <2>4 DEF Decisions!Compile
<1>5. Prepared
  BY <1>4 DEF Prepared
<1>6. QED
  BY <1>1, <1>2, <1>3, <1>4, <1>5

LEMMA DecisionStep ==
  ASSUME DecisionInv, Decisions!Next
  PROVE  DecisionInv' /\ Stay /\ Prepared
<1> USE DEF Decisions!decisions
<1>1. ASSUME UNCHANGED <<decision, version, reader>>, bearer' \subseteq DecidedPool,
             \A q \in bearer' \ bearer : ~Decisions!Holds(q, "custody")
      PROVE  DecisionInv' /\ Stay /\ Prepared
  BY <1>1 DEF DecisionInv, Stay, Prepared, Decisions!CustodyIsBound, Decisions!Holds
<1>2. ASSUME NEW p \in DecidedPool, NEW e \in Decided, Decisions!AskCustody(p, e) PROVE DecisionInv' /\ Stay /\ Prepared
  BY <1>1, <1>2 DEF Decisions!AskCustody, DecisionInv
<1>3. ASSUME NEW p \in DecidedPool, NEW e \in Decided, NEW t \in Treatment, Decisions!SetOne(p, e, t)
      PROVE  DecisionInv' /\ Stay /\ Prepared
  <2>1. Decisions!Decide(p, {e}, t, "user") /\ ~Decisions!Raises(p, t) /\ UNCHANGED <<bearer, reader>>
    BY <1>3 DEF Decisions!SetOne
  <2>2. DecisionInv' /\ Stay
    BY <2>1, Deciding DEF Stay
  <2>3. QED
    BY <2>1, <2>2 DEF Prepared
<1>4. ASSUME NEW p \in DecidedPool, NEW E \in SUBSET Decided, NEW t \in Treatment, NEW k \in Key, NEW u \in BOOLEAN,
             Decisions!SetMany(p, E, t, k, u)
      PROVE  DecisionInv' /\ Stay /\ Prepared
  <2>1. ~Decisions!Raises(p, t) /\ UNCHANGED <<bearer, reader>> /\ (u => \A e \in E : decision[p][e] = Undecided)
    BY <1>4 DEF Decisions!SetMany
  <2>2. CASE u
    <3>1. Decisions!Decide(p, E, t, "provisioning")
      BY <1>4, <2>2 DEF Decisions!SetMany
    <3>2. DecisionInv' /\ Stay
      BY <2>1, <2>2, <3>1, Deciding DEF Stay
    <3>3. QED
      BY <2>1, <3>2 DEF Prepared
  <2>3. CASE ~u
    <3>1. Decisions!Decide(p, E, t, "user")
      BY <1>4, <2>3 DEF Decisions!SetMany
    <3>2. DecisionInv' /\ Stay
      BY <2>1, <3>1, Deciding DEF Stay
    <3>3. QED
      BY <2>1, <3>2 DEF Prepared
  <2>4. QED
    BY <2>2, <2>3
<1>5. ASSUME NEW k \in Key, Decisions!ReceiptLapses(k) PROVE DecisionInv' /\ Stay /\ Prepared
  BY <1>1, <1>5 DEF Decisions!ReceiptLapses, DecisionInv
<1>6. ASSUME NEW p \in DecidedPool, Decisions!IssueBearer(p) \/ Decisions!RevokeBearer(p)
      PROVE  DecisionInv' /\ Stay /\ Prepared
  BY <1>1, <1>6 DEF Decisions!IssueBearer, Decisions!RevokeBearer, DecisionInv
<1>7. CASE Decisions!ProviderChanges
  BY <1>1, <1>7 DEF Decisions!ProviderChanges, DecisionInv
<1>8. ASSUME NEW r \in Rule, Decisions!CreateRule(r) \/ Decisions!DeleteRule(r) PROVE DecisionInv' /\ Stay /\ Prepared
  BY <1>1, <1>8 DEF Decisions!CreateRule, Decisions!DeleteRule, DecisionInv
<1>9. ASSUME NEW e \in Decided, Decisions!Discover(e) PROVE DecisionInv' /\ Stay /\ Prepared
  BY <1>1, <1>9 DEF Decisions!Discover, DecisionInv
<1>10. ASSUME NEW h \in Handler,
              Decisions!Handle(h) \/ Decisions!Fails(h) \/ Decisions!Stops(h) \/ Decisions!Acknowledge(h)
       PROVE  DecisionInv' /\ Stay /\ Prepared
  BY <1>1, <1>10 DEF Decisions!Handle, Decisions!Fails, Decisions!Stops, Decisions!Acknowledge, DecisionInv
<1>11. ASSUME NEW h \in Handler, Decisions!Apply(h) PROVE DecisionInv' /\ Stay /\ Prepared
  <2>1. UNCHANGED reader
    BY <1>11 DEF Decisions!Apply
  <2>2. QED
    BY <1>11, <2>1, ApplyKeeps DEF Prepared
<1>12. CASE Decisions!Compile
  BY <1>12, CompileKeeps
<1>13. QED
  BY <1>2, <1>3, <1>4, <1>5, <1>6, <1>7, <1>8, <1>9, <1>10, <1>11, <1>12 DEF Decisions!Next

LEMMA DecisionAside ==
  ASSUME DecisionInv, UNCHANGED ofDecisions
  PROVE  DecisionInv'
BY DEF DecisionInv, ofDecisions, Decisions!CustodyIsBound, Decisions!Holds

------------------------------------------------------------------------------
(* Evidence: the runs and their stored arguments.                           *)
ExportInv == DOMAIN at = Runs /\ DOMAIN text = Runs /\ at = [r \in Runs |-> at[r]] /\ text = [r \in Runs |-> text[r]]
Lawful == \A r \in Runs : at[r] > 0 /\ at'[r] > 0 /\ text'[r] # text[r] => text'[r] = Exports!Stored(text[r], policy)

LEMMA ExportInitially == Exports!Init => ExportInv
BY DEF Exports!Init, ExportInv

LEMMA ExportStep ==
  ASSUME ExportInv, Exports!Next
  PROVE  ExportInv' /\ Lawful
<1> USE DEF ExportInv, Lawful, Exports!evidence
<1>1. CASE UNCHANGED <<at, text>>
  BY <1>1
<1>2. CASE Exports!Redact
  <2> DEFINE n == IF policy = scan.policy /\ at[scan.run] > 0 /\ text[scan.run] = scan.text
                  THEN Exports!Stored(scan.text, scan.policy) ELSE text[scan.run]
  <2>1. text' = [text EXCEPT ![scan.run] = n] /\ at' = at
    BY <1>2 DEF Exports!Redact
  <2>2. n = text[scan.run] \/ n = Exports!Stored(text[scan.run], policy)
    OBVIOUS
  <2> HIDE DEF n
  <2>3. \A r \in Runs : text'[r] = text[r] \/ (r = scan.run /\ text'[r] = n)
    BY <2>1
  <2>4. QED
    BY <2>1, <2>2, <2>3
<1>3. ASSUME NEW r \in Runs, Exports!OpenRun(r) PROVE ExportInv' /\ Lawful
  <2>1. at[r] = 0 /\ DOMAIN at' = Runs /\ DOMAIN text' = Runs /\ \A q \in Runs : q # r => text'[q] = text[q]
    BY <1>3 DEF Exports!OpenRun
  <2>2. at' = [q \in Runs |-> at'[q]] /\ text' = [q \in Runs |-> text'[q]]
    BY <1>3 DEF Exports!OpenRun
  <2>3. Lawful
    BY <2>1
  <2>4. QED
    BY <2>1, <2>2, <2>3
<1>4. ASSUME NEW r \in Runs, Exports!Retain(r) PROVE ExportInv' /\ Lawful
  <2>1. at' = [at EXCEPT ![r] = -1] /\ text' = [text EXCEPT ![r] = "absent"]
    BY <1>4 DEF Exports!Retain, Exports!Deleted
  <2>2. at'[r] = -1 /\ \A q \in Runs : q # r => text'[q] = text[q]
    BY <2>1
  <2>3. ~(at'[r] > 0)
    BY <2>2
  <2>4. ExportInv'
    BY <2>1
  <2>5. QED
    BY <2>2, <2>3, <2>4
<1>5. QED
  <2>1. CASE \/ Exports!Tick \/ Exports!CreateExport \/ Exports!Download \/ Exports!CheckPermission \/ Exports!ReadPage
             \/ Exports!Send \/ Exports!Break \/ Exports!Leave
    BY <1>1, <2>1 DEF Exports!Tick, Exports!CreateExport, Exports!Download, Exports!CheckPermission, Exports!ReadPage,
       Exports!Send, Exports!Break, Exports!Leave
  <2>2. ASSUME NEW r \in Runs, Exports!ReadForRedaction(r) PROVE UNCHANGED <<at, text>>
    BY <2>2 DEF Exports!ReadForRedaction
  <2>3. ASSUME NEW p, Exports!SetPolicy(p) \/ Exports!Permit(p) PROVE UNCHANGED <<at, text>>
    BY <2>3 DEF Exports!SetPolicy, Exports!Permit
  <2>4. QED
    BY <1>1, <1>2, <1>3, <1>4, <2>1, <2>2, <2>3 DEF Exports!Next

LEMMA ExportAside ==
  ASSUME ExportInv, UNCHANGED ofExports
  PROVE  ExportInv'
BY DEF ExportInv, ofExports

------------------------------------------------------------------------------
(* Pairing: the engine's directory and its volumes, its backups and the     *)
(* gateways that claim it.                                                  *)
Peers == Gateway \cup {Absent}
Directories == [made : {"no", "part", "composed", "whole"}, secret : {0, 1}, peer : Peers, ca : Peers, pin : Peers,
                code : Nat, live : BOOLEAN, mark : Nat]
JobPlaces == {"none", "initializing", "copying", "recording", "replacing", "unpacking"}
Jobs == [at : JobPlaces, ran : BOOLEAN, state : Directories \cup {Absent}, volume : Nat]
Listeners == [up : BOOLEAN, peer : Peers, busy : Peers, refused : Nat]
ClaimPlaces == {"idle", "result", "unknown", "pair", "reading", "answered", "trusting", "recorded"}
Copies == [state : Directories, volume : Nat]
SecretOnce(e) == e.made = "no" => e.secret = 0

PairingShape ==
  /\ engine \in Directories /\ volume \in Nat /\ listener \in Listeners
  /\ claiming \in [Gateway -> [at : ClaimPlaces, code : Nat]]
  /\ package \in [Gateway -> [ca : BOOLEAN, peer : BOOLEAN, published : BOOLEAN]]
  /\ command \in Jobs /\ backups \subseteq Copies

(* What a command that was begun has in hand.                               *)
InHand ==
  /\ command.at \in {"copying", "recording", "replacing", "unpacking"} => ~listener.up
  /\ command.at \in {"copying", "recording", "replacing"} => command.state \in Directories
  /\ command.at \in {"copying", "recording"} => command.state.mark = engine.mark /\ SecretOnce(command.state)
  /\ command.at = "recording" => command.volume = volume
  /\ command.at = "replacing" => \E b \in backups : command.state = b.state /\ command.volume = b.volume
  /\ command.at = "unpacking" =>
       \E b \in backups : engine.peer = b.state.peer /\ engine.mark = b.state.mark /\ command.volume = b.volume

Secrets == SecretOnce(engine) /\ \A b \in backups : SecretOnce(b.state)

Mutual ==
  /\ \A g \in Gateway : package[g].peer \/ claiming[g].at \in {"answered", "trusting", "recorded"} =>
       engine.peer = g \/ g \in undone
  /\ listener.up => listener.peer = engine.peer
  /\ listener.up /\ engine.peer # Absent => engine.ca = engine.peer /\ engine.pin = engine.peer

PairingInv == PairingShape /\ InHand /\ Secrets /\ Mutual

PeerKept == engine.peer # Absent /\ engine'.peer # engine.peer => command.at = "replacing"
OneMoment ==
  /\ command.at = "unpacking" /\ listener'.up =>
       \E b \in backups : engine'.peer = b.state.peer /\ engine'.mark = b.state.mark /\ volume' = b.volume
  /\ engine.mark = volume => \A b \in backups' \ backups : b.state.mark = b.volume
PairingKept == PairingInv' /\ PeerKept /\ OneMoment

LEMMA PairingInitially == Pairing!Init => PairingInv
<1> SUFFICES ASSUME Pairing!Init PROVE PairingInv
  OBVIOUS
<1>1. engine \in Directories /\ engine.secret = 0 /\ engine.peer = Absent
  BY DEF Pairing!Init, Pairing!Empty, Directories, Peers
<1>2. listener \in Listeners /\ listener.up = FALSE
  BY DEF Pairing!Init, Pairing!Stopped, Listeners, Peers
<1>3. command \in Jobs /\ command.at = "none"
  BY DEF Pairing!Init, Pairing!NoJob, Jobs, JobPlaces
<1>4. /\ claiming \in [Gateway -> [at : ClaimPlaces, code : Nat]] /\ \A g \in Gateway : claiming[g].at = "idle"
      /\ package \in [Gateway -> [ca : BOOLEAN, peer : BOOLEAN, published : BOOLEAN]] /\ \A g \in Gateway : ~package[g].peer
  BY DEF Pairing!Init, ClaimPlaces
<1>5. volume = 0 /\ backups = {}
  BY DEF Pairing!Init
<1>6. PairingShape
  BY <1>1, <1>2, <1>3, <1>4, <1>5 DEF PairingShape
<1>7. InHand /\ Secrets /\ Mutual
  BY <1>1, <1>2, <1>3, <1>4, <1>5 DEF InHand, Secrets, Mutual, SecretOnce
<1>8. QED
  BY <1>6, <1>7 DEF PairingInv

(* Steps that leave the engine, its volumes, its job and its backups alone: *)
(* what is left to show is about the listener and the claims.               *)
LEMMA ClaimsKeep ==
  ASSUME PairingInv, UNCHANGED <<engine, volume, command, backups>>, PairingShape', undone' = undone,
         listener'.up => listener.up /\ listener'.peer = listener.peer,
         \A g \in Gateway : package'[g].peer \/ claiming'[g].at \in {"answered", "trusting", "recorded"} =>
           engine.peer = g \/ g \in undone
  PROVE  PairingKept
<1>1. InHand'
  BY DEF PairingInv, InHand, SecretOnce
<1>2. Secrets' /\ Mutual'
  BY DEF PairingInv, Secrets, Mutual, SecretOnce
<1>3. PeerKept /\ OneMoment
  BY DEF PairingInv, InHand, PeerKept, OneMoment
<1>4. QED
  BY <1>1, <1>2, <1>3 DEF PairingInv, PairingKept

LEMMA SeveredClaims ==
  ASSUME PairingInv
  PROVE  /\ Pairing!Severed \in [Gateway -> [at : ClaimPlaces, code : Nat]]
         /\ \A g \in Gateway : Pairing!Severed[g].at \in {"answered", "trusting", "recorded"} =>
              claiming[g].at \in {"answered", "trusting", "recorded"}
<1>1. ASSUME NEW g \in Gateway
      PROVE  /\ Pairing!Severed[g] \in [at : ClaimPlaces, code : Nat]
             /\ Pairing!Severed[g].at \in {"answered", "trusting", "recorded"} =>
                  claiming[g].at \in {"answered", "trusting", "recorded"}
  <2>1. PICK c \in [at : ClaimPlaces, code : Nat] : c = claiming[g]
    BY DEF PairingInv, PairingShape
  <2>2. [c EXCEPT !.at = "idle"] \in [at : ClaimPlaces, code : Nat] /\ [c EXCEPT !.at = "idle"].at = "idle"
    BY DEF ClaimPlaces
  <2>3. Pairing!Severed[g] = IF c.at \in {"result", "pair", "reading"} THEN [c EXCEPT !.at = "idle"] ELSE c
    BY <2>1 DEF Pairing!Severed
  <2>4. QED
    BY <2>1, <2>2, <2>3
<1>2. Pairing!Severed = [g \in Gateway |-> Pairing!Severed[g]]
  BY DEF Pairing!Severed
<1>3. QED
  BY <1>1, <1>2

LEMMA ReappliedKeeps ==
  ASSUME NEW e \in Directories
  PROVE  LET n == Pairing!Reapplied(e) IN
         /\ n \in Directories /\ n.made = e.made /\ n.secret = e.secret /\ n.peer = e.peer /\ n.mark = e.mark
         /\ (e.peer # Absent => n.ca = e.peer /\ n.pin = e.peer)
<1>1. PICK a : a = [e EXCEPT !.ca = e.peer]
  OBVIOUS
<1>2. a \in Directories /\ a.made = e.made /\ a.secret = e.secret /\ a.peer = e.peer /\ a.mark = e.mark /\ a.ca = e.peer
  BY <1>1 DEF Directories
<1>3. PICK b : b = [a EXCEPT !.pin = e.peer]
  OBVIOUS
<1>4. /\ b \in Directories /\ b.made = e.made /\ b.secret = e.secret /\ b.peer = e.peer /\ b.mark = e.mark
      /\ b.ca = e.peer /\ b.pin = e.peer
  BY <1>2, <1>3 DEF Directories
<1>5. Pairing!Reapplied(e) = IF e.peer = Absent THEN e ELSE b
  BY <1>1, <1>3 DEF Pairing!Reapplied
<1>6. QED
  BY <1>4, <1>5

(* The services start: the listener with the peer on record.                *)
LEMMA StartedWith ==
  ASSUME NEW e \in Directories, Pairing!Started(e)
  PROVE  /\ engine' \in Directories /\ engine'.made = e.made /\ engine'.secret = e.secret /\ engine'.peer = e.peer
         /\ engine'.mark = e.mark /\ (e.peer # Absent => engine'.ca = e.peer /\ engine'.pin = e.peer)
         /\ listener' \in Listeners /\ listener'.up /\ listener'.peer = e.peer
<1>1. /\ engine' \in Directories /\ engine'.made = e.made /\ engine'.secret = e.secret /\ engine'.peer = e.peer
      /\ engine'.mark = e.mark /\ (e.peer # Absent => engine'.ca = e.peer /\ engine'.pin = e.peer)
  BY ReappliedKeeps DEF Pairing!Started
<1>2. PICK p \in Peers : p = e.peer
  BY DEF Directories
<1>3. PICK s : s = Pairing!Stopped
  OBVIOUS
<1>4. s \in Listeners
  BY <1>3 DEF Pairing!Stopped, Listeners, Peers
<1>5. PICK u : u = [s EXCEPT !.up = TRUE]
  OBVIOUS
<1>6. u \in Listeners /\ u.up = TRUE
  BY <1>4, <1>5 DEF Listeners
<1>7. PICK l : l = [u EXCEPT !.peer = p]
  OBVIOUS
<1>8. l \in Listeners /\ l.up = TRUE /\ l.peer = p
  BY <1>6, <1>7 DEF Listeners
<1>9. listener' = l
  BY <1>2, <1>3, <1>5, <1>7 DEF Pairing!Started
<1>10. QED
  BY <1>1, <1>2, <1>8, <1>9

LEMMA StoppedIsDown == Pairing!Stopped \in Listeners /\ Pairing!Stopped.up = FALSE
BY DEF Pairing!Stopped, Listeners, Peers

LEMMA NoJobIsNone == Pairing!NoJob \in Jobs /\ Pairing!NoJob.at = "none"
BY DEF Pairing!NoJob, Jobs, JobPlaces

(* The engine's directory changes under its services and its jobs.          *)
LEMMA DirectoryKeeps ==
  ASSUME PairingInv, UNCHANGED <<volume, listener, claiming, package, backups, undone>>,
         engine' \in Directories, engine'.peer = engine.peer, engine'.mark = engine.mark, SecretOnce(engine'),
         engine'.ca = engine.ca /\ engine'.pin = engine.pin,
         command' = command \/ (command' \in Jobs /\ command'.at \in {"none", "initializing"})
  PROVE  PairingKept
<1>1. PairingShape'
  BY DEF PairingInv, PairingShape
<1>2. InHand'
  BY DEF PairingInv, InHand, SecretOnce
<1>3. Secrets'
  BY DEF PairingInv, Secrets, SecretOnce
<1>4. Mutual'
  BY DEF PairingInv, Mutual
<1>5. PeerKept /\ OneMoment
  BY DEF PairingInv, InHand, PeerKept, OneMoment
<1>6. QED
  BY <1>1, <1>2, <1>3, <1>4, <1>5 DEF PairingInv, PairingKept

LEMMA InstallationKeeps ==
  ASSUME PairingInv, Pairing!Initialize \/ Pairing!FinishInstall \/ Pairing!IssueCode \/ Pairing!CodeExpires
  PROVE  PairingKept
<1>0. PICK e \in Directories : e = engine
  BY DEF PairingInv, PairingShape
<1>1. PICK j \in Jobs : j = command
  BY DEF PairingInv, PairingShape
<1>2. SecretOnce(e)
  BY <1>0 DEF PairingInv, Secrets
<1>3. CASE Pairing!Initialize
  <2>1. e.made = "no" /\ e.secret = 0
    BY <1>0, <1>2, <1>3 DEF Pairing!Initialize, Pairing!MayInitialize, SecretOnce
  <2>2. PICK a : a = [e EXCEPT !.made = "part"]
    OBVIOUS
  <2>3. a \in Directories /\ a.made = "part" /\ a.secret = 0 /\ a.peer = e.peer /\ a.mark = e.mark /\ a.ca = e.ca /\ a.pin = e.pin
    BY <2>1, <2>2 DEF Directories
  <2>4. PICK b : b = [a EXCEPT !.secret = 1]
    OBVIOUS
  <2>5. b \in Directories /\ b.made = "part" /\ b.peer = e.peer /\ b.mark = e.mark /\ b.ca = e.ca /\ b.pin = e.pin
    BY <2>3, <2>4 DEF Directories
  <2>6. engine' = b
    BY <1>0, <1>3, <2>1, <2>2, <2>4 DEF Pairing!Initialize
  <2>7. [j EXCEPT !.at = "initializing"] \in Jobs /\ [j EXCEPT !.at = "initializing"].at = "initializing"
    BY DEF Jobs, JobPlaces
  <2>8. command' = [j EXCEPT !.at = "initializing"] /\ UNCHANGED <<volume, listener, claiming, package, backups, undone>>
    BY <1>1, <1>3 DEF Pairing!Initialize
  <2>9. QED
    BY <1>0, <2>5, <2>6, <2>7, <2>8, DirectoryKeeps DEF SecretOnce
<1>4. CASE Pairing!FinishInstall
  <2>1. ASSUME NEW m \in {"composed", "whole"}, engine' = [e EXCEPT !.made = m]
        PROVE  engine' \in Directories /\ engine'.peer = e.peer /\ engine'.mark = e.mark /\ engine'.made = m
               /\ engine'.ca = e.ca /\ engine'.pin = e.pin
    BY <2>1 DEF Directories
  <2>2. /\ \/ engine' = [e EXCEPT !.made = "composed"] /\ command' = command
           \/ engine' = [e EXCEPT !.made = "whole"] /\ command' = Pairing!NoJob
        /\ UNCHANGED <<volume, listener, claiming, package, backups, undone>>
    BY <1>0, <1>4 DEF Pairing!FinishInstall
  <2>3. QED
    BY <1>0, <2>1, <2>2, NoJobIsNone, DirectoryKeeps DEF SecretOnce
<1>5. CASE Pairing!IssueCode
  <2>1. PICK n \in Nat : n = e.code + 1
    BY DEF Directories
  <2>2. PICK a : a = [e EXCEPT !.code = n]
    OBVIOUS
  <2>3. /\ a \in Directories /\ a.made = e.made /\ a.secret = e.secret /\ a.peer = e.peer /\ a.mark = e.mark
        /\ a.ca = e.ca /\ a.pin = e.pin
    BY <2>1, <2>2 DEF Directories
  <2>4. PICK b : b = [a EXCEPT !.live = TRUE]
    OBVIOUS
  <2>5. /\ b \in Directories /\ b.made = e.made /\ b.secret = e.secret /\ b.peer = e.peer /\ b.mark = e.mark
        /\ b.ca = e.ca /\ b.pin = e.pin
    BY <2>3, <2>4 DEF Directories
  <2>6. engine' = b /\ command' = command /\ UNCHANGED <<volume, listener, claiming, package, backups, undone>>
    BY <1>0, <1>5, <2>1, <2>2, <2>4 DEF Pairing!IssueCode
  <2>7. QED
    BY <1>0, <1>2, <2>5, <2>6, DirectoryKeeps DEF SecretOnce
<1>6. CASE Pairing!CodeExpires
  <2>1. PICK b : b = [e EXCEPT !.live = FALSE]
    OBVIOUS
  <2>2. /\ b \in Directories /\ b.made = e.made /\ b.secret = e.secret /\ b.peer = e.peer /\ b.mark = e.mark
        /\ b.ca = e.ca /\ b.pin = e.pin
    BY <2>1 DEF Directories
  <2>3. engine' = b /\ command' = command /\ UNCHANGED <<volume, listener, claiming, package, backups, undone>>
    BY <1>0, <1>6, <2>1 DEF Pairing!CodeExpires
  <2>4. QED
    BY <1>0, <1>2, <2>2, <2>3, DirectoryKeeps DEF SecretOnce
<1>7. QED
  BY <1>3, <1>4, <1>5, <1>6

LEMMA ServiceKeeps ==
  ASSUME PairingInv, Pairing!Start \/ Pairing!Halt \/ Pairing!Work \/ Pairing!WindowPasses
  PROVE  PairingKept
<1>0. PICK e \in Directories : e = engine
  BY DEF PairingInv, PairingShape
<1>1. CASE Pairing!Start
  <2>1. Pairing!Started(e) /\ command.at = "none" /\ UNCHANGED <<volume, claiming, package, command, backups, undone>>
    BY <1>0, <1>1, NoJobIsNone DEF Pairing!Start
  <2>2. /\ engine' \in Directories /\ engine'.made = e.made /\ engine'.secret = e.secret /\ engine'.peer = e.peer
        /\ engine'.mark = e.mark /\ (e.peer # Absent => engine'.ca = e.peer /\ engine'.pin = e.peer)
        /\ listener' \in Listeners /\ listener'.up /\ listener'.peer = e.peer
    BY <2>1, StartedWith
  <2>3. PairingShape' /\ InHand'
    BY <2>1, <2>2 DEF PairingInv, PairingShape, InHand
  <2>4. Secrets' /\ Mutual'
    <3>1. Secrets'
      BY <1>0, <2>1, <2>2 DEF PairingInv, Secrets, SecretOnce
    <3>2. UNCHANGED <<package, claiming, undone>> /\ engine'.peer = engine.peer /\ listener'.peer = engine.peer
      BY <1>0, <2>1, <2>2
    <3>3. engine.peer # Absent => engine'.ca = engine.peer /\ engine'.pin = engine.peer
      BY <1>0, <2>2
    <3>4. \A g \in Gateway : package[g].peer \/ claiming[g].at \in {"answered", "trusting", "recorded"} =>
            engine.peer = g \/ g \in undone
      BY DEF PairingInv, Mutual
    <3>5. Mutual'
      BY <3>2, <3>3, <3>4 DEF Mutual
    <3>6. QED
      BY <3>1, <3>5
  <2>5. PeerKept /\ OneMoment
    BY <1>0, <2>1, <2>2 DEF PeerKept, OneMoment
  <2>6. QED
    BY <2>3, <2>4, <2>5 DEF PairingInv, PairingKept
<1>2. CASE Pairing!Halt
  <2>1. listener' = Pairing!Stopped /\ claiming' = Pairing!Severed /\ UNCHANGED <<engine, volume, package, command, backups, undone>>
    BY <1>2 DEF Pairing!Halt
  <2>2. PairingShape'
    BY <2>1, SeveredClaims, StoppedIsDown DEF PairingInv, PairingShape
  <2>3. \A g \in Gateway : package'[g].peer \/ claiming'[g].at \in {"answered", "trusting", "recorded"} =>
           engine.peer = g \/ g \in undone
    BY <2>1, SeveredClaims DEF PairingInv, Mutual
  <2>4. QED
    BY <2>1, <2>2, <2>3, StoppedIsDown, ClaimsKeep
<1>3. CASE Pairing!Work
  <2>1. /\ listener.up /\ volume' = volume + 1 /\ engine' = [e EXCEPT !.mark = volume + 1]
        /\ UNCHANGED <<listener, claiming, package, command, backups, undone>>
    BY <1>0, <1>3 DEF Pairing!Work
  <2>2. volume + 1 \in Nat
    BY DEF PairingInv, PairingShape
  <2>3. PICK b : b = [e EXCEPT !.mark = volume + 1]
    OBVIOUS
  <2>4. b \in Directories /\ b.made = e.made /\ b.secret = e.secret /\ b.peer = e.peer /\ b.ca = e.ca /\ b.pin = e.pin
    BY <2>2, <2>3 DEF Directories
  <2>5. engine' = b /\ command.at \notin {"copying", "recording", "replacing", "unpacking"}
    BY <2>1, <2>3 DEF PairingInv, InHand
  <2>6. PairingShape' /\ InHand'
    BY <2>1, <2>2, <2>4, <2>5 DEF PairingInv, PairingShape, InHand
  <2>7. Secrets' /\ Mutual'
    <3>1. Secrets'
      BY <1>0, <2>1, <2>4, <2>5 DEF PairingInv, Secrets, SecretOnce
    <3>2. UNCHANGED <<listener, package, claiming, undone>>
      BY <2>1
    <3>3. engine'.peer = engine.peer /\ engine'.ca = engine.ca /\ engine'.pin = engine.pin
      BY <1>0, <2>4, <2>5
    <3>4. Mutual'
      BY <3>2, <3>3 DEF PairingInv, Mutual
    <3>5. QED
      BY <3>1, <3>4
  <2>8. PeerKept /\ OneMoment
    BY <1>0, <2>1, <2>4, <2>5 DEF PeerKept, OneMoment
  <2>9. QED
    BY <2>6, <2>7, <2>8 DEF PairingInv, PairingKept
<1>4. CASE Pairing!WindowPasses
  <2>1. PICK l \in Listeners : l = listener
    BY DEF PairingInv, PairingShape
  <2>2. [l EXCEPT !.refused = 0] \in Listeners /\ [l EXCEPT !.refused = 0].up = l.up /\ [l EXCEPT !.refused = 0].peer = l.peer
    BY DEF Listeners
  <2>3. /\ listener' = [l EXCEPT !.refused = 0]
        /\ UNCHANGED <<engine, volume, claiming, package, command, backups, undone>>
    BY <1>4, <2>1 DEF Pairing!WindowPasses
  <2>4. PairingShape'
    BY <2>2, <2>3 DEF PairingInv, PairingShape
  <2>5. \A g \in Gateway : package'[g].peer \/ claiming'[g].at \in {"answered", "trusting", "recorded"} =>
           engine.peer = g \/ g \in undone
    BY <2>3 DEF PairingInv, Mutual
  <2>6. QED
    BY <2>1, <2>2, <2>3, <2>4, <2>5, ClaimsKeep
<1>5. QED
  BY <1>1, <1>2, <1>3, <1>4

(* What a gateway's command does to its own claim.                          *)
LEMMA TurnedAwayKeeps ==
  ASSUME PairingInv, NEW g \in Gateway, NEW to \in ClaimPlaces, claiming' = [claiming EXCEPT ![g].at = to]
  PROVE  /\ claiming' \in [Gateway -> [at : ClaimPlaces, code : Nat]] /\ claiming'[g].at = to
         /\ \A h \in Gateway \ {g} : claiming'[h] = claiming[h]
<1>1. PICK c \in [at : ClaimPlaces, code : Nat] : c = claiming[g]
  BY DEF PairingInv, PairingShape
<1>2. PICK d : d = [c EXCEPT !.at = to]
  OBVIOUS
<1>3. d \in [at : ClaimPlaces, code : Nat] /\ d.at = to
  BY <1>2
<1>4. claiming' = [claiming EXCEPT ![g] = d]
  BY <1>1, <1>2
<1>5. QED
  BY <1>3, <1>4 DEF PairingInv, PairingShape

(* A claim moves to where nothing is promised.                              *)
LEMMA HarmlessClaim ==
  ASSUME PairingInv, NEW g \in Gateway, NEW to \in ClaimPlaces \ {"answered", "trusting", "recorded"},
         claiming' = [claiming EXCEPT ![g].at = to], listener' \in Listeners,
         listener'.up = listener.up /\ listener'.peer = listener.peer,
         UNCHANGED <<engine, volume, package, command, backups, undone>>
  PROVE  PairingKept
<1>1. /\ claiming' \in [Gateway -> [at : ClaimPlaces, code : Nat]] /\ claiming'[g].at = to
      /\ \A h \in Gateway \ {g} : claiming'[h] = claiming[h]
  BY TurnedAwayKeeps
<1>2. PairingShape'
  BY <1>1 DEF PairingInv, PairingShape
<1>3. \A h \in Gateway : package'[h].peer \/ claiming'[h].at \in {"answered", "trusting", "recorded"} =>
           engine.peer = h \/ h \in undone
  BY <1>1 DEF PairingInv, Mutual
<1>4. QED
  BY <1>2, <1>3, ClaimsKeep

LEMMA ListenerSteps ==
  ASSUME PairingInv
  PROVE  /\ listener \in Listeners
         /\ \A g \in Gateway : /\ [listener EXCEPT !.busy = g] \in Listeners
                               /\ [listener EXCEPT !.busy = g].up = listener.up /\ [listener EXCEPT !.busy = g].peer = listener.peer
         /\ /\ [listener EXCEPT !.busy = Absent] \in Listeners
            /\ [listener EXCEPT !.busy = Absent].up = listener.up /\ [listener EXCEPT !.busy = Absent].peer = listener.peer
<1>1. listener \in Listeners
  BY DEF PairingInv, PairingShape
<1>2. ASSUME NEW l \in Listeners, NEW b \in Peers
      PROVE  /\ [l EXCEPT !.busy = b] \in Listeners
             /\ [l EXCEPT !.busy = b].up = l.up /\ [l EXCEPT !.busy = b].peer = l.peer
  BY DEF Listeners
<1>3. QED
  BY <1>1, <1>2 DEF Peers

LEMMA AskingKeeps ==
  ASSUME PairingInv, NEW g \in Gateway, Pairing!TakePair(g) \/ Pairing!RefusePair(g) \/ Pairing!AskPair(g) \/ Pairing!LoseClaim(g)
  PROVE  PairingKept
<1>1. CASE Pairing!TakePair(g)
  <2>1. PICK to \in {"idle", "reading"} : claiming' = [claiming EXCEPT ![g].at = to]
    BY <1>1 DEF Pairing!TakePair, Pairing!TurnedAway
  <2>2. listener' = listener \/ listener' = [listener EXCEPT !.busy = g]
    BY <1>1 DEF Pairing!TakePair
  <2>3. UNCHANGED <<engine, volume, package, command, backups, undone>>
    BY <1>1 DEF Pairing!TakePair
  <2>4. QED
    BY <2>1, <2>2, <2>3, ListenerSteps, HarmlessClaim DEF ClaimPlaces
<1>2. CASE Pairing!RefusePair(g)
  <2>1. claiming' = [claiming EXCEPT ![g].at = "idle"] /\ UNCHANGED <<engine, volume, package, command, backups, undone>>
    BY <1>2 DEF Pairing!RefusePair, Pairing!TurnedAway
  <2>2. PICK l \in Listeners : l = listener
    BY DEF PairingInv, PairingShape
  <2>3. PICK n : n = IF l.refused < MaxRefused THEN l.refused + 1 ELSE l.refused
    OBVIOUS
  <2>4. n \in Nat
    BY <2>3 DEF Listeners
  <2>5. PICK a : a = [l EXCEPT !.busy = Absent]
    OBVIOUS
  <2>6. a \in Listeners /\ a.up = l.up /\ a.peer = l.peer /\ a.refused = l.refused
    BY <2>5 DEF Listeners, Peers
  <2>7. PICK b : b = [a EXCEPT !.refused = n]
    OBVIOUS
  <2>8. b \in Listeners /\ b.up = l.up /\ b.peer = l.peer
    BY <2>4, <2>6, <2>7 DEF Listeners
  <2>9. listener' = b
    BY <1>2, <2>2, <2>3, <2>5, <2>6, <2>7 DEF Pairing!RefusePair
  <2>10. QED
    BY <2>1, <2>2, <2>8, <2>9, HarmlessClaim DEF ClaimPlaces
<1>3. CASE Pairing!AskPair(g)
  <2>1. claiming' = [claiming EXCEPT ![g].at = "pair"] /\ UNCHANGED <<engine, volume, listener, package, command, backups, undone>>
    BY <1>3 DEF Pairing!AskPair
  <2>2. QED
    BY <2>1, ListenerSteps, HarmlessClaim DEF ClaimPlaces
<1>4. CASE Pairing!LoseClaim(g)
  <2>1. claiming' = [claiming EXCEPT ![g].at = "idle"] /\ UNCHANGED <<engine, volume, package, command, backups, undone>>
    BY <1>4 DEF Pairing!LoseClaim, Pairing!TurnedAway
  <2>2. listener' = listener \/ listener' = [listener EXCEPT !.busy = Absent]
    BY <1>4 DEF Pairing!LoseClaim
  <2>3. QED
    BY <2>1, <2>2, ListenerSteps, HarmlessClaim DEF ClaimPlaces
<1>5. QED
  BY <1>1, <1>2, <1>3, <1>4

LEMMA AnswerKeeps ==
  ASSUME PairingInv, NEW g \in Gateway, Pairing!AnswerResult(g)
  PROVE  PairingKept
<1>1. /\ listener.up /\ claiming' = [claiming EXCEPT ![g].at = IF listener.peer = g THEN "answered" ELSE "unknown"]
      /\ UNCHANGED <<engine, volume, listener, package, command, backups, undone>>
  BY DEF Pairing!AnswerResult, Pairing!Recorded
<1>2. PICK to \in {"answered", "unknown"} : to = IF listener.peer = g THEN "answered" ELSE "unknown"
  OBVIOUS
<1>3. to \in ClaimPlaces /\ (to = "answered" => engine.peer = g)
  BY <1>1, <1>2 DEF ClaimPlaces, PairingInv, Mutual
<1>4. /\ claiming' \in [Gateway -> [at : ClaimPlaces, code : Nat]] /\ claiming'[g].at = to
      /\ \A h \in Gateway \ {g} : claiming'[h] = claiming[h]
  BY <1>1, <1>2, <1>3, TurnedAwayKeeps
<1>5. PairingShape'
  BY <1>1, <1>4 DEF PairingInv, PairingShape
<1>6. \A h \in Gateway : package'[h].peer \/ claiming'[h].at \in {"answered", "trusting", "recorded"} =>
           engine.peer = h \/ h \in undone
  BY <1>1, <1>2, <1>3, <1>4 DEF PairingInv, Mutual
<1>7. QED
  BY <1>1, <1>5, <1>6, ClaimsKeep

LEMMA BeginClaimKeeps ==
  ASSUME PairingInv, NEW g \in Gateway, NEW code \in Nat, Pairing!BeginClaim(g, code)
  PROVE  PairingKept
<1>1. PICK c : c = [at |-> "result", code |-> code]
  OBVIOUS
<1>2. c \in [at : ClaimPlaces, code : Nat] /\ c.at = "result"
  BY <1>1 DEF ClaimPlaces
<1>3. claiming' = [claiming EXCEPT ![g] = c] /\ UNCHANGED <<engine, volume, listener, package, command, backups, undone>>
  BY <1>1 DEF Pairing!BeginClaim
<1>4. PairingShape'
  BY <1>2, <1>3 DEF PairingInv, PairingShape
<1>5. \A h \in Gateway : package'[h].peer \/ claiming'[h].at \in {"answered", "trusting", "recorded"} =>
           engine.peer = h \/ h \in undone
  BY <1>2, <1>3 DEF PairingInv, PairingShape, Mutual
<1>6. QED
  BY <1>3, <1>4, <1>5, ClaimsKeep

(* Trust, and then the peer, which is what the engine has recorded.         *)
LEMMA TrustKeeps ==
  ASSUME PairingInv, NEW g \in Gateway,
         Pairing!Trust(g) \/ Pairing!RecordPeer(g) \/ Pairing!Publish(g) \/ Pairing!UpgradeGateway(g)
  PROVE  PairingKept
<1>0. /\ package \in [Gateway -> [ca : BOOLEAN, peer : BOOLEAN, published : BOOLEAN]]
      /\ claiming \in [Gateway -> [at : ClaimPlaces, code : Nat]]
      /\ \A h \in Gateway : package[h].peer \/ claiming[h].at \in {"answered", "trusting", "recorded"} =>
           engine.peer = h \/ h \in undone
  BY DEF PairingInv, PairingShape, Mutual
<1>1. PICK p \in [ca : BOOLEAN, peer : BOOLEAN, published : BOOLEAN] : p = package[g]
  BY <1>0
<1>2. ASSUME NEW q \in [ca : BOOLEAN, peer : BOOLEAN, published : BOOLEAN], package' = [package EXCEPT ![g] = q],
             q.peer => p.peer \/ claiming[g].at \in {"answered", "trusting", "recorded"},
             \/ claiming' = claiming
             \/ /\ claiming[g].at \in {"answered", "trusting", "recorded"}
                /\ \E to \in {"idle", "trusting", "recorded"} : claiming' = [claiming EXCEPT ![g].at = to],
             UNCHANGED <<engine, volume, listener, command, backups, undone>>
      PROVE  PairingKept
  <2>1. /\ claiming' \in [Gateway -> [at : ClaimPlaces, code : Nat]]
        /\ \A h \in Gateway : claiming'[h].at \in {"answered", "trusting", "recorded"} =>
             claiming[h].at \in {"answered", "trusting", "recorded"}
    <3>1. CASE claiming' = claiming
      BY <3>1, <1>0
    <3>2. ASSUME claiming[g].at \in {"answered", "trusting", "recorded"},
                 NEW to \in {"idle", "trusting", "recorded"}, claiming' = [claiming EXCEPT ![g].at = to]
          PROVE  <2>1
      <4>1. to \in ClaimPlaces
        BY DEF ClaimPlaces
      <4>2. /\ claiming' \in [Gateway -> [at : ClaimPlaces, code : Nat]] /\ claiming'[g].at = to
            /\ \A h \in Gateway \ {g} : claiming'[h] = claiming[h]
        BY <3>2, <4>1, TurnedAwayKeeps
      <4>3. QED
        BY <3>2, <4>2
    <3>3. QED
      BY <1>2, <3>1, <3>2
  <2>2. PairingShape'
    BY <1>0, <1>2, <2>1 DEF PairingInv, PairingShape
  <2>3. \A h \in Gateway : package'[h].peer \/ claiming'[h].at \in {"answered", "trusting", "recorded"} =>
           engine.peer = h \/ h \in undone
    BY <1>0, <1>1, <1>2, <2>1
  <2>4. QED
    BY <1>2, <2>2, <2>3, ClaimsKeep
<1>3. CASE Pairing!Trust(g)
  <2>1. /\ claiming[g].at = "answered" /\ UNCHANGED <<engine, volume, listener, command, backups, undone>>
        /\ \/ claiming' = [claiming EXCEPT ![g].at = "idle"] /\ package' = package
           \/ claiming' = [claiming EXCEPT ![g].at = "trusting"] /\ package' = [package EXCEPT ![g].ca = TRUE]
    BY <1>3 DEF Pairing!Trust, Pairing!TurnedAway
  <2>2. [p EXCEPT !.ca = TRUE] \in [ca : BOOLEAN, peer : BOOLEAN, published : BOOLEAN] /\ [p EXCEPT !.ca = TRUE].peer = p.peer
    OBVIOUS
  <2>3. package' = package => package' = [package EXCEPT ![g] = p]
    BY <1>0, <1>1
  <2>4. package' = [package EXCEPT ![g].ca = TRUE] => package' = [package EXCEPT ![g] = [p EXCEPT !.ca = TRUE]]
    BY <1>0, <1>1
  <2>5. QED
    BY <1>2, <2>1, <2>2, <2>3, <2>4
<1>4. CASE Pairing!RecordPeer(g)
  <2>1. /\ claiming[g].at = "trusting" /\ UNCHANGED <<engine, volume, listener, command, backups, undone>>
        /\ claiming' = [claiming EXCEPT ![g].at = "recorded"] /\ package' = [package EXCEPT ![g].peer = TRUE]
    BY <1>4 DEF Pairing!RecordPeer
  <2>2. [p EXCEPT !.peer = TRUE] \in [ca : BOOLEAN, peer : BOOLEAN, published : BOOLEAN]
    OBVIOUS
  <2>3. package' = [package EXCEPT ![g] = [p EXCEPT !.peer = TRUE]]
    BY <1>0, <1>1, <2>1
  <2>4. QED
    BY <1>2, <2>1, <2>2, <2>3
<1>5. CASE Pairing!Publish(g)
  <2>1. /\ claiming[g].at = "recorded" /\ UNCHANGED <<engine, volume, listener, command, backups, undone>>
        /\ claiming' = [claiming EXCEPT ![g].at = "idle"] /\ package' = [package EXCEPT ![g].published = TRUE]
    BY <1>5 DEF Pairing!Publish, Pairing!TurnedAway
  <2>2. /\ [p EXCEPT !.published = TRUE] \in [ca : BOOLEAN, peer : BOOLEAN, published : BOOLEAN]
        /\ [p EXCEPT !.published = TRUE].peer = p.peer
    OBVIOUS
  <2>3. package' = [package EXCEPT ![g] = [p EXCEPT !.published = TRUE]]
    BY <1>0, <1>1, <2>1
  <2>4. QED
    BY <1>2, <2>1, <2>2, <2>3
<1>6. CASE Pairing!UpgradeGateway(g)
  <2>1. PICK o : o = (p.published \/ p.peer)
    OBVIOUS
  <2>2. o \in BOOLEAN
    BY <2>1
  <2>3. PICK q : q = [ca |-> p.peer, peer |-> p.peer, published |-> o]
    OBVIOUS
  <2>4. q \in [ca : BOOLEAN, peer : BOOLEAN, published : BOOLEAN] /\ q.peer = p.peer
    BY <2>2, <2>3
  <2>5. package' = [package EXCEPT ![g] = q] /\ UNCHANGED <<engine, volume, listener, claiming, command, backups, undone>>
    BY <1>0, <1>1, <1>6, <2>1, <2>3 DEF Pairing!UpgradeGateway
  <2>6. QED
    BY <1>2, <2>4, <2>5
<1>7. QED
  BY <1>3, <1>4, <1>5, <1>6

(* The first good claim of an engine without a peer.                        *)
LEMMA PairKeeps ==
  ASSUME PairingInv, NEW g \in Gateway, Pairing!Pair(g)
  PROVE  PairingKept
<1>0. PICK e \in Directories : e = engine
  BY DEF PairingInv, PairingShape
<1>1. PICK l \in Listeners : l = listener
  BY DEF PairingInv, PairingShape
<1>2. g # Absent /\ g \in Peers
  BY AbsentAssumption DEF Peers
<1>3. /\ listener.up /\ e.peer = Absent /\ UNCHANGED <<volume, package, command, backups, undone>>
      /\ command.at \notin {"copying", "recording", "replacing", "unpacking"}
  BY <1>0 DEF Pairing!Pair, Pairing!Unpaired, PairingInv, InHand
<1>4. PICK a : a = [e EXCEPT !.peer = g]
  OBVIOUS
<1>5. /\ a \in Directories /\ a.made = e.made /\ a.secret = e.secret /\ a.mark = e.mark /\ a.peer = g
      /\ a.ca = e.ca /\ a.pin = e.pin
  BY <1>2, <1>4 DEF Directories
<1>6. ASSUME NEW ca \in Peers, NEW b, b = [a EXCEPT !.ca = ca]
      PROVE  b \in Directories /\ b.made = e.made /\ b.secret = e.secret /\ b.mark = e.mark /\ b.peer = g /\ b.ca = ca
  BY <1>5, <1>6 DEF Directories
<1>7. ASSUME engine' \in Directories, engine'.made = e.made, engine'.secret = e.secret, engine'.mark = e.mark,
             engine'.peer = g, listener' \in Listeners,
             listener'.up => listener'.peer = g /\ engine'.ca = g /\ engine'.pin = g,
             claiming' \in [Gateway -> [at : ClaimPlaces, code : Nat]],
             \A h \in Gateway \ {g} : claiming'[h].at \in {"answered", "trusting", "recorded"} =>
               claiming[h].at \in {"answered", "trusting", "recorded"}
      PROVE  PairingKept
  <2>1. PairingShape' /\ InHand'
    BY <1>3, <1>7 DEF PairingInv, PairingShape, InHand
  <2>2. Secrets'
    BY <1>0, <1>3, <1>7 DEF PairingInv, Secrets, SecretOnce
  <2>3. \A h \in Gateway : package[h].peer \/ claiming[h].at \in {"answered", "trusting", "recorded"} => h \in undone
    BY <1>0, <1>3, AbsentAssumption DEF PairingInv, Mutual
  <2>4. Mutual'
    BY <1>3, <1>7, <2>3 DEF Mutual
  <2>5. PeerKept /\ OneMoment
    BY <1>0, <1>3 DEF PeerKept, OneMoment
  <2>6. QED
    BY <2>1, <2>2, <2>4, <2>5 DEF PairingInv, PairingKept
<1>8. CASE /\ engine' = [engine EXCEPT !.peer = g, !.ca = g, !.pin = g]
           /\ listener' = [listener EXCEPT !.peer = g, !.busy = Absent]
           /\ claiming' = [claiming EXCEPT ![g].at = "answered"]
  <2>1. PICK b : b = [a EXCEPT !.ca = g]
    OBVIOUS
  <2>2. b \in Directories /\ b.made = e.made /\ b.secret = e.secret /\ b.mark = e.mark /\ b.peer = g /\ b.ca = g
    BY <1>2, <1>6, <2>1
  <2>3. PICK c : c = [b EXCEPT !.pin = g]
    OBVIOUS
  <2>4. /\ c \in Directories /\ c.made = e.made /\ c.secret = e.secret /\ c.mark = e.mark /\ c.peer = g /\ c.ca = g
        /\ c.pin = g
    BY <1>2, <2>2, <2>3 DEF Directories
  <2>5. engine' = c
    BY <1>0, <1>4, <1>8, <2>1, <2>3
  <2>6. PICK m : m = [l EXCEPT !.peer = g]
    OBVIOUS
  <2>7. m \in Listeners /\ m.peer = g
    BY <1>2, <2>6 DEF Listeners
  <2>8. PICK n : n = [m EXCEPT !.busy = Absent]
    OBVIOUS
  <2>9. n \in Listeners /\ n.peer = g
    BY <2>7, <2>8 DEF Listeners, Peers
  <2>10. listener' = n
    BY <1>1, <1>8, <2>6, <2>8
  <2>11. /\ claiming' \in [Gateway -> [at : ClaimPlaces, code : Nat]]
         /\ \A h \in Gateway \ {g} : claiming'[h] = claiming[h]
    <3>1. "answered" \in ClaimPlaces
      BY DEF ClaimPlaces
    <3>2. QED
      BY <1>8, <3>1, TurnedAwayKeeps
  <2>12. QED
    BY <1>7, <2>4, <2>5, <2>9, <2>10, <2>11
<1>9. ASSUME NEW ca \in {engine.ca, g}, engine' = [engine EXCEPT !.peer = g, !.ca = ca],
             listener' = Pairing!Stopped, claiming' = Pairing!Severed
      PROVE  PairingKept
  <2>1. PICK b : b = [a EXCEPT !.ca = ca]
    OBVIOUS
  <2>2. ca \in Peers
    BY <1>0, <1>2 DEF Directories
  <2>3. b \in Directories /\ b.made = e.made /\ b.secret = e.secret /\ b.mark = e.mark /\ b.peer = g
    BY <1>6, <2>1, <2>2
  <2>4. engine' = b
    BY <1>0, <1>4, <1>9, <2>1
  <2>5. QED
    BY <1>7, <1>9, <2>3, <2>4, StoppedIsDown, SeveredClaims
<1>10. QED
  BY <1>8, <1>9 DEF Pairing!Pair

(* The services are started at the end of a command.                        *)
LEMMA StartingKeeps ==
  ASSUME PairingInv, NEW e \in Directories, Pairing!Started(e),
         e.peer = engine.peer, e.mark = engine.mark, SecretOnce(e),
         UNCHANGED <<package, undone>>, volume' \in Nat, command' \in Jobs, command'.at = "none",
         backups' \subseteq Copies, \A b \in backups' : SecretOnce(b.state),
         claiming' \in [Gateway -> [at : ClaimPlaces, code : Nat]],
         \A h \in Gateway : claiming'[h].at \in {"answered", "trusting", "recorded"} =>
               claiming[h].at \in {"answered", "trusting", "recorded"},
         OneMoment
  PROVE  PairingKept
<1>1. /\ engine' \in Directories /\ engine'.made = e.made /\ engine'.secret = e.secret /\ engine'.peer = e.peer
      /\ engine'.mark = e.mark /\ (e.peer # Absent => engine'.ca = e.peer /\ engine'.pin = e.peer)
      /\ listener' \in Listeners /\ listener'.up /\ listener'.peer = e.peer
  BY StartedWith
<1>2. PairingShape' /\ InHand'
  BY <1>1 DEF PairingInv, PairingShape, InHand
<1>3. Secrets'
  BY <1>1 DEF Secrets, SecretOnce
<1>4. Mutual'
  BY <1>1 DEF PairingInv, Mutual
<1>5. PeerKept
  BY <1>1 DEF PeerKept
<1>6. QED
  BY <1>2, <1>3, <1>4, <1>5 DEF PairingInv, PairingKept

(* A command stops the services, or goes on with them stopped: the engine   *)
(* and its volumes are as they were.                                        *)
LEMMA JobKeeps ==
  ASSUME PairingInv, UNCHANGED <<engine, volume, package, undone>>, PairingShape', InHand', Secrets',
         listener'.up => UNCHANGED listener,
         \A h \in Gateway : claiming'[h].at \in {"answered", "trusting", "recorded"} =>
               claiming[h].at \in {"answered", "trusting", "recorded"},
         OneMoment
  PROVE  PairingKept
<1>1. Mutual'
  BY DEF PairingInv, Mutual
<1>2. PeerKept
  BY DEF PeerKept
<1>3. QED
  BY <1>1, <1>2 DEF PairingInv, PairingKept

LEMMA SafetyIsSafe ==
  ASSUME PairingInv
  PROVE  /\ Pairing!SafetyBackup \subseteq Copies
         /\ \A b \in Pairing!SafetyBackup :
              SecretOnce(b.state) /\ (engine.mark = volume => b.state.mark = b.volume)
<1>1. PICK c : c = [state |-> engine, volume |-> volume]
  OBVIOUS
<1>2. c \in Copies /\ c.state = engine /\ c.volume = volume
  BY <1>1 DEF PairingInv, PairingShape, Copies
<1>3. Pairing!SafetyBackup \subseteq {c}
  BY <1>1 DEF Pairing!SafetyBackup
<1>4. QED
  BY <1>2, <1>3 DEF PairingInv, Secrets

LEMMA BackupKeeps ==
  ASSUME PairingInv, Pairing!BeginBackup \/ Pairing!CopyVolume \/ Pairing!RecordBackup
  PROVE  PairingKept
<1>0. PICK e \in Directories : e = engine
  BY DEF PairingInv, PairingShape
<1>1. PICK j \in Jobs : j = command
  BY DEF PairingInv, PairingShape
<1>2. CASE Pairing!BeginBackup
  <2>1. /\ listener' = Pairing!Stopped /\ claiming' = Pairing!Severed /\ command.at = "none"
        /\ UNCHANGED <<engine, volume, package, backups, undone>>
    BY <1>2, NoJobIsNone DEF Pairing!BeginBackup, Pairing!StoppedForBackup
  <2>2. PICK n \in Jobs : n = Pairing!NoJob
    BY NoJobIsNone
  <2>3. PICK a : a = [n EXCEPT !.at = "copying"]
    OBVIOUS
  <2>4. a \in Jobs /\ a.at = "copying"
    BY <2>3 DEF Jobs, JobPlaces
  <2>5. PICK b : b = [a EXCEPT !.ran = listener.up]
    OBVIOUS
  <2>6. listener.up \in BOOLEAN
    BY DEF PairingInv, PairingShape, Listeners
  <2>7. b \in Jobs /\ b.at = "copying"
    BY <2>4, <2>5, <2>6 DEF Jobs
  <2>8. PICK c : c = [b EXCEPT !.state = e]
    OBVIOUS
  <2>9. c \in Jobs /\ c.at = "copying" /\ c.state = e
    BY <2>7, <2>8 DEF Jobs
  <2>10. command' = c
    BY <1>0, <1>2, <2>2, <2>3, <2>5, <2>8 DEF Pairing!BeginBackup
  <2>11. PairingShape'
    BY <2>1, <2>9, <2>10, StoppedIsDown, SeveredClaims DEF PairingInv, PairingShape
  <2>12. InHand'
    BY <1>0, <2>1, <2>9, <2>10, StoppedIsDown DEF PairingInv, Secrets, InHand, SecretOnce
  <2>13. Secrets'
    BY <2>1 DEF PairingInv, Secrets, SecretOnce
  <2>14. OneMoment
    BY <2>1 DEF OneMoment
  <2>15. QED
    BY <2>1, <2>11, <2>12, <2>13, <2>14, StoppedIsDown, SeveredClaims, JobKeeps
<1>3. CASE Pairing!CopyVolume
  <2>1. j.at = "copying" /\ UNCHANGED <<engine, volume, listener, claiming, package, backups, undone>>
    BY <1>1, <1>3 DEF Pairing!CopyVolume
  <2>2. volume \in Nat
    BY DEF PairingInv, PairingShape
  <2>3. PICK a : a = [j EXCEPT !.at = "recording"]
    OBVIOUS
  <2>4. a \in Jobs /\ a.at = "recording" /\ a.state = j.state
    BY <2>3 DEF Jobs, JobPlaces
  <2>5. PICK b : b = [a EXCEPT !.volume = volume]
    OBVIOUS
  <2>6. b \in Jobs /\ b.at = "recording" /\ b.state = j.state /\ b.volume = volume
    BY <2>2, <2>4, <2>5 DEF Jobs
  <2>7. command' = b
    BY <1>1, <1>3, <2>3, <2>5 DEF Pairing!CopyVolume
  <2>8. PairingShape'
    BY <2>1, <2>6, <2>7 DEF PairingInv, PairingShape
  <2>9. InHand'
    BY <1>1, <2>1, <2>6, <2>7 DEF PairingInv, InHand, SecretOnce
  <2>10. Secrets'
    BY <2>1 DEF PairingInv, Secrets, SecretOnce
  <2>11. OneMoment
    BY <1>1, <2>1 DEF OneMoment
  <2>12. QED
    BY <2>1, <2>8, <2>9, <2>10, <2>11, JobKeeps
<1>4. CASE Pairing!RecordBackup
  <2>1. PICK c : c = [state |-> command.state, volume |-> command.volume]
    OBVIOUS
  <2>2. /\ command.at = "recording" /\ command.state \in Directories /\ command.volume = volume
        /\ command.state.mark = engine.mark /\ SecretOnce(command.state) /\ ~listener.up
    BY <1>4 DEF Pairing!RecordBackup, PairingInv, InHand
  <2>3. c \in Copies /\ c.state = command.state /\ c.volume = volume
    BY <2>1, <2>2 DEF Copies, PairingInv, PairingShape
  <2>4. /\ backups' = backups \cup {c} /\ command' = Pairing!NoJob /\ UNCHANGED <<volume, claiming, package, undone>>
        /\ Pairing!Started(engine) \/ UNCHANGED <<engine, listener>>
    BY <1>4, <2>1 DEF Pairing!RecordBackup
  <2>5. backups' \subseteq Copies /\ \A b \in backups' : SecretOnce(b.state)
    BY <2>2, <2>3, <2>4 DEF PairingInv, PairingShape, Secrets
  <2>6. OneMoment
    BY <2>2, <2>3, <2>4 DEF OneMoment
  <2>7. CASE Pairing!Started(engine)
    <3>1. volume' \in Nat /\ claiming' \in [Gateway -> [at : ClaimPlaces, code : Nat]] /\ SecretOnce(engine)
      BY <2>4 DEF PairingInv, PairingShape, Secrets
    <3>2. QED
      BY <1>0, <2>4, <2>5, <2>6, <2>7, <3>1, NoJobIsNone, StartingKeeps
  <2>8. CASE UNCHANGED <<engine, listener>>
    <3>1. PairingShape' /\ InHand'
      BY <2>4, <2>5, <2>8, NoJobIsNone DEF PairingInv, PairingShape, InHand
    <3>2. Secrets'
      BY <2>5, <2>8 DEF PairingInv, Secrets, SecretOnce
    <3>3. QED
      BY <2>4, <2>6, <2>8, <3>1, <3>2, JobKeeps
  <2>9. QED
    BY <2>4, <2>7, <2>8
<1>5. QED
  BY <1>2, <1>3, <1>4

LEMMA RestoreKeeps ==
  ASSUME PairingInv,
         (\E b \in backups : Pairing!BeginRestore(b)) \/ Pairing!ReplaceState \/ Pairing!ReplaceVolume
           \/ Pairing!Upgrade \/ Pairing!JobDies
  PROVE  PairingKept
<1>0. PICK e \in Directories : e = engine
  BY DEF PairingInv, PairingShape
<1>1. PICK j \in Jobs : j = command
  BY DEF PairingInv, PairingShape
<1>2. /\ Pairing!SafetyBackup \subseteq Copies
      /\ \A b \in Pairing!SafetyBackup :
              SecretOnce(b.state) /\ (engine.mark = volume => b.state.mark = b.volume)
  BY SafetyIsSafe
<1>3. ASSUME NEW b \in backups, Pairing!BeginRestore(b)
      PROVE  PairingKept
  <2>1. /\ listener' = Pairing!Stopped /\ claiming' = Pairing!Severed /\ command.at = "none"
        /\ backups' = backups \cup Pairing!SafetyBackup /\ UNCHANGED <<engine, volume, package, undone>>
    BY <1>3, NoJobIsNone DEF Pairing!BeginRestore, Pairing!StoppedForBackup
  <2>2. b \in Copies /\ b.state \in Directories /\ b.volume \in Nat
    BY DEF PairingInv, PairingShape, Copies
  <2>3. PICK n \in Jobs : n = Pairing!NoJob
    BY NoJobIsNone
  <2>4. PICK a : a = [n EXCEPT !.at = "replacing"]
    OBVIOUS
  <2>5. a \in Jobs /\ a.at = "replacing"
    BY <2>4 DEF Jobs, JobPlaces
  <2>6. PICK c : c = [a EXCEPT !.state = b.state]
    OBVIOUS
  <2>7. c \in Jobs /\ c.at = "replacing" /\ c.state = b.state
    BY <2>2, <2>5, <2>6 DEF Jobs
  <2>8. PICK d : d = [c EXCEPT !.volume = b.volume]
    OBVIOUS
  <2>9. d \in Jobs /\ d.at = "replacing" /\ d.state = b.state /\ d.volume = b.volume
    BY <2>2, <2>7, <2>8 DEF Jobs
  <2>10. command' = d
    BY <1>3, <2>3, <2>4, <2>6, <2>8 DEF Pairing!BeginRestore
  <2>11. PairingShape'
    BY <1>2, <2>1, <2>9, <2>10, StoppedIsDown, SeveredClaims DEF PairingInv, PairingShape
  <2>12. InHand'
    BY <2>1, <2>2, <2>9, <2>10, StoppedIsDown DEF InHand
  <2>13. Secrets'
    BY <1>2, <2>1 DEF PairingInv, Secrets, SecretOnce
  <2>14. OneMoment
    BY <1>2, <2>1 DEF OneMoment
  <2>15. QED
    BY <2>1, <2>11, <2>12, <2>13, <2>14, StoppedIsDown, SeveredClaims, JobKeeps
<1>4. CASE Pairing!ReplaceState
  <2>1. /\ command.at = "replacing" /\ UNCHANGED <<volume, listener, claiming, package, backups>>
        /\ undone' = undone \cup ({engine.peer} \ {Absent, command.state.peer}) /\ engine' = command.state
        /\ command' = [command EXCEPT !.at = "unpacking"]
    BY <1>4 DEF Pairing!ReplaceState
  <2>2. /\ ~listener.up /\ command.state \in Directories
        /\ \E b \in backups : command.state = b.state /\ command.volume = b.volume
    BY <2>1 DEF PairingInv, InHand
  <2>3. PICK c : c = [j EXCEPT !.at = "unpacking"]
    OBVIOUS
  <2>4. c \in Jobs /\ c.at = "unpacking" /\ c.volume = j.volume /\ c.state = j.state
    BY <2>3 DEF Jobs, JobPlaces
  <2>5. command' = c
    BY <1>1, <2>1, <2>3
  <2>6. PairingShape'
    BY <2>1, <2>2, <2>4, <2>5 DEF PairingInv, PairingShape
  <2>7. InHand'
    BY <1>1, <2>1, <2>2, <2>4, <2>5 DEF InHand
  <2>8. Secrets'
    BY <2>1, <2>2 DEF PairingInv, Secrets
  <2>9. \A h \in Gateway : package[h].peer \/ claiming[h].at \in {"answered", "trusting", "recorded"} =>
           engine'.peer = h \/ h \in undone'
    BY <2>1, AbsentAssumption DEF PairingInv, Mutual
  <2>10. Mutual'
    BY <2>1, <2>2, <2>9 DEF Mutual
  <2>11. PeerKept /\ OneMoment
    BY <2>1 DEF PeerKept, OneMoment
  <2>12. QED
    BY <2>6, <2>7, <2>8, <2>10, <2>11 DEF PairingInv, PairingKept
<1>5. CASE Pairing!ReplaceVolume
  <2>1. /\ command.at = "unpacking" /\ volume' = j.volume /\ command' = Pairing!NoJob /\ Pairing!Started(e)
        /\ UNCHANGED <<claiming, package, backups, undone>>
    BY <1>0, <1>1, <1>5 DEF Pairing!ReplaceVolume
  <2>2. /\ engine' \in Directories /\ engine'.made = e.made /\ engine'.secret = e.secret /\ engine'.peer = e.peer
        /\ engine'.mark = e.mark /\ (e.peer # Absent => engine'.ca = e.peer /\ engine'.pin = e.peer)
        /\ listener' \in Listeners /\ listener'.up /\ listener'.peer = e.peer
    BY <2>1, StartedWith
  <2>3. \E b \in backups : engine.peer = b.state.peer /\ engine.mark = b.state.mark /\ command.volume = b.volume
    BY <2>1 DEF PairingInv, InHand
  <2>4. OneMoment
    BY <1>0, <1>1, <2>1, <2>2, <2>3 DEF OneMoment
  <2>5. /\ volume' \in Nat /\ SecretOnce(e) /\ backups' \subseteq Copies /\ \A b \in backups' : SecretOnce(b.state)
        /\ claiming' \in [Gateway -> [at : ClaimPlaces, code : Nat]]
    BY <1>0, <2>1 DEF PairingInv, PairingShape, Secrets, Jobs
  <2>6. QED
    BY <1>0, <2>1, <2>4, <2>5, NoJobIsNone, StartingKeeps
<1>6. CASE Pairing!Upgrade
  <2>1. PICK f : f = [e EXCEPT !.ca = e.peer]
    OBVIOUS
  <2>2. f \in Directories /\ f.made = e.made /\ f.secret = e.secret /\ f.peer = e.peer /\ f.mark = e.mark
    BY <2>1 DEF Directories
  <2>3. /\ command.at = "none" /\ backups' = backups \cup Pairing!SafetyBackup /\ Pairing!Started(f)
        /\ claiming' = Pairing!Severed /\ UNCHANGED <<volume, package, command, undone>>
    BY <1>0, <1>6, <2>1, NoJobIsNone DEF Pairing!Upgrade
  <2>4. /\ volume' \in Nat /\ SecretOnce(f) /\ backups' \subseteq Copies /\ \A b \in backups' : SecretOnce(b.state)
        /\ command' \in Jobs
    BY <1>0, <1>2, <2>2, <2>3 DEF PairingInv, PairingShape, Secrets, SecretOnce
  <2>5. OneMoment
    BY <1>2, <2>3 DEF OneMoment
  <2>6. QED
    BY <1>0, <2>2, <2>3, <2>4, <2>5, SeveredClaims, StartingKeeps
<1>7. CASE Pairing!JobDies
  <2>1. command' = Pairing!NoJob /\ UNCHANGED <<engine, volume, listener, claiming, package, backups, undone>>
    BY <1>7 DEF Pairing!JobDies
  <2>2. PairingShape' /\ InHand'
    BY <2>1, NoJobIsNone DEF PairingInv, PairingShape, InHand
  <2>3. Secrets'
    BY <2>1 DEF PairingInv, Secrets, SecretOnce
  <2>4. OneMoment
    BY <2>1 DEF PairingInv, InHand, OneMoment
  <2>5. QED
    BY <2>1, <2>2, <2>3, <2>4, JobKeeps
<1>8. QED
  BY <1>3, <1>4, <1>5, <1>6, <1>7

LEMMA PairingStep ==
  ASSUME PairingInv, Pairing!Next
  PROVE  PairingKept
<1>1. CASE Pairing!JobStep
  BY <1>1, InstallationKeeps, BackupKeeps, RestoreKeeps DEF Pairing!JobStep
<1>2. ASSUME NEW g \in Gateway, Pairing!ClaimStep(g) \/ Pairing!LoseClaim(g) \/ Pairing!UpgradeGateway(g)
      PROVE  PairingKept
  BY <1>2, AnswerKeeps, AskingKeeps, PairKeeps, TrustKeeps DEF Pairing!ClaimStep
<1>3. ASSUME NEW g \in Gateway, NEW code \in 0..engine.code, Pairing!BeginClaim(g, code)
      PROVE  PairingKept
  <2>1. engine.code \in Nat
    BY DEF PairingInv, PairingShape, Directories
  <2>2. code \in Nat
    BY <2>1
  <2>3. QED
    BY <1>3, <2>2, BeginClaimKeeps
<1>4. QED
  BY <1>1, <1>2, <1>3, InstallationKeeps, ServiceKeeps, BackupKeeps, RestoreKeeps DEF Pairing!Next

LEMMA PairingAside ==
  ASSUME PairingInv, UNCHANGED Pairing!vars
  PROVE  PairingInv'
<1>1. PairingShape' /\ InHand'
  BY DEF Pairing!vars, PairingInv, PairingShape, InHand, SecretOnce
<1>2. Secrets' /\ Mutual'
  BY DEF Pairing!vars, PairingInv, Secrets, Mutual, SecretOnce
<1>3. QED
  BY <1>1, <1>2 DEF PairingInv

LEMMA PairingPromises ==
  ASSUME PairingInv
  PROVE  Pairing!TrustIsMutual /\ Pairing!SecretsStay
<1>1. Pairing!TrustIsMutual
  BY DEF PairingInv, Mutual, Pairing!TrustIsMutual
<1>2. Pairing!SecretsStay
  BY DEF PairingInv, PairingShape, Directories, Pairing!SecretsStay
<1>3. QED
  BY <1>1, <1>2

------------------------------------------------------------------------------
(* Pool keys: the pool's keys and the agents that come with them.           *)
KeyStates == {"current", "retiring", "expired", "revoked"}
Rows == [state : {Absent, "connecting", "active", "idle", "stale", "disconnected"}, key : Int, first : Nat, seen : Nat,
         request : Int, stale : Int]
PoolKey == [state : {Absent} \cup KeyStates, credential : PoolCredential \cup {Absent}, until : Int]
Signals == [at : {"idle", "verified", "checked"}, key : Int, kind : {Absent, "connect", "request", "heartbeat"}, time : Int]
Receipts == [command : Keys!Command, key : Nat, until : Nat]
Origins == [by : Request \cup {Absent}, at : Int]
Making == {"create", "issue", "rotate"}

KeyShape ==
  /\ now \in Nat /\ credential \in [PoolCredential -> {Absent, "live", "revoked"}]
  /\ pool_key \in [Keys!Keys -> PoolKey] /\ key_receipt \in [Request -> Receipts \cup {Absent}]
  /\ origin \in [Keys!Keys -> Origins] /\ shown \in [Keys!Keys -> Nat] /\ named \in [Keys!Keys -> SUBSET Agent]
  /\ presence \in [Agent -> Rows] /\ signal \in [Agent -> Signals]

(* A key belongs to a credential that was made.                             *)
KeysHaveOwners ==
  \A k \in Keys!Keys : pool_key[k].state # Absent =>
    pool_key[k].credential \in PoolCredential /\ credential[pool_key[k].credential] # Absent

(* An agent that is being observed comes with a key that opens the pool.    *)
ObservedHold ==
  \A a \in Agent :
    /\ signal[a].at # "idle" => signal[a].kind # Absent /\ signal[a].key \in Keys!Keys
    /\ signal[a].at = "checked" => signal[a].time \in Nat /\ pool_key[signal[a].key].state \in {"current", "retiring"}

ShownOnce == \A k \in Keys!Keys : shown[k] <= 1 /\ (pool_key[k].state = Absent => shown[k] = 0)

(* The receipt of a request outlives that of every key it made.             *)
Remembered(k) ==
  origin[k].by # Absent =>
    /\ origin[k].at \in Nat /\ origin[k].at <= now
    /\ key_receipt[origin[k].by] # Absent /\ origin[k].at + ReceiptLife <= key_receipt[origin[k].by].until
Apart(j, k) ==
  j # k /\ origin[j].by = origin[k].by /\ origin[j].by # Absent =>
    origin[j].at + ReceiptLife <= origin[k].at \/ origin[k].at + ReceiptLife <= origin[j].at
Spaced == (\A k \in Keys!Keys : Remembered(k)) /\ \A j, k \in Keys!Keys : Apart(j, k)

PoolInv == KeyShape /\ KeysHaveOwners /\ ObservedHold /\ Keys!RevocationNamesAll /\ ShownOnce /\ Spaced

Unseen == listed' # listed =>
  \A a \in Agent, t \in now..(KeyTime + Stale + Gone) : Keys!Age(presence'[a], t).state = Keys!Age(presence[a], t).state

LEMMA PoolInitially == Keys!Init => PoolInv
<1> SUFFICES ASSUME Keys!Init PROVE PoolInv
  OBVIOUS
<1>1. Keys!NoKey \in PoolKey /\ Keys!NoKey.state = Absent
  BY DEF Keys!NoKey, PoolKey, Keys!Never
<1>2. Keys!Nobody \in Rows /\ Keys!Nobody.state = Absent
  BY DEF Keys!Nobody, Rows, Keys!Never
<1>3. Keys!Quiet \in Signals /\ Keys!Quiet.at = "idle"
  BY DEF Keys!Quiet, Signals, Keys!Never
<1>4. KeyShape
  <2>1. Keys!Unmade \in Origins
    BY DEF Keys!Unmade, Origins, Keys!Never
  <2>2. QED
    BY <1>1, <1>2, <1>3, <2>1 DEF Keys!Init, KeyShape
<1>5. KeysHaveOwners /\ ObservedHold /\ Keys!RevocationNamesAll
  BY <1>1, <1>2, <1>3, AbsentAssumption DEF Keys!Init, KeysHaveOwners, ObservedHold, Keys!RevocationNamesAll
<1>6. ShownOnce
  BY DEF Keys!Init, ShownOnce
<1>7. \A k \in Keys!Keys : origin[k].by = Absent
  BY DEF Keys!Init, Keys!Unmade
<1>8. Spaced
  BY <1>7 DEF Spaced, Remembered, Apart
<1>9. QED
  BY <1>4, <1>5, <1>6, <1>8 DEF PoolInv

(* What depends only on the keys, their receipts and what was shown.        *)
LEMMA CountsStay ==
  ASSUME PoolInv, UNCHANGED <<pool_key, key_receipt, origin, shown>>, now' \in Nat, now <= now'
  PROVE  ShownOnce' /\ Spaced'
<1>1. ShownOnce'
  BY DEF PoolInv, ShownOnce
<1>2. \A j, k \in Keys!Keys : Apart(j, k)'
  BY DEF PoolInv, Spaced, Apart
<1>3. ASSUME NEW k \in Keys!Keys PROVE Remembered(k)'
  BY DEF PoolInv, KeyShape, Spaced, Remembered
<1>4. QED
  BY <1>1, <1>2, <1>3 DEF Spaced

LEMMA AgeKeeps ==
  ASSUME NEW r \in Rows, NEW t \in Nat
  PROVE  LET n == Keys!Age(r, t) IN n \in Rows /\ n.key = r.key /\ (n.state = Absent <=> r.state = Absent)
<1>1. PICK s \in Int : s = IF r.stale # Keys!Never THEN r.stale ELSE r.seen + Stale
  BY GatewayAssumption DEF Rows
<1>2. PICK d \in Rows : d = [r EXCEPT !.stale = s]
  BY DEF Rows
<1>3. d.key = r.key /\ d.state = r.state
  BY <1>2 DEF Rows
<1>4. \A x \in {"disconnected", "stale"} :
        /\ [d EXCEPT !.state = x] \in Rows /\ [d EXCEPT !.state = x].key = r.key /\ [d EXCEPT !.state = x].state = x
  BY <1>2, <1>3 DEF Rows
<1>5. [r EXCEPT !.state = "idle"] \in Rows /\ [r EXCEPT !.state = "idle"].key = r.key /\ [r EXCEPT !.state = "idle"].state = "idle"
  BY DEF Rows
<1>6. \A x \in {"disconnected", "stale"} : [r EXCEPT !.state = x, !.stale = s] = [d EXCEPT !.state = x]
  BY <1>2 DEF Rows
<1>7. /\ r.state \in {Absent, "disconnected"} => Keys!Age(r, t) = r
      /\ r.state \notin {Absent, "disconnected"} =>
           Keys!Age(r, t) \in {[d EXCEPT !.state = "disconnected"], [d EXCEPT !.state = "stale"], [r EXCEPT !.state = "idle"], r}
  BY <1>1, <1>6 DEF Keys!Age
<1>8. QED
  BY <1>3, <1>4, <1>5, <1>7, AbsentAssumption

(* The presence that is read.                                               *)
LEMMA AgeReads ==
  ASSUME NEW r \in Rows, NEW t \in Nat
  PROVE  LET stale == IF r.stale # -1 THEN r.stale ELSE r.seen + Stale
             asking == IF r.request # -1 THEN r.request ELSE r.first
             n == Keys!Age(r, t)
         IN /\ n.state = IF r.state \in {Absent, "disconnected"} THEN r.state
                         ELSE IF t >= stale + Gone THEN "disconnected"
                         ELSE IF t >= stale THEN "stale"
                         ELSE IF r.state = "active" /\ t >= asking + IdleTime THEN "idle" ELSE r.state
            /\ n.seen = r.seen /\ n.request = r.request /\ n.first = r.first
            /\ n.stale = IF r.state \in {Absent, "disconnected"} THEN r.stale
                         ELSE IF t >= stale + Gone \/ t >= stale THEN stale ELSE r.stale
<1> DEFINE stale == IF r.stale # -1 THEN r.stale ELSE r.seen + Stale
           asking == IF r.request # -1 THEN r.request ELSE r.first
<1>1. Keys!Age(r, t) =
        IF r.state \in {Absent, "disconnected"} THEN r
        ELSE IF t >= stale + Gone THEN [r EXCEPT !.state = "disconnected", !.stale = stale]
        ELSE IF t >= stale THEN [r EXCEPT !.state = "stale", !.stale = stale]
        ELSE IF r.state = "active" /\ t >= asking + IdleTime THEN [r EXCEPT !.state = "idle"]
        ELSE r
  BY DEF Keys!Age, Keys!Never
<1>2. stale \in Int /\ asking \in Int
  BY GatewayAssumption DEF Rows
<1> HIDE DEF stale, asking
<1>3. \A x \in {"disconnected", "stale"} :
        LET n == [r EXCEPT !.state = x, !.stale = stale] IN
        n.state = x /\ n.seen = r.seen /\ n.request = r.request /\ n.first = r.first /\ n.stale = stale
  BY <1>2 DEF Rows
<1>4. LET n == [r EXCEPT !.state = "idle"] IN
        n.state = "idle" /\ n.seen = r.seen /\ n.request = r.request /\ n.first = r.first /\ n.stale = r.stale
  BY DEF Rows
<1>5. QED
  <2> USE DEF stale, asking
  <2>1. CASE r.state \in {Absent, "disconnected"}
    BY <1>1, <2>1
  <2>2. CASE r.state \notin {Absent, "disconnected"} /\ t >= stale + Gone
    BY <1>1, <1>3, <2>2
  <2>3. CASE r.state \notin {Absent, "disconnected"} /\ ~(t >= stale + Gone) /\ t >= stale
    BY <1>1, <1>3, <2>3
  <2>4. CASE r.state \notin {Absent, "disconnected"} /\ ~(t >= stale + Gone) /\ ~(t >= stale)
    BY <1>1, <1>4, <2>4
  <2>5. QED
    BY <2>1, <2>2, <2>3, <2>4

LEMMA AgeingTwice ==
  ASSUME NEW r \in Rows, NEW s \in Nat, NEW t \in Nat, s <= t
  PROVE  Keys!Age(Keys!Age(r, s), t).state = Keys!Age(r, t).state
<1> DEFINE stale == IF r.stale # -1 THEN r.stale ELSE r.seen + Stale
           asking == IF r.request # -1 THEN r.request ELSE r.first
<1>1. PICK n \in Rows : n = Keys!Age(r, s)
  BY AgeKeeps
<1>2. /\ n.state = IF r.state \in {Absent, "disconnected"} THEN r.state
                         ELSE IF s >= stale + Gone THEN "disconnected"
                         ELSE IF s >= stale THEN "stale"
                         ELSE IF r.state = "active" /\ s >= asking + IdleTime THEN "idle" ELSE r.state
      /\ n.seen = r.seen /\ n.request = r.request /\ n.first = r.first
      /\ n.stale = IF r.state \in {Absent, "disconnected"} THEN r.stale
                         ELSE IF s >= stale + Gone \/ s >= stale THEN stale ELSE r.stale
  BY <1>1, AgeReads
<1>3. Keys!Age(r, t).state = IF r.state \in {Absent, "disconnected"} THEN r.state
                         ELSE IF t >= stale + Gone THEN "disconnected"
                         ELSE IF t >= stale THEN "stale"
                         ELSE IF r.state = "active" /\ t >= asking + IdleTime THEN "idle" ELSE r.state
  BY AgeReads
<1>4. stale \in Int /\ asking \in Int /\ (r.stale = -1 => stale # -1)
  BY GatewayAssumption DEF Rows
<1>5. (IF n.stale # -1 THEN n.stale ELSE n.seen + Stale) = IF r.state \in {Absent, "disconnected"} THEN
        (IF r.stale # -1 THEN r.stale ELSE r.seen + Stale) ELSE stale
  BY <1>2, <1>4
<1>6. (IF n.stale # -1 THEN n.stale ELSE n.seen + Stale) = stale
  BY <1>5
<1>7. (IF n.request # -1 THEN n.request ELSE n.first) = asking
  BY <1>2
<1>8. Keys!Age(n, t).state = IF n.state \in {Absent, "disconnected"} THEN n.state
                         ELSE IF t >= stale + Gone THEN "disconnected"
                         ELSE IF t >= stale THEN "stale"
                         ELSE IF n.state = "active" /\ t >= asking + IdleTime THEN "idle" ELSE n.state
  BY <1>6, <1>7, AgeReads
<1> HIDE DEF stale, asking
<1>9. r.state \in {Absent, "connecting", "active", "idle", "stale", "disconnected"}
  BY DEF Rows
<1>10. Keys!Age(n, t).state = Keys!Age(r, t).state
  BY <1>2, <1>3, <1>4, <1>8, <1>9, GatewayAssumption, AbsentAssumption
<1>11. QED
  BY <1>1, <1>10

(* Nobody changes the keys: what is left is the agents' presence.           *)
LEMMA PresenceKeeps ==
  ASSUME PoolInv, UNCHANGED <<credential, pool_key, key_receipt, origin, shown, named>>, now' \in Nat, now <= now',
         presence' \in [Agent -> Rows], signal' \in [Agent -> Signals], ObservedHold',
         \A a \in Agent : presence'[a].state # Absent =>
           \/ presence[a].state # Absent /\ presence'[a].key = presence[a].key
           \/ /\ presence'[a].key \in Keys!Keys
              /\ pool_key[presence'[a].key].state \in {"current", "retiring"}
  PROVE  PoolInv'
<1>1. KeyShape'
  BY DEF PoolInv, KeyShape
<1>2. KeysHaveOwners'
  BY DEF PoolInv, KeysHaveOwners
<1>3. Keys!RevocationNamesAll'
  <2> SUFFICES ASSUME NEW k \in Keys!Keys, NEW a \in Agent, pool_key[k].state = "revoked",
                      credential[pool_key[k].credential] = "live", presence'[a].state # Absent, presence'[a].key = k
               PROVE  a \in named[k]
    BY DEF Keys!RevocationNamesAll
  <2>1. presence[a].state # Absent /\ presence[a].key = k
    OBVIOUS
  <2>2. QED
    BY <2>1 DEF PoolInv, Keys!RevocationNamesAll
<1>4. ShownOnce' /\ Spaced'
  BY CountsStay
<1>5. QED
  BY <1>1, <1>2, <1>3, <1>4 DEF PoolInv

LEMMA ClockKeeps ==
  ASSUME PoolInv, Keys!Tick \/ Keys!List
  PROVE  PoolInv' /\ Unseen
<1>1. /\ UNCHANGED <<credential, pool_key, key_receipt, origin, shown, named, presence, signal>>
      /\ now' \in Nat /\ now <= now'
  BY DEF Keys!Tick, Keys!List, PoolInv, KeyShape
<1>2. PoolInv'
  BY <1>1, PresenceKeeps DEF PoolInv, KeyShape, ObservedHold
<1>3. Unseen
  BY <1>1 DEF Unseen
<1>4. QED
  BY <1>2, <1>3

LEMMA AuthenticateKeeps ==
  ASSUME PoolInv, NEW a \in Agent, NEW k \in Keys!Keys, NEW kind \in {"connect", "request", "heartbeat"},
         Keys!Authenticate(a, k, kind)
  PROVE  PoolInv' /\ Unseen
<1>1. PICK q \in Signals : q = Keys!Quiet
  <2>1. Keys!Quiet \in Signals
    BY DEF Keys!Quiet, Signals, Keys!Never
  <2>2. QED
    BY <2>1
<1>2. k \in Int
  BY GatewayAssumption DEF Keys!Keys
<1>3. PICK b : b = [q EXCEPT !.at = "verified"]
  OBVIOUS
<1>4. b \in Signals /\ b.at = "verified"
  BY <1>3 DEF Signals
<1>5. PICK c : c = [b EXCEPT !.key = k]
  OBVIOUS
<1>6. c \in Signals /\ c.at = "verified" /\ c.key = k
  BY <1>2, <1>4, <1>5 DEF Signals
<1>7. PICK d : d = [c EXCEPT !.kind = kind]
  OBVIOUS
<1>8. d \in Signals /\ d.at = "verified" /\ d.key = k /\ d.kind = kind
  BY <1>6, <1>7 DEF Signals
<1>9. signal' = [signal EXCEPT ![a] = d]
  BY <1>1, <1>3, <1>5, <1>7 DEF Keys!Authenticate
<1>10. UNCHANGED <<now, credential, pool_key, key_receipt, origin, shown, named, presence, listed>>
  BY DEF Keys!Authenticate
<1>11. kind # Absent
  BY AbsentAssumption
<1>12. signal' \in [Agent -> Signals] /\ ObservedHold'
  BY <1>8, <1>9, <1>10, <1>11 DEF PoolInv, KeyShape, ObservedHold
<1>13. QED
  BY <1>10, <1>12, PresenceKeeps DEF PoolInv, KeyShape, Unseen

LEMMA ObserveKeeps ==
  ASSUME PoolInv, NEW a \in Agent, Keys!Observe(a)
  PROVE  PoolInv' /\ Unseen
<1>1. PICK s \in Signals : s = signal[a]
  BY DEF PoolInv, KeyShape
<1>2. /\ s.at = "verified" /\ UNCHANGED <<now, credential, pool_key, key_receipt, origin, shown, named, presence, listed>>
      /\ s.kind # Absent /\ s.key \in Keys!Keys
  BY <1>1 DEF Keys!Observe, PoolInv, ObservedHold
<1>3. now \in Nat
  BY DEF PoolInv, KeyShape
<1>4. PICK b : b = [s EXCEPT !.at = "checked"]
  OBVIOUS
<1>5. b \in Signals /\ b.at = "checked" /\ b.key = s.key /\ b.kind = s.kind
  BY <1>4 DEF Signals
<1>6. PICK c : c = [b EXCEPT !.time = now]
  OBVIOUS
<1>7. c \in Signals /\ c.at = "checked" /\ c.key = s.key /\ c.kind = s.kind /\ c.time = now
  BY <1>3, <1>5, <1>6 DEF Signals
<1>8. Keys!Quiet \in Signals /\ Keys!Quiet.at = "idle"
  BY DEF Keys!Quiet, Signals, Keys!Never
<1>9. \/ signal' = [signal EXCEPT ![a] = c] /\ pool_key[s.key].state \in {"current", "retiring"}
      \/ signal' = [signal EXCEPT ![a] = Keys!Quiet]
  <2>1. signal' = [signal EXCEPT ![a] = IF pool_key[s.key].state = "current"
                                           \/ (pool_key[s.key].state = "retiring" /\ pool_key[s.key].until > now)
                                        THEN [s EXCEPT !.at = "checked", !.time = now] ELSE Keys!Quiet]
    BY <1>1 DEF Keys!Observe, PoolInv, KeyShape
  <2>2. QED
    BY <2>1, <1>4, <1>6
<1>10. signal' \in [Agent -> Signals] /\ ObservedHold'
  BY <1>2, <1>3, <1>7, <1>8, <1>9 DEF PoolInv, KeyShape, ObservedHold
<1>11. QED
  BY <1>2, <1>10, PresenceKeeps DEF PoolInv, KeyShape, Unseen

LEMMA ObservedRow ==
  ASSUME NEW r \in Rows, NEW kind \in {"connect", "request", "heartbeat"}, NEW k \in Int, NEW t \in Nat
  PROVE  LET n == Keys!Observed(r, kind, k, t) IN n \in Rows /\ n.key = k
<1>1. PICK z \in Rows : z = Keys!Nobody
  <2>1. Keys!Nobody \in Rows
    BY DEF Keys!Nobody, Rows, Keys!Never
  <2>2. QED
    BY <2>1
<1>2. PICK y : y = IF r.state = Absent THEN [z EXCEPT !.first = t] ELSE r
  OBVIOUS
<1>3. y \in Rows
  BY <1>2 DEF Rows
<1>4. PICK request : request = IF kind = "request" THEN t ELSE y.request
  OBVIOUS
<1>5. request \in Int
  BY <1>3, <1>4 DEF Rows
<1>6. PICK asking : asking = IF request # Keys!Never THEN request ELSE y.first
  OBVIOUS
<1>7. PICK st : st = CASE kind = "connect" -> "connecting"
                           [] kind = "request" -> "active"
                           [] kind = "heartbeat" -> IF t - asking >= IdleTime THEN "idle" ELSE "active"
  OBVIOUS
<1>8. st \in {"connecting", "active", "idle"}
  <2>1. CASE kind = "connect"
    BY <1>7, <2>1
  <2>2. CASE kind = "request"
    BY <1>7, <2>2
  <2>3. CASE kind = "heartbeat"
    BY <1>7, <2>3
  <2>4. QED
    BY <2>1, <2>2, <2>3
<1>9. PICK a : a = [y EXCEPT !.key = k]
  OBVIOUS
<1>10. a \in Rows /\ a.key = k
  BY <1>3, <1>9 DEF Rows
<1>11. PICK b : b = [a EXCEPT !.seen = t]
  OBVIOUS
<1>12. b \in Rows /\ b.key = k
  BY <1>10, <1>11 DEF Rows
<1>13. PICK c : c = [b EXCEPT !.request = request]
  OBVIOUS
<1>14. c \in Rows /\ c.key = k
  BY <1>5, <1>12, <1>13 DEF Rows
<1>15. PICK d : d = [c EXCEPT !.stale = Keys!Never]
  OBVIOUS
<1>16. d \in Rows /\ d.key = k
  BY <1>14, <1>15 DEF Rows, Keys!Never
<1>17. PICK e : e = [d EXCEPT !.state = st]
  OBVIOUS
<1>18. e \in Rows /\ e.key = k
  BY <1>8, <1>16, <1>17 DEF Rows
<1>19. Keys!Observed(r, kind, k, t) = e
  BY <1>1, <1>2, <1>4, <1>6, <1>7, <1>9, <1>11, <1>13, <1>15, <1>17 DEF Keys!Observed
<1>20. QED
  BY <1>18, <1>19

LEMMA SaveKeeps ==
  ASSUME PoolInv, NEW a \in Agent, Keys!Save(a)
  PROVE  PoolInv' /\ Unseen
<1>1. PICK s \in Signals : s = signal[a]
  BY DEF PoolInv, KeyShape
<1>2. PICK r \in Rows : r = presence[a]
  BY DEF PoolInv, KeyShape
<1>3. /\ s.kind \in {"connect", "request", "heartbeat"} /\ s.key \in Keys!Keys /\ s.time \in Nat
      /\ pool_key[s.key].state \in {"current", "retiring"}
  BY <1>1 DEF Keys!Save, PoolInv, ObservedHold, Signals
<1>4. s.key \in Int
  BY DEF Signals
<1>5. PICK n : n = Keys!Observed(r, s.kind, s.key, s.time)
  OBVIOUS
<1>6. n \in Rows /\ n.key = s.key
  BY <1>3, <1>4, <1>5, ObservedRow
<1>7. /\ presence' = [presence EXCEPT ![a] = n] /\ signal' = [signal EXCEPT ![a] = Keys!Quiet]
      /\ UNCHANGED <<now, credential, pool_key, key_receipt, origin, shown, named, listed>>
  BY <1>1, <1>2, <1>5 DEF Keys!Save
<1>8. Keys!Quiet \in Signals /\ Keys!Quiet.at = "idle"
  BY DEF Keys!Quiet, Signals, Keys!Never
<1>9. signal' \in [Agent -> Signals] /\ ObservedHold' /\ presence' \in [Agent -> Rows]
  BY <1>6, <1>7, <1>8 DEF PoolInv, KeyShape, ObservedHold
<1>10. \A b \in Agent : presence'[b].state # Absent =>
           \/ presence[b].state # Absent /\ presence'[b].key = presence[b].key
           \/ /\ presence'[b].key \in Keys!Keys
              /\ pool_key[presence'[b].key].state \in {"current", "retiring"}
  BY <1>3, <1>6, <1>7 DEF PoolInv, KeyShape
<1>11. QED
  BY <1>7, <1>9, <1>10, PresenceKeeps DEF PoolInv, KeyShape, Unseen

LEMMA SweepKeeps ==
  ASSUME PoolInv, NEW a \in Agent, Keys!Sweep(a)
  PROVE  PoolInv' /\ Unseen
<1>1. PICK r \in Rows : r = presence[a]
  BY DEF PoolInv, KeyShape
<1>2. now \in Nat
  BY DEF PoolInv, KeyShape
<1>3. PICK n : n = Keys!Age(r, now)
  OBVIOUS
<1>4. n \in Rows /\ n.key = r.key /\ (n.state = Absent <=> r.state = Absent)
  BY <1>2, <1>3, AgeKeeps
<1>5. /\ presence' = [presence EXCEPT ![a] = n]
      /\ UNCHANGED <<now, credential, pool_key, key_receipt, origin, shown, named, signal>>
  BY <1>1, <1>3 DEF Keys!Sweep
<1>6. presence' \in [Agent -> Rows] /\ ObservedHold'
  BY <1>4, <1>5 DEF PoolInv, KeyShape, ObservedHold
<1>7. \A b \in Agent : presence'[b].state # Absent => presence[b].state # Absent /\ presence'[b].key = presence[b].key
  BY <1>1, <1>4, <1>5 DEF PoolInv, KeyShape
<1>8. PoolInv'
  BY <1>5, <1>6, <1>7, PresenceKeeps DEF PoolInv, KeyShape
<1>9. ASSUME NEW b \in Agent, NEW t \in now..(KeyTime + Stale + Gone)
      PROVE  Keys!Age(presence'[b], t).state = Keys!Age(presence[b], t).state
  <2>1. t \in Nat /\ now <= t
    BY <1>2, GatewayAssumption
  <2>2. CASE b = a
    <3>1. presence'[b] = n /\ presence[b] = r
      BY <1>1, <1>5, <2>2 DEF PoolInv, KeyShape
    <3>2. Keys!Age(n, t).state = Keys!Age(r, t).state
      BY <1>2, <1>3, <2>1, AgeingTwice
    <3>3. QED
      BY <3>1, <3>2
  <2>3. CASE b # a
    BY <1>5, <2>3 DEF PoolInv, KeyShape
  <2>4. QED
    BY <2>2, <2>3
<1>10. QED
  BY <1>8, <1>9 DEF Unseen

LEMMA LeastOf ==
  ASSUME NEW S \in SUBSET Nat, S # {}
  PROVE  \E x \in S : \A y \in S : x <= y
<1> DEFINE before == {p \in Nat \X Nat : p[1] < p[2]}
<1>1. IsWellFoundedOn(before, Nat)
  <2>1. before = OpToRel(<, Nat)
    BY DEF OpToRel
  <2>2. QED
    BY <2>1, NatLessThanWellFounded
<1>2. \E x \in S : \A y \in S : ~(<<y, x>> \in before)
  BY <1>1, WFMin
<1>3. \A x, y \in Nat : y < x => <<y, x>> \in before
  OBVIOUS
<1> HIDE DEF before
<1>4. \A x, y \in Nat : ~(y < x) => x <= y
  OBVIOUS
<1>5. QED
  BY <1>2, <1>3, <1>4

(* The key that is made is one there was not.                               *)
LEMMA FreshIsFree ==
  ASSUME PoolInv, Keys!HasRoom
  PROVE  Keys!Fresh \in Keys!Keys /\ pool_key[Keys!Fresh].state = Absent
<1> DEFINE S == {k \in Keys!Keys : pool_key[k].state = Absent}
<1>1. S \in SUBSET Nat /\ S # {}
  BY GatewayAssumption DEF Keys!Keys, Keys!HasRoom
<1> HIDE DEF S
<1>2. PICK k \in S : \A j \in S : k <= j
  BY <1>1, LeastOf
<1> USE DEF S
<1>5. ASSUME NEW j \in 1..(k - 1)
      PROVE  pool_key[j].state # Absent
  <2>1. k \in Int /\ j \in Keys!Keys /\ j < k
    BY GatewayAssumption DEF Keys!Keys
  <2>2. QED
    BY <1>2, <2>1
<1>6. k \in Keys!Keys /\ pool_key[k].state = Absent /\ \A j \in 1..(k - 1) : pool_key[j].state # Absent
  BY <1>5
<1>7. QED
  BY <1>6 DEF Keys!Fresh

(* A command that is executed has no receipt that is still good, and then   *)
(* it has one.                                                              *)
LEMMA AnswerCounts ==
  ASSUME PoolInv, NEW r \in Request, NEW c \in Keys!Command, NEW k \in Nat, NEW plain \in BOOLEAN,
         plain => k \in Keys!Keys, ~Keys!Replays(r), Keys!Answer(r, c, k, plain), now' = now
  PROVE  /\ key_receipt' \in [Request -> Receipts \cup {Absent}] /\ origin' \in [Keys!Keys -> Origins] /\ Spaced'
         /\ shown' \in {shown, [shown EXCEPT ![k] = @ + 1]} /\ (~plain => shown' = shown)
<1>1. PICK n : n = [command |-> c, key |-> k, until |-> now + ReceiptLife]
  OBVIOUS
<1>2. now \in Nat /\ ReceiptLife \in Nat /\ now + ReceiptLife \in Nat
  BY GatewayAssumption DEF PoolInv, KeyShape
<1>3. n \in Receipts /\ n.until = now + ReceiptLife
  BY <1>1, <1>2 DEF Receipts
<1>4. n # Absent
  BY <1>3, AbsentAssumption DEF Receipts
<1>5. key_receipt' = [key_receipt EXCEPT ![r] = n]
  BY <1>1 DEF Keys!Answer
<1>6. key_receipt \in [Request -> Receipts \cup {Absent}] /\ origin \in [Keys!Keys -> Origins]
  BY DEF PoolInv, KeyShape
<1>7. key_receipt' \in [Request -> Receipts \cup {Absent}] /\ key_receipt'[r] = n
      /\ \A q \in Request \ {r} : key_receipt'[q] = key_receipt[q]
  BY <1>3, <1>5, <1>6
<1>8. PICK o : o = [by |-> r, at |-> now]
  OBVIOUS
<1>9. o \in Origins /\ o.by = r /\ o.at = now
  BY <1>2, <1>8 DEF Origins
<1>10. origin' = IF plain THEN [origin EXCEPT ![k] = o] ELSE origin
  BY <1>8 DEF Keys!Answer
<1>11. origin' \in [Keys!Keys -> Origins]
  BY <1>6, <1>9, <1>10
<1>12. \A j \in Keys!Keys : origin'[j] = origin[j] \/ (plain /\ j = k /\ origin'[j] = o)
  BY <1>6, <1>10
<1>13. ASSUME NEW j \in Keys!Keys PROVE Remembered(j)'
  <2> SUFFICES ASSUME origin'[j].by # Absent
               PROVE  /\ origin'[j].at \in Nat /\ origin'[j].at <= now
                      /\ key_receipt'[origin'[j].by] # Absent
                      /\ origin'[j].at + ReceiptLife <= key_receipt'[origin'[j].by].until
    BY DEF Remembered
  <2>1. CASE origin'[j] = o
    BY <1>2, <1>3, <1>4, <1>7, <1>9, <2>1
  <2>2. CASE origin'[j] = origin[j]
    <3>1. /\ origin[j].by \in Request /\ origin[j].at \in Nat /\ origin[j].at <= now
          /\ key_receipt[origin[j].by] # Absent
          /\ origin[j].at + ReceiptLife <= key_receipt[origin[j].by].until
      BY <1>6, <2>2 DEF PoolInv, Spaced, Remembered, Origins
    <3>2. CASE origin[j].by = r
      BY <1>2, <1>3, <1>4, <1>7, <2>2, <3>1, <3>2
    <3>3. CASE origin[j].by # r
      BY <1>7, <2>2, <3>1, <3>3
    <3>4. QED
      BY <3>2, <3>3
  <2>3. QED
    BY <1>12, <2>1, <2>2
<1>14. ASSUME NEW j \in Keys!Keys, origin[j].by = r, r # Absent
       PROVE  origin[j].at + ReceiptLife <= now
  <2>1. /\ origin[j].at \in Nat /\ key_receipt[r] # Absent
        /\ origin[j].at + ReceiptLife <= key_receipt[r].until
    BY <1>14 DEF PoolInv, Spaced, Remembered
  <2>2. key_receipt[r] \in Receipts
    BY <1>6, <2>1
  <2>3. key_receipt[r].until \in Nat /\ ~(key_receipt[r].until > now)
    BY <2>1, <2>2 DEF Receipts, Keys!Replays
  <2>4. QED
    BY <1>2, <2>1, <2>3
<1>15. ASSUME NEW i \in Keys!Keys, NEW j \in Keys!Keys PROVE Apart(i, j)'
  <2> SUFFICES ASSUME i # j, origin'[i].by = origin'[j].by, origin'[i].by # Absent
               PROVE  \/ origin'[i].at + ReceiptLife <= origin'[j].at
                      \/ origin'[j].at + ReceiptLife <= origin'[i].at
    BY DEF Apart
  <2>1. CASE origin'[i] = origin[i] /\ origin'[j] = origin[j]
    BY <2>1 DEF PoolInv, Spaced, Apart
  <2>2. CASE i = k /\ origin'[i] = o /\ origin'[j] = origin[j]
    BY <1>9, <1>14, <2>2
  <2>3. CASE j = k /\ origin'[j] = o /\ origin'[i] = origin[i]
    BY <1>9, <1>14, <2>3
  <2>4. QED
    BY <1>12, <2>1, <2>2, <2>3
<1>16. Spaced'
  BY <1>13, <1>15 DEF Spaced
<1>17. QED
  BY <1>7, <1>11, <1>16 DEF Keys!Answer

(* A command that makes a key makes one.                                    *)
LEMMA MakingKeeps ==
  ASSUME PoolInv, NEW r \in Request, NEW c \in Keys!Command, c.kind \in Making, c.credential \in PoolCredential,
         ~Keys!Replays(r), Keys!HasRoom, Keys!PoolIsFree, Keys!Answer(r, c, Keys!Fresh, TRUE),
         credential' \in [PoolCredential -> {Absent, "live", "revoked"}], credential'[c.credential] = "live",
         \A d \in PoolCredential : credential'[d] = credential[d] \/ (credential[d] = Absent /\ credential'[d] = "live"),
         pool_key' \in [Keys!Keys -> PoolKey], pool_key'[Keys!Fresh].state = "current",
         pool_key'[Keys!Fresh].credential = c.credential,
         \A k \in Keys!Keys \ {Keys!Fresh} : 
           /\ pool_key'[k].credential = pool_key[k].credential
           /\ pool_key'[k].state = Absent <=> pool_key[k].state = Absent
           /\ pool_key'[k].state = "revoked" => pool_key[k].state = "revoked",
         UNCHANGED <<now, presence, signal, listed, named>>
  PROVE  PoolInv' /\ Unseen
<1>0. Keys!Fresh \in Keys!Keys /\ pool_key[Keys!Fresh].state = Absent
  BY FreshIsFree
<1> DEFINE f == Keys!Fresh
<1>1. f \in Nat
  BY <1>0, GatewayAssumption DEF Keys!Keys
<1>2. /\ key_receipt' \in [Request -> Receipts \cup {Absent}] /\ origin' \in [Keys!Keys -> Origins] /\ Spaced'
      /\ shown' \in {shown, [shown EXCEPT ![f] = @ + 1]}
  BY <1>0, <1>1, AnswerCounts
<1> HIDE DEF f
<1>3. KeyShape'
  <2>1. shown' \in [Keys!Keys -> Nat]
    BY <1>0, <1>2 DEF PoolInv, KeyShape
  <2>2. QED
    BY <1>2, <2>1 DEF PoolInv, KeyShape
<1>4. KeysHaveOwners'
  BY <1>0, AbsentAssumption DEF PoolInv, KeysHaveOwners, f
<1>5. ObservedHold'
  BY DEF PoolInv, ObservedHold, Keys!PoolIsFree
<1>6. Keys!RevocationNamesAll'
  <2> SUFFICES ASSUME NEW k \in Keys!Keys, NEW a \in Agent, pool_key'[k].state = "revoked",
                      credential'[pool_key'[k].credential] = "live", presence[a].state # Absent, presence[a].key = k
               PROVE  a \in named[k]
    BY DEF Keys!RevocationNamesAll
  <2>1. k # Keys!Fresh
    OBVIOUS
  <2>2. pool_key[k].state = "revoked" /\ pool_key'[k].credential = pool_key[k].credential
    BY <2>1
  <2>3. credential[pool_key[k].credential] = "live"
    BY <2>2, AbsentAssumption DEF PoolInv, KeysHaveOwners
  <2>4. QED
    BY <2>2, <2>3 DEF PoolInv, Keys!RevocationNamesAll
<1>7. ShownOnce'
  <2>4. shown \in [Keys!Keys -> Nat] /\ shown[f] = 0
    BY <1>0 DEF PoolInv, KeyShape, ShownOnce, f
  <2>5. \A k \in Keys!Keys : shown'[k] <= 1 /\ (pool_key'[k].state = Absent => shown'[k] = 0)
    <3> SUFFICES ASSUME NEW k \in Keys!Keys
                 PROVE  shown'[k] <= 1 /\ (pool_key'[k].state = Absent => shown'[k] = 0)
      OBVIOUS
    <3>1. shown[k] <= 1 /\ (pool_key[k].state = Absent => shown[k] = 0)
      BY DEF PoolInv, ShownOnce
    <3>2. CASE k = f
      <4>1. pool_key'[k].state = "current"
        BY <3>2 DEF f
      <4>2. shown'[k] \in {0, 1}
        BY <1>2, <2>4, <3>2
      <4>3. QED
        BY <4>1, <4>2, AbsentAssumption
    <3>3. CASE k # f
      <4>1. shown'[k] = shown[k]
        BY <1>0, <1>2, <2>4, <3>3
      <4>2. pool_key'[k].state = Absent => pool_key[k].state = Absent
        BY <3>3 DEF f
      <4>3. QED
        BY <3>1, <4>1, <4>2
    <3>4. QED
      BY <3>2, <3>3
  <2>6. QED
    BY <2>5 DEF ShownOnce
<1>8. QED
  BY <1>2, <1>3, <1>4, <1>5, <1>6, <1>7 DEF PoolInv, Unseen

(* A revocation makes no key; its keys were the pool's.                     *)
LEMMA RevokingKeeps ==
  ASSUME PoolInv, NEW r \in Request, NEW c \in Keys!Command, c.kind \notin Making, NEW n \in Nat,
         ~Keys!Replays(r), Keys!PoolIsFree, Keys!Answer(r, c, n, FALSE),
         credential' \in [PoolCredential -> {Absent, "live", "revoked"}],
         \A d \in PoolCredential : credential'[d] = credential[d] \/ credential'[d] = "revoked",
         pool_key' \in [Keys!Keys -> PoolKey],
         \A k \in Keys!Keys :
           /\ pool_key'[k].credential = pool_key[k].credential
           /\ pool_key'[k].state = Absent <=> pool_key[k].state = Absent
           /\ \/ pool_key'[k].state = pool_key[k].state /\ named'[k] = named[k]
              \/ named'[k] = {a \in Agent : presence[a].state # Absent /\ presence[a].key = k}
              \/ credential'[pool_key[k].credential] = "revoked",
         named' \in [Keys!Keys -> SUBSET Agent],
         UNCHANGED <<now, presence, signal, listed>>
  PROVE  PoolInv' /\ Unseen
<1>1. /\ key_receipt' \in [Request -> Receipts \cup {Absent}] /\ origin' \in [Keys!Keys -> Origins] /\ Spaced'
      /\ shown' = shown
  BY AnswerCounts
<1>2. KeyShape'
  BY <1>1 DEF PoolInv, KeyShape
<1>3. KeysHaveOwners'
  BY AbsentAssumption DEF PoolInv, KeysHaveOwners
<1>4. ObservedHold'
  BY DEF PoolInv, ObservedHold, Keys!PoolIsFree
<1>5. Keys!RevocationNamesAll'
  <2> SUFFICES ASSUME NEW k \in Keys!Keys, NEW a \in Agent, pool_key'[k].state = "revoked",
                      credential'[pool_key'[k].credential] = "live", presence[a].state # Absent, presence[a].key = k
               PROVE  a \in named'[k]
    BY DEF Keys!RevocationNamesAll
  <2>1. CASE pool_key'[k].state = pool_key[k].state /\ named'[k] = named[k]
    <3>1. pool_key[k].credential \in PoolCredential
      BY <2>1, AbsentAssumption DEF PoolInv, KeysHaveOwners
    <3>2. credential[pool_key[k].credential] = "live"
      BY <3>1
    <3>3. QED
      BY <2>1, <3>2 DEF PoolInv, Keys!RevocationNamesAll
  <2>2. QED
    BY <2>1
<1>6. ShownOnce'
  BY <1>1 DEF PoolInv, ShownOnce
<1>7. QED
  BY <1>1, <1>2, <1>3, <1>4, <1>5, <1>6 DEF PoolInv, Unseen

LEMMA KeyKinds ==
  ASSUME NEW c \in Keys!Command
  PROVE  /\ c.kind \in {"create", "issue", "rotate", "revokeCredential"} => c.credential \in PoolCredential
         /\ c.kind = "revoke" => c.key \in Keys!Keys
BY DEF Keys!Command

LEMMA FirstKeyKeeps ==
  ASSUME PoolInv, NEW r \in Request, NEW c \in Keys!Command, ~Keys!Replays(r), Keys!HasRoom, Keys!PoolIsFree,
         Keys!Create(r, c) \/ Keys!Issue(r, c), UNCHANGED <<now, presence, signal, listed>>
  PROVE  PoolInv' /\ Unseen
<1>1. PICK n : n = [state |-> "current", credential |-> c.credential, until |-> Keys!Never]
  OBVIOUS
<1>2. /\ c.kind \in {"create", "issue"} /\ credential' = [credential EXCEPT ![c.credential] = "live"]
      /\ pool_key' = [pool_key EXCEPT ![Keys!Fresh] = n] /\ Keys!Answer(r, c, Keys!Fresh, TRUE) /\ UNCHANGED named
      /\ c.credential \notin Keys!Made
  BY <1>1 DEF Keys!Create, Keys!Issue
<1>3. c.credential \in PoolCredential
  BY <1>2, KeyKinds
<1>4. n \in PoolKey /\ n.state = "current" /\ n.credential = c.credential
  BY <1>1, <1>3 DEF PoolKey, KeyStates, Keys!Never
<1>5. credential[c.credential] = Absent
  BY <1>2, <1>3 DEF Keys!Made
<1>6. Keys!Fresh \in Keys!Keys
  BY FreshIsFree
<1>7. credential \in [PoolCredential -> {Absent, "live", "revoked"}] /\ pool_key \in [Keys!Keys -> PoolKey]
  BY DEF PoolInv, KeyShape
<1>8. /\ credential' \in [PoolCredential -> {Absent, "live", "revoked"}] /\ credential'[c.credential] = "live"
      /\ \A d \in PoolCredential : credential'[d] = credential[d] \/ (credential[d] = Absent /\ credential'[d] = "live")
  BY <1>2, <1>3, <1>5, <1>7
<1>9. /\ pool_key' \in [Keys!Keys -> PoolKey] /\ pool_key'[Keys!Fresh] = n
      /\ \A k \in Keys!Keys \ {Keys!Fresh} : pool_key'[k] = pool_key[k]
  BY <1>2, <1>4, <1>6, <1>7
<1>10. c.kind \in Making
  BY <1>2 DEF Making
<1>11. QED
  BY <1>2, <1>3, <1>4, <1>8, <1>9, <1>10, MakingKeeps

LEMMA RotateKeeps ==
  ASSUME PoolInv, NEW r \in Request, NEW c \in Keys!Command, ~Keys!Replays(r), Keys!HasRoom, Keys!PoolIsFree,
         Keys!Rotate(r, c), UNCHANGED <<now, presence, signal, listed>>
  PROVE  PoolInv' /\ Unseen
<1>1. PICK n : n = [state |-> "current", credential |-> c.credential, until |-> Keys!Never]
  OBVIOUS
<1>2. /\ c.kind = "rotate" /\ credential[c.credential] = "live"
      /\ pool_key' = [k \in Keys!Keys |->
           IF k = Keys!Fresh THEN n
           ELSE IF k \in Keys!Retiring(c.credential) THEN [pool_key[k] EXCEPT !.state = "expired"]
           ELSE IF k \in Keys!Current(c.credential) THEN [pool_key[k] EXCEPT !.state = "retiring", !.until = now + Grace]
           ELSE pool_key[k]]
      /\ Keys!Answer(r, c, Keys!Fresh, TRUE) /\ UNCHANGED <<credential, named>>
  BY <1>1 DEF Keys!Rotate
<1>3. c.credential \in PoolCredential /\ c.kind \in Making
  BY <1>2, KeyKinds DEF Making
<1>4. n \in PoolKey /\ n.state = "current" /\ n.credential = c.credential
  BY <1>1, <1>3 DEF PoolKey, KeyStates, Keys!Never
<1>5. Keys!Fresh \in Keys!Keys
  BY FreshIsFree
<1>6. now + Grace \in Int
  BY GatewayAssumption DEF PoolInv, KeyShape
<1>7. ASSUME NEW k \in Keys!Keys \ {Keys!Fresh}
      PROVE  /\ pool_key'[k] \in PoolKey
             /\ pool_key'[k].credential = pool_key[k].credential
             /\ pool_key'[k].state = Absent <=> pool_key[k].state = Absent
             /\ pool_key'[k].state = "revoked" => pool_key[k].state = "revoked"
  <2>1. PICK p \in PoolKey : p = pool_key[k]
    BY DEF PoolInv, KeyShape
  <2>2. PICK a : a = [p EXCEPT !.state = "expired"]
    OBVIOUS
  <2>3. a \in PoolKey /\ a.state = "expired" /\ a.credential = p.credential
    BY <2>2 DEF PoolKey, KeyStates
  <2>4. PICK b : b = [p EXCEPT !.state = "retiring"]
    OBVIOUS
  <2>5. b \in PoolKey /\ b.state = "retiring" /\ b.credential = p.credential
    BY <2>4 DEF PoolKey, KeyStates
  <2>6. PICK d : d = [b EXCEPT !.until = now + Grace]
    OBVIOUS
  <2>7. d \in PoolKey /\ d.state = "retiring" /\ d.credential = p.credential
    BY <1>6, <2>5, <2>6 DEF PoolKey
  <2>8. pool_key'[k] = IF k \in Keys!Retiring(c.credential) THEN a ELSE IF k \in Keys!Current(c.credential) THEN d ELSE p
    BY <1>2, <2>1, <2>2, <2>4, <2>6
  <2>9. k \in Keys!Retiring(c.credential) => p.state = "retiring"
    BY <2>1 DEF Keys!Retiring
  <2>10. k \in Keys!Current(c.credential) => p.state = "current"
    BY <2>1 DEF Keys!Current
  <2>11. QED
    BY <2>1, <2>3, <2>7, <2>8, <2>9, <2>10, AbsentAssumption
<1>8. pool_key' \in [Keys!Keys -> PoolKey] /\ pool_key'[Keys!Fresh] = n
  <2>1. pool_key'[Keys!Fresh] = n
    BY <1>2, <1>5
  <2>2. \A k \in Keys!Keys : pool_key'[k] \in PoolKey
    BY <1>4, <1>7, <2>1
  <2>3. pool_key' = [k \in Keys!Keys |-> pool_key'[k]]
    BY <1>2
  <2>4. QED
    BY <2>1, <2>2, <2>3
<1>9. credential' \in [PoolCredential -> {Absent, "live", "revoked"}] /\ credential'[c.credential] = "live" /\ credential' = credential
  BY <1>2 DEF PoolInv, KeyShape
<1>10. QED
  BY <1>2, <1>3, <1>4, <1>7, <1>8, <1>9, MakingKeeps

LEMMA RevokeKeeps ==
  ASSUME PoolInv, NEW r \in Request, NEW c \in Keys!Command, ~Keys!Replays(r), Keys!PoolIsFree,
         Keys!Revoke(r, c), UNCHANGED <<now, presence, signal, listed>>
  PROVE  PoolInv' /\ Unseen
<1> DEFINE k == c.key
<1>1. c.kind = "revoke" /\ k \in Keys!Keys
  BY KeyKinds DEF Keys!Revoke
<1>2. PICK p \in PoolKey : p = pool_key[k]
  BY <1>1 DEF PoolInv, KeyShape
<1>3. PICK a : a = [p EXCEPT !.state = "revoked"]
  OBVIOUS
<1>4. a \in PoolKey /\ a.state = "revoked" /\ a.credential = p.credential
  BY <1>3 DEF PoolKey, KeyStates
<1>5. PICK b : b = [a EXCEPT !.until = -1]
  OBVIOUS
<1>6. b \in PoolKey /\ b.state = "revoked" /\ b.credential = p.credential
  BY <1>4, <1>5 DEF PoolKey
<1>7. /\ p.state \in {"current", "retiring"} /\ pool_key' = [pool_key EXCEPT ![k].state = "revoked", ![k].until = -1]
      /\ named' = [named EXCEPT ![k] = {x \in Agent : presence[x].state # Absent /\ presence[x].key = k}]
      /\ Keys!Answer(r, c, k, FALSE) /\ UNCHANGED credential
  BY <1>2 DEF Keys!Revoke, Keys!Never
<1> HIDE DEF k
<1>8. /\ pool_key \in [Keys!Keys -> PoolKey] /\ named \in [Keys!Keys -> SUBSET Agent]
      /\ credential \in [PoolCredential -> {Absent, "live", "revoked"}]
  BY DEF PoolInv, KeyShape
<1>9. pool_key' = [pool_key EXCEPT ![k] = b]
  BY <1>1, <1>2, <1>3, <1>5, <1>7, <1>8
<1>10. /\ pool_key' \in [Keys!Keys -> PoolKey] /\ pool_key'[k] = b
       /\ \A j \in Keys!Keys \ {k} : pool_key'[j] = pool_key[j]
  BY <1>1, <1>6, <1>8, <1>9
<1>11. /\ named' \in [Keys!Keys -> SUBSET Agent]
       /\ named'[k] = {x \in Agent : presence[x].state # Absent /\ presence[x].key = k}
       /\ \A j \in Keys!Keys \ {k} : named'[j] = named[j]
  BY <1>1, <1>7, <1>8
<1>12. c.kind \notin Making /\ k \in Nat
  BY <1>1, GatewayAssumption DEF Making, Keys!Keys
<1>13. ASSUME NEW j \in Keys!Keys
       PROVE  /\ pool_key'[j].credential = pool_key[j].credential
              /\ pool_key'[j].state = Absent <=> pool_key[j].state = Absent
              /\ \/ pool_key'[j].state = pool_key[j].state /\ named'[j] = named[j]
                 \/ named'[j] = {x \in Agent : presence[x].state # Absent /\ presence[x].key = j}
                 \/ credential'[pool_key[j].credential] = "revoked"
  BY <1>2, <1>6, <1>7, <1>10, <1>11, AbsentAssumption
<1>14. credential' \in [PoolCredential -> {Absent, "live", "revoked"}] /\ credential' = credential
  BY <1>7, <1>8
<1>15. QED
  BY <1>7, <1>10, <1>11, <1>12, <1>13, <1>14, RevokingKeeps

LEMMA RevokeCredentialKeeps ==
  ASSUME PoolInv, NEW r \in Request, NEW c \in Keys!Command, ~Keys!Replays(r), Keys!PoolIsFree,
         Keys!RevokeCredential(r, c), UNCHANGED <<now, presence, signal, listed>>
  PROVE  PoolInv' /\ Unseen
<1>1. /\ c.kind = "revokeCredential" /\ credential' = [credential EXCEPT ![c.credential] = "revoked"]
      /\ pool_key' = [k \in Keys!Keys |-> IF k \in Keys!Current(c.credential) \cup Keys!Retiring(c.credential)
                            THEN [pool_key[k] EXCEPT !.state = "revoked", !.until = -1] ELSE pool_key[k]]
      /\ Keys!Answer(r, c, 0, FALSE) /\ UNCHANGED named
  BY DEF Keys!RevokeCredential, Keys!Never
<1>2. c.credential \in PoolCredential /\ c.kind \notin Making
  BY <1>1, KeyKinds DEF Making
<1>3. /\ pool_key \in [Keys!Keys -> PoolKey] /\ named \in [Keys!Keys -> SUBSET Agent]
      /\ credential \in [PoolCredential -> {Absent, "live", "revoked"}]
  BY DEF PoolInv, KeyShape
<1>4. /\ credential' \in [PoolCredential -> {Absent, "live", "revoked"}] /\ credential'[c.credential] = "revoked"
      /\ \A d \in PoolCredential : credential'[d] = credential[d] \/ credential'[d] = "revoked"
  BY <1>1, <1>2, <1>3
<1>5. ASSUME NEW k \in Keys!Keys
      PROVE  /\ pool_key'[k] \in PoolKey
             /\ pool_key'[k].credential = pool_key[k].credential
             /\ pool_key'[k].state = Absent <=> pool_key[k].state = Absent
             /\ pool_key'[k].state = pool_key[k].state \/ credential'[pool_key[k].credential] = "revoked"
  <2>1. PICK p \in PoolKey : p = pool_key[k]
    BY <1>3
  <2>2. PICK a : a = [p EXCEPT !.state = "revoked"]
    OBVIOUS
  <2>3. a \in PoolKey /\ a.state = "revoked" /\ a.credential = p.credential
    BY <2>2 DEF PoolKey, KeyStates
  <2>4. PICK b : b = [a EXCEPT !.until = -1]
    OBVIOUS
  <2>5. b \in PoolKey /\ b.state = "revoked" /\ b.credential = p.credential
    BY <2>3, <2>4 DEF PoolKey
  <2>6. pool_key'[k] = IF k \in Keys!Current(c.credential) \cup Keys!Retiring(c.credential) THEN b ELSE p
    BY <1>1, <2>1, <2>2, <2>4
  <2>7. k \in Keys!Current(c.credential) \cup Keys!Retiring(c.credential) =>
          p.credential = c.credential /\ p.state \in {"current", "retiring"}
    BY <2>1 DEF Keys!Current, Keys!Retiring
  <2>8. QED
    BY <1>4, <2>1, <2>5, <2>6, <2>7, AbsentAssumption
<1>6. pool_key' \in [Keys!Keys -> PoolKey]
  BY <1>1, <1>5
<1>7. \A k \in Keys!Keys : 
           /\ pool_key'[k].credential = pool_key[k].credential
           /\ pool_key'[k].state = Absent <=> pool_key[k].state = Absent
           /\ \/ pool_key'[k].state = pool_key[k].state /\ named'[k] = named[k]
              \/ named'[k] = {a \in Agent : presence[a].state # Absent /\ presence[a].key = k}
              \/ credential'[pool_key[k].credential] = "revoked"
  BY <1>1, <1>5
<1>8. named' \in [Keys!Keys -> SUBSET Agent]
  BY <1>1, <1>3
<1>9. QED
  BY <1>1, <1>2, <1>4, <1>6, <1>7, <1>8, RevokingKeeps

LEMMA PoolStep ==
  ASSUME PoolInv, Keys!Next
  PROVE  PoolInv' /\ Unseen
<1>1. ASSUME NEW r \in Request, NEW c \in Keys!Command, Keys!Execute(r, c)
      PROVE  PoolInv' /\ Unseen
  <2>1. /\ ~Keys!Replays(r) /\ Keys!PoolIsFree /\ UNCHANGED <<now, presence, signal, listed>>
        /\ c.kind \in {"create", "issue", "rotate"} => Keys!HasRoom
    BY <1>1 DEF Keys!Execute
  <2>2. CASE Keys!Create(r, c) \/ Keys!Issue(r, c)
    <3>1. Keys!HasRoom
      BY <2>1, <2>2 DEF Keys!Create, Keys!Issue
    <3>2. QED
      BY <2>1, <2>2, <3>1, FirstKeyKeeps
  <2>3. CASE Keys!Rotate(r, c)
    <3>1. Keys!HasRoom
      BY <2>1, <2>3 DEF Keys!Rotate
    <3>2. QED
      BY <2>1, <2>3, <3>1, RotateKeeps
  <2>4. QED
    BY <1>1, <2>1, <2>2, <2>3, RevokeKeeps, RevokeCredentialKeeps DEF Keys!Execute
<1>2. QED
  BY <1>1, ClockKeeps, AuthenticateKeeps, ObserveKeeps, SaveKeeps, SweepKeeps DEF Keys!Next

LEMMA PoolAside ==
  ASSUME PoolInv, UNCHANGED Keys!vars
  PROVE  PoolInv'
<1>1. UNCHANGED <<now, credential, pool_key, key_receipt, origin, shown, named, presence, signal>>
  BY DEF Keys!vars
<1>2. QED
  BY <1>1, PresenceKeeps DEF PoolInv, KeyShape, ObservedHold

LEMMA PoolPromises ==
  ASSUME PoolInv
  PROVE  Keys!RevocationNamesAll /\ Keys!OneKeyPerRequest
BY DEF PoolInv, ShownOnce, Spaced, Apart, Keys!OneKeyPerRequest

------------------------------------------------------------------------------
(* A transfer: what it owes is written, read or still behind its cursor, and *)
(* what it has written or read never is.                                    *)
Written == {sent[i] : i \in 1..Len(sent)}
Awaited == {page[i] : i \in 1..Len(page)}

TransferShape ==
  /\ at \in [Runs -> Int] /\ evidence_time \in Int /\ evidence_time > 0 /\ export_made \in Nat
  /\ page \in Seq(Runs) /\ sent \in Seq(Runs) /\ owed \subseteq Runs
  /\ after = <<>> \/ after \in Int \X Runs

NotBegun ==
  /\ download = "idle" => owed = {} /\ page = <<>> /\ sent = <<>> /\ after = <<>> /\ outcome = "none"
  /\ export_made = 0 => download = "idle"
  /\ download \in {"check", "page"} => page = <<>>

OwedIsHeld ==
  \A r \in owed : at[r] # 0 /\ at[r] <= export_made /\ (at[r] > 0 => r \in Written \cup Awaited \/ Exports!Behind(r))

TakenIsPast ==
  \A r \in Written \cup Awaited : at[r] # 0 /\ after # <<>> /\ (at[r] > 0 => ~Exports!Behind(r))

TakenOnce ==
  /\ \A i, j \in 1..Len(sent) : i < j => sent[i] # sent[j]
  /\ \A i, j \in 1..Len(page) : i < j => page[i] # page[j]
  /\ Written \cap Awaited = {}

LastIsAll ==
  /\ download = "send" /\ last => \A r \in owed : at[r] > 0 => r \in Written \cup Awaited
  /\ outcome = "complete" => \A r \in owed : at[r] > 0 => r \in Written

TransferInv == TransferShape /\ NotBegun /\ OwedIsHeld /\ TakenIsPast /\ TakenOnce /\ LastIsAll

LEMMA TransferInitially == Exports!Init => TransferInv
<1> SUFFICES ASSUME Exports!Init PROVE TransferInv
  OBVIOUS
<1>1. TransferShape
  BY DEF Exports!Init, TransferShape
<1>2. Written = {} /\ Awaited = {} /\ owed = {}
  BY DEF Exports!Init, Written, Awaited
<1>3. QED
  BY <1>1, <1>2 DEF Exports!Init, TransferInv, NotBegun, OwedIsHeld, TakenIsPast, TakenOnce, LastIsAll

LEMMA PairIsThere == \A t, r : <<t, r>> # <<>>
<1> SUFFICES ASSUME NEW t, NEW r, <<t, r>> = <<>> PROVE FALSE
  OBVIOUS
<1>1. Len(<<t, r>>) = 2 /\ Len(<<>>) = 0
  OBVIOUS
<1>2. QED
  BY <1>1

LEMMA TakenAreRuns ==
  ASSUME TransferInv
  PROVE  Written \subseteq Runs /\ Awaited \subseteq Runs
<1>1. page \in Seq(Runs) /\ sent \in Seq(Runs)
  BY DEF TransferInv, TransferShape
<1>2. \A i \in 1..Len(sent) : sent[i] \in Runs
  BY <1>1
<1>3. \A i \in 1..Len(page) : page[i] \in Runs
  BY <1>1
<1>4. QED
  BY <1>2, <1>3 DEF Written, Awaited

(* Runs are opened and retired, and the clock goes on.                      *)
LEMMA EvidenceKeeps ==
  ASSUME TransferInv, UNCHANGED <<download, after, page, last, sent, outcome, owed>>,
         at' \in [Runs -> Int], \A r \in Runs : at'[r] = at[r] \/ at[r] = 0 \/ at'[r] = 0 - 1,
         evidence_time' \in Int, evidence_time' > 0,
         export_made' \in Nat, export_made' = export_made \/ (export_made = 0 /\ export_made' > 0)
  PROVE  TransferInv'
<1> USE DEF TransferInv
<1>1. Written' = Written /\ Awaited' = Awaited /\ Written \subseteq Runs /\ Awaited \subseteq Runs
  <2>1. Written' = Written /\ Awaited' = Awaited
    BY DEF Written, Awaited
  <2>2. QED
    BY <2>1, TakenAreRuns
<1>2. TransferShape' /\ NotBegun'
  BY DEF TransferShape, NotBegun
<1>3. \A r \in Runs : at'[r] > 0 /\ at[r] # 0 => at'[r] = at[r] /\ (Exports!Behind(r)' <=> Exports!Behind(r))
  BY DEF Exports!Behind, Exports!Position
<1>4. \A r \in Runs : at[r] # 0 => at'[r] # 0
  BY DEF TransferShape
<1>5. OwedIsHeld'
  <2>1. ASSUME NEW r \in owed PROVE at'[r] # 0 /\ at'[r] <= export_made'
                                     /\ (at'[r] > 0 => r \in Written' \cup Awaited' \/ Exports!Behind(r)')
    <3>1. r \in Runs /\ at[r] # 0 /\ export_made # 0 /\ export_made' = export_made
      BY DEF TransferShape, OwedIsHeld, NotBegun
    <3>2. at'[r] <= export_made'
      <4>1. at'[r] = at[r] \/ (at'[r] = 0 - 1 /\ export_made >= 0)
        BY <3>1 DEF TransferShape, NotBegun, OwedIsHeld
      <4>2. QED
        BY <3>1, <4>1 DEF TransferShape, OwedIsHeld
    <3>3. QED
      BY <1>1, <1>3, <1>4, <3>1, <3>2 DEF OwedIsHeld
  <2>2. QED
    BY <2>1 DEF OwedIsHeld
<1>6. TakenIsPast'
  BY <1>1, <1>3, <1>4 DEF TakenIsPast
<1>7. TakenOnce'
  BY <1>1 DEF TakenOnce
<1>8. LastIsAll'
  <2>1. \A r \in owed : r \in Runs /\ at[r] # 0
    BY DEF TransferShape, OwedIsHeld
  <2>2. QED
    BY <1>1, <1>3, <2>1 DEF LastIsAll
<1>9. QED
  BY <1>2, <1>5, <1>6, <1>7, <1>8

(* Where the reader is and how the transfer ends, with nothing taken.       *)
LEMMA TransferAside ==
  ASSUME TransferInv, UNCHANGED <<at, evidence_time, export_made, after, page, last, sent, owed>>,
         download # "idle", download' # "idle", download' \in {"check", "page"} => page = <<>>,
         download' = "send" => download = "send",
         outcome' = "complete" => outcome = "complete" \/ \A r \in owed : at[r] > 0 => r \in Written
  PROVE  TransferInv'
<1> USE DEF TransferInv
<1>1. Written' = Written /\ Awaited' = Awaited /\ \A r \in Runs : Exports!Behind(r)' <=> Exports!Behind(r)
  BY DEF Written, Awaited, Exports!Behind, Exports!Position
<1>2. owed \subseteq Runs /\ Written \subseteq Runs /\ Awaited \subseteq Runs
  BY TakenAreRuns DEF TransferShape
<1>3. TransferShape' /\ NotBegun' /\ TakenOnce'
  BY <1>1 DEF TransferShape, NotBegun, TakenOnce
<1>4. OwedIsHeld' /\ TakenIsPast'
  BY <1>1, <1>2 DEF OwedIsHeld, TakenIsPast
<1>5. LastIsAll'
  BY <1>1 DEF LastIsAll
<1>6. QED
  BY <1>3, <1>4, <1>5

LEMMA DownloadKeeps ==
  ASSUME TransferInv, Exports!Download
  PROVE  TransferInv'
<1> USE DEF TransferInv
<1>1. download = "idle" /\ export_made # 0 /\ download' = "check" /\ owed' = {r \in Runs : at[r] > 0 /\ at[r] <= export_made}
      /\ UNCHANGED <<at, evidence_time, export_made, after, page, last, sent, outcome>>
  BY DEF Exports!Download, Exports!InExport, Exports!evidence
<1>2. page = <<>> /\ sent = <<>> /\ after = <<>> /\ outcome = "none"
  BY <1>1 DEF NotBegun
<1>3. Written' = {} /\ Awaited' = {}
  BY <1>1, <1>2 DEF Written, Awaited
<1>4. TransferShape' /\ NotBegun'
  BY <1>1, <1>2 DEF TransferShape, NotBegun
<1>5. OwedIsHeld'
  BY <1>1, <1>2 DEF OwedIsHeld, TransferShape, Exports!Behind
<1>6. TakenIsPast' /\ TakenOnce' /\ LastIsAll'
  BY <1>1, <1>2, <1>3 DEF TakenIsPast, TakenOnce, LastIsAll
<1>7. QED
  BY <1>4, <1>5, <1>6

LEMMA SendKeeps ==
  ASSUME TransferInv, Exports!Send
  PROVE  TransferInv'
<1> USE DEF TransferInv
<1>1. download = "send" /\ page # <<>> /\ sent' = Append(sent, Head(page)) /\ page' = Tail(page)
      /\ UNCHANGED <<at, evidence_time, export_made, after, last, owed>>
  BY DEF Exports!Send, Exports!evidence
<1>2. /\ page' # <<>> => UNCHANGED <<download, outcome>>
      /\ page' = <<>> /\ last => download' = "over" /\ outcome' = "complete"
      /\ page' = <<>> /\ ~last => download' = "check" /\ outcome' = outcome
  BY DEF Exports!Send, Exports!Over
<1>3. /\ sent \in Seq(Runs) /\ page \in Seq(Runs) /\ Len(sent) \in Nat /\ Len(page) \in Nat /\ Len(page) >= 1
      /\ sent' \in Seq(Runs) /\ page' \in Seq(Runs) /\ Len(sent') = Len(sent) + 1 /\ Len(page') = Len(page) - 1
      /\ sent'[Len(sent) + 1] = page[1] /\ \A i \in 1..Len(sent) : sent'[i] = sent[i]
      /\ \A i \in 1..Len(page') : page'[i] = page[i + 1]
  <2>1. sent \in Seq(Runs) /\ page \in Seq(Runs)
    BY DEF TransferShape
  <2>2. page[1] \in Runs /\ Head(page) = page[1]
    BY <1>1, <2>1
  <2>3. QED
    BY <1>1, <2>1, <2>2
<1>4. page[1] \in Awaited /\ page[1] \notin Written
  BY <1>3 DEF Awaited, TakenOnce
<1>5. Written' = Written \cup {page[1]}
  <2>1. ASSUME NEW x \in Written' PROVE x \in Written \cup {page[1]}
    <3>1. PICK i \in 1..Len(sent') : x = sent'[i]
      BY DEF Written
    <3>2. CASE i = Len(sent) + 1
      <4>1. x = page[1]
        BY <1>3, <3>1, <3>2
      <4>2. QED
        BY <4>1
    <3>3. CASE i # Len(sent) + 1
      <4>1. i \in 1..Len(sent) /\ x = sent[i]
        BY <1>3, <3>1, <3>3
      <4>2. QED
        BY <4>1 DEF Written
    <3>4. QED
      BY <3>2, <3>3
  <2>2. ASSUME NEW x \in Written PROVE x \in Written'
    <3>1. PICK i \in 1..Len(sent) : x = sent[i]
      BY DEF Written
    <3>2. i \in 1..Len(sent') /\ x = sent'[i]
      BY <1>3, <3>1
    <3>3. QED
      BY <3>2 DEF Written
  <2>3. page[1] \in Written'
    <3>1. Len(sent) + 1 \in 1..Len(sent')
      BY <1>3
    <3>2. QED
      BY <1>3, <3>1 DEF Written
  <2>4. QED
    BY <2>1, <2>2, <2>3
<1>6. Awaited' = Awaited \ {page[1]}
  <2>1. ASSUME NEW x \in Awaited' PROVE x \in Awaited /\ x # page[1]
    <3>1. PICK i \in 1..Len(page') : x = page'[i]
      BY DEF Awaited
    <3>2. i + 1 \in 1..Len(page) /\ 1 \in 1..Len(page) /\ 1 < i + 1 /\ x = page[i + 1]
      BY <1>3, <3>1
    <3>3. QED
      BY <3>2 DEF Awaited, TakenOnce
  <2>2. ASSUME NEW x \in Awaited, x # page[1] PROVE x \in Awaited'
    <3>1. PICK i \in 1..Len(page) : x = page[i]
      BY DEF Awaited
    <3>2. i # 1
      BY <2>2, <3>1
    <3>3. i - 1 \in 1..Len(page') /\ (i - 1) + 1 = i
      BY <1>3, <3>1, <3>2
    <3>4. x = page'[i - 1]
      BY <1>3, <3>1, <3>3
    <3>5. QED
      BY <3>3, <3>4 DEF Awaited
  <2>3. QED
    BY <2>1, <2>2
<1>7. Written' \cup Awaited' = Written \cup Awaited
  BY <1>4, <1>5, <1>6
<1>8. \A r \in Runs : Exports!Behind(r)' <=> Exports!Behind(r)
  BY <1>1 DEF Exports!Behind, Exports!Position
<1>9. owed \subseteq Runs /\ Written \cup Awaited \subseteq Runs
  BY TakenAreRuns DEF TransferShape
<1>10. TransferShape'
  BY <1>1, <1>3 DEF TransferShape
<1>11. NotBegun'
  BY <1>1, <1>2 DEF NotBegun
<1>12. OwedIsHeld' /\ TakenIsPast'
  BY <1>1, <1>7, <1>8, <1>9 DEF OwedIsHeld, TakenIsPast
<1>13. TakenOnce'
  <2>1. ASSUME NEW i \in 1..Len(sent'), NEW j \in 1..Len(sent'), i < j PROVE sent'[i] # sent'[j]
    <3>1. i \in 1..Len(sent)
      BY <1>3, <2>1
    <3>2. CASE j = Len(sent) + 1
      <4>1. sent'[i] \in Written
        BY <1>3, <3>1 DEF Written
      <4>2. QED
        BY <1>3, <1>4, <3>2, <4>1
    <3>3. CASE j # Len(sent) + 1
      <4>1. j \in 1..Len(sent)
        BY <1>3, <3>3
      <4>2. sent'[i] = sent[i] /\ sent'[j] = sent[j]
        BY <1>3, <3>1, <4>1
      <4>3. QED
        BY <2>1, <3>1, <4>1, <4>2 DEF TakenOnce
    <3>4. QED
      BY <3>2, <3>3
  <2>2. ASSUME NEW i \in 1..Len(page'), NEW j \in 1..Len(page'), i < j PROVE page'[i] # page'[j]
    <3>1. i + 1 \in 1..Len(page) /\ j + 1 \in 1..Len(page) /\ i + 1 < j + 1
      BY <1>3, <2>2
    <3>2. QED
      BY <1>3, <3>1 DEF TakenOnce
  <2>3. Written' \cap Awaited' = {}
    BY <1>4, <1>5, <1>6 DEF TakenOnce
  <2>4. QED
    BY <2>1, <2>2, <2>3 DEF TakenOnce
<1>14. LastIsAll'
  <2>1. download' = "send" /\ last' => \A r \in owed : at[r] > 0 => r \in Written' \cup Awaited'
    BY <1>1, <1>7 DEF LastIsAll
  <2>2. ASSUME outcome' = "complete" PROVE \A r \in owed : at[r] > 0 => r \in Written'
    <3>1. CASE outcome = "complete"
      BY <1>5, <3>1 DEF LastIsAll
    <3>2. CASE outcome # "complete"
      <4>1. page' = <<>> /\ last
        BY <1>2, <2>2, <3>2
      <4>2. Awaited' = {}
        BY <4>1 DEF Awaited
      <4>3. QED
        BY <1>1, <1>7, <4>1, <4>2 DEF LastIsAll
    <3>3. QED
      BY <3>1, <3>2
  <2>3. QED
    BY <1>1, <2>1, <2>2 DEF LastIsAll
<1>15. QED
  BY <1>10, <1>11, <1>12, <1>13, <1>14

LEMMA NewerOrders ==
  ASSUME NEW p \in Int \X Int, NEW q \in Int \X Int, NEW r \in Int \X Int
  PROVE  /\ ~Exports!Before(p, p)
         /\ Exports!Before(p, q) => ~Exports!Before(q, p)
         /\ Exports!Before(p, q) /\ Exports!Before(q, r) => Exports!Before(p, r)
BY DEF Exports!Before

(* A page takes the rows right behind the cursor and moves the cursor on.   *)
LEMMA PageKeeps ==
  ASSUME TransferInv, download = "page", NEW n \in 1..PageSize,
         NEW rest, rest = {r \in Runs : at[r] > 0 /\ at[r] <= export_made /\ Exports!Behind(r)},
         NEW batch \in [1..n -> rest],
         \A i, j \in 1..n : i < j => Exports!Newer(batch[i], batch[j]),
         \A r \in rest : (\E i \in 1..n : batch[i] = r) \/ (n = PageSize /\ \A i \in 1..n : Exports!Newer(batch[i], r)),
         download' = "send", page' = batch, last' = (n < PageSize), after' = <<at[batch[n]], batch[n]>>,
         UNCHANGED <<at, evidence_time, export_made, sent, owed, outcome>>
  PROVE  TransferInv'
<1> USE DEF TransferInv
<1>1. n \in Nat /\ n >= 1 /\ n \in 1..n /\ PageSize \in Nat
  BY GatewayAssumption
<1>2. Len(batch) = n /\ page' \in Seq(Runs) /\ Len(page') = n
  BY <1>1
<1>3. \A i \in 1..n : batch[i] \in Runs /\ at[batch[i]] > 0 /\ at[batch[i]] <= export_made /\ Exports!Behind(batch[i])
  OBVIOUS
<1>4. page = <<>> /\ Awaited = {}
  BY DEF NotBegun, Awaited
<1>5. Written' = Written /\ Awaited' = {batch[i] : i \in 1..n} /\ Written \subseteq Runs /\ owed \subseteq Runs
  BY <1>2, TakenAreRuns DEF Written, Awaited, TransferShape
<1>6. \A r \in Runs : Exports!Position(r) = <<at[r], r>> /\ Exports!Position(r) \in Int \X Int
  BY GatewayAssumption DEF Exports!Position, TransferShape
<1>7. after' # <<>> /\ after' = Exports!Position(batch[n])
  BY <1>1, <1>3, <1>6, PairIsThere
<1>8. \A r \in Runs : Exports!Behind(r)' <=> Exports!Before(Exports!Position(r), Exports!Position(batch[n]))
  BY <1>7, <1>6 DEF Exports!Behind, Exports!Position
<1>9. after # <<>> => after \in Int \X Int
  <2>1. \A t \in Int, r \in Runs : <<t, r>> \in Int \X Int
    BY GatewayAssumption
  <2>2. QED
    BY <2>1 DEF TransferShape
<1>10. TransferShape'
  BY <1>1, <1>2, <1>3 DEF TransferShape
<1>11. NotBegun'
  BY DEF NotBegun
<1>12. OwedIsHeld'
  <2>1. ASSUME NEW r \in owed, at[r] > 0 PROVE r \in Written' \cup Awaited' \/ Exports!Behind(r)'
    <3>1. CASE r \in Written
      BY <1>5, <3>1
    <3>2. CASE r \notin Written
      <4>1. r \in rest
        BY <1>4, <1>5, <2>1, <3>2 DEF OwedIsHeld
      <4>2. CASE \E i \in 1..n : batch[i] = r
        BY <1>5, <4>2
      <4>3. CASE \A i \in 1..n : Exports!Newer(batch[i], r)
        BY <1>1, <1>5, <1>8, <4>3 DEF Exports!Newer
      <4>4. QED
        BY <4>1, <4>2, <4>3
    <3>3. QED
      BY <3>1, <3>2
  <2>2. QED
    BY <2>1 DEF OwedIsHeld
<1>13. TakenIsPast'
  <2>1. ASSUME NEW i \in 1..n PROVE ~Exports!Behind(batch[i])'
    <3>1. CASE i = n
      BY <1>3, <1>6, <1>8, <3>1, NewerOrders
    <3>2. CASE i # n
      <4>1. Exports!Before(Exports!Position(batch[n]), Exports!Position(batch[i]))
        BY <1>1, <3>2 DEF Exports!Newer
      <4>2. QED
        BY <1>1, <1>3, <1>6, <1>8, <4>1, NewerOrders
    <3>3. QED
      BY <3>1, <3>2
  <2>2. ASSUME NEW r \in Written, at[r] > 0 PROVE ~Exports!Behind(r)'
    <3>1. r \in Runs /\ after # <<>> /\ ~Exports!Before(Exports!Position(r), after)
      BY <1>5, <2>2 DEF TakenIsPast, Exports!Behind
    <3>2. Exports!Before(Exports!Position(batch[n]), after)
      BY <1>1, <1>3, <3>1 DEF Exports!Behind
    <3>3. QED
      BY <1>1, <1>3, <1>6, <1>8, <1>9, <3>1, <3>2, NewerOrders
  <2>3. \A r \in Awaited' : at[r] > 0 /\ ~Exports!Behind(r)'
    BY <1>3, <1>5, <2>1
  <2>4. QED
    BY <1>5, <1>7, <2>2, <2>3 DEF TakenIsPast
<1>14. TakenOnce'
  <2>1. ASSUME NEW i \in 1..n, NEW j \in 1..n, i < j PROVE batch[i] # batch[j]
    <3>1. Exports!Before(Exports!Position(batch[j]), Exports!Position(batch[i]))
      BY <2>1 DEF Exports!Newer
    <3>2. QED
      BY <1>3, <1>6, <3>1, NewerOrders
  <2>2. Written' \cap Awaited' = {}
    BY <1>3, <1>5 DEF TakenIsPast
  <2>3. QED
    BY <1>2, <2>1, <2>2 DEF TakenOnce
<1>15. LastIsAll'
  <2>1. ASSUME last', NEW r \in owed, at[r] > 0 PROVE r \in Written' \cup Awaited'
    <3>1. n # PageSize
      <4>1. n < PageSize
        BY <2>1, Zenon
      <4>2. QED
        BY <1>1, <4>1
    <3>2. CASE r \in Written
      BY <1>5, <3>2
    <3>3. CASE r \notin Written
      <4>1. r \in rest
        BY <1>4, <1>5, <2>1, <3>3 DEF OwedIsHeld
      <4>2. QED
        BY <1>5, <3>1, <4>1
    <3>4. QED
      BY <3>2, <3>3
  <2>2. QED
    BY <1>5, <2>1 DEF LastIsAll
<1>16. QED
  BY <1>10, <1>11, <1>12, <1>13, <1>14, <1>15

LEMMA ReadPageKeeps ==
  ASSUME TransferInv, Exports!ReadPage
  PROVE  TransferInv'
<1> DEFINE rest == {r \in Runs : Exports!InExport(r) /\ Exports!Behind(r)}
<1>1. download = "page" /\ UNCHANGED <<at, evidence_time, export_made, sent, owed>>
  BY DEF Exports!ReadPage, Exports!evidence
<1>2. CASE rest = {}
  <2>1. download' = "over" /\ outcome' = "complete" /\ UNCHANGED <<after, page, last>>
    BY <1>2 DEF Exports!ReadPage, Exports!Over
  <2>2. ASSUME NEW r \in owed, at[r] > 0 PROVE r \in Written
    <3>1. r \in Runs /\ at[r] <= export_made /\ Awaited = {}
      BY <1>1 DEF TransferInv, TransferShape, OwedIsHeld, NotBegun, Awaited
    <3>2. ~Exports!Behind(r)
      BY <1>2, <2>2, <3>1 DEF Exports!InExport
    <3>3. QED
      BY <2>2, <3>1, <3>2 DEF TransferInv, OwedIsHeld
  <2>3. QED
    BY <1>1, <2>1, <2>2, TransferAside
<1>3. CASE rest # {}
  <2>1. PICK n \in 1..PageSize : \E batch \in [1..n -> rest] :
               /\ Exports!IsPageOf(batch, rest)
               /\ download' = "send" /\ page' = batch /\ last' = (n < PageSize)
               /\ after' = Exports!Position(batch[n]) /\ UNCHANGED outcome
    BY <1>3 DEF Exports!ReadPage
  <2>2. PICK batch \in [1..n -> rest] :
               /\ Exports!IsPageOf(batch, rest)
               /\ download' = "send" /\ page' = batch /\ last' = (n < PageSize)
               /\ after' = Exports!Position(batch[n]) /\ UNCHANGED outcome
    BY <2>1
  <2>3. n \in Nat /\ DOMAIN batch = 1..n /\ Len(batch) = n
    BY GatewayAssumption
  <2>4. rest = {r \in Runs : at[r] > 0 /\ at[r] <= export_made /\ Exports!Behind(r)}
    BY DEF Exports!InExport
  <2>5. Exports!Range(batch) = {batch[i] : i \in 1..n}
    BY <2>3 DEF Exports!Range
  <2> HIDE DEF rest
  <2>6. \A i, j \in 1..n : i < j => Exports!Newer(batch[i], batch[j])
    BY <2>2, <2>3 DEF Exports!IsPageOf
  <2>7. \A r \in rest : (\E i \in 1..n : batch[i] = r) \/ (n = PageSize /\ \A i \in 1..n : Exports!Newer(batch[i], r))
    BY <2>2, <2>3, <2>5 DEF Exports!IsPageOf
  <2>8. after' = <<at[batch[n]], batch[n]>>
    BY <2>2 DEF Exports!Position
  <2>9. QED
    BY <1>1, <2>2, <2>4, <2>6, <2>7, <2>8, PageKeeps
<1>4. QED
  BY <1>2, <1>3

LEMMA TransferStep ==
  ASSUME TransferInv, Exports!Next
  PROVE  TransferInv'
<1> USE DEF Exports!evidence, Exports!transfer
<1>1. at \in [Runs -> Int] /\ evidence_time \in Int /\ evidence_time > 0 /\ export_made \in Nat
  BY DEF TransferInv, TransferShape
<1>2. CASE Exports!Tick \/ Exports!Redact
  <2>1. UNCHANGED <<at, export_made, download, after, page, last, sent, outcome, owed>>
        /\ (evidence_time' = evidence_time + 1 \/ evidence_time' = evidence_time)
    BY <1>2 DEF Exports!Tick, Exports!Redact
  <2>2. QED
    BY <1>1, <2>1, EvidenceKeeps
<1>3. CASE Exports!CreateExport
  BY <1>1, <1>3, EvidenceKeeps DEF Exports!CreateExport
<1>4. ASSUME NEW r \in Runs, Exports!OpenRun(r) \/ Exports!ReadForRedaction(r) \/ Exports!Retain(r) PROVE TransferInv'
  <2>1. UNCHANGED <<evidence_time, export_made, download, after, page, last, sent, outcome, owed>>
    BY <1>4 DEF Exports!OpenRun, Exports!ReadForRedaction, Exports!Retain
  <2>2. \/ at' = at \/ at' = [at EXCEPT ![r] = 0 - 1]
        \/ at[r] = 0 /\ \E started \in 1..evidence_time : at' = [at EXCEPT ![r] = started]
    BY <1>4 DEF Exports!OpenRun, Exports!ReadForRedaction, Exports!Retain, Exports!Deleted
  <2>3. at' \in [Runs -> Int] /\ \A q \in Runs : at'[q] = at[q] \/ at[q] = 0 \/ at'[q] = 0 - 1
    BY <1>1, <2>2
  <2>4. QED
    BY <1>1, <2>1, <2>3, EvidenceKeeps
<1>5. ASSUME NEW p, Exports!SetPolicy(p) \/ Exports!Permit(p) PROVE TransferInv'
  <2>1. UNCHANGED <<at, evidence_time, export_made, download, after, page, last, sent, outcome, owed>>
    BY <1>5 DEF Exports!SetPolicy, Exports!Permit
  <2>2. QED
    BY <1>1, <2>1, EvidenceKeeps
<1>6. CASE Exports!CheckPermission \/ Exports!Break \/ Exports!Leave
  <2>1. UNCHANGED <<at, evidence_time, export_made, after, page, last, sent, owed>> /\ download # "idle"
    BY <1>6 DEF Exports!CheckPermission, Exports!Break, Exports!Leave
  <2>2. (download = "check" /\ download' = "page" /\ outcome' = outcome) \/ (download' = "over" /\ outcome' # "complete")
    BY <1>6 DEF Exports!CheckPermission, Exports!Break, Exports!Leave, Exports!Fail, Exports!Over
  <2>3. download' = "page" => page = <<>>
    BY <2>2 DEF TransferInv, NotBegun
  <2>4. QED
    BY <2>1, <2>2, <2>3, TransferAside
<1>7. QED
  BY <1>2, <1>3, <1>4, <1>5, <1>6, DownloadKeeps, ReadPageKeeps, SendKeeps DEF Exports!Next

LEMMA TransferUntouched ==
  ASSUME TransferInv, UNCHANGED ofExports
  PROVE  TransferInv'
<1>1. at \in [Runs -> Int] /\ evidence_time \in Int /\ evidence_time > 0 /\ export_made \in Nat
  BY DEF TransferInv, TransferShape
<1>2. QED
  BY <1>1, EvidenceKeeps DEF ofExports

LEMMA TransferPromises == TransferInv => Exports!CompleteMeansWhole
<1> SUFFICES ASSUME TransferInv PROVE Exports!CompleteMeansWhole
  OBVIOUS
<1>1. sent \in Seq(Runs) /\ DOMAIN sent = 1..Len(sent)
  BY DEF TransferInv, TransferShape
<1>2. Exports!Range(sent) = Written
  BY <1>1 DEF Exports!Range, Written
<1>3. QED
  BY <1>2 DEF TransferInv, TakenOnce, LastIsAll, Exports!CompleteMeansWhole

------------------------------------------------------------------------------
(* The ledger: a runner holds the key of the row it inserts or deletes.     *)
Present == {v \in Migration : files[v] # 0}
Run(r) == [pc |-> run[r].pc, pending |-> run[r].pending, at |-> run[r].at]

SchemaShape ==
  /\ files \in [Migration -> 0..2] /\ ledger \in [Migration -> 0..2] /\ effect \in [Migration -> Int]
  /\ run = [r \in Runner |-> run[r]]
  /\ \A r \in Runner : run[r] = Schema!Idle \/ (run[r] = Run(r) /\ run[r].pending \subseteq Present)

RowsInHand ==
  \A r \in Runner, v \in Migration :
    /\ run[r].pc \in {"open", "inserted"} /\ run[r].at = v => files[v] # 0
    /\ run[r].pc = "inserted" /\ run[r].at = v => ledger[v] = 0
    /\ run[r].pc = "deleted" /\ run[r].at = v => ledger[v] # 0

OneHand ==
  \A q, r \in Runner : run[q].pc = run[r].pc /\ run[r].pc \in {"inserted", "deleted"} /\ run[q].at = run[r].at => q = r

SchemaInv == SchemaShape /\ RowsInHand /\ OneHand /\ Schema!LedgerTellsTheSchema

LEMMA SchemaInitially == Schema!Init => SchemaInv
<1> SUFFICES ASSUME Schema!Init PROVE SchemaInv
  OBVIOUS
<1>1. SchemaShape
  BY DEF Schema!Init, SchemaShape
<1>2. \A r \in Runner : run[r].pc = "idle"
  BY DEF Schema!Init, Schema!Idle
<1>3. QED
  BY <1>1, <1>2 DEF Schema!Init, SchemaInv, RowsInHand, OneHand, Schema!LedgerTellsTheSchema

LEMMA Moved ==
  ASSUME NEW x, NEW c, NEW pending, NEW v, x = [pc |-> c, pending |-> pending, at |-> v], NEW p
  PROVE  [x EXCEPT !.pc = p] = [pc |-> p, pending |-> pending, at |-> v]
OBVIOUS

Goes(r, p, pending, v) == run' = [run EXCEPT ![r] = [pc |-> p, pending |-> pending, at |-> v]]
Onward(r) == [pc |-> "next", pending |-> run[r].pending, at |-> run[r].at]
Commits(r, c, d, p) ==
  /\ ledger' = [ledger EXCEPT ![run[r].at] = c] /\ effect' = [effect EXCEPT ![run[r].at] = effect[run[r].at] + d]
  /\ run' = [run EXCEPT ![r] = p]

(* A runner goes on alone: what the others hold is as it was.               *)
LEMMA RunGoesOn ==
  ASSUME SchemaInv, NEW r \in Runner, NEW p \in {"idle", "next", "open", "inserted", "down", "deleted"}, NEW pending, NEW v,
         files' = files, ledger' = ledger, effect' = effect,
         Goes(r, p, pending, v),
         pending \subseteq Present,
         p \in {"open", "inserted"} /\ v \in Migration => files[v] # 0,
         p = "inserted" /\ v \in Migration => ledger[v] = 0,
         p = "deleted" /\ v \in Migration => ledger[v] # 0,
         p \in {"inserted", "deleted"} => \A q \in Runner : q # r /\ run[q].pc = p => run[q].at # v
  PROVE  SchemaInv'
<1> USE DEF Goes
<1>1. run'[r] = [pc |-> p, pending |-> pending, at |-> v] /\ \A q \in Runner : q # r => run'[q] = run[q]
  BY DEF SchemaInv, SchemaShape
<1>2. run'[r].pc = p /\ run'[r].pending = pending /\ run'[r].at = v
  BY <1>1
<1>3. SchemaShape'
  <2>1. run' = [q \in Runner |-> run'[q]]
    BY DEF SchemaInv, SchemaShape
  <2>2. Present' = Present
    BY DEF Present
  <2>3. ASSUME NEW q \in Runner PROVE run'[q] = Schema!Idle \/ (run'[q] = Run(q)' /\ run'[q].pending \subseteq Present)
    <3>1. CASE q = r
      BY <1>1, <1>2, <3>1 DEF Run
    <3>2. CASE q # r
      BY <1>1, <3>2 DEF SchemaInv, SchemaShape, Run
    <3>3. QED
      BY <3>1, <3>2
  <2>4. QED
    BY <2>1, <2>2, <2>3 DEF SchemaInv, SchemaShape
<1>4. RowsInHand'
  <2>1. ASSUME NEW q \in Runner, NEW u \in Migration, run'[q].at = u
        PROVE  /\ run'[q].pc \in {"open", "inserted"} => files[u] # 0
               /\ run'[q].pc = "inserted" => ledger[u] = 0
               /\ run'[q].pc = "deleted" => ledger[u] # 0
    <3>1. CASE q = r
      BY <1>2, <2>1, <3>1
    <3>2. CASE q # r
      BY <1>1, <2>1, <3>2 DEF SchemaInv, RowsInHand
    <3>3. QED
      BY <3>1, <3>2
  <2>2. QED
    BY <2>1 DEF RowsInHand
<1>5. OneHand'
  BY <1>1, <1>2 DEF SchemaInv, OneHand
<1>6. QED
  BY <1>3, <1>4, <1>5 DEF SchemaInv, Schema!LedgerTellsTheSchema

LEMMA RunEnds ==
  ASSUME SchemaInv, NEW r \in Runner, files' = files, ledger' = ledger, effect' = effect,
         run' = [run EXCEPT ![r] = Schema!Idle]
  PROVE  SchemaInv'
<1>1. run'[r] = Schema!Idle /\ run'[r].pc = "idle" /\ \A q \in Runner : q # r => run'[q] = run[q]
  BY DEF SchemaInv, SchemaShape, Schema!Idle
<1>2. SchemaShape'
  <2>1. run' = [q \in Runner |-> run'[q]]
    BY DEF SchemaInv, SchemaShape
  <2>2. QED
    BY <1>1, <2>1 DEF SchemaInv, SchemaShape, Present, Run
<1>3. RowsInHand'
  BY <1>1 DEF SchemaInv, RowsInHand
<1>4. OneHand'
  BY <1>1 DEF SchemaInv, OneHand
<1>5. QED
  BY <1>2, <1>3, <1>4 DEF SchemaInv, Schema!LedgerTellsTheSchema

(* A transaction commits the row it holds together with its statements.     *)
LEMMA RowCommits ==
  ASSUME SchemaInv, NEW r \in Runner, run[r].pc \in {"inserted", "deleted"}, files' = files,
         NEW c \in 0..2, NEW d \in Int, NEW p,
         Commits(r, c, d, p), p = Schema!Idle \/ p = Onward(r),
         run[r].pc = "inserted" /\ run[r].at \in Migration => c # 0 /\ d = 1,
         run[r].pc = "deleted" => c = 0 /\ d + 1 = 0
  PROVE  SchemaInv'
<1> USE DEF Commits
<1>1. run'[r] = p /\ \A q \in Runner : q # r => run'[q] = run[q]
  BY DEF SchemaInv, SchemaShape
<1>2. run[r] # Schema!Idle /\ run[r] = Run(r)
  BY DEF SchemaInv, SchemaShape, Schema!Idle
<1>3. p.pc \in {"idle", "next"} /\ (p # Schema!Idle => p = [pc |-> "next", pending |-> run[r].pending, at |-> run[r].at])
  BY DEF Onward, Schema!Idle
<1>4. \A v \in Migration : v # run[r].at => ledger'[v] = ledger[v] /\ effect'[v] = effect[v]
  BY DEF SchemaInv, SchemaShape
<1>5. SchemaShape'
  <2>1. run' = [q \in Runner |-> run'[q]]
    BY DEF SchemaInv, SchemaShape
  <2>2. ledger' \in [Migration -> 0..2]
    BY DEF SchemaInv, SchemaShape
  <2>3. effect' \in [Migration -> Int]
    <3>1. CASE run[r].at \in Migration
      <4>1. effect[run[r].at] + d \in Int
        BY <3>1 DEF SchemaInv, SchemaShape
      <4>2. QED
        BY <4>1 DEF SchemaInv, SchemaShape
    <3>2. CASE run[r].at \notin Migration
      BY <3>2 DEF SchemaInv, SchemaShape
    <3>3. QED
      BY <3>1, <3>2
  <2>4. Present' = Present
    BY DEF Present
  <2>5. ASSUME NEW q \in Runner PROVE run'[q] = Schema!Idle \/ (run'[q] = Run(q)' /\ run'[q].pending \subseteq Present)
    <3>1. CASE q = r
      <4>1. run[r].pending \subseteq Present
        BY <1>2 DEF SchemaInv, SchemaShape
      <4>2. QED
        BY <1>1, <1>3, <3>1, <4>1 DEF Run
    <3>2. CASE q # r
      BY <1>1, <3>2 DEF SchemaInv, SchemaShape, Run
    <3>3. QED
      BY <3>1, <3>2
  <2>6. QED
    BY <2>1, <2>2, <2>3, <2>4, <2>5 DEF SchemaInv, SchemaShape
<1>6. ASSUME NEW q \in Runner, q # r, run[q].pc \in {"inserted", "deleted"}, run[q].at \in Migration PROVE run[q].at # run[r].at
  BY <1>6 DEF SchemaInv, RowsInHand, OneHand
<1>7. RowsInHand'
  <2>1. ASSUME NEW q \in Runner, NEW u \in Migration, run'[q].at = u
        PROVE  /\ run'[q].pc \in {"open", "inserted"} => files[u] # 0
               /\ run'[q].pc = "inserted" => ledger'[u] = 0
               /\ run'[q].pc = "deleted" => ledger'[u] # 0
    <3>1. CASE q = r
      BY <1>1, <1>3, <3>1
    <3>2. CASE q # r
      BY <1>1, <1>4, <1>6, <2>1, <3>2 DEF SchemaInv, RowsInHand
    <3>3. QED
      BY <3>1, <3>2
  <2>2. QED
    BY <2>1 DEF RowsInHand
<1>8. OneHand'
  BY <1>1, <1>3 DEF SchemaInv, OneHand
<1>9. Schema!LedgerTellsTheSchema'
  <2>1. ASSUME NEW v \in Migration, v = run[r].at PROVE effect'[v] = IF ledger'[v] = 0 THEN 0 ELSE 1
    <3>1. ledger'[v] = c /\ effect'[v] = effect[v] + d
      BY <2>1 DEF SchemaInv, SchemaShape
    <3>2. effect[v] = IF ledger[v] = 0 THEN 0 ELSE 1
      BY DEF SchemaInv, Schema!LedgerTellsTheSchema
    <3>3. CASE run[r].pc = "inserted"
      BY <2>1, <3>1, <3>2, <3>3 DEF SchemaInv, RowsInHand
    <3>4. CASE run[r].pc = "deleted"
      BY <2>1, <3>1, <3>2, <3>4 DEF SchemaInv, RowsInHand
    <3>5. QED
      BY <3>3, <3>4
  <2>2. QED
    BY <1>4, <2>1 DEF SchemaInv, Schema!LedgerTellsTheSchema
<1>10. QED
  BY <1>5, <1>7, <1>8, <1>9 DEF SchemaInv

LEMMA SchemaStep ==
  ASSUME SchemaInv, Schema!Next
  PROVE  SchemaInv'
<1>1. ASSUME NEW v \in Migration, Schema!ChangeFile(v) PROVE SchemaInv'
  <2>1. UNCHANGED <<ledger, effect, run>> /\ files' = [files EXCEPT ![v] = @ + 1] /\ files[v] < 2
        /\ \A r \in Runner : run[r] = Schema!Idle
    BY <1>1 DEF Schema!ChangeFile
  <2>2. files' \in [Migration -> 0..2]
    BY <2>1 DEF SchemaInv, SchemaShape
  <2>3. \A r \in Runner : run[r].pc = "idle"
    BY <2>1 DEF Schema!Idle
  <2>4. QED
    BY <2>1, <2>2, <2>3 DEF SchemaInv, SchemaShape, RowsInHand, OneHand, Schema!LedgerTellsTheSchema
<1>2. ASSUME NEW r \in Runner, Schema!BeginUp(r) PROVE SchemaInv'
  <2>1. run' = [run EXCEPT ![r] = [pc |-> "next", pending |-> Schema!Present(files) \ Schema!Present(ledger), at |-> 0]]
        /\ UNCHANGED <<files, ledger, effect>>
    BY <1>2 DEF Schema!BeginUp
  <2>2. Schema!Present(files) \ Schema!Present(ledger) \subseteq Present
    BY DEF Schema!Present, Present
  <2>3. PICK pending : pending = Schema!Present(files) \ Schema!Present(ledger)
    OBVIOUS
  <2>4. Goes(r, "next", pending, 0)
    BY <2>1, <2>3 DEF Goes
  <2>5. QED
    BY <2>1, <2>2, <2>3, <2>4, RunGoesOn
<1>3. ASSUME NEW r \in Runner, Schema!BeginDown(r) PROVE SchemaInv'
  <2>1. run' = [run EXCEPT ![r] = [pc |-> "down", pending |-> {}, at |-> Schema!Max(Schema!Present(ledger))]]
        /\ UNCHANGED <<files, ledger, effect>>
    BY <1>3 DEF Schema!BeginDown
  <2>2. PICK v : v = Schema!Max(Schema!Present(ledger))
    OBVIOUS
  <2>3. Goes(r, "down", {}, v) /\ {} \subseteq Present
    BY <2>1, <2>2 DEF Goes
  <2>4. QED
    BY <2>1, <2>3, RunGoesOn
<1>4. ASSUME NEW r \in Runner, Schema!Execute(r) PROVE SchemaInv'
  <2> DEFINE v == Schema!Min(run[r].pending)
             left == run[r].pending \ {v}
  <2>1. run[r].pc = "next" /\ run[r].pending # {} /\ UNCHANGED <<files, ledger, effect>>
        /\ run' = [run EXCEPT ![r] = [pc |-> "open", pending |-> left, at |-> v]]
    BY <1>4 DEF Schema!Execute
  <2>2. run[r].pending \subseteq Present
    BY <2>1 DEF SchemaInv, SchemaShape, Schema!Idle
  <2>3. run[r].pending \in SUBSET Nat
    BY <2>2, GatewayAssumption DEF Present
  <2>4. v \in run[r].pending
    BY <2>1, <2>3, LeastOf DEF Schema!Min
  <2>5. files[v] # 0
    BY <2>2, <2>4 DEF Present
  <2>6. left \subseteq Present
    BY <2>2
  <2> HIDE DEF v, left
  <2>7. Goes(r, "open", left, v)
    BY <2>1 DEF Goes
  <2>8. QED
    BY <2>1, <2>5, <2>6, <2>7, RunGoesOn
<1>5. ASSUME NEW r \in Runner, Schema!Stop(r) \/ Schema!Done(r) PROVE SchemaInv'
  BY <1>5, RunEnds DEF Schema!Stop, Schema!Done
<1>6. ASSUME NEW r \in Runner, Schema!InsertLedger(r) PROVE SchemaInv'
  <2>1. run[r].pc = "open" /\ ledger[run[r].at] = 0 /\ UNCHANGED <<files, ledger, effect>>
        /\ run' = [run EXCEPT ![r].pc = "inserted"]
        /\ \A q \in Runner : run[q].pc = "inserted" => run[q].at # run[r].at
    BY <1>6 DEF Schema!InsertLedger, Schema!Holds
  <2>2. run[r] = Run(r) /\ run[r].pending \subseteq Present
    BY <2>1 DEF SchemaInv, SchemaShape, Schema!Idle
  <2>3. run' = [run EXCEPT ![r] = [pc |-> "inserted", pending |-> run[r].pending, at |-> run[r].at]]
    <3>1. [run[r] EXCEPT !.pc = "inserted"] = [pc |-> "inserted", pending |-> run[r].pending, at |-> run[r].at]
      BY <2>2, Moved DEF Run
    <3>2. run' = [run EXCEPT ![r] = [run[r] EXCEPT !.pc = "inserted"]]
      BY <2>1
    <3>3. QED
      BY <3>1, <3>2
  <2>4. run[r].at \in Migration => files[run[r].at] # 0
    BY <2>1 DEF SchemaInv, RowsInHand
  <2>5. PICK pending, v : pending = run[r].pending /\ v = run[r].at
    OBVIOUS
  <2>6. Goes(r, "inserted", pending, v) /\ pending \subseteq Present
        /\ (v \in Migration => files[v] # 0) /\ ledger[v] = 0
        /\ \A q \in Runner : q # r /\ run[q].pc = "inserted" => run[q].at # v
    BY <2>1, <2>2, <2>3, <2>4, <2>5 DEF Goes
  <2>7. QED
    BY <2>1, <2>6, RunGoesOn
<1>7. ASSUME NEW r \in Runner, Schema!ExecuteDown(r) PROVE SchemaInv'
  <2>1. run[r].pc = "down" /\ effect[run[r].at] = 1 /\ UNCHANGED <<files, ledger, effect>>
        /\ run' = [run EXCEPT ![r].pc = "deleted"]
        /\ \A q \in Runner : run[q].pc = "deleted" => run[q].at # run[r].at
    BY <1>7 DEF Schema!ExecuteDown
  <2>2. run[r] = Run(r) /\ run[r].pending \subseteq Present
    BY <2>1 DEF SchemaInv, SchemaShape, Schema!Idle
  <2>3. run' = [run EXCEPT ![r] = [pc |-> "deleted", pending |-> run[r].pending, at |-> run[r].at]]
    <3>1. [run[r] EXCEPT !.pc = "deleted"] = [pc |-> "deleted", pending |-> run[r].pending, at |-> run[r].at]
      BY <2>2, Moved DEF Run
    <3>2. run' = [run EXCEPT ![r] = [run[r] EXCEPT !.pc = "deleted"]]
      BY <2>1
    <3>3. QED
      BY <3>1, <3>2
  <2>4. run[r].at \in Migration => ledger[run[r].at] # 0
    BY <2>1 DEF SchemaInv, Schema!LedgerTellsTheSchema
  <2>5. PICK pending, v : pending = run[r].pending /\ v = run[r].at
    OBVIOUS
  <2>6. Goes(r, "deleted", pending, v) /\ pending \subseteq Present
        /\ (v \in Migration => ledger[v] # 0)
        /\ \A q \in Runner : q # r /\ run[q].pc = "deleted" => run[q].at # v
    BY <2>1, <2>2, <2>3, <2>4, <2>5 DEF Goes
  <2>7. QED
    BY <2>1, <2>6, RunGoesOn
<1>8. ASSUME NEW r \in Runner, Schema!Commit(r) PROVE SchemaInv'
  <2>1. run[r].pc = "inserted" /\ files' = files /\ ledger' = [ledger EXCEPT ![run[r].at] = files[run[r].at]]
        /\ effect' = [effect EXCEPT ![run[r].at] = @ + 1] /\ run' = [run EXCEPT ![r] = Onward(r)]
    <3>1. run[r].pc = "inserted" /\ run' = [run EXCEPT ![r] = [run[r] EXCEPT !.pc = "next"]]
      BY <1>8 DEF Schema!Commit
    <3>2. run[r] = Run(r)
      BY <3>1 DEF SchemaInv, SchemaShape, Schema!Idle
    <3>3. [run[r] EXCEPT !.pc = "next"] = Onward(r)
      BY <3>2, Moved DEF Run, Onward
    <3>4. QED
      BY <1>8, <3>1, <3>3 DEF Schema!Commit
  <2>2. CASE run[r].at \in Migration
    <3>1. files[run[r].at] \in 0..2 /\ files[run[r].at] # 0
      BY <2>1, <2>2 DEF SchemaInv, SchemaShape, RowsInHand
    <3>2. PICK c, p : c = files[run[r].at] /\ p = Onward(r)
      OBVIOUS
    <3>3. Commits(r, c, 1, p) /\ c # 0 /\ c \in 0..2
      BY <2>1, <3>1, <3>2 DEF Commits
    <3>4. QED
      BY <2>1, <3>2, <3>3, RowCommits
  <2>3. CASE run[r].at \notin Migration
    <3>1. ledger' = [ledger EXCEPT ![run[r].at] = 0]
      BY <2>1, <2>3 DEF SchemaInv, SchemaShape
    <3>2. PICK p : p = Onward(r)
      OBVIOUS
    <3>3. Commits(r, 0, 1, p)
      BY <2>1, <3>1, <3>2 DEF Commits
    <3>4. QED
      BY <2>1, <2>3, <3>2, <3>3, RowCommits
  <2>4. QED
    BY <2>2, <2>3
<1>9. ASSUME NEW r \in Runner, Schema!CommitDown(r) PROVE SchemaInv'
  <2>1. run[r].pc = "deleted" /\ files' = files /\ ledger' = [ledger EXCEPT ![run[r].at] = 0]
        /\ effect' = [effect EXCEPT ![run[r].at] = @ - 1] /\ run' = [run EXCEPT ![r] = Schema!Idle]
    BY <1>9 DEF Schema!CommitDown
  <2>2. effect' = [effect EXCEPT ![run[r].at] = effect[run[r].at] + (0 - 1)]
    <3>1. \A v \in Migration : effect[v] - 1 = effect[v] + (0 - 1)
      BY DEF SchemaInv, SchemaShape
    <3>2. QED
      BY <2>1, <3>1 DEF SchemaInv, SchemaShape
  <2>3. PICK p : p = Schema!Idle
    OBVIOUS
  <2>4. PICK d \in Int, c \in 0..2 : d = 0 - 1 /\ c = 0
    OBVIOUS
  <2>5. Commits(r, c, d, p)
    BY <2>1, <2>2, <2>3, <2>4 DEF Commits
  <2>6. run[r].pc \in {"inserted", "deleted"} /\ run[r].pc # "inserted" /\ d + 1 = 0
    BY <2>1, <2>4
  <2>7. QED
    BY <2>1, <2>3, <2>4, <2>5, <2>6, RowCommits
<1>10. QED
  BY <1>1, <1>2, <1>3, <1>4, <1>5, <1>6, <1>7, <1>8, <1>9 DEF Schema!Next

LEMMA SchemaAside ==
  ASSUME SchemaInv, UNCHANGED ofSchema
  PROVE  SchemaInv'
BY DEF SchemaInv, SchemaShape, Present, Run, RowsInHand, OneHand, Schema!LedgerTellsTheSchema, ofSchema

------------------------------------------------------------------------------
(* A loader has ended well only where the schema is.                        *)
LoaderInv == "at" \in DOMAIN schema_loader /\ Snapshots!LoadedIsThere

LEMMA LoaderInitially == Snapshots!Init => LoaderInv
BY DEF Snapshots!Init, LoaderInv, Snapshots!LoadedIsThere

LEMMA LoaderStep ==
  ASSUME LoaderInv, Snapshots!Next
  PROVE  LoaderInv'
<1> USE DEF LoaderInv, Snapshots!LoadedIsThere
<1>1. CASE UNCHANGED <<graph_schema, schema_loader>>
  BY <1>1
<1>2. CASE Snapshots!Attempt
  <2>1. schema_loader.at = "writing"
    BY <1>2 DEF Snapshots!Attempt
  <2>2. \/ graph_schema' = TRUE /\ schema_loader' = [schema_loader EXCEPT !.at = "loaded"]
        \/ schema_loader' = [at |-> "failed", left |-> 0]
        \/ schema_loader' = [schema_loader EXCEPT !.left = schema_loader.left - 1]
        \/ schema_loader' = [schema_loader EXCEPT !.at = "failed"]
    BY <1>2 DEF Snapshots!Attempt
  <2>3. "at" \in DOMAIN schema_loader' /\ (schema_loader'.at = "loaded" => graph_schema' = TRUE)
    BY <2>1, <2>2
  <2>4. QED
    BY <2>3
<1>3. CASE Snapshots!Tick \/ Snapshots!Toggle
  BY <1>1, <1>3 DEF Snapshots!Tick, Snapshots!Toggle
<1>4. ASSUME NEW p \in Process,
             \/ Snapshots!RequireSchema(p) \/ Snapshots!BeginCheck(p) \/ Snapshots!BeginMany(p) \/ Snapshots!Explain(p)
             \/ Snapshots!Answered(p) \/ Snapshots!Degraded(p) \/ Snapshots!Throws(p) \/ Snapshots!Write(p)
             \/ Snapshots!WriteAnswered(p)
      PROVE  LoaderInv'
  BY <1>1, <1>4 DEF Snapshots!RequireSchema, Snapshots!BeginCheck, Snapshots!BeginMany, Snapshots!Explain,
     Snapshots!Begin, Snapshots!Answered, Snapshots!Degraded, Snapshots!Throws, Snapshots!Write, Snapshots!WriteAnswered
<1>5. QED
  BY <1>2, <1>3, <1>4 DEF Snapshots!Next

LEMMA LoaderAside ==
  ASSUME LoaderInv, UNCHANGED ofSnapshots
  PROVE  LoaderInv'
BY DEF LoaderInv, Snapshots!LoadedIsThere, ofSnapshots

------------------------------------------------------------------------------
(* Scopes: the connection is its holder's; what was asked for in time is    *)
(* asked of the holder, and awaited when it drains; a branch waits for one  *)
(* statement at a time.                                                     *)
ScopesShape ==
  /\ holder \in Scope \cup {"nobody"} /\ role \in Scope \cup {"nobody"}
  /\ tx \in {"none", "open", "aborted"} /\ tuned \in BOOLEAN /\ spilled \in BOOLEAN
  /\ previous \in [Scope -> BOOLEAN] /\ outside \subseteq Scope \X BOOLEAN
  /\ chain \in [Scope -> Seq(Scopes!Statement)] /\ step \in [Scope -> {"start", "run", "restore"}]
  /\ scope_at \in [Scope -> {"idle", "running", "draining", "over"}]
  /\ state \in [Scope -> [Branch -> {"ready", "waiting", "ok", "failed"}]]
  /\ ended \in [Scope -> {"none", "commit", "rollback"}]

HoldersOwn ==
  /\ \A s \in Scope : scope_at[s] \in {"running", "draining"} <=> holder = s
  /\ holder = "nobody" => tx = "none" /\ role = "nobody" /\ tuned = FALSE
  /\ holder # "nobody" => tx # "none" /\ role = holder

Orderly(has, where, awaited, list, answer, doing, found) ==
  /\ where = "idle" => list = <<>>
  /\ \A i \in DOMAIN list : ~list[i].late => has /\ (where = "draining" => list[i] \in awaited)
  /\ \A i \in DOMAIN list : answer[list[i].branch] = "waiting"
  /\ \A i, j \in DOMAIN list : list[i].branch = list[j].branch => i = j
  /\ doing # "start" => list # <<>> /\ list[1].tuned
  /\ doing = "start" => found = FALSE
AskedOf(s) ==
  Orderly(holder = s, scope_at[s], drain, chain[s], state[s], step[s], previous[s])

(* What was sent outside was sent when the scope was over, and not by one   *)
(* that committed: all of its branches had their answers.                   *)
SentInside(s) ==
  /\ <<s, FALSE>> \notin outside
  /\ <<s, TRUE>> \in outside => scope_at[s] = "over" /\ ended[s] # "commit"
  /\ ended[s] = "commit" => scope_at[s] = "over" /\ \A b \in Branch : state[s][b] = "ok"

(* As long as nothing was sent outside, the session is tuned for the        *)
(* holder's first statement and for no other.                               *)
TunedForFirst ==
  outside = {} =>
    /\ spilled = FALSE
    /\ \A s \in Scope : holder = s /\ tx = "open" =>
         /\ previous[s] = FALSE
         /\ tuned = (step[s] # "start")

ScopesInv ==
  ScopesShape /\ HoldersOwn /\ (\A s \in Scope : AskedOf(s) /\ SentInside(s)) /\ TunedForFirst

LEMMA ScopesInitially ==
  ASSUME Scopes!Init
  PROVE  ScopesInv
<1> USE DEF Scopes!Init, Scopes!Nobody
<1>1. chain \in [Scope -> Seq(Scopes!Statement)] /\ \A s \in Scope : chain[s] = <<>> /\ DOMAIN chain[s] = {}
  OBVIOUS
<1>2. step \in [Scope -> {"start", "run", "restore"}] /\ scope_at \in [Scope -> {"idle", "running", "draining", "over"}]
  OBVIOUS
<1>3. state \in [Scope -> [Branch -> {"ready", "waiting", "ok", "failed"}]]
  OBVIOUS
<1>4. ScopesShape
  BY <1>1, <1>2, <1>3 DEF ScopesShape
<1>5. HoldersOwn /\ TunedForFirst
  BY GatewayAssumption DEF HoldersOwn, TunedForFirst
<1>6. \A s \in Scope : AskedOf(s) /\ SentInside(s)
  BY <1>1 DEF AskedOf, Orderly, SentInside
<1>7. QED
  BY <1>4, <1>5, <1>6 DEF ScopesInv

LEMMA FirstOfAll ==
  ASSUME NEW mine \in [Branch -> BOOLEAN],
         NEW first \in Scopes!SetToSeqs({[branch |-> b, tuned |-> mine[b], late |-> FALSE] : b \in Branch})
  PROVE  /\ first \in Seq(Scopes!Statement)
         /\ \A i \in DOMAIN first : first[i] \in Scopes!Statement /\ first[i].branch \in Branch /\ ~first[i].late
         /\ \A i, j \in DOMAIN first : first[i].branch = first[j].branch => i = j
<1> DEFINE S == {[branch |-> b, tuned |-> mine[b], late |-> FALSE] : b \in Branch}
<1>1. IsFiniteSet(S) /\ S \subseteq Scopes!Statement
  <2>1. IsFiniteSet(S)
    <3> DEFINE f == [b \in Branch |-> [branch |-> b, tuned |-> mine[b], late |-> FALSE]]
    <3>1. f \in Surjection(Branch, S)
      BY DEF Surjection
    <3>2. QED
      BY <3>1, GatewayAssumption, FS_Surjection
  <2>2. S \subseteq Scopes!Statement
    <3>1. \A b \in Branch : [branch |-> b, tuned |-> mine[b], late |-> FALSE] \in Scopes!Statement
      BY DEF Scopes!Statement
    <3>2. QED
      BY <3>1
  <2>3. QED
    BY <2>1, <2>2
<1>2. Cardinality(S) \in Nat
  BY <1>1, FS_CardinalityType
<1>3. \A x, y \in S : x.branch \in Branch /\ ~x.late /\ (x.branch = y.branch => x = y)
  <2>1. \A x \in S : \E b \in Branch : x = [branch |-> b, tuned |-> mine[b], late |-> FALSE]
    OBVIOUS
  <2> HIDE DEF S
  <2>2. \A x \in S : x.branch \in Branch /\ ~x.late
    BY <2>1
  <2>3. ASSUME NEW x \in S, NEW y \in S, x.branch = y.branch PROVE x = y
    <3>1. PICK b \in Branch : x = [branch |-> b, tuned |-> mine[b], late |-> FALSE]
      BY <2>1
    <3>2. PICK d \in Branch : y = [branch |-> d, tuned |-> mine[d], late |-> FALSE]
      BY <2>1
    <3>3. b = d
      BY <2>3, <3>1, <3>2
    <3>4. QED
      BY <3>1, <3>2, <3>3
  <2>4. QED
    BY <2>2, <2>3
<1> HIDE DEF S
<1>4. Scopes!Cardinality(S) = Cardinality(S)
  BY Zenon DEF Scopes!Cardinality, Cardinality
<1>5. first \in [1..Cardinality(S) -> S] /\ \A i, j \in 1..Cardinality(S) : i # j => first[i] # first[j]
  BY <1>4 DEF Scopes!SetToSeqs, S
<1>6. first \in Seq(S) /\ DOMAIN first = 1..Cardinality(S)
  BY <1>2, <1>5
<1>7. first \in Seq(Scopes!Statement)
  BY <1>1, <1>2, <1>5
<1>8. QED
  BY <1>1, <1>3, <1>5, <1>6, <1>7

(* A statement is sent: in its scope's transaction if it is the holder's,   *)
(* and if not, it is a late one of a scope that did not commit.             *)
LEMMA SendingKeeps ==
  ASSUME ScopesInv, NEW s \in Scope, chain[s] # <<>>, Scopes!Sends(s)
  PROVE  /\ outside' \subseteq Scope \X BOOLEAN /\ outside \subseteq outside'
         /\ \A q \in Scope : /\ <<q, FALSE>> \notin outside'
                             /\ <<q, TRUE>> \in outside' => scope_at[q] = "over" /\ ended[q] # "commit"
         /\ outside' = {} => holder = s /\ outside = {}
<1> USE DEF ScopesInv
<1>1. chain[s] \in Seq(Scopes!Statement) /\ 1 \in DOMAIN chain[s] /\ Head(chain[s]) = chain[s][1]
  BY DEF ScopesShape
<1>2. chain[s][1] \in Scopes!Statement
  BY <1>1
<1>3. PICK x \in Scopes!Statement : x = chain[s][1] /\ x = Head(chain[s])
  BY <1>1, <1>2
<1>4. x.late \in BOOLEAN /\ x.branch \in Branch
  BY DEF Scopes!Statement
<1>5. outside' = IF role = s THEN outside ELSE outside \cup {<<s, x.late>>}
  BY <1>3 DEF Scopes!Sends, Scopes!First
<1>6. CASE role = s
  <2>1. holder = s
    BY <1>6, GatewayAssumption DEF HoldersOwn
  <2>2. QED
    BY <1>5, <1>6, <2>1 DEF ScopesShape, SentInside
<1>7. CASE role # s
  <2>1. holder # s
    BY <1>7, GatewayAssumption DEF HoldersOwn
  <2>2. x.late = TRUE
    BY <1>1, <1>3, <1>4, <2>1 DEF AskedOf, Orderly
  <2>3. scope_at[s] = "over"
    BY <2>1 DEF HoldersOwn, AskedOf, Orderly, ScopesShape
  <2>4. ended[s] # "commit"
    <3>1. state[s][x.branch] = "waiting"
      BY <1>1, <1>3 DEF AskedOf, Orderly
    <3>2. QED
      BY <1>4, <3>1 DEF SentInside
  <2>5. outside' = outside \cup {<<s, TRUE>>}
    BY <1>5, <1>7, <2>2
  <2>6. outside' \subseteq Scope \X BOOLEAN /\ outside' # {}
    <3>1. <<s, TRUE>> \in Scope \X BOOLEAN /\ outside \subseteq Scope \X BOOLEAN
      BY DEF ScopesShape
    <3>2. QED
      BY <2>5, <3>1
  <2>7. \A q \in Scope : <<q, FALSE>> \notin outside' /\ (<<q, TRUE>> \in outside' => <<q, TRUE>> \in outside \/ q = s)
    BY <2>5 DEF SentInside
  <2>8. QED
    BY <2>3, <2>4, <2>5, <2>6, <2>7 DEF SentInside
<1>8. QED
  BY <1>6, <1>7

(* A statement is done with: its branch has its answer, and is no other's.  *)
LEMMA DoneKeeps ==
  ASSUME ScopesInv, NEW s \in Scope, NEW verdict \in {"ok", "ready", "failed"}, chain[s] # <<>>,
         Scopes!Done(s, verdict), UNCHANGED <<holder, role, scope_at, drain, ended>>,
         tx' \in {"none", "open", "aborted"}, tx' = "none" <=> tx = "none", tuned' \in BOOLEAN,
         tx = "none" => tuned' = tuned, spilled' \in BOOLEAN, outside' \subseteq Scope \X BOOLEAN,
         \A q \in Scope : /\ <<q, FALSE>> \notin outside'
                          /\ <<q, TRUE>> \in outside' => scope_at[q] = "over" /\ ended[q] # "commit",
         outside' = {} => /\ outside = {} /\ spilled' = FALSE
                          /\ holder # s => tuned' = tuned /\ tx' = tx
                          /\ holder = s /\ tx' = "open" => tuned' = FALSE
  PROVE  ScopesInv'
<1> USE DEF ScopesInv
<1>1. /\ chain' = [chain EXCEPT ![s] = Tail(chain[s])] /\ step' = [step EXCEPT ![s] = "start"]
      /\ previous' = [previous EXCEPT ![s] = FALSE]
      /\ state' = [state EXCEPT ![s][Head(chain[s]).branch] = verdict]
  BY DEF Scopes!Done, Scopes!First
<1>2. chain[s] \in Seq(Scopes!Statement) /\ Head(chain[s]) = chain[s][1] /\ 1 \in DOMAIN chain[s]
      /\ chain[s][1] \in Scopes!Statement
  BY DEF ScopesShape
<1>3. PICK c \in Branch : c = Head(chain[s]).branch /\ c = chain[s][1].branch
  BY <1>2 DEF Scopes!Statement
<1>4. PICK rest : rest = Tail(chain[s])
  OBVIOUS
<1>a. rest \in Seq(Scopes!Statement)
  BY <1>2, <1>4
<1>5. \A i \in DOMAIN rest : i + 1 \in DOMAIN chain[s] /\ i + 1 # 1 /\ rest[i] = chain[s][i + 1] /\ i \in Nat
  BY <1>2, <1>4, <1>a
<1>6. /\ chain' \in [Scope -> Seq(Scopes!Statement)] /\ chain'[s] = rest /\ step'[s] = "start" /\ previous'[s] = FALSE
      /\ \A q \in Scope \ {s} : chain'[q] = chain[q] /\ step'[q] = step[q] /\ state'[q] = state[q] /\ previous'[q] = previous[q]
      /\ \A d \in Branch : state'[s][d] = IF d = c THEN verdict ELSE state[s][d]
      /\ state' \in [Scope -> [Branch -> {"ready", "waiting", "ok", "failed"}]]
  BY <1>1, <1>3, <1>4, <1>a DEF ScopesShape
<1>7. ScopesShape'
  BY <1>1, <1>6 DEF ScopesShape
<1>8. HoldersOwn'
  BY DEF HoldersOwn
<1>9. AskedOf(s)'
  <2>1. scope_at[s] # "idle"
    BY DEF AskedOf, Orderly
  <2>2. ASSUME NEW i \in DOMAIN rest
        PROVE  /\ ~rest[i].late => holder = s /\ (scope_at[s] = "draining" => rest[i] \in drain)
               /\ state'[s][rest[i].branch] = "waiting"
    <3>1. PICK k \in DOMAIN chain[s] : k = i + 1 /\ k # 1 /\ rest[i] = chain[s][k]
      BY <1>5
    <3>a. chain[s][k] \in Scopes!Statement
      BY <1>2
    <3>2. chain[s][k].branch # c /\ chain[s][k].branch \in Branch
      BY <1>2, <1>3, <3>1, <3>a DEF AskedOf, Orderly, Scopes!Statement
    <3>3. /\ ~chain[s][k].late => holder = s /\ (scope_at[s] = "draining" => chain[s][k] \in drain)
          /\ state[s][chain[s][k].branch] = "waiting"
      BY <3>1 DEF AskedOf, Orderly
    <3>4. state'[s][chain[s][k].branch] = "waiting"
      BY <1>6, <3>2, <3>3
    <3>5. QED
      BY <3>1, <3>3, <3>4
  <2>3. ASSUME NEW i \in DOMAIN rest, NEW j \in DOMAIN rest, rest[i].branch = rest[j].branch PROVE i = j
    <3>1. i + 1 = j + 1
      BY <1>5, <2>3 DEF AskedOf, Orderly
    <3>2. QED
      BY <1>5, <3>1
  <2>4. QED
    BY <1>6, <2>1, <2>2, <2>3 DEF AskedOf, Orderly
<1>10. \A q \in Scope \ {s} : AskedOf(q)'
  BY <1>6 DEF AskedOf
<1>11. ASSUME NEW q \in Scope PROVE SentInside(q)'
  <2>1. q = s => ended[q] # "commit"
    <3>1. state[s][c] = "waiting"
      BY <1>2, <1>3 DEF AskedOf, Orderly
    <3>2. QED
      BY <3>1 DEF SentInside
  <2>2. QED
    BY <1>6, <2>1 DEF SentInside
<1>12. TunedForFirst'
  BY <1>6 DEF TunedForFirst
<1>13. QED
  BY <1>7, <1>8, <1>9, <1>10, <1>11, <1>12

LEMMA ScopeBegins ==
  ASSUME ScopesInv, NEW s \in Scope, NEW mine \in [Branch -> BOOLEAN], Scopes!Begin(s, mine)
  PROVE  ScopesInv'
<1> USE DEF ScopesInv
<1>1. PICK first \in Scopes!SetToSeqs({[branch |-> b, tuned |-> mine[b], late |-> FALSE] : b \in Branch}) :
        chain' = [chain EXCEPT ![s] = first]
  BY DEF Scopes!Begin
<1>2. /\ first \in Seq(Scopes!Statement)
      /\ \A i \in DOMAIN first : first[i] \in Scopes!Statement /\ first[i].branch \in Branch /\ ~first[i].late
      /\ \A i, j \in DOMAIN first : first[i].branch = first[j].branch => i = j
  BY FirstOfAll
<1>3. /\ scope_at[s] = "idle" /\ holder = "nobody" /\ holder' = s /\ tx' = "open" /\ role' = s
      /\ UNCHANGED <<tuned, previous, step, drain, ended, outside, spilled>>
      /\ scope_at' = [scope_at EXCEPT ![s] = "running"] /\ state' = [state EXCEPT ![s] = [b \in Branch |-> "waiting"]]
  BY DEF Scopes!Begin, Scopes!Nobody
<1>4. /\ chain'[s] = first /\ scope_at'[s] = "running" /\ \A b \in Branch : state'[s][b] = "waiting"
      /\ \A q \in Scope \ {s} : chain'[q] = chain[q] /\ scope_at'[q] = scope_at[q] /\ state'[q] = state[q]
  BY <1>1, <1>3 DEF ScopesShape
<1>5. ScopesShape'
  <2>1. chain' \in [Scope -> Seq(Scopes!Statement)]
    BY <1>1, <1>2 DEF ScopesShape
  <2>2. scope_at' \in [Scope -> {"idle", "running", "draining", "over"}]
        /\ state' \in [Scope -> [Branch -> {"ready", "waiting", "ok", "failed"}]]
    BY <1>3 DEF ScopesShape
  <2>3. QED
    BY <1>3, <2>1, <2>2 DEF ScopesShape
<1>6. HoldersOwn'
  BY <1>3, <1>4, GatewayAssumption DEF HoldersOwn
<1>7. step[s] = "start"
  BY <1>3 DEF AskedOf, Orderly
<1>8. AskedOf(s)'
  BY <1>2, <1>3, <1>4, <1>7 DEF AskedOf, Orderly
<1>9. ASSUME NEW q \in Scope \ {s} PROVE AskedOf(q)'
  <2>1. holder # q
    BY <1>3, GatewayAssumption
  <2>2. QED
    BY <1>3, <1>4, <2>1 DEF AskedOf, Orderly
<1>10. ASSUME NEW q \in Scope PROVE SentInside(q)'
  <2>1. ended[s] # "commit" /\ <<s, TRUE>> \notin outside
    BY <1>3 DEF SentInside
  <2>2. CASE q = s
    BY <1>3, <2>1, <2>2 DEF SentInside
  <2>3. CASE q # s
    <3>1. ended'[q] = ended[q] /\ outside' = outside /\ scope_at'[q] = scope_at[q] /\ state'[q] = state[q]
      BY <1>3, <1>4, <2>3
    <3>2. SentInside(q)
      OBVIOUS
    <3>3. QED
      BY <3>1, <3>2 DEF SentInside
  <2>4. QED
    BY <2>2, <2>3
<1>11. TunedForFirst'
  <2>1. tuned = FALSE
    BY <1>3 DEF HoldersOwn
  <2>2. previous[s] = FALSE
    BY <1>7 DEF AskedOf, Orderly
  <2>3. QED
    BY <1>3, <1>7, <2>1, <2>2, GatewayAssumption DEF TunedForFirst
<1>12. QED
  BY <1>5, <1>6, <1>8, <1>9, <1>10, <1>11

LEMMA StatementAsked ==
  ASSUME ScopesInv, NEW s \in Scope, NEW b \in Branch, NEW mine \in BOOLEAN, Scopes!Query(s, b, mine)
  PROVE  ScopesInv'
<1> USE DEF ScopesInv
<1>1. PICK x : x = [branch |-> b, tuned |-> mine, late |-> scope_at[s] # "running"]
  OBVIOUS
<1>2. x \in Scopes!Statement /\ x.branch = b /\ (~x.late => scope_at[s] = "running")
  BY <1>1 DEF Scopes!Statement
<1>3. /\ UNCHANGED <<holder, tx, role, tuned, previous, step, scope_at, drain, ended, outside, spilled>>
      /\ state[s][b] = "ready" /\ scope_at[s] # "idle" /\ state' = [state EXCEPT ![s][b] = "waiting"]
      /\ chain' = [chain EXCEPT ![s] = Append(chain[s], x)]
  BY <1>1 DEF Scopes!Query
<1>4. chain[s] \in Seq(Scopes!Statement)
  BY DEF ScopesShape
<1>5. PICK longer : longer = Append(chain[s], x)
  OBVIOUS
<1>a. longer \in Seq(Scopes!Statement)
  BY <1>2, <1>4, <1>5
<1>6. PICK n \in Nat : n = Len(chain[s]) /\ DOMAIN chain[s] = 1..n
  BY <1>4
<1>7. /\ DOMAIN longer = 1..(n + 1) /\ longer[n + 1] = x
      /\ \A i \in DOMAIN chain[s] : i \in DOMAIN longer /\ longer[i] = chain[s][i]
  BY <1>4, <1>5, <1>6
<1>8. \A i \in DOMAIN longer : i \in DOMAIN chain[s] \/ i = n + 1
  BY <1>6, <1>7
<1>9. /\ chain'[s] = longer /\ \A q \in Scope \ {s} : chain'[q] = chain[q] /\ state'[q] = state[q]
      /\ \A d \in Branch : state'[s][d] = IF d = b THEN "waiting" ELSE state[s][d]
  BY <1>3, <1>5 DEF ScopesShape
<1>10. ScopesShape'
  <2>1. chain' \in [Scope -> Seq(Scopes!Statement)] /\ state' \in [Scope -> [Branch -> {"ready", "waiting", "ok", "failed"}]]
    BY <1>3, <1>5, <1>a DEF ScopesShape
  <2>2. QED
    BY <1>3, <2>1 DEF ScopesShape
<1>11. HoldersOwn' /\ TunedForFirst'
  BY <1>3 DEF HoldersOwn, TunedForFirst
<1>12. ASSUME NEW i \in DOMAIN chain[s] PROVE chain[s][i].branch \in Branch /\ chain[s][i].branch # b
  <2>1. chain[s][i] \in Scopes!Statement
    BY <1>4
  <2>2. state[s][chain[s][i].branch] = "waiting"
    BY DEF AskedOf, Orderly
  <2>3. QED
    BY <1>3, <2>1, <2>2 DEF Scopes!Statement
<1>13. AskedOf(s)'
  <2>1. ASSUME NEW i \in DOMAIN longer
        PROVE  /\ ~longer[i].late => holder = s /\ (scope_at[s] = "draining" => longer[i] \in drain)
               /\ state'[s][longer[i].branch] = "waiting"
    <3>1. CASE i \in DOMAIN chain[s]
      BY <1>7, <1>9, <1>12, <3>1 DEF AskedOf, Orderly
    <3>2. CASE i = n + 1
      BY <1>2, <1>7, <1>9, <3>2 DEF HoldersOwn
    <3>3. QED
      BY <1>8, <3>1, <3>2
  <2>2. ASSUME NEW i \in DOMAIN longer, NEW j \in DOMAIN longer, longer[i].branch = longer[j].branch PROVE i = j
    <3>1. CASE i \in DOMAIN chain[s] /\ j \in DOMAIN chain[s]
      BY <1>7, <2>2, <3>1 DEF AskedOf, Orderly
    <3>2. CASE i = n + 1 \/ j = n + 1
      BY <1>2, <1>7, <1>8, <1>12, <2>2, <3>2
    <3>3. QED
      BY <1>8, <3>1, <3>2
  <2>3. step[s] # "start" => longer # <<>> /\ longer[1].tuned
    <3>1. SUFFICES ASSUME step[s] # "start" PROVE longer # <<>> /\ longer[1].tuned
      OBVIOUS
    <3>2. chain[s] # <<>> /\ chain[s][1].tuned
      BY <3>1 DEF AskedOf, Orderly
    <3>3. 1 \in DOMAIN chain[s]
      BY <1>4, <3>2
    <3>4. QED
      BY <1>7, <3>2, <3>3
  <2>4. QED
    BY <1>3, <1>9, <2>1, <2>2, <2>3 DEF AskedOf, Orderly
<1>14. \A q \in Scope \ {s} : AskedOf(q)'
  BY <1>3, <1>9 DEF AskedOf
<1>15. \A q \in Scope : SentInside(q)'
  BY <1>3, <1>9 DEF SentInside
<1>16. QED
  BY <1>10, <1>11, <1>13, <1>14, <1>15

LEMMA ScopeEnds ==
  ASSUME ScopesInv, NEW s \in Scope, Scopes!End(s)
  PROVE  ScopesInv'
<1> USE DEF ScopesInv
<1>1. /\ UNCHANGED <<previous, chain, step, state, outside, spilled>> /\ scope_at[s] = "draining"
      /\ scope_at' = [scope_at EXCEPT ![s] = "over"] /\ drain' = {}
      /\ tx' = "none" /\ role' = "nobody" /\ tuned' = FALSE /\ holder' = "nobody"
      /\ drain \cap {chain[s][i] : i \in DOMAIN chain[s]} = {}
  BY DEF Scopes!End, Scopes!ToSet, Scopes!Nobody
<1>2. PICK verdict \in {"commit", "rollback"} :
        ended' = [ended EXCEPT ![s] = verdict] /\ (verdict = "commit" => \A b \in Branch : state[s][b] = "ok")
  <2> WITNESS (IF \A b \in Branch : state[s][b] = "ok" THEN "commit" ELSE "rollback") \in {"commit", "rollback"}
  <2>1. QED
    BY DEF Scopes!End
<1>3. holder = s
  BY <1>1 DEF HoldersOwn
<1>4. scope_at'[s] = "over" /\ ended'[s] = verdict
      /\ \A q \in Scope \ {s} : scope_at'[q] = scope_at[q] /\ ended'[q] = ended[q]
  BY <1>1, <1>2 DEF ScopesShape
<1>5. ScopesShape'
  BY <1>1, <1>2 DEF ScopesShape
<1>6. HoldersOwn'
  BY <1>1, <1>3, <1>4, GatewayAssumption DEF HoldersOwn
<1>7. ASSUME NEW q \in Scope PROVE AskedOf(q)'
  <2>1. \A i \in DOMAIN chain[q] : chain[q][i].late
    BY <1>1, <1>3 DEF AskedOf, Orderly
  <2>2. QED
    BY <1>1, <1>4, <2>1 DEF AskedOf, Orderly
<1>8. ASSUME NEW q \in Scope PROVE SentInside(q)'
  <2>1. q = s => <<s, TRUE>> \notin outside
    BY <1>1 DEF SentInside
  <2>2. QED
    BY <1>1, <1>2, <1>4, <2>1 DEF SentInside
<1>9. TunedForFirst'
  BY <1>1 DEF TunedForFirst
<1>10. QED
  BY <1>5, <1>6, <1>7, <1>8, <1>9

LEMMA ScopesStep ==
  ASSUME ScopesInv, Scopes!Next
  PROVE  ScopesInv'
<1> USE DEF ScopesInv
<1>1. ASSUME NEW s \in Scope, NEW b \in Branch, Scopes!Throw(s, b) PROVE ScopesInv'
  <2>1. /\ UNCHANGED <<holder, tx, role, tuned, previous, chain, step, scope_at, drain, ended, outside, spilled>>
        /\ state' = [state EXCEPT ![s][b] = "failed"] /\ scope_at[s] = "running" /\ state[s][b] # "waiting"
    BY <1>1 DEF Scopes!Throw
  <2>2. state' \in [Scope -> [Branch -> {"ready", "waiting", "ok", "failed"}]]
    BY <2>1 DEF ScopesShape
  <2>3. \A q \in Scope, c \in Branch : state'[q][c] = state[q][c] \/ (q = s /\ c = b)
    BY <2>1 DEF ScopesShape
  <2>4. ScopesShape' /\ HoldersOwn' /\ TunedForFirst'
    BY <2>1, <2>2 DEF ScopesShape, HoldersOwn, TunedForFirst
  <2>5. ASSUME NEW q \in Scope PROVE AskedOf(q)' /\ SentInside(q)'
    <3>a. \A i \in DOMAIN chain[q] : chain[q][i] \in Scopes!Statement
      BY DEF ScopesShape
    <3>1. \A i \in DOMAIN chain[q] : chain[q][i].branch \in Branch
      BY <3>a DEF Scopes!Statement
    <3>2. AskedOf(q)'
      BY <2>1, <2>3, <3>1 DEF AskedOf, Orderly
    <3>3. SentInside(q)'
      BY <2>1, <2>3 DEF SentInside
    <3>4. QED
      BY <3>2, <3>3
  <2>6. QED
    BY <2>4, <2>5
<1>2. ASSUME NEW s \in Scope, Scopes!Settle(s) PROVE ScopesInv'
  <2>1. /\ UNCHANGED <<holder, tx, role, tuned, previous, chain, step, state, ended, outside, spilled>>
        /\ scope_at[s] = "running" /\ scope_at' = [scope_at EXCEPT ![s] = "draining"]
        /\ drain' = {chain[s][i] : i \in DOMAIN chain[s]}
    BY <1>2 DEF Scopes!Settle, Scopes!ToSet
  <2>2. scope_at'[s] = "draining" /\ \A q \in Scope \ {s} : scope_at'[q] = scope_at[q] /\ scope_at[q] # "draining"
    BY <2>1 DEF ScopesShape, HoldersOwn
  <2>3. ScopesShape' /\ HoldersOwn' /\ TunedForFirst'
    BY <2>1 DEF ScopesShape, HoldersOwn, TunedForFirst
  <2>4. ASSUME NEW q \in Scope PROVE AskedOf(q)' /\ SentInside(q)'
    <3>1. SentInside(q)'
      BY <2>1, <2>2 DEF SentInside
    <3>2. q # s => AskedOf(q)'
      BY <2>1, <2>2 DEF AskedOf, Orderly
    <3>3. AskedOf(s)'
      BY <2>1, <2>2 DEF AskedOf, Orderly
    <3>4. QED
      BY <3>1, <3>2, <3>3
  <2>5. QED
    BY <2>3, <2>4
<1>3. ASSUME NEW s \in Scope, Scopes!Tune(s) PROVE ScopesInv'
  <2>1. /\ UNCHANGED <<holder, tx, role, chain, scope_at, state, drain, ended, spilled>>
        /\ chain[s] # <<>> /\ step[s] = "start" /\ step' = [step EXCEPT ![s] = "run"] /\ tx # "aborted"
        /\ tuned' = (tx = "open") /\ previous' = [previous EXCEPT ![s] = tuned] /\ Head(chain[s]).tuned
        /\ Scopes!Sends(s)
    BY <1>3 DEF Scopes!Tune, Scopes!First
  <2>2. /\ outside' \subseteq Scope \X BOOLEAN /\ outside \subseteq outside'
        /\ \A q \in Scope : /\ <<q, FALSE>> \notin outside'
                            /\ <<q, TRUE>> \in outside' => scope_at[q] = "over" /\ ended[q] # "commit"
        /\ outside' = {} => holder = s /\ outside = {}
    BY <2>1, SendingKeeps
  <2>3. step'[s] = "run" /\ previous'[s] = tuned
        /\ \A q \in Scope \ {s} : step'[q] = step[q] /\ previous'[q] = previous[q]
    BY <2>1 DEF ScopesShape
  <2>4. ScopesShape'
    BY <2>1, <2>2 DEF ScopesShape
  <2>5. HoldersOwn'
    BY <2>1, GatewayAssumption DEF HoldersOwn
  <2>6. chain[s] \in Seq(Scopes!Statement) /\ Head(chain[s]) = chain[s][1]
    BY <2>1 DEF ScopesShape
  <2>7. ASSUME NEW q \in Scope PROVE AskedOf(q)' /\ SentInside(q)'
    <3>1. SentInside(q)'
      BY <2>1, <2>2 DEF SentInside
    <3>2. q # s => AskedOf(q)'
      BY <2>1, <2>3 DEF AskedOf
    <3>3. AskedOf(s)'
      BY <2>1, <2>3, <2>6 DEF AskedOf, Orderly
    <3>4. QED
      BY <3>1, <3>2, <3>3
  <2>8. TunedForFirst'
    BY <2>1, <2>2, <2>3 DEF TunedForFirst
  <2>9. QED
    BY <2>4, <2>5, <2>7, <2>8
<1>4. ASSUME NEW s \in Scope, Scopes!Run(s) PROVE ScopesInv'
  <2>1. /\ UNCHANGED <<holder, tx, role, tuned, scope_at, drain, ended>> /\ chain[s] # <<>> /\ tx # "aborted"
        /\ step[s] = (IF Head(chain[s]).tuned THEN "run" ELSE "start") /\ Scopes!Sends(s)
        /\ spilled' = (spilled \/ tuned # Head(chain[s]).tuned)
    BY <1>4 DEF Scopes!Run, Scopes!First
  <2>2. /\ outside' \subseteq Scope \X BOOLEAN /\ outside \subseteq outside'
        /\ \A q \in Scope : /\ <<q, FALSE>> \notin outside'
                            /\ <<q, TRUE>> \in outside' => scope_at[q] = "over" /\ ended[q] # "commit"
        /\ outside' = {} => holder = s /\ outside = {}
    BY <2>1, SendingKeeps
  <2>3. chain[s] \in Seq(Scopes!Statement) /\ Head(chain[s]) \in Scopes!Statement
    BY <2>1 DEF ScopesShape
  <2>4. Head(chain[s]).tuned \in BOOLEAN
    BY <2>3 DEF Scopes!Statement
  <2>5. spilled' \in BOOLEAN /\ tuned \in BOOLEAN
    BY <2>1, <2>4 DEF ScopesShape
  <2>6. outside' = {} => tx = "open" /\ tuned = (step[s] # "start") /\ spilled = FALSE
    BY <2>1, <2>2, GatewayAssumption DEF TunedForFirst, HoldersOwn, ScopesShape
  <2>7. outside' = {} => spilled' = FALSE /\ tuned = Head(chain[s]).tuned
    BY <2>1, <2>4, <2>6, Zenon
  <2>8. CASE Head(chain[s]).tuned
    <3>1. step' = [step EXCEPT ![s] = "restore"] /\ UNCHANGED <<previous, chain, state>> /\ step[s] = "run"
      BY <1>4, <2>1, <2>8 DEF Scopes!Run, Scopes!First
    <3>2. step'[s] = "restore" /\ \A q \in Scope \ {s} : step'[q] = step[q]
      BY <3>1 DEF ScopesShape
    <3>3. ScopesShape' /\ HoldersOwn'
      BY <2>1, <2>2, <2>5, <3>1 DEF ScopesShape, HoldersOwn
    <3>4. ASSUME NEW q \in Scope PROVE AskedOf(q)' /\ SentInside(q)'
      <4>1. SentInside(q)'
        BY <2>1, <2>2, <3>1 DEF SentInside
      <4>2. q # s => AskedOf(q)'
        BY <2>1, <3>1, <3>2 DEF AskedOf
      <4>3. AskedOf(s)'
        BY <2>1, <3>1, <3>2 DEF AskedOf, Orderly
      <4>4. QED
        BY <4>1, <4>2, <4>3
    <3>5. TunedForFirst'
      BY <2>1, <2>2, <2>6, <2>7, <3>1, <3>2 DEF TunedForFirst
    <3>6. QED
      BY <3>3, <3>4, <3>5
  <2>9. CASE ~Head(chain[s]).tuned
    <3>1. PICK verdict \in {"ok", "ready", "failed"} : Scopes!Done(s, verdict)
      <4> Scopes!Answered(s) \in {"ok", "ready", "failed"}
        BY DEF Scopes!Answered
      <4> WITNESS Scopes!Answered(s) \in {"ok", "ready", "failed"}
      <4>1. QED
        BY <1>4, <2>9 DEF Scopes!Run, Scopes!First
    <3>2. outside' = {} => tuned' = FALSE
      BY <2>1, <2>4, <2>7, <2>9
    <3>3. QED
      BY <2>1, <2>2, <2>5, <2>7, <3>1, <3>2, DoneKeeps DEF ScopesShape
  <2>10. QED
    BY <2>8, <2>9
<1>5. ASSUME NEW s \in Scope, Scopes!Refuse(s) PROVE ScopesInv'
  <2>1. /\ UNCHANGED <<holder, tx, role, tuned, scope_at, drain, ended, outside, spilled>> /\ chain[s] # <<>>
        /\ step[s] = "start" /\ Scopes!Done(s, "failed")
    BY <1>5 DEF Scopes!Refuse
  <2>2. outside = {} => spilled = FALSE /\ (holder = s /\ tx = "open" => tuned = FALSE)
    BY <2>1 DEF TunedForFirst
  <2>3. \A q \in Scope : /\ <<q, FALSE>> \notin outside
                         /\ <<q, TRUE>> \in outside => scope_at[q] = "over" /\ ended[q] # "commit"
    BY DEF SentInside
  <2>4. QED
    BY <2>1, <2>2, <2>3, DoneKeeps DEF ScopesShape
<1>6. ASSUME NEW s \in Scope, Scopes!RunFails(s) PROVE ScopesInv'
  <2>1. /\ UNCHANGED <<holder, role, tuned, scope_at, drain, ended, spilled>> /\ chain[s] # <<>>
        /\ Scopes!Sends(s) /\ Scopes!Done(s, "failed") /\ tx' = IF tx = "open" THEN "aborted" ELSE tx
    BY <1>6 DEF Scopes!RunFails
  <2>2. /\ outside' \subseteq Scope \X BOOLEAN /\ outside \subseteq outside'
        /\ \A q \in Scope : /\ <<q, FALSE>> \notin outside'
                            /\ <<q, TRUE>> \in outside' => scope_at[q] = "over" /\ ended[q] # "commit"
        /\ outside' = {} => holder = s /\ outside = {}
    BY <2>1, SendingKeeps
  <2>3. tx' \in {"none", "open", "aborted"} /\ tx' # "open" /\ (tx' = "none" <=> tx = "none")
    BY <2>1 DEF ScopesShape
  <2>4. outside = {} => spilled = FALSE
    BY DEF TunedForFirst
  <2>5. QED
    BY <2>1, <2>2, <2>3, <2>4, DoneKeeps DEF ScopesShape
<1>7. ASSUME NEW s \in Scope, Scopes!Restore(s) PROVE ScopesInv'
  <2>1. /\ UNCHANGED <<holder, tx, role, scope_at, drain, ended, spilled>> /\ chain[s] # <<>>
        /\ Scopes!Sends(s) /\ tuned' = (IF tx = "open" THEN previous[s] ELSE tuned)
    BY <1>7 DEF Scopes!Restore
  <2>2. PICK verdict \in {"ok", "ready", "failed"} : Scopes!Done(s, verdict)
    <3> Scopes!Answered(s) \in {"ok", "ready", "failed"}
      BY DEF Scopes!Answered
    <3> WITNESS Scopes!Answered(s) \in {"ok", "ready", "failed"}
    <3>1. QED
      BY <1>7 DEF Scopes!Restore
  <2>3. /\ outside' \subseteq Scope \X BOOLEAN /\ outside \subseteq outside'
        /\ \A q \in Scope : /\ <<q, FALSE>> \notin outside'
                            /\ <<q, TRUE>> \in outside' => scope_at[q] = "over" /\ ended[q] # "commit"
        /\ outside' = {} => holder = s /\ outside = {}
    BY <2>1, SendingKeeps
  <2>4. tuned' \in BOOLEAN /\ (tx = "none" => tuned' = tuned)
    BY <2>1 DEF ScopesShape
  <2>5. outside' = {} => spilled = FALSE /\ (holder = s /\ tx = "open" => tuned' = FALSE)
    BY <2>1, <2>3 DEF TunedForFirst
  <2>6. QED
    BY <2>1, <2>2, <2>3, <2>4, <2>5, DoneKeeps DEF ScopesShape
<1>8. QED
  BY <1>1, <1>2, <1>3, <1>4, <1>5, <1>6, <1>7, ScopeBegins, StatementAsked, ScopeEnds DEF Scopes!Next

LEMMA ScopesAside ==
  ASSUME ScopesInv, UNCHANGED ofScopes
  PROVE  ScopesInv'
<1>1. UNCHANGED <<holder, role, tx, tuned, spilled, previous, outside, chain, step, scope_at, state, ended, drain>>
  BY DEF ofScopes
<1>2. ScopesShape' /\ HoldersOwn' /\ TunedForFirst'
  BY <1>1 DEF ScopesInv, ScopesShape, HoldersOwn, TunedForFirst
<1>3. \A q \in Scope : AskedOf(q)' /\ SentInside(q)'
  BY <1>1 DEF ScopesInv, AskedOf, SentInside
<1>4. QED
  BY <1>2, <1>3 DEF ScopesInv

LEMMA ScopesPromise == ScopesInv => Scopes!SettingsStayTheirOwn /\ Scopes!AskedInTimeRunsInside
<1> SUFFICES ASSUME ScopesInv PROVE Scopes!SettingsStayTheirOwn /\ Scopes!AskedInTimeRunsInside
  OBVIOUS
<1> USE DEF ScopesInv
<1>1. Scopes!AskedInTimeRunsInside
  BY DEF SentInside, Scopes!AskedInTimeRunsInside
<1>2. ASSUME outside # {} PROVE \E s \in Scope : <<s, TRUE>> \in outside
  <2>1. PICK o \in outside : TRUE
    BY <1>2
  <2>2. PICK s \in Scope, late \in BOOLEAN : o = <<s, late>>
    BY <2>1 DEF ScopesShape
  <2>3. QED
    BY <2>1, <2>2 DEF SentInside
<1>3. QED
  BY <1>1, <1>2 DEF TunedForFirst, Scopes!SettingsStayTheirOwn

------------------------------------------------------------------------------
GatewayInv ==
  /\ RequestInv /\ SnapshotInv /\ QueryInv /\ DecisionInv /\ ExportInv /\ PairingInv /\ PoolInv
  /\ LoaderInv /\ SchemaInv /\ TransferInv /\ ScopesInv

LEMMA GatewayInitially == Init => GatewayInv
BY RequestInitially, SnapshotInitially, QueryInitially, DecisionInitially, ExportInitially, PairingInitially,
   PoolInitially, LoaderInitially, SchemaInitially, TransferInitially, ScopesInitially DEF Init, GatewayInv

LEMMA GatewayStep == GatewayInv /\ [Next]_vars => GatewayInv'
<1> SUFFICES ASSUME GatewayInv, [Next]_vars PROVE GatewayInv'
  OBVIOUS
<1>1. RequestInv'
  BY RequestStep, RequestAside DEF GatewayInv, Next, vars, ofRequests, Requests!vars
<1>2. SnapshotInv'
  BY SnapshotStep, SnapshotAside DEF GatewayInv, Next, vars, ofSnapshots, Snapshots!vars
<1>3. QueryInv'
  BY QueryStep, QueryAside DEF GatewayInv, Next, vars, ofQueries, Queries!vars
<1>4. DecisionInv'
  BY DecisionStep, DecisionAside DEF GatewayInv, Next, vars, ofDecisions, Decisions!vars
<1>5. ExportInv'
  BY ExportStep, ExportAside DEF GatewayInv, Next, vars, ofExports, Exports!vars
<1>6. PairingInv'
  BY PairingStep, PairingAside DEF GatewayInv, Next, vars, ofPairing, Pairing!vars, PairingKept
<1>7. PoolInv'
  BY PoolStep, PoolAside DEF GatewayInv, Next, vars, ofKeys, Keys!vars
<1>8. LoaderInv'
  BY LoaderStep, LoaderAside DEF GatewayInv, Next, vars, ofSnapshots, Snapshots!vars
<1>9. SchemaInv'
  BY SchemaStep, SchemaAside DEF GatewayInv, Next, vars, ofSchema, Schema!vars
<1>10. TransferInv'
  BY TransferStep, TransferUntouched DEF GatewayInv, Next, vars, ofExports, Exports!vars
<1>11. ScopesInv'
  BY ScopesStep, ScopesAside DEF GatewayInv, Next, vars, ofScopes, Scopes!vars
<1>12. QED
  BY <1>1, <1>2, <1>3, <1>4, <1>5, <1>6, <1>7, <1>8, <1>9, <1>10, <1>11 DEF GatewayInv

(* OnlyTheEntitledReachIt: for any processes, ceiling and budget, a request *)
(* is handled only for an actor who may see the object and may do what the  *)
(* route asks, whoever may not see it learns nothing, and a permission that *)
(* was kept in memory answers only while it is fresh.                       *)
THEOREM OnlyTheEntitledReachIt == Spec => []OnlyTheEntitledLearn
<1>1. GatewayInv => OnlyTheEntitledLearn
  BY SnapshotPromises DEF GatewayInv, RequestInv, OnlyTheEntitledLearn
<1>2. QED
  BY <1>1, GatewayInitially, GatewayStep, PTL DEF Spec

(* EveryQueryIsRecorded: for any sources and builds, and whatever changes   *)
(* while a query runs, its record says how it went and what it reached, the *)
(* agent is told the same, no share leaves without a record, a dry run      *)
(* reads nothing, and nothing is reached that no binding names.             *)
THEOREM EveryQueryIsRecorded == Spec => []QueriesAreRecorded
<1>1. GatewayInv => QueriesAreRecorded
  BY DEF GatewayInv, QueryInv
<1>2. QED
  BY <1>1, GatewayInitially, GatewayStep, PTL DEF Spec

(* EveryCredentialIsEarned: for any agents, keys, requests, gateways and    *)
(* pools, a revocation names everybody its key was used by, a command that  *)
(* is repeated within the life of its receipt (24 hours) makes no second    *)
(* key and none is shown twice ever, the trust of a pairing is mutual       *)
(* unless a restore took it back, secrets are made once, and custody is     *)
(* decided only where it can be bound.                                      *)
THEOREM EveryCredentialIsEarned == Spec => []CredentialsAreEarned
<1>1. GatewayInv => CredentialsAreEarned
  BY PoolPromises, PairingPromises DEF GatewayInv, DecisionInv, CredentialsAreEarned
<1>2. QED
  BY <1>1, GatewayInitially, GatewayStep, PTL DEF Spec

(* WhatIsThereIsTold: for any runs, pages, migrations, runners and scopes,  *)
(* an export that ends well holds every run it owed and each once, the      *)
(* ledger tells the schema wherever a runner dies, a loader that ended well *)
(* left the schema, and of any number of statements a branch asks for, each *)
(* one asked for in time runs in its scope's transaction under its own      *)
(* settings: only what a function that has failed goes on to ask for when   *)
(* its scope is over is sent outside, and may run under another's.          *)
THEOREM WhatIsThereIsTold == Spec => []NothingIsLost
<1>1. GatewayInv => NothingIsLost
  BY TransferPromises, ScopesPromise DEF GatewayInv, LoaderInv, SchemaInv, NothingIsLost
<1>2. QED
  BY <1>1, GatewayInitially, GatewayStep, PTL DEF Spec

(* WhatAPersonDecidedStays: for any pools, elements, rules and handlers, no *)
(* rule, repeated request or late result changes what a person decided, and *)
(* a policy is prepared only from the decisions of the version it names.    *)
THEOREM WhatAPersonDecidedStays == Spec => DecidedByAPersonStays
<1>1. GatewayInv /\ [Next]_vars =>
        [\A p \in DecidedPool, e \in Decided :
           decision[p][e] # Undecided /\ decision'[p][e] # decision[p][e] => decision'[p][e].by = "user"]_(Decisions!vars)
  BY DecisionStep DEF GatewayInv, Next, vars, ofDecisions, Decisions!vars, Stay
<1>2. GatewayInv /\ [Next]_vars =>
        [reader.pc = "read" /\ reader'.pc = "prepared" =>
           reader.read = decision /\ reader.version = version]_(Decisions!vars)
  BY DecisionStep DEF GatewayInv, Next, vars, ofDecisions, Decisions!vars, Prepared
<1>3. QED
  BY <1>1, <1>2, GatewayInitially, GatewayStep, PTL
     DEF Spec, DecidedByAPersonStays, Decisions!DecidedByAPersonStays, Decisions!PreparedIsCurrent

(* EveryStepKeepsFaith: for any gateways, backups, runs and agents, an      *)
(* engine keeps its peer but for a restore of its own backup, a restore     *)
(* that completes runs one backup, evidence is destroyed only as the policy *)
(* of the moment says, and what is read of an agent does not depend on when *)
(* the sweep ran.                                                           *)
THEOREM EveryStepKeepsFaith == Spec => StepsKeepFaith
<1>1. GatewayInv /\ [Next]_vars =>
        [engine.peer # Absent /\ engine'.peer # engine.peer => command.at = "replacing"]_(Pairing!vars)
  BY PairingStep DEF GatewayInv, Next, vars, ofPairing, Pairing!vars, PairingKept, PeerKept
<1>2. GatewayInv /\ [Next]_vars =>
        [/\ command.at = "unpacking" /\ listener'.up =>
              \E b \in backups : engine'.peer = b.state.peer /\ engine'.mark = b.state.mark /\ volume' = b.volume
         /\ engine.mark = volume => \A b \in backups' \ backups : b.state.mark = b.volume]_(Pairing!vars)
  BY PairingStep DEF GatewayInv, Next, vars, ofPairing, Pairing!vars, PairingKept, OneMoment
<1>3. GatewayInv /\ [Next]_vars =>
        [\A r \in Runs : (at[r] > 0 /\ at'[r] > 0 /\ text'[r] # text[r])
           => text'[r] = Exports!Stored(text[r], policy)]_(Exports!vars)
  BY ExportStep DEF GatewayInv, Next, vars, ofExports, Exports!vars, Lawful
<1>4. GatewayInv /\ [Next]_vars =>
        [listed' # listed =>
           \A a \in Agent, t \in now..(KeyTime + Stale + Gone) : Keys!Age(presence'[a], t).state = Keys!Age(presence[a], t).state]_(Keys!vars)
  BY PoolStep DEF GatewayInv, Next, vars, ofKeys, Keys!vars, Unseen
<1>5. QED
  BY <1>1, <1>2, <1>3, <1>4, GatewayInitially, GatewayStep, PTL
     DEF Spec, StepsKeepFaith, Pairing!PeerStays, Pairing!RestoredIsWhole, Exports!DestroyedUnderPolicy,
         Keys!SweepsAreInvisible
==============================================================================
