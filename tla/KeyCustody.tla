------------------------------ MODULE KeyCustody ------------------------------
(***************************************************************************)
(* Token key custody of one project across the gateway and the engine:     *)
(* entitlements/application/key-custody.ts and its repository drive the    *)
(* operations of sidecar/custody/infrastructure/file-custody.ts on the key *)
(* store, the escrow and state.json and keep the record of every key.      *)
(*                                                                         *)
(* One request runs at a time (custodyQueue and a transaction lock), and   *)
(* each step is a call to the engine with the database transaction that    *)
(* follows its answer: a crash between the two is an answer that is lost.  *)
(* An answer may be lost after any of the engine's writes; the engine may  *)
(* still be at work when the gateway has given up, may be held up by its   *)
(* own sweep, may start on a request after the gateway gave up on it, and  *)
(* may die, leaving its lock file.                                         *)
(*                                                                         *)
(* An operation of the engine holds the project's lock file from its first *)
(* read to its last write, so it is a function of the disk it starts on:   *)
(* the sequence of disks it leaves behind, write by write, and its answer. *)
(* A failure, or the death of the engine, leaves one of those disks.  The  *)
(* bytes of a key are a number and its sentinel is the same number, because *)
(* the sentinel is derived from the bytes.                                 *)
(*                                                                         *)
(* Left out: the typed confirmation and the permission checks, which       *)
(* refuse a request before anything is done, and the text of the reason.   *)
(***************************************************************************)
EXTENDS Naturals, Sequences, FiniteSets, FiniteSetsExt, SequencesExt

CONSTANTS
  MaxVersion,   \* bound on key versions
  None,         \* no candidate
  Altered,      \* bytes that are not the ones written
  Request,      \* [action, version, key]: what clients and the daily timer ask
  NoKey,        \* a request without an Idempotency-Key
  EngineDies,   \* may the engine die with its lock file in place?
  MaxUpsets,    \* bound on failures, lost answers and crashes
  MaxDamage,    \* bound on copies of a key lost or altered from outside
  MaxKeys       \* bound on keys and candidates made before a new request

\* Instances of Request: setup, the daily rehearsal, a rotation and the
\* restore of the first key; two rotations; restores under one key.
Asks(action, version, key) == [action |-> action, version |-> version, key |-> key]
Setup == Asks("initialize", 0, NoKey)
Daily == Asks("rehearse", 0, NoKey)
WithRestore == {Setup, Daily, Asks("rotate", 0, "k1"), Asks("restore", 1, NoKey)}
Rotations == {Setup, Daily, Asks("rotate", 0, "k1"), Asks("rotate", 0, "k2")}
Restores == {Setup, Asks("rotate", 0, "k1"), Asks("restore", 1, "k2"), Asks("restore", 2, "k2")}

ASSUME CustodyAssumption ==
  /\ \A r \in Request : r.action \in {"initialize", "rotate", "restore", "rehearse"}
  /\ EngineDies \in BOOLEAN
  /\ {MaxUpsets, MaxDamage, MaxKeys} \subseteq Nat /\ MaxVersion \in Nat \ {0}

ASSUME NoneIsNoCandidate ==
  None \notin [id : Nat, kind : {"rotate", "restore"}, version : Nat, sentinel : Nat \union {Altered},
               expected : Nat, expired : BOOLEAN, copies : Nat]

Version == 1..MaxVersion

VARIABLES
  disk,        \* engine: store, escrow and state.json
  lock,        \* engine: the lock file: "free", "running", "abandoned"
  late,        \* a request the gateway gave up on that may still be served
  rows,        \* token_key_version: the sentinel of each version, 0 for none
  current,     \* the version whose row is `current', 0 for none
  verified,    \* versions whose last rehearsal was ok
  project,     \* project.token_key_version, 0 for null
  operations,  \* token_key_operation
  call,        \* the request being executed, or the last one and its outcome
  minted,      \* keys and candidates made so far
  damaged,     \* copies lost or altered from outside
  upsets

engine == <<disk, lock, late, minted>>
records == <<rows, current, verified, project, operations>>
vars == <<engine, records, call, damaged, upsets>>

-------------------------------------------------------------------------------
(* The engine's files *)

Empty ==
  [current |-> 0, versions |-> {}, initial |-> 0, candidate |-> None,
   store |-> [v \in Version |-> 0], escrow |-> [v \in Version |-> 0]]

Answer(is, version, sentinel, id) ==
  [is |-> is, version |-> version, sentinel |-> sentinel, id |-> id]

Ok(version, sentinel, id) == Answer("ok", version, sentinel, id)
Conflict == Answer("conflict", 0, 0, 0)
Failed == Answer("failed", 0, 0, 0)

(* The writes up to and including `reached'; all of them if nothing fails. *)
Stages(disks, reached, answer) ==
  [path |-> SubSeq(disks, 1, reached),
   answer |-> IF reached = Len(disks) THEN answer ELSE Failed]

Refuses(d, answer) == [path |-> <<d>>, answer |-> answer]

\* Mutant of Cleaned: an expired candidate stays.
CleanedNever(d) == d

\* Mutant of Cleaned: the version of any expired candidate is discarded.
CleanedToo(d) ==
  LET c == d.candidate
      Without(files) == [files EXCEPT ![c.version] = 0]
  IN  IF c # None /\ c.expired
      THEN [d EXCEPT !.candidate = None, !.store = Without(@), !.escrow = Without(@)]
      ELSE d

(* Every operation first clears an expired candidate and, if it never       *)
(* became a version, the version's bytes.                                   *)
Cleaned(d) ==
  LET c == d.candidate
      dropped == IF c.kind = "rotate" /\ c.version \notin d.versions THEN {c.version} ELSE {}
      Without(files) == [v \in Version |-> IF v \in dropped THEN 0 ELSE files[v]]
  IN  IF c # None /\ c.expired
      THEN [d EXCEPT !.candidate = None, !.store = Without(@), !.escrow = Without(@)]
      ELSE d

-------------------------------------------------------------------------------
(* initialize *)

(* A key already written by an interrupted attempt is kept.                 *)
FirstKey(d, key) ==
  LET kept == d.store[1] # 0
      written == IF kept THEN d ELSE [d EXCEPT !.store[1] = key]
      expected == written.store[1]
      noted == [written EXCEPT !.initial = expected]
      copied == IF noted.escrow[1] # 0 THEN noted ELSE [noted EXCEPT !.escrow[1] = expected]
      done == [copied EXCEPT !.current = 1, !.versions = {1}]
      reached == CASE ~kept /\ (d.initial # 0 \/ d.escrow[1] # 0) -> 1
                   [] written.initial \notin {0, expected} -> 2
                   [] copied.escrow[1] # expected -> 4
                   [] OTHER -> 5
  IN  Stages(<<d, written, noted, copied, done>>, reached, Ok(1, expected, 0))

Initialize(d, key) ==
  LET v == d.current
      sound == d.store[v] # 0 /\ d.escrow[v] = d.store[v]
  IN  IF v = 0 THEN FirstKey(d, key)
      ELSE Refuses(d, IF sound THEN Ok(v, d.store[v], 0) ELSE Failed)

-------------------------------------------------------------------------------
(* prepare and commit *)

(* The candidate is in state.json before its bytes are in store and escrow. *)
Staged(d, kind, v, key, id) ==
  LET c == [id |-> id, kind |-> kind, version |-> v, sentinel |-> key,
            expected |-> d.current, expired |-> FALSE, copies |-> 0]
      With(n) == [d EXCEPT !.candidate = [c EXCEPT !.copies = n]]
  IN  Stages(<<d, With(0), With(1), With(2)>>, 4, Ok(v, key, id))

RotatePrepare(d, expected, key) ==
  IF d.current = 0 \/ expected # d.current \/ d.candidate # None THEN Refuses(d, Conflict)
  ELSE Staged(d, "rotate", Max(d.versions) + 1, key, key)

RestorePrepare(d, v, id) ==
  IF v \notin d.versions \/ d.candidate # None THEN Refuses(d, Conflict)
  ELSE IF d.escrow[v] = 0 THEN Refuses(d, Failed)
  ELSE Staged(d, "restore", v, d.escrow[v], id)

(* Store, then escrow, then state.json makes the version current.           *)
Promote(d, c) ==
  LET stored == [d EXCEPT !.store[c.version] = c.sentinel]
      copied == [stored EXCEPT !.escrow[c.version] = c.sentinel]
      done == [copied EXCEPT !.current = c.version, !.candidate = None,
                             !.versions = @ \union {c.version}]
      reached == CASE d.store[c.version] \notin {0, c.sentinel} -> 1
                   [] d.escrow[c.version] \notin {0, c.sentinel} -> 2
                   [] OTHER -> 4
  IN  Stages(<<d, stored, copied, done>>, reached, Ok(c.version, c.sentinel, 0))

PutBack(d, c) ==
  LET stored == [d EXCEPT !.store[c.version] = c.sentinel]
  IN  Stages(<<d, stored, [stored EXCEPT !.candidate = None]>>, 3, Ok(c.version, c.sentinel, 0))

\* Mutant of Commit: whatever candidate there is is committed.
CommitUnknown(d, kind, id) ==
  LET c == d.candidate
  IN  IF c = None THEN Refuses(d, Conflict)
      ELSE IF c.kind # kind \/ c.copies # 2 THEN Refuses(d, Failed)
      ELSE IF kind = "rotate" THEN Promote(d, c) ELSE PutBack(d, c)

(* A committed candidate is gone: it is found neither here nor in a retry.  *)
Commit(d, kind, id) ==
  LET c == d.candidate
      usable == c # None /\ c.id = id /\ c.kind = kind /\ ~c.expired /\ c.expected = d.current
  IN  IF ~usable THEN Refuses(d, Conflict)
      ELSE IF c.copies # 2 THEN Refuses(d, Failed)
      ELSE IF kind = "rotate" THEN Promote(d, c) ELSE PutBack(d, c)

-------------------------------------------------------------------------------
(* The gateway *)

Upset == upsets < MaxUpsets /\ upsets' = upsets + 1

Init ==
  /\ disk = Empty /\ lock = "free" /\ late = None /\ minted = 0
  /\ rows = [v \in Version |-> 0]
  /\ current = 0 /\ verified = {} /\ project = 0 /\ operations = << >>
  /\ \E r \in Request : call = [request |-> r, at |-> "refused", next |-> "act", seen |-> 0]
  /\ damaged = {} /\ upsets = 0

Recorded == {v \in Version : rows[v] # 0}

PendingOnes == {i \in DOMAIN operations : ~operations[i].done}
Pending == operations[CHOOSE i \in PendingOnes : TRUE]

-------------------------------------------------------------------------------
(* Calls to the engine *)

Op(name, version, id) == [name |-> name, version |-> version, id |-> id]

Reads == {"status", "rehearse"}

Run(op) ==
  LET d == Cleaned(disk)
  IN  IF lock # "free" THEN Refuses(disk, Conflict)
      ELSE CASE op.name = "status"     -> Refuses(d, Ok(d.current, 0, 0))
             [] op.name = "rehearse"   -> Refuses(d, Ok(0, 0, 0))
             [] op.name = "initialize" -> Initialize(d, op.id)
             [] op.name = "rotate/prepare"  -> RotatePrepare(d, op.version, op.id)
             [] op.name = "restore/prepare" -> RestorePrepare(d, op.version, op.id)
             [] op.name = "rotate/commit"   -> Commit(d, "rotate", op.id)
             [] op.name = "restore/commit"  -> Commit(d, "restore", op.id)

(* What may come of a call.  With `cost' 0 the operation runs and is        *)
(* answered; the others are a failure or a lost answer after any write, an  *)
(* engine that died there, one still at work, one held up by its sweep, and *)
(* a request that has not been served yet.                                  *)
Outcomes(op) ==
  LET run == Run(op)
      last == Last(run.path)
      Out(d, a, l, w, c) == [disk |-> d, answer |-> a, lock |-> l, late |-> w, cost |-> c]
      left == IF EngineDies /\ lock = "free" THEN {"free", "abandoned"} ELSE {lock}
      slow == IF lock = "free" /\ op.name \notin Reads THEN {"running"} ELSE {}
      waits == IF late = None /\ op.name \notin Reads THEN {op} ELSE {}
  IN  {Out(last, run.answer, lock, late, 0)}
      \union {Out(d, Failed, l, late, 1) : d \in Range(run.path), l \in left}
      \union {Out(last, Failed, l, late, 1) : l \in slow}
      \union {Out(Cleaned(disk), Conflict, lock, late, 1)}
      \union {Out(disk, Failed, lock, w, 1) : w \in waits}

NewId == minted + 1

\* The bound: no candidate is for a version beyond MaxVersion.
Within(d) == d.candidate # None => d.candidate.version <= MaxVersion

(* The call's effect on the engine; a number that was used is not used again. *)
Takes(op, o) ==
  /\ Within(o.disk)
  /\ upsets + o.cost <= MaxUpsets /\ upsets' = upsets + o.cost
  /\ disk' = o.disk /\ lock' = o.lock /\ late' = o.late
  /\ minted' = IF Len(Run(op).path) > 1 \/ o.late # late
               THEN Max({minted, op.id}) ELSE minted
  /\ UNCHANGED damaged

-------------------------------------------------------------------------------
(* A request is taken up *)

Idle == call.at \in {"ok", "refused"}

At(place) == call.at = place

Goes(at) == call' = [call EXCEPT !.at = at]

\* Mutant of Earlier: keys are not looked up.
EarlierNone(r) == {}

Earlier(r) == {i \in DOMAIN operations : r.key # NoKey /\ operations[i].key = r.key}

(* The bound: with a damaged escrow even a rehearsal, which recovers what   *)
(* is pending, may prepare a candidate in vain each time.                   *)
Room(r) ==
  \/ minted < MaxKeys
  \/ damaged = {} /\ (r.action = "rehearse" \/ Earlier(r) # {})

\* Mutant of Begin: what is pending is left pending.
BeginAnew(r) ==
  /\ Idle /\ Room(r)
  /\ call' = [request |-> r, next |-> "act", seen |-> 0,
              at |-> IF Earlier(r) # {} THEN "ok" ELSE "act"]
  /\ UNCHANGED <<engine, records, damaged, upsets>>

(* A repeated key answers from the record; any pending operation is         *)
(* recovered first, and one of the same kind is all that is done.           *)
Begin(r) ==
  /\ Idle /\ Room(r)
  /\ LET other == \E i \in Earlier(r) : operations[i].kind # r.action
         same == PendingOnes # {} /\ Pending.kind = r.action
         next == IF Earlier(r) # {} \/ same THEN "ok" ELSE "act"
     IN  call' = [request |-> r, next |-> next, seen |-> 0,
                  at |-> IF other THEN "refused"
                         ELSE IF PendingOnes # {} THEN "status" ELSE next]
  /\ UNCHANGED <<engine, records, damaged, upsets>>

-------------------------------------------------------------------------------
(* recover *)

Status ==
  /\ At("status")
  /\ LET op == Op("status", 0, 0)
     IN  \E o \in Outcomes(op) :
           /\ Takes(op, o)
           /\ call' = IF o.answer.is = "ok"
                      THEN [call EXCEPT !.at = "compare", !.seen = o.answer.version]
                      ELSE [call EXCEPT !.at = "refused"]
  /\ UNCHANGED records

(* The engine has made the recorded key current, by the sentinel on record. *)
Committed(o) ==
  /\ Pending.kind # "restore"
  /\ call.seen = Pending.version
  /\ Pending.version \in o.disk.versions
  /\ o.disk.escrow[Pending.version] = Pending.sentinel

Compare ==
  /\ At("compare")
  /\ LET op == Op("rehearse", 0, 0)
     IN  \E o \in Outcomes(op) :
           /\ Takes(op, o)
           /\ Goes(IF o.answer.is # "ok" THEN "refused"
                   ELSE IF Committed(o) THEN "finish"
                   ELSE IF Pending.candidate = 0 THEN "refused" ELSE "commit")
  /\ UNCHANGED records

CommitOp ==
  Op(IF Pending.kind = "restore" THEN "restore/commit" ELSE "rotate/commit", 0, Pending.candidate)

(* The commit, and once more with a candidate prepared in its place. *)
CommitCandidate ==
  /\ At("commit") \/ At("recommit")
  /\ \E o \in Outcomes(CommitOp) :
       /\ Takes(CommitOp, o)
       /\ LET agreed == o.answer.version = Pending.version /\ o.answer.sentinel = Pending.sentinel
          IN  Goes(IF o.answer.is = "ok" /\ agreed THEN "finish"
                   ELSE IF o.answer.is = "conflict" /\ At("commit") THEN "prepare"
                   ELSE "refused")
  /\ UNCHANGED records

PrepareOp ==
  IF Pending.kind = "restore" THEN Op("restore/prepare", Pending.version, NewId)
  ELSE Op("rotate/prepare", call.seen, NewId)

(* A new candidate must be for the recorded version and, in a restore, be   *)
(* the recorded key.                                                        *)
Replaces(a) ==
  /\ a.is = "ok"
  /\ a.version = Pending.version
  /\ Pending.kind = "restore" => a.sentinel = Pending.sentinel

PrepareAgain ==
  /\ At("prepare")
  /\ \E o \in Outcomes(PrepareOp) :
       /\ Takes(PrepareOp, o)
       /\ IF Replaces(o.answer)
          THEN /\ operations' = [i \in DOMAIN operations |->
                    IF operations[i].done THEN operations[i]
                    ELSE [operations[i] EXCEPT !.candidate = o.answer.id,
                                               !.sentinel = o.answer.sentinel]]
               /\ Goes("recommit")
          ELSE Goes("refused") /\ UNCHANGED operations
  /\ UNCHANGED <<rows, current, verified, project>>

Closed == [i \in DOMAIN operations |-> [operations[i] EXCEPT !.done = TRUE]]

(* finish: the new row is current, the others are retired. *)
Finish ==
  /\ At("finish")
  /\ IF Pending.kind = "restore" THEN UNCHANGED <<rows, current, project>>
     ELSE /\ rows' = [rows EXCEPT ![Pending.version] = IF @ = 0 THEN Pending.sentinel ELSE @]
          /\ current' = Pending.version
          /\ project' = Pending.version
  /\ operations' = Closed
  /\ Goes("verify")
  /\ UNCHANGED <<engine, verified, damaged, upsets>>

(* The project's own row is written by a transaction of its own, which may  *)
(* commit although the rest does not.                                       *)
FinishFails ==
  /\ At("finish") /\ Upset
  /\ project' \in IF Pending.kind = "restore" THEN {project} ELSE {project, Pending.version}
  /\ Goes("refused")
  /\ UNCHANGED <<engine, rows, current, verified, operations, damaged>>

-------------------------------------------------------------------------------
(* rehearse *)

RehearseOp == Op("rehearse", 0, 0)

Rehearsed(o) ==
  IF o.answer.is # "ok" THEN {}
  ELSE {v \in Recorded : v \in o.disk.versions /\ o.disk.escrow[v] = rows[v]}

\* Mutant of Verify: the rehearsal's verdict is not awaited.
VerifyUnheard ==
  /\ At("verify")
  /\ \E o \in Outcomes(RehearseOp) :
       /\ Takes(RehearseOp, o)
       /\ verified' = Rehearsed(o)
       /\ Goes(call.next)
  /\ UNCHANGED <<rows, current, project, operations>>

Verify ==
  /\ At("verify")
  /\ \E o \in Outcomes(RehearseOp) :
       /\ Takes(RehearseOp, o)
       /\ verified' = Rehearsed(o)
       /\ Goes(IF Rehearsed(o) = Recorded THEN call.next ELSE "refused")
  /\ UNCHANGED <<rows, current, project, operations>>

Acts(action) == At("act") /\ call.request.action = action

(* Asked for, or the daily timer: the verdict is recorded, not returned. *)
Rehearse ==
  /\ Acts("rehearse")
  /\ \E o \in Outcomes(RehearseOp) :
       /\ Takes(RehearseOp, o)
       /\ verified' = Rehearsed(o)
  /\ Goes("ok")
  /\ UNCHANGED <<rows, current, project, operations>>

-------------------------------------------------------------------------------
(* initialize, rotate, restore *)

Records(kind, a) ==
  operations' = Append(operations,
    [kind |-> kind, version |-> a.version, sentinel |-> a.sentinel, candidate |-> a.id,
     key |-> IF kind = "initialize" THEN NoKey ELSE call.request.key, done |-> FALSE])

InitializeKey ==
  /\ Acts("initialize")
  /\ LET op == Op("initialize", 0, NewId)
     IN  \E o \in Outcomes(op) :
           LET a == o.answer
               known == a.is = "ok" /\ rows[a.version] = a.sentinel
               first == a.is = "ok" /\ Recorded = {}
           IN  /\ Takes(op, o)
               /\ IF first THEN Records("initialize", a) ELSE UNCHANGED operations
               /\ call' = [call EXCEPT !.next = "ok",
                             !.at = IF first THEN "finish" ELSE IF known THEN "verify" ELSE "refused"]
  /\ UNCHANGED <<rows, current, verified, project>>

Rotate ==
  /\ Acts("rotate") /\ current # 0
  /\ LET op == Op("rotate/prepare", current, NewId)
     IN  \E o \in Outcomes(op) :
           /\ Takes(op, o)
           /\ IF o.answer.is = "ok"
              THEN Records("rotate", o.answer)
                   /\ call' = [call EXCEPT !.at = "status", !.next = "ok"]
              ELSE UNCHANGED operations /\ Goes("refused")
  /\ UNCHANGED <<rows, current, verified, project>>

\* Mutant of IsRecorded: the escrow's sentinel is believed.
BelievesEscrow(a) == a.is = "ok"

IsRecorded(a) == a.is = "ok" /\ rows[a.version] = a.sentinel

Restore ==
  /\ Acts("restore") /\ current # 0
  /\ LET op == Op("restore/prepare", call.request.version, NewId)
     IN  \E o \in Outcomes(op) :
           /\ Takes(op, o)
           /\ IF IsRecorded(o.answer)
              THEN /\ Records("restore", o.answer)
                   /\ call' = [call EXCEPT !.at = "status", !.next = "ok"]
                   /\ UNCHANGED verified
              ELSE /\ verified' = IF o.answer.is = "ok" THEN verified \ {o.answer.version} ELSE verified
                   /\ Goes("refused") /\ UNCHANGED operations
  /\ UNCHANGED <<rows, current, project>>

(* Rotating or restoring what was never initialized. *)
NothingToAct ==
  /\ Acts("rotate") \/ Acts("restore")
  /\ current = 0
  /\ Goes("refused")
  /\ UNCHANGED <<engine, records, damaged, upsets>>

-------------------------------------------------------------------------------
(* The surroundings *)

GatewayStops ==
  /\ ~Idle /\ Upset
  /\ Goes("refused")
  /\ UNCHANGED <<engine, records, damaged>>

(* Ten minutes pass; while a request runs that is an upset. *)
Expire ==
  /\ disk.candidate # None /\ ~disk.candidate.expired
  /\ disk' = [disk EXCEPT !.candidate.expired = TRUE]
  /\ IF Idle THEN UNCHANGED upsets ELSE Upset
  /\ UNCHANGED <<lock, late, minted, records, call, damaged>>

EngineDone ==
  /\ lock = "running" /\ lock' = "free"
  /\ UNCHANGED <<disk, late, minted, records, call, damaged, upsets>>

ServedLate ==
  /\ late # None
  /\ disk' \in {disk, Last(Run(late).path)}
  /\ Within(disk')
  /\ late' = None
  /\ UNCHANGED <<lock, minted, records, call, damaged, upsets>>

(* A copy of a key is lost or altered where it is kept. *)
Damage(place, v) ==
  /\ <<place, v>> \notin damaged /\ Cardinality(damaged) < MaxDamage
  /\ disk[place][v] # 0
  /\ \E bytes \in {0, Altered} : disk' = [disk EXCEPT ![place][v] = bytes]
  /\ damaged' = damaged \union {<<place, v>>}
  /\ UNCHANGED <<lock, late, minted, records, call, upsets>>

-------------------------------------------------------------------------------
Step ==
  \/ Status \/ Compare \/ CommitCandidate \/ PrepareAgain \/ Finish \/ Verify
  \/ Rehearse \/ InitializeKey \/ Rotate \/ Restore \/ NothingToAct

Next ==
  \/ \E r \in Request : Begin(r)
  \/ Step
  \/ FinishFails \/ GatewayStops
  \/ Expire \/ EngineDone \/ ServedLate
  \/ \E place \in {"store", "escrow"}, v \in Version : Damage(place, v)

Spec == Init /\ [][Next]_vars

(* The daily timer asks for a rehearsal again and again, a request runs on, *)
(* an operation of a living engine ends, and time passes.                   *)
FairSpec ==
  /\ Spec
  /\ WF_vars(Step)
  /\ SF_vars(\E r \in Request : r.action = "rehearse" /\ Begin(r))
  /\ WF_vars(EngineDone) /\ SF_vars(Expire)

-------------------------------------------------------------------------------
Bytes == 0..minted \union {Altered}

Kinds == {"initialize", "rotate", "restore"}

Places ==
  {"ok", "refused", "status", "compare", "commit", "prepare", "recommit", "finish", "verify", "act"}

(* TypeOK: whatever is lost or comes late, the engine's files, the records  *)
(* and the running request keep the shape the code expects of them; a       *)
(* request that recovers or finishes always finds exactly one pending       *)
(* operation (one_pending_custody_operation), and the current row exists.   *)
TypeOK ==
  /\ disk.versions \subseteq Version /\ disk.current \in disk.versions \union {0}
  /\ disk.store \in [Version -> Bytes] /\ disk.escrow \in [Version -> Bytes]
  /\ disk.initial \in Bytes
  /\ lock \in {"free", "running", "abandoned"}
  /\ rows \in [Version -> Bytes] /\ current \in Recorded \union {0}
  /\ verified \subseteq Recorded /\ project \in 0..MaxVersion
  /\ \A i \in DOMAIN operations : operations[i].kind \in Kinds
  /\ Cardinality(PendingOnes) <= 1
  /\ call.request \in Request /\ call.at \in Places
  /\ call.at \in {"status", "compare", "commit", "prepare", "recommit", "finish"} => PendingOnes # {}
  /\ upsets \in 0..MaxUpsets

(* CurrentIsExplained: the engine's current key, the current row and the    *)
(* version receipts name (project.token_key_version) are the same, unless   *)
(* the pending operation says which one is about to be current, with the    *)
(* sentinel of that key: it was recorded before the commit.                 *)
CurrentIsExplained ==
  /\ disk.current # current =>
       \/ disk.current = 1 /\ Recorded = {}
       \/ /\ PendingOnes # {} /\ Pending.version = disk.current
          /\ <<"store", disk.current>> \notin damaged => disk.store[disk.current] = Pending.sentinel
  /\ project # current => PendingOnes # {} /\ Pending.version = project

(* KeysMatchRecords: every recorded version is one the engine retains, and  *)
(* each copy nobody touched is the key whose sentinel is on record: no      *)
(* retry, late request or expiry replaces or discards a retained key.       *)
KeysMatchRecords ==
  \A v \in Recorded :
    /\ v \in disk.versions
    /\ <<"store", v>> \notin damaged => disk.store[v] = rows[v]
    /\ <<"escrow", v>> \notin damaged => disk.escrow[v] = rows[v]

(* NoSecondRotation: the engine has at most one more version than there are *)
(* idempotency keys with which a rotation was recorded, however often the   *)
(* requests are repeated, recovered or served late.                         *)
NoSecondRotation ==
  Cardinality(disk.versions)
    <= 1 + Cardinality({operations[i].key : i \in {j \in DOMAIN operations : operations[j].kind = "rotate"}})

(* OnlyRecordedKeysReturn: a retained version is never given up, and what   *)
(* the code writes over a retained key in the store is the recorded key.    *)
OnlyRecordedKeysReturn ==
  [][ /\ disk.versions \subseteq disk'.versions
      /\ \A v \in disk.versions \intersect Recorded :
           disk'.store[v] # disk.store[v] /\ damaged' = damaged => disk'.store[v] = rows[v]
    ]_vars

(* ConnectedMeansBackedUp: when initialize is answered ok, which is what    *)
(* lets a source be connected, the escrow holds every recorded key.         *)
ConnectedMeansBackedUp ==
  [][ ~Idle /\ call.request.action = "initialize" /\ call'.at = "ok"
      => \A v \in Recorded : disk'.escrow[v] = rows[v] ]_vars

(* PendingSettles: a rotation or a restore that was interrupted is finished *)
(* by the requests that come after it, at the latest the daily rehearsal,   *)
(* unless the engine died inside an operation or a key copy was damaged.    *)
PendingSettles ==
  \A i \in 1..MaxKeys :
    (i \in PendingOnes /\ operations[i].kind # "initialize")
      ~> (i \notin PendingOnes \/ lock = "abandoned" \/ damaged # {})

(* PromotionResumes: as key-custody.test.ts has it, a crash during          *)
(* promotion leaves a resumable candidate: the rotation is finished later.  *)
PromotionResumes ==
  \A i \in 1..MaxKeys :
    (i \in PendingOnes /\ operations[i].kind = "rotate") ~> (i \notin PendingOnes)

(* RestoredWhatWasAsked: a restore that is answered ok has restored the     *)
(* version it named; a request that names another one is another request.   *)
RestoredWhatWasAsked ==
  call.at = "ok" /\ call.request.action = "restore"
    => \E i \in DOMAIN operations : /\ operations[i].kind = "restore" /\ operations[i].done
                                    /\ operations[i].version = call.request.version
===============================================================================
