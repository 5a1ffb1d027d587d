---------------------------- MODULE FilingRegister ----------------------------
(***************************************************************************)
(* The filing register of the engine, sidecar/ingest/register.ts and       *)
(* land.ts, with the customer's landing database                           *)
(* (infrastructure/postgres-landing.ts) and the gateway's receipt inbox    *)
(* and arrival projection (src/modules/ingest) around it.                  *)
(*                                                                         *)
(* The register serialises its passes (scan, reconcile, retry) in one      *)
(* queue; `pass' is where the running one stands.  Every pass changes a    *)
(* record by persisting the whole register and only then the copy in       *)
(* memory, so `filings' is both.  The landing commit, the receipt, the     *)
(* notice and the persist of their outcome are separate steps: a crash, a  *)
(* lost answer or a failed persist may fall between any two of them.       *)
(*                                                                         *)
(* Left out: the two observations a file needs before it is read (zone     *)
(* holds settled deliveries), the reconciliation report's counts, telemetry *)
(* and the version-1 upgrade.  Rules may be re-exported at any time, so    *)
(* what a file is identified as is chosen anew each time.                  *)
(***************************************************************************)
EXTENDS Naturals, Sequences, FiniteSets, FiniteSetsExt

CONSTANTS
  Arrival,    \* deliveries into the landing zone: a path and a fingerprint
  Hash, Sha,  \* the SHA-256 of each delivery's bytes
  Tuple,      \* filing party, period and kind, as identifyFile returns them
  Unmatched,  \* identifyFile refuses: no rule, several rules, an invalid rule
  MaxUpsets   \* bound on failures, restarts and operator retries

\* Instances of Sha: two deliveries of the same bytes and others of their own.
OneRepeated ==
  LET first == CHOOSE a \in Arrival : TRUE
      second == CHOOSE a \in Arrival \ {first} : TRUE
      some == CHOOSE h \in Hash : TRUE
  IN [a \in Arrival |-> IF a \in {first, second} THEN some ELSE CHOOSE h \in Hash : h # some]

ASSUME FilingAssumption ==
  /\ Sha \in [Arrival -> Hash]
  /\ IsFiniteSet(Arrival)
  /\ Unmatched \notin Tuple
  /\ MaxUpsets \in Nat

VARIABLES
  zone,       \* the deliveries that have settled in the directory
  filings,    \* the register: durable, and in memory while the engine runs
  engine,     \* "new" (no state file yet), "closed", "open", or "dead": died and
              \* left its lock file
  pass,       \* the running pass
  attempted,  \* noticeAttempts: filings whose notice failed in this process
  commits,    \* landing database: the receipts committed with the rows
  receipts,   \* gateway: landing_receipt
  notices,    \* gateway: arrival_notice, filing -> newest revision and outcome
  late,       \* notices that timed out at the engine and may still arrive
  upsets

local == <<filings, engine, pass, attempted>>
remote == <<commits, receipts, notices, late>>
vars == <<zone, local, remote, upsets>>

Ids == DOMAIN filings

Rest == [at |-> "rest", id |-> 0, back |-> "rest", next |-> << >>]

Filing(a) ==
  [file |-> a, status |-> "quarantined", tuple |-> Unmatched, inspected |-> FALSE,
   supersedes |-> 0, duplicateOf |-> 0, landing |-> "none", revision |-> 1, delivered |-> 0]

Upset == upsets < MaxUpsets /\ upsets' = upsets + 1

Init ==
  /\ zone = {}
  /\ filings = << >> /\ engine = "new" /\ pass = Rest /\ attempted = {}
  /\ commits = {} /\ receipts = {} /\ late = {}
  /\ notices = [i \in 1..Cardinality(Arrival) |-> [revision |-> 0, outcome |-> "none"]]
  /\ upsets = 0

-------------------------------------------------------------------------------
(* Identification and its consequences *)

Latest(S) == IF S = {} THEN 0 ELSE Max(S)

(* The first filing with these bytes that is not in quarantine, or the one  *)
(* it is itself a duplicate of.                                             *)
OriginalOf(twins) ==
  LET first == Min(twins)
  IN  IF filings[first].duplicateOf # 0 THEN filings[first].duplicateOf ELSE first

\* Mutant of Identified: nothing compares the bytes.
IdentifiedByNameOnly(f, found, others) ==
  LET rivals == {j \in others : filings[j].status = "ready" /\ filings[j].tuple = found}
  IN  IF found = Unmatched THEN f
      ELSE [f EXCEPT !.status = "ready", !.tuple = found, !.supersedes = Latest(rivals)]

(* What an arrival or a retried filing becomes among the other filings. *)
Identified(f, found, others) ==
  LET twins == {j \in others : filings[j].status # "quarantined" /\ Sha[filings[j].file] = Sha[f.file]}
      rivals == {j \in others : filings[j].status = "ready" /\ filings[j].tuple = found}
  IN  IF found = Unmatched THEN f
      ELSE IF twins # {} THEN
        [f EXCEPT !.status = "duplicate", !.tuple = found, !.duplicateOf = OriginalOf(twins)]
      ELSE [f EXCEPT !.status = "ready", !.tuple = found, !.supersedes = Latest(rivals)]

-------------------------------------------------------------------------------
(* The life of the process *)

(* A first start is accepted on an empty zone only (MissingLandingState). *)
Deliver(a) ==
  /\ a \notin zone /\ engine # "new"
  /\ zone' = zone \union {a}
  /\ UNCHANGED <<local, remote, upsets>>

Open ==
  /\ engine \in {"new", "closed"}
  /\ engine' = "open"
  /\ UNCHANGED <<zone, filings, pass, attempted, remote, upsets>>

Resting == engine = "open" /\ pass.at = "rest"

\* Mutant of Forgets: the interrupted pass is resumed.
ForgetsNothing == attempted' = {} /\ UNCHANGED pass

Forgets == pass' = Rest /\ attempted' = {}

Close ==
  /\ engine = "open" /\ pass.at \in {"rest", "scan", "resume", "resend", "publish"}
  /\ engine' = "closed"
  /\ Forgets /\ Upset
  /\ UNCHANGED <<zone, filings, remote>>

Crash ==
  /\ engine = "open"
  /\ engine' = "dead"
  /\ Forgets /\ Upset
  /\ UNCHANGED <<zone, filings, remote>>

(* The operator removes the lock of a process known to be gone. *)
ClearLock ==
  /\ engine = "dead"
  /\ engine' = "closed"
  /\ UNCHANGED <<zone, filings, pass, attempted, remote, upsets>>

Goes(at, id) == pass' = [pass EXCEPT !.at = at, !.id = id]

Enters(at) == pass' = [Rest EXCEPT !.at = at, !.id = 1]

StartPass ==
  /\ Resting
  /\ \E at \in {"scan", "recover"} : Enters(at)
  /\ UNCHANGED <<zone, filings, engine, attempted, remote, upsets>>

(* Rules, disk, landing database: the pass throws and is tried again later. *)
PassFails ==
  /\ engine = "open"
  /\ pass.at \in {"scan", "recover", "save", "told"}
  /\ pass' = Rest
  /\ Upset
  /\ UNCHANGED <<zone, filings, engine, attempted, remote>>

-------------------------------------------------------------------------------
(* Scanning *)

At(place) == engine = "open" /\ pass.at = place

Registered(a) == \E i \in Ids : filings[i].file = a

Register(a) ==
  /\ At("scan")
  /\ a \in zone /\ ~Registered(a)
  /\ \E found \in Tuple \union {Unmatched} :
       filings' = Append(filings, Identified(Filing(a), found, Ids))
  /\ pass' = [pass EXCEPT !.at = "work", !.id = Len(filings) + 1, !.back = "scan"]
  /\ UNCHANGED <<zone, engine, attempted, remote, upsets>>

ScanDone ==
  /\ At("scan")
  /\ \A a \in zone : Registered(a)
  /\ pass' = [pass EXCEPT !.at = "publish", !.id = 1, !.back = "scan"]
  /\ UNCHANGED <<zone, filings, engine, attempted, remote, upsets>>

-------------------------------------------------------------------------------
(* Processing one filing: extract, land, send the receipt, persist *)

Current == filings[pass.id]

(* A pass persists a filing only when it changed, and goes on. *)
Leaves == [pass EXCEPT !.at = pass.back, !.id = @ + 1, !.next = << >>]

Saves(f) == pass' = IF f = Current THEN Leaves ELSE [pass EXCEPT !.at = "save", !.next = f]

Inspected == [Current EXCEPT !.inspected = TRUE]

Quarantined(f) == [f EXCEPT !.status = "quarantined"]

HasNoWork == Current.landing # "none" \/ Current.status # "ready"

NothingToDo ==
  /\ At("work") /\ HasNoWork
  /\ Saves(Current)
  /\ UNCHANGED <<zone, filings, engine, attempted, remote, upsets>>

(* Extraction fails, or the landing refuses the filing. *)
Refused ==
  /\ At("work") /\ ~HasNoWork
  /\ Upset
  /\ \E f \in {Current, Inspected} : Saves(Quarantined(f))
  /\ UNCHANGED <<zone, filings, engine, attempted, remote>>

Receipt == [id |-> pass.id, tuple |-> Current.tuple, supersedes |-> Current.supersedes]

Committed(i) == \E c \in commits : c.id = i

(* Rows and commit receipt in one transaction; a filing that is already     *)
(* committed gets its receipt back.                                         *)
Commits == commits' = IF Committed(pass.id) THEN commits ELSE commits \union {Receipt}

(* The landing database is unavailable; its commit may have happened.       *)
Unavailable ==
  /\ At("work") /\ ~HasNoWork
  /\ Upset
  /\ Commits \/ UNCHANGED commits
  /\ Saves(Inspected)
  /\ UNCHANGED <<zone, filings, engine, attempted, receipts, notices, late>>

Land ==
  /\ At("work") /\ ~HasNoWork
  /\ Commits
  /\ pass' = [pass EXCEPT !.at = "landed", !.next = Inspected]
  /\ UNCHANGED <<zone, filings, engine, attempted, receipts, notices, late, upsets>>

(* receipts.send, after the landing or again in a reconciliation. *)
SendReceipt ==
  /\ At("landed")
  /\ receipts' = receipts \union {pass.id}
  /\ Saves([pass.next EXCEPT !.landing = "registered"])
  /\ UNCHANGED <<zone, filings, engine, attempted, commits, notices, late, upsets>>

\* Mutant of ReceiptFails: the receipt is taken for registered.
ReceiptFailsUnnoticed ==
  /\ At("landed")
  /\ Upset
  /\ receipts' \in {receipts, receipts \union {pass.id}}
  /\ Saves([pass.next EXCEPT !.landing = "registered"])
  /\ UNCHANGED <<zone, filings, engine, attempted, commits, notices, late>>

ReceiptFails ==
  /\ At("landed")
  /\ Upset
  /\ receipts' \in {receipts, receipts \union {pass.id}}
  /\ Saves([pass.next EXCEPT !.landing = "unregistered"])
  /\ UNCHANGED <<zone, filings, engine, attempted, commits, notices, late>>

Stored(id, f) == [filings EXCEPT ![id] = [f EXCEPT !.revision = @ + 1]]

\* Mutant of Save: a changed record keeps its revision.
SaveSameRevision ==
  /\ At("save")
  /\ filings' = [filings EXCEPT ![pass.id] = pass.next]
  /\ pass' = Leaves
  /\ UNCHANGED <<zone, engine, attempted, remote, upsets>>

Save ==
  /\ At("save")
  /\ filings' = Stored(pass.id, pass.next)
  /\ pass' = Leaves
  /\ UNCHANGED <<zone, engine, attempted, remote, upsets>>

-------------------------------------------------------------------------------
(* Reconciliation *)

Unknown == {i \in Ids : Committed(i) /\ filings[i].landing = "none"}

\* Mutant of Recover: commit receipts are not consulted.
RecoverNothing ==
  /\ At("recover")
  /\ Enters("resume")
  /\ UNCHANGED <<zone, filings, engine, attempted, remote, upsets>>

(* recoverCommits: commit receipts the register does not know. *)
Recover ==
  /\ At("recover")
  /\ IF Unknown # {}
     THEN /\ LET i == Min(Unknown)
             IN  filings' = Stored(i, [filings[i] EXCEPT !.landing = "unregistered"])
          /\ UNCHANGED pass
     ELSE Enters("resume") /\ UNCHANGED filings
  /\ UNCHANGED <<zone, engine, attempted, remote, upsets>>

(* The first loop processes what has not landed, the second replays every   *)
(* receipt, then everything is published.                                   *)
Resume ==
  /\ At("resume")
  /\ LET open == {i \in Ids : i >= pass.id /\ filings[i].status = "ready"
                                /\ filings[i].landing = "none"}
     IN  IF open # {}
         THEN pass' = [pass EXCEPT !.at = "work", !.id = Min(open), !.back = "resume"]
         ELSE Enters("resend")
  /\ UNCHANGED <<zone, filings, engine, attempted, remote, upsets>>

Resend ==
  /\ At("resend")
  /\ LET landed == {i \in Ids : i >= pass.id /\ filings[i].landing # "none"}
     IN  IF landed # {}
         THEN pass' = [at |-> "landed", id |-> Min(landed), back |-> "resend",
                       next |-> filings[Min(landed)]]
         ELSE Enters("publish")
  /\ UNCHANGED <<zone, filings, engine, attempted, remote, upsets>>

(* The operator's retry: a quarantined filing with unchanged bytes is       *)
(* identified anew under the current rules, then everything is reconciled.  *)
Retry(i) ==
  /\ Resting /\ Upset
  /\ i \in Ids /\ filings[i].status = "quarantined" /\ filings[i].landing = "none"
  /\ \E found \in Tuple \union {Unmatched} :
       filings' = Stored(i, Identified([filings[i] EXCEPT !.inspected = FALSE], found, Ids \ {i}))
  /\ Enters("recover")
  /\ UNCHANGED <<zone, engine, attempted, remote>>

-------------------------------------------------------------------------------
(* Notices *)

Outcome(f) ==
  IF f.landing # "none" THEN "landed" ELSE IF f.status = "ready" THEN "pending" ELSE f.status

NoticeOf(i) == [id |-> i, revision |-> filings[i].revision, outcome |-> Outcome(filings[i])]

\* Mutant of Accepted: the gateway overwrites whatever it holds.
AcceptedAlways(n) ==
  notices' = [notices EXCEPT ![n.id] = [revision |-> n.revision, outcome |-> n.outcome]]

(* PostgresFilingRegister.notice: older and equal revisions are discarded. *)
Accepted(n) ==
  notices' = IF notices[n.id].revision < n.revision
             THEN [notices EXCEPT ![n.id] = [revision |-> n.revision, outcome |-> n.outcome]]
             ELSE notices

\* Mutant of Due: a notice that failed is left alone for good.
DueOnce == {i \in Ids : /\ i >= pass.id
                        /\ filings[i].delivered # filings[i].revision
                        /\ i \notin attempted}

(* What publish still has to send; a scan leaves failed notices alone. *)
Due == {i \in Ids : /\ i >= pass.id
                    /\ filings[i].delivered # filings[i].revision
                    /\ pass.back = "scan" => i \notin attempted}

PublishDone ==
  /\ At("publish") /\ Due = {}
  /\ pass' = Rest
  /\ UNCHANGED <<zone, filings, engine, attempted, remote, upsets>>

Notify ==
  /\ At("publish") /\ Due # {}
  /\ Accepted(NoticeOf(Min(Due)))
  /\ attempted' = attempted \ {Min(Due)}
  /\ Goes("told", Min(Due))
  /\ UNCHANGED <<zone, filings, engine, commits, receipts, late, upsets>>

(* Refused, unreachable or timed out: the request may still be on its way.  *)
NotifyFails ==
  /\ At("publish") /\ Due # {}
  /\ Upset
  /\ late' \in {late, late \union {NoticeOf(Min(Due))}}
  /\ attempted' = attempted \union {Min(Due)}
  /\ Goes("publish", Min(Due) + 1)
  /\ UNCHANGED <<zone, filings, engine, commits, receipts, notices>>

ArrivesLate ==
  /\ \E n \in late : Accepted(n) /\ late' = late \ {n}
  /\ UNCHANGED <<zone, local, commits, receipts, upsets>>

Told ==
  /\ At("told")
  /\ filings' = [filings EXCEPT ![pass.id].delivered = filings[pass.id].revision]
  /\ Goes("publish", pass.id + 1)
  /\ UNCHANGED <<zone, engine, attempted, remote, upsets>>

-------------------------------------------------------------------------------
PassStep ==
  \/ \E a \in Arrival : Register(a)
  \/ ScanDone \/ NothingToDo \/ Land \/ SendReceipt \/ Save
  \/ Recover \/ Resume \/ Resend
  \/ PublishDone \/ Notify \/ Told

Trouble ==
  \/ Close \/ Crash \/ PassFails \/ Refused \/ Unavailable \/ ReceiptFails \/ NotifyFails
  \/ \E i \in Ids : Retry(i)

Next ==
  \/ \E a \in Arrival : Deliver(a)
  \/ Open \/ ClearLock \/ StartPass
  \/ PassStep \/ Trouble
  \/ ArrivesLate

Spec == Init /\ [][Next]_vars

(* The timers start a scan and a reconciliation again and again, a pass     *)
(* runs on, and somebody restarts an engine that stopped.                   *)
FairSpec ==
  /\ Spec
  /\ WF_vars(PassStep) /\ WF_vars(Open) /\ WF_vars(ClearLock)
  /\ SF_vars(StartPass /\ pass'.at = "scan")
  /\ SF_vars(StartPass /\ pass'.at = "recover")

-------------------------------------------------------------------------------
Status == {"ready", "quarantined", "duplicate"}

Stands == {"rest", "scan", "work", "landed", "save", "recover", "resume", "resend", "publish", "told"}

Outcomes == {"landed", "pending", "quarantined", "duplicate"}

\* A filing, or 0 for none.
Link == 0..Cardinality(Arrival)

FilingType ==
  [file : Arrival, status : Status, tuple : Tuple \union {Unmatched}, inspected : BOOLEAN,
   supersedes : Link, duplicateOf : Link,
   landing : {"none", "unregistered", "registered"}, revision : Nat \ {0}, delivered : Nat]

(* The register, the pass, the landing database and the gateway's projection *)
(* keep their types; a pass that works on a filing works on a registered     *)
(* one, and there are as many filings as settled deliveries at most.         *)
TypeOK ==
  /\ zone \subseteq Arrival
  /\ filings \in Seq(FilingType) /\ Len(filings) <= Cardinality(zone)
  /\ engine \in {"new", "closed", "open", "dead"}
  /\ pass \in [at : Stands, id : Nat, back : {"rest", "scan", "resume", "resend"}, next : {pass.next}]
  /\ pass.at \in {"landed", "save"} => pass.next \in FilingType
  /\ pass.at \in {"work", "landed", "save", "told"} => pass.id \in Ids
  /\ engine # "open" => pass = Rest
  /\ attempted \subseteq Ids /\ receipts \subseteq Ids
  /\ commits \subseteq [id : Ids, tuple : Tuple \union {Unmatched}, supersedes : Link]
  /\ notices \in [1..Cardinality(Arrival) -> [revision : Nat, outcome : Outcomes \union {"none"}]]
  /\ late \subseteq [id : Ids, revision : Nat, outcome : Outcomes]
  /\ upsets \in 0..MaxUpsets

(* The same bytes are never landed twice, whatever is redelivered, retried  *)
(* or replayed after a lost answer or a crash (ING-06).                     *)
LandedOnce ==
  \A c, d \in commits : Sha[filings[c.id].file] = Sha[filings[d.id].file] => c = d

(* What the landing database holds is what the register says of the filing: *)
(* rows exist only for a ready filing, under the attribution it has and the *)
(* restatement link it has; a quarantined or duplicate filing has no rows,  *)
(* and a retry never changes a filing that has them (ING-08).               *)
RowsMatchRegister ==
  \A c \in commits :
    /\ filings[c.id].status = "ready"
    /\ filings[c.id].tuple = c.tuple /\ filings[c.id].supersedes = c.supersedes

(* A filing recorded as registered has its receipt at the gateway, and the  *)
(* gateway has receipts only of filings whose rows are committed.           *)
ReceiptsAreGrounded ==
  /\ \A i \in Ids : filings[i].landing = "registered" => i \in receipts
  /\ \A i \in receipts : Committed(i)

(* A revision means one thing: when the gateway holds a filing's present    *)
(* revision it shows its present outcome, although notices are repeated,    *)
(* time out and arrive late, and the engine dies between a change and its   *)
(* notice.                                                                  *)
ProjectionFaithful ==
  \A i \in Ids : notices[i].revision = filings[i].revision =>
    notices[i].outcome = Outcome(filings[i])

(* A filing the gateway has shown as landed is never shown as anything else *)
(* again.                                                                   *)
LandedStaysLanded ==
  [][\A i \in DOMAIN notices : notices[i].outcome = "landed" => notices'[i].outcome = "landed"]_vars

Settled(a) ==
  \E i \in Ids :
    /\ filings[i].file = a
    /\ filings[i].status = "ready" => filings[i].landing = "registered"
    /\ notices[i].revision = filings[i].revision

(* Every delivery is eventually registered, landed with its receipt at the  *)
(* gateway or put aside, and the gateway shows its outcome.                 *)
EveryDeliverySettles == \A a \in Arrival : a \in zone ~> Settled(a)

(* A duplicate names another filing (sidecar/README.md, "SHA-256 duplicates *)
(* within the source carry duplicateOf and are not ready").                 *)
DuplicatesNameAnother ==
  \A i \in Ids : filings[i].status = "duplicate" => filings[i].duplicateOf # i

(* Restatement links lead back to a first filing: no filing is, through     *)
(* others, a restatement of itself.                                         *)
RestatementsLeadBack ==
  \A S \in SUBSET Ids \ {{}} : \E i \in S : filings[i].supersedes \notin S
===============================================================================
