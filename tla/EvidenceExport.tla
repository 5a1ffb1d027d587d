--------------------------- MODULE EvidenceExport ---------------------------
(***************************************************************************)
(* The evidence of a project while it is exported, redacted and retired.   *)
(* An export names the runs started up to its creation; its download reads *)
(* them newest first in pages behind a cursor, asks for the permission     *)
(* again before every page and writes through the HTTP server, which cuts  *)
(* a transfer it cannot finish.  Meanwhile the maintenance of the project  *)
(* redacts stored arguments under the policy it read and deletes what has  *)
(* aged.                                                                   *)
(***************************************************************************)
EXTENDS Integers, Sequences, Functions

CONSTANTS Runs,        \* 1..n: the number is the run's id
          MaxTime,     \* clock ticks; two runs may start at the same tick
          PageSize,    \* rows of a page (100)
          MaxChanges   \* changes of policy and permission

Deleted == -1
Policies == {"none", "allowlist", "aggressive"}

VARIABLES now,
          at,        \* when a run started; 0: not yet, Deleted: retired
          text,      \* its stored argument: "raw" | "stripped" | "absent"
          policy,    \* the project's redaction policy
          scan,      \* the redaction in hand: the run, the text and policy read
          permit,    \* the reader holds export_evidence
          made,      \* when the export was created, 0: none
          download,  \* "idle" | "check" | "page" | "send" | "over"
          after,     \* the cursor: the last position read
          page,      \* rows read and not yet written
          last,      \* the page read was the last
          sent,      \* rows written
          outcome,   \* "none" | "complete" | "cut" | "refused" | "gone"
          owed,      \* the runs there were when the download began
          changes
evidence == <<now, at, text, policy, scan>>
transfer == <<download, after, page, last, sent, outcome, owed>>
vars == <<evidence, permit, made, transfer, changes>>

Position(r) == <<at[r], r>>
Before(p, q) == p[1] < q[1] \/ (p[1] = q[1] /\ p[2] < q[2])
NoScan == [run |-> 0, text |-> "absent", policy |-> "none"]

TypeOK ==
  /\ now \in 1..MaxTime /\ at \in [Runs -> Deleted..MaxTime]
  /\ text \in [Runs -> {"raw", "stripped", "absent"}] /\ policy \in Policies
  /\ permit \in BOOLEAN /\ made \in 0..MaxTime /\ changes \in 0..MaxChanges
  /\ download \in {"idle", "check", "page", "send", "over"}
  /\ page \in Seq(Runs) /\ sent \in Seq(Runs) /\ owed \subseteq Runs
  /\ outcome \in {"none", "complete", "cut", "refused", "gone"}

Init ==
  /\ now = 1 /\ at = [r \in Runs |-> 0] /\ text = [r \in Runs |-> "absent"]
  /\ policy = "none" /\ scan = NoScan /\ permit = TRUE /\ made = 0
  /\ download = "idle" /\ after = <<>> /\ page = <<>> /\ last = FALSE
  /\ sent = <<>> /\ outcome = "none" /\ owed = {} /\ changes = 0

Tick == /\ now < MaxTime /\ now' = now + 1
        /\ UNCHANGED <<at, text, policy, scan, permit, made, transfer, changes>>

(* A run is opened with its argument as it came: it is seen when its        *)
(* transaction commits, which may be long after the time it is stamped      *)
(* with, and behind runs with later ones.  Ids are used once.               *)
OpenRun(r) ==
  /\ at[r] = 0 /\ \E started \in 1..now : at' = [at EXCEPT ![r] = started]
  /\ text' = [text EXCEPT ![r] = "raw"]
  /\ UNCHANGED <<now, policy, scan, permit, made, transfer, changes>>

SetPolicy(p) ==
  /\ changes < MaxChanges /\ p # policy
  /\ policy' = p /\ changes' = changes + 1
  /\ UNCHANGED <<now, at, text, scan, permit, made, transfer>>

(* storedArgument: what a policy leaves of a stored argument.               *)
Stored(t, p) ==
  CASE t = "absent" \/ p = "none" -> t
    [] p = "allowlist" -> "stripped"
    [] OTHER -> "absent"

(* Maintenance reads the policy and then, in batches, the arguments ...     *)
ReadForRedaction(r) ==
  /\ scan = NoScan /\ policy # "none" /\ at[r] > 0
  /\ text[r] # Stored(text[r], policy)
  /\ scan' = [run |-> r, text |-> text[r], policy |-> policy]
  /\ UNCHANGED <<now, at, text, policy, permit, made, transfer, changes>>

(* Mutant: the policy is not compared again.                                *)
RedactAnyway ==
  /\ scan # NoScan /\ scan' = NoScan
  /\ text' = [text EXCEPT ![scan.run] =
                IF at[scan.run] > 0 THEN Stored(scan.text, scan.policy) ELSE @]
  /\ UNCHANGED <<now, at, policy, permit, made, transfer, changes>>

(* ... and replaces them only if policy and argument are still those it     *)
(* read.                                                                    *)
Redact ==
  /\ scan # NoScan /\ scan' = NoScan
  /\ text' = [text EXCEPT ![scan.run] =
                IF policy = scan.policy /\ at[scan.run] > 0 /\ text[scan.run] = scan.text
                THEN Stored(scan.text, scan.policy) ELSE @]
  /\ UNCHANGED <<now, at, policy, permit, made, transfer, changes>>

(* retain_evidence deletes the oldest run that has aged, one at a time; its *)
(* id is never used again.                                                  *)
Retain(r) ==
  /\ at[r] > 0 /\ at[r] < now
  /\ \A s \in Runs : at[s] > 0 => ~Before(Position(s), Position(r))
  /\ at' = [at EXCEPT ![r] = Deleted] /\ text' = [text EXCEPT ![r] = "absent"]
  /\ UNCHANGED <<now, policy, scan, permit, made, transfer, changes>>

CreateExport ==
  /\ made = 0 /\ permit /\ made' = now
  /\ UNCHANGED <<evidence, permit, transfer, changes>>

Permit(b) ==
  /\ changes < MaxChanges /\ b # permit
  /\ permit' = b /\ changes' = changes + 1
  /\ UNCHANGED <<evidence, made, transfer>>

InExport(r) == at[r] > 0 /\ at[r] <= made

Download ==
  /\ download = "idle" /\ made # 0 /\ permit
  /\ download' = "check" /\ owed' = {r \in Runs : InExport(r)}
  /\ UNCHANGED <<evidence, permit, made, after, page, last, sent, outcome, changes>>

Over(o) == /\ download' = "over" /\ outcome' = o

(* Mutant: the response is ended either way.                                *)
FailPolitely == Over(IF sent = <<>> THEN "refused" ELSE "complete")

(* An error before the first row is an answer; after it the connection is   *)
(* destroyed, so that what was written does not look whole.                 *)
Fail == Over(IF sent = <<>> THEN "refused" ELSE "cut")

CheckPermission ==
  /\ download = "check"
  /\ IF permit THEN download' = "page" /\ UNCHANGED outcome ELSE Fail
  /\ UNCHANGED <<evidence, permit, made, after, page, last, sent, owed, changes>>

(* Mutant: the cursor compares the time alone.                              *)
BehindByTime(r) == after = <<>> \/ at[r] < after[1]
Behind(r) == after = <<>> \/ Before(Position(r), after)

(* ORDER BY started_at DESC, id DESC LIMIT: a page is in order, and full or *)
(* all there is.                                                            *)
Newer(r, s) == Before(Position(s), Position(r))
IsPageOf(rows, rest) ==
  /\ \A i, j \in DOMAIN rows : i < j => Newer(rows[i], rows[j])
  /\ \A r \in rest \ Range(rows) : Len(rows) = PageSize /\ \A i \in DOMAIN rows : Newer(rows[i], r)

ReadPage ==
  /\ download = "page"
  /\ LET rest == {r \in Runs : InExport(r) /\ Behind(r)}
     IN IF rest = {}
        THEN Over("complete") /\ UNCHANGED <<after, page, last>>
        ELSE \E n \in 1..PageSize : \E rows \in [1..n -> rest] :
               /\ IsPageOf(rows, rest)
               /\ download' = "send" /\ page' = rows /\ last' = (n < PageSize)
               /\ after' = Position(rows[n]) /\ UNCHANGED outcome
  /\ UNCHANGED <<evidence, permit, made, sent, owed, changes>>

(* A row is written, waiting for the reader to drain.                       *)
Send ==
  /\ download = "send" /\ page # <<>>
  /\ sent' = Append(sent, Head(page)) /\ page' = Tail(page)
  /\ IF page' # <<>> THEN UNCHANGED <<download, outcome>>
     ELSE IF last THEN Over("complete") ELSE download' = "check" /\ UNCHANGED outcome
  /\ UNCHANGED <<evidence, permit, made, after, last, owed, changes>>

(* The page cannot be read, its redaction or a row's schema fails.          *)
Break ==
  /\ download \in {"page", "send"} /\ Fail
  /\ UNCHANGED <<evidence, permit, made, after, page, last, sent, owed, changes>>

Leave ==
  /\ download \in {"check", "page", "send"} /\ Over("gone")
  /\ UNCHANGED <<evidence, permit, made, after, page, last, sent, owed, changes>>

Next ==
  \/ Tick \/ Redact \/ CreateExport \/ Download
  \/ CheckPermission \/ ReadPage \/ Send \/ Break \/ Leave
  \/ \E r \in Runs : OpenRun(r) \/ ReadForRedaction(r) \/ Retain(r)
  \/ \E p \in Policies : SetPolicy(p)
  \/ \E b \in BOOLEAN : Permit(b)
Spec == Init /\ [][Next]_vars

----------------------------------------------------------------------------
(* A transfer that ends well holds every run of the export that was there   *)
(* when it began and still is, each once: a page boundary between two runs  *)
(* of the same instant, a run that is committed late on either side of the  *)
(* cursor, a deletion and a failure half-way never produce a shorter file   *)
(* that looks whole.                                                        *)
CompleteMeansWhole ==
  /\ outcome = "complete" => \A r \in owed : at[r] > 0 => r \in Range(sent)
  /\ \A i, j \in 1..Len(sent) : i < j => sent[i] # sent[j]

(* A stored argument is destroyed only under a policy that is in force at   *)
(* that moment and says so: what a slow maintenance pass read under an      *)
(* earlier policy is not applied, for it could not be undone.               *)
DestroyedUnderPolicy ==
  [][\A r \in Runs : (at[r] > 0 /\ at'[r] > 0 /\ text'[r] # text[r])
        => text'[r] = Stored(text[r], policy)]_vars
=============================================================================
