--------------------------- MODULE AuthzSnapshots ---------------------------
(***************************************************************************)
(* The authorization port of the API's processes: every check asks         *)
(* SpiceDB, at least as fresh as the snapshot the process keeps of the     *)
(* same question, and falls back on that snapshot while SpiceDB cannot be  *)
(* reached; a write through a process empties its snapshots.  One question *)
(* (a user's permission on an object) is followed through its revisions.   *)
(* Before a process checks anything the release's schema is written, again *)
(* and again while SpiceDB is away (load-schema.ts), and compared with the *)
(* one the process expects.                                                *)
(***************************************************************************)
EXTENDS Integers, Sequences

CONSTANTS Process,
          Ceiling,        \* stalenessCeilingMs, in ticks
          Budget,         \* the loader's 120 seconds, in attempts
          MaxRevisions, MaxTime

VARIABLES schema,     \* SpiceDB has the release's schema
          loader,     \* where the loader is, and what is left of its budget
          ready,      \* the processes that found the schema they expect
          graph,      \* the permission at every revision of SpiceDB
          up,         \* SpiceDB can be reached
          now,
          snapshot,   \* a process's snapshot, or none
          check,      \* a process's check on its way, or none
          write,      \* the revision of a process's write that is not answered, or 0
          own,        \* the revision of the process's last answered write
          overlapped, \* a check was on its way when that write was answered
          answer      \* the last answer a process gave
vars == <<schema, loader, ready, graph, up, now, snapshot, check, write, own, overlapped, answer>>

None == [revision |-> 0]
Newest == Len(graph)

TypeOK ==
  /\ graph \in Seq(BOOLEAN) /\ Len(graph) \in 1..MaxRevisions
  /\ now \in 0..MaxTime /\ own \in [Process -> 0..MaxRevisions]
  /\ write \in [Process -> 0..MaxRevisions] /\ up \in BOOLEAN
  /\ schema \in BOOLEAN /\ ready \subseteq Process
  /\ loader \in [at : {"writing", "loaded", "failed"}, left : 0..Budget]

Init ==
  /\ schema \in BOOLEAN /\ loader = [at |-> "writing", left |-> Budget] /\ ready = {}
  /\ graph = <<TRUE>> /\ up = TRUE /\ now = 0
  /\ snapshot = [p \in Process |-> None] /\ check = [p \in Process |-> None]
  /\ write = [p \in Process |-> 0] /\ own = [p \in Process |-> 0]
  /\ overlapped = [p \in Process |-> FALSE] /\ answer = [p \in Process |-> None]

Tick == now < MaxTime /\ now' = now + 1
        /\ UNCHANGED <<schema, loader, ready, graph, up, snapshot, check, write, own, overlapped, answer>>
Toggle == up' = ~up
          /\ UNCHANGED <<schema, loader, ready, graph, now, snapshot, check, write, own, overlapped, answer>>

(* Mutant: an attempt that was not answered counts as one that arrived.     *)
AttemptUnanswered ==
  /\ loader.at = "writing" /\ schema' \in {schema, TRUE} /\ loader' = [loader EXCEPT !.at = "loaded"]
  /\ UNCHANGED <<ready, graph, up, now, snapshot, check, write, own, overlapped, answer>>

(* An attempt is answered; or it is not, and SpiceDB has taken it or not:   *)
(* another one follows for as long as the budget lasts.  A refusal ends it. *)
Attempt ==
  /\ loader.at = "writing"
  /\ \/ up /\ schema' = TRUE /\ loader' = [loader EXCEPT !.at = "loaded"]
     \/ schema' \in {schema, TRUE}
        /\ loader' = IF loader.left = 1 THEN [at |-> "failed", left |-> 0] ELSE [loader EXCEPT !.left = @ - 1]
     \/ up /\ UNCHANGED schema /\ loader' = [loader EXCEPT !.at = "failed"]
  /\ UNCHANGED <<ready, graph, up, now, snapshot, check, write, own, overlapped, answer>>

(* A process starts once the loader ended well, and reads the schema.       *)
RequireSchema(p) ==
  /\ loader.at = "loaded" /\ up /\ schema /\ p \notin ready /\ ready' = ready \cup {p}
  /\ UNCHANGED <<schema, loader, graph, up, now, snapshot, check, write, own, overlapped, answer>>

(* The call reads the snapshot and the clock and is sent off.               *)
Begin(p, kept, many) ==
  /\ p \in ready /\ check[p] = None
  /\ check' = [check EXCEPT ![p] = [revision |-> 1, kept |-> kept, many |-> many, at |-> now, began |-> Newest,
                                    after |-> own[p], calm |-> ~overlapped[p]]]
  /\ UNCHANGED <<schema, loader, ready, graph, up, now, snapshot, write, own, overlapped, answer>>
BeginCheck(p) == Begin(p, snapshot[p], FALSE)

(* A list of checks asks for the head, and so does an explanation; a mutant *)
(* sends them at least as fresh as the snapshot.                            *)
BeginManyFresh(p) == Begin(p, snapshot[p], TRUE)
BeginMany(p) == Begin(p, None, TRUE)
Explain(p) == BeginMany(p)

Reply(p, r) ==
  answer' = [answer EXCEPT ![p] =
    [revision |-> r.revision, allowed |-> r.allowed, live |-> r.live, age |-> r.age,
     after |-> check[p].after, began |-> IF check[p].many THEN check[p].began ELSE 0, calm |-> check[p].calm]]

(* SpiceDB answers at the head without a snapshot, and otherwise at any     *)
(* revision that is not older than the snapshot's.                          *)
Answered(p) ==
  /\ check[p] # None /\ up
  /\ \E r \in 1..Newest :
       /\ IF check[p].kept = None THEN r = Newest ELSE r >= check[p].kept.revision
       /\ Reply(p, [revision |-> r, allowed |-> graph[r], live |-> TRUE, age |-> 0])
       /\ snapshot' = IF check[p].many THEN snapshot
                      ELSE [snapshot EXCEPT ![p] = [revision |-> r, allowed |-> graph[r], at |-> check[p].at]]
  /\ check' = [check EXCEPT ![p] = None]
  /\ UNCHANGED <<schema, loader, ready, graph, up, now, write, own, overlapped>>

(* Mutant: a snapshot answers for as long as SpiceDB is away.               *)
DegradedForever(p) ==
  /\ check[p] # None /\ ~up /\ check[p].kept # None
  /\ Reply(p, [revision |-> check[p].kept.revision, live |-> FALSE,
               age |-> check[p].at - check[p].kept.at, allowed |-> check[p].kept.allowed])
  /\ check' = [check EXCEPT ![p] = None]
  /\ UNCHANGED <<schema, loader, ready, graph, up, now, snapshot, write, own, overlapped>>

(* SpiceDB does not answer: the snapshot does, within the ceiling; past it  *)
(* the permission is refused.                                               *)
Degraded(p) ==
  /\ check[p] # None /\ ~up /\ check[p].kept # None
  /\ LET age == check[p].at - check[p].kept.at IN
     Reply(p, [revision |-> check[p].kept.revision, live |-> FALSE, age |-> age,
               allowed |-> check[p].kept.allowed /\ age <= Ceiling])
  /\ check' = [check EXCEPT ![p] = None]
  /\ UNCHANGED <<schema, loader, ready, graph, up, now, snapshot, write, own, overlapped>>

Throws(p) ==
  /\ check[p] # None /\ ~up /\ check[p].kept = None
  /\ check' = [check EXCEPT ![p] = None]
  /\ UNCHANGED <<schema, loader, ready, graph, up, now, snapshot, write, own, overlapped, answer>>

(* The permission is granted or withdrawn through a process.                *)
Write(p) ==
  /\ p \in ready /\ write[p] = 0 /\ up /\ Newest < MaxRevisions
  /\ graph' = Append(graph, ~graph[Newest]) /\ write' = [write EXCEPT ![p] = Newest + 1]
  /\ UNCHANGED <<schema, loader, ready, up, now, snapshot, check, own, overlapped, answer>>

(* Mutant: the snapshots are kept.                                          *)
WriteAnsweredKeeping(p) ==
  /\ write[p] # 0 /\ write' = [write EXCEPT ![p] = 0]
  /\ own' = [own EXCEPT ![p] = write[p]]
  /\ overlapped' = [overlapped EXCEPT ![p] = check[p] # None]
  /\ UNCHANGED <<schema, loader, ready, graph, up, now, snapshot, check, answer>>

WriteAnswered(p) ==
  /\ write[p] # 0 /\ write' = [write EXCEPT ![p] = 0]
  /\ snapshot' = [snapshot EXCEPT ![p] = None]
  /\ own' = [own EXCEPT ![p] = write[p]]
  /\ overlapped' = [overlapped EXCEPT ![p] = check[p] # None]
  /\ UNCHANGED <<schema, loader, ready, graph, up, now, check, answer>>

Next == Tick \/ Toggle \/ Attempt \/ \E p \in Process :
  RequireSchema(p) \/ BeginCheck(p) \/ BeginMany(p) \/ Explain(p) \/ Answered(p) \/ Degraded(p) \/ Throws(p) \/ Write(p) \/ WriteAnswered(p)
Spec == Init /\ [][Next]_vars

----------------------------------------------------------------------------
(* What a process has written it takes into account in every check that     *)
(* begins afterwards, unless a check was on its way when the write was      *)
(* answered; a list of checks is answered as of a time after it was asked;  *)
(* and an allowance given without SpiceDB rests on a snapshot that is not   *)
(* older than the ceiling.                                                  *)
FreshOrRefused ==
  \A p \in Process : LET a == answer[p] IN a # None =>
    /\ a.live /\ a.calm => a.revision >= a.after
    /\ a.live => a.revision >= a.began
    /\ ~a.live /\ a.allowed => a.age <= Ceiling

(* A loader that ends well leaves the release's schema in SpiceDB, whatever *)
(* became of its earlier attempts.                                          *)
LoadedIsThere == loader.at = "loaded" => schema

(* The same without the exception: a check that overlaps the write stores   *)
(* its older revision after the snapshots were emptied.                     *)
OwnWritesAreSeen ==
  \A p \in Process : LET a == answer[p] IN a # None => (a.live => a.revision >= a.after)
=============================================================================
