--------------------------- MODULE KeyCustodyProofs ---------------------------
(***************************************************************************)
(* Proofs about KeyCustody, for any requests, any number of failures, lost *)
(* answers, crashes, damaged copies and keys: the engine's current key is  *)
(* explained by the gateway's records, and what a restore puts back is the *)
(* recorded key.                                                           *)
(*                                                                         *)
(* The argument follows the ids.  An id is given to one candidate only, so *)
(* the candidate with the pending operation's id, or with the id of a      *)
(* commit that comes late, is the one that was recorded for it.            *)
(***************************************************************************)
EXTENDS KeyCustody, SequenceTheorems, FiniteSetTheorems, WellFoundedInduction, TLAPS

-------------------------------------------------------------------------------
(* The shape of the engine's files, when the keys made so far are 1..m.     *)

BytesOf(m) == 0..m \union {Altered}

CandidatesOf(m) ==
  [id : 1..m, kind : {"rotate", "restore"}, version : Version, sentinel : BytesOf(m) \ {0},
   expected : Nat, expired : BOOLEAN, copies : 0..2]

DisksOf(m) ==
  [current : 0..MaxVersion, versions : SUBSET Version, initial : BytesOf(m),
   candidate : CandidatesOf(m) \union {None},
   store : [Version -> BytesOf(m)], escrow : [Version -> BytesOf(m)]]

(* A candidate of a rotation is never one of the retained versions.         *)
Sound(d, m) ==
  /\ d \in DisksOf(m)
  /\ d.current \in d.versions \union {0}
  /\ d.current = 0 => d.versions = {} /\ d.candidate = None
  /\ d.candidate # None /\ d.candidate.kind = "rotate" => d.candidate.version \notin d.versions

-------------------------------------------------------------------------------
(* The inductive invariant *)

Writes == {"initialize", "rotate/prepare", "restore/prepare", "rotate/commit", "restore/commit"}
Prepares == {"rotate/prepare", "restore/prepare"}

Operations ==
  [kind : Kinds, version : Version, sentinel : Nat \union {Altered}, candidate : Nat,
   key : {r.key : r \in Request} \union {NoKey}, done : BOOLEAN]

HasPending == PendingOnes # {}

Changes == HasPending /\ Pending.kind # "restore"

RecordShape ==
  /\ current \in Recorded \union {0} /\ (current = 0 => Recorded = {})
  /\ verified \subseteq Recorded /\ project \in 0..MaxVersion
  /\ operations \in Seq(Operations)
  /\ \A i, j \in PendingOnes : i = j

(* Where a request is, there is a pending operation or there is none.       *)
CallShape ==
  /\ call \in [request : Request, at : Places, next : {"ok", "act"}, seen : Nat]
  /\ call.at \in {"status", "compare", "commit", "prepare", "recommit", "finish"} => HasPending
  /\ call.at \in {"act", "verify"} => ~HasPending
  /\ call.at \in {"commit", "prepare", "recommit"} => Pending.candidate # 0
  /\ call.at = "compare" /\ Changes /\ call.seen = Pending.version => disk.current = Pending.version
  /\ call.at = "finish" /\ Changes => disk.current = Pending.version

(* The engine, with the disk d, a late request l and the keys 1..m, against *)
(* the records: nothing but an initialization happens before the first key  *)
(* is recorded.                                                             *)
EngineShape(d, l, m) ==
  /\ m \in Nat /\ Sound(d, m)
  /\ l # None => l.name \in Writes /\ l.id \in 1..m
  /\ rows \in [Version -> BytesOf(m)]
  /\ HasPending => Pending.sentinel \in BytesOf(m) \ {0} /\ Pending.candidate \in 0..m

FirstThingsFirst(d) ==
  /\ d.candidate # None => current # 0
  /\ HasPending /\ Pending.kind # "initialize" => current # 0
  /\ HasPending /\ Pending.kind = "initialize" =>
       current = 0 /\ Pending.version = 1 /\ d.current = 1 /\ Pending.candidate = 0

(* What is about to be current is not recorded yet.                        *)
Explained(d) ==
  /\ d.current # current =>
       \/ d.current = 1 /\ Recorded = {}
       \/ Changes /\ Pending.version = d.current
  /\ project # current => Changes /\ Pending.version = project
  /\ Changes => Pending.version \notin Recorded
  /\ Changes /\ d.current = Pending.version =>
       /\ <<"store", d.current>> \notin damaged => d.store[d.current] = Pending.sentinel
       /\ <<"escrow", d.current>> \notin damaged => d.escrow[d.current] = Pending.sentinel

Candidacy(d, id) == d.candidate # None /\ d.candidate.id = id

(* A candidate with this id that a restore would put back is a recorded key. *)
Restorable(d, id) ==
  Candidacy(d, id) /\ d.candidate.kind = "restore" =>
    rows[d.candidate.version] = d.candidate.sentinel

(* The candidate with the id of the pending operation is what it records.   *)
PendingIsPrepared(d) ==
  /\ Changes /\ Candidacy(d, Pending.candidate) =>
       /\ d.candidate.kind = "rotate"
       /\ d.candidate.version = Pending.version
       /\ d.candidate.sentinel = Pending.sentinel
  /\ HasPending /\ Pending.kind = "restore" =>
       Restorable(d, Pending.candidate) /\ rows[Pending.version] = Pending.sentinel

(* A request that may be served now, or late.                               *)
Harmless(d, op) ==
  /\ op.name \in Writes /\ op.name # "initialize" => current # 0
  /\ op.name \in Prepares /\ HasPending => Pending.candidate # op.id
  /\ op.name = "restore/commit" => Restorable(d, op.id)
  /\ op.name = "rotate/commit" /\ Candidacy(d, op.id) => Changes /\ Pending.candidate = op.id

KeysMatch(d) ==
  \A v \in Recorded :
    /\ v \in d.versions
    /\ <<"store", v>> \notin damaged => d.store[v] = rows[v]
    /\ <<"escrow", v>> \notin damaged => d.escrow[v] = rows[v]

Fits(d, l, m) ==
  /\ EngineShape(d, l, m) /\ FirstThingsFirst(d) /\ Explained(d) /\ PendingIsPrepared(d)
  /\ l # None => Harmless(d, l)
  /\ KeysMatch(d)

IInv ==
  /\ Fits(disk, late, minted) /\ RecordShape /\ CallShape
  /\ lock \in {"free", "running", "abandoned"} /\ upsets \in 0..MaxUpsets

-------------------------------------------------------------------------------
(* What an operation leaves on disk *)

(* The current key, the retained versions and their bytes are as before.    *)
Same(d, e) ==
  /\ e.current = d.current /\ e.versions = d.versions
  /\ \A v \in d.versions : e.store[v] = d.store[v] /\ e.escrow[v] = d.escrow[v]

Unharmed(d, e) == Same(d, e) /\ e.candidate \in {d.candidate, None}

Founded(d, e) ==
  /\ d.current = 0
  /\ e.current = 1 /\ e.versions = {1} /\ e.candidate = None
  /\ e.store[1] # 0 /\ e.escrow[1] = e.store[1]

Prepared(d, e, id) ==
  /\ Same(d, e) /\ d.current # 0
  /\ e.candidate # None /\ e.candidate.id = id
  /\ e.candidate.sentinel # 0

PreparedRotation(d, e, id) ==
  /\ Prepared(d, e, id)
  /\ e.candidate.kind = "rotate" /\ e.candidate.version \notin d.versions

PreparedRestore(d, e, id) ==
  /\ Prepared(d, e, id)
  /\ e.candidate.kind = "restore" /\ e.candidate.version \in d.versions
  /\ e.candidate.sentinel = d.escrow[e.candidate.version]

Commits(d, id, kind) ==
  /\ d.candidate # None /\ d.candidate.id = id /\ d.candidate.kind = kind

Promoted(d, e, id) ==
  LET c == d.candidate
  IN  /\ Commits(d, id, "rotate")
      /\ e.current = c.version /\ e.versions = d.versions \union {c.version} /\ e.candidate = None
      /\ e.store[c.version] = c.sentinel /\ e.escrow[c.version] = c.sentinel
      /\ \A v \in d.versions : e.store[v] = d.store[v] /\ e.escrow[v] = d.escrow[v]

Returned(d, e, id) ==
  LET c == d.candidate
  IN  /\ Commits(d, id, "restore")
      /\ e.current = d.current /\ e.versions = d.versions /\ e.candidate \in {c, None}
      /\ \A v \in d.versions : e.escrow[v] = d.escrow[v]
      /\ \A v \in d.versions : e.store[v] = IF v = c.version THEN c.sentinel ELSE d.store[v]

Effect(d, e, op) ==
  \/ Unharmed(d, e)
  \/ op.name = "initialize" /\ Founded(d, e)
  \/ op.name = "rotate/prepare" /\ PreparedRotation(d, e, op.id)
  \/ op.name = "restore/prepare" /\ PreparedRestore(d, e, op.id)
  \/ op.name = "rotate/commit" /\ Promoted(d, e, op.id)
  \/ op.name = "restore/commit" /\ Returned(d, e, op.id)

(* More keys are no harm.                                                   *)
LEMMA SoundLater ==
  ASSUME NEW m \in Nat, NEW n \in Nat, m <= n, NEW d, Sound(d, m)
  PROVE  Sound(d, n)
<1>1. BytesOf(m) \subseteq BytesOf(n)
  BY DEF BytesOf
<1>2. CandidatesOf(m) \subseteq CandidatesOf(n)
  BY <1>1 DEF CandidatesOf
<1>3. d \in DisksOf(n)
  <2>1. d \in DisksOf(m)
    BY DEF Sound
  <2>2. [Version -> BytesOf(m)] \subseteq [Version -> BytesOf(n)]
    BY <1>1
  <2>3. QED
    BY <1>1, <1>2, <2>1, <2>2 DEF DisksOf
<1>4. QED
  BY <1>3 DEF Sound

(* Clearing an expired candidate touches no retained version.               *)
LEMMA CleanedDisk ==
  ASSUME NEW m \in Nat, NEW d, Sound(d, m)
  PROVE  Sound(Cleaned(d), m) /\ Unharmed(d, Cleaned(d))
<1> DEFINE c == d.candidate
           dropped == IF c.kind = "rotate" /\ c.version \notin d.versions THEN {c.version} ELSE {}
           Without(files) == [v \in Version |-> IF v \in dropped THEN 0 ELSE files[v]]
<1>1. CASE ~(c # None /\ c.expired)
  BY <1>1 DEF Cleaned, Unharmed, Same
<1>2. CASE c # None /\ c.expired
  <2>1. d \in DisksOf(m) /\ d.versions \subseteq Version
    BY DEF Sound, DisksOf
  <2>2. Cleaned(d) = [d EXCEPT !.candidate = None, !.store = Without(@), !.escrow = Without(@)]
    BY <1>2 DEF Cleaned
  <2>3. dropped \intersect d.versions = {}
    OBVIOUS
  <2>4. /\ Without(d.store) \in [Version -> BytesOf(m)]
        /\ Without(d.escrow) \in [Version -> BytesOf(m)]
    BY <2>1 DEF DisksOf, BytesOf
  <2>5. \A v \in d.versions : Without(d.store)[v] = d.store[v] /\ Without(d.escrow)[v] = d.escrow[v]
    BY <2>1, <2>3
  <2> DEFINE store == Without(d.store)
             escrow == Without(d.escrow)
  <2>6. Cleaned(d) = [d EXCEPT !.candidate = None, !.store = store, !.escrow = escrow]
    BY <2>2
  <2> HIDE DEF store, escrow
  <2>7. Cleaned(d) \in DisksOf(m)
    BY <2>1, <2>4, <2>6 DEF DisksOf, store, escrow
  <2>8. /\ Cleaned(d).current = d.current /\ Cleaned(d).versions = d.versions
        /\ Cleaned(d).candidate = None /\ Cleaned(d).store = store /\ Cleaned(d).escrow = escrow
    BY <2>1, <2>6 DEF DisksOf
  <2>9. QED
    BY <2>5, <2>7, <2>8 DEF Sound, Unharmed, Same, store, escrow
<1>3. QED
  BY <1>1, <1>2

-------------------------------------------------------------------------------
(* The writes up to the one that was reached, one by one.                   *)
Reaches(run, disks, reached, answer) ==
  /\ Len(run.path) = reached
  /\ \A i \in 1..reached : run.path[i] = disks[i]
  /\ disks[reached] \in Range(run.path)
  /\ \A e \in Range(run.path) : \E i \in 1..reached : e = disks[i]
  /\ run.answer = IF reached = Len(disks) THEN answer ELSE Failed

LEMMA StagesOf ==
  ASSUME NEW S, NEW disks \in Seq(S), NEW reached \in 1..Len(disks), NEW answer
  PROVE  Reaches(Stages(disks, reached, answer), disks, reached, answer)
<1> DEFINE run == Stages(disks, reached, answer)
<1>1. Len(disks) \in Nat /\ \A i \in 1..reached : disks[i] \in S
  BY LenProperties
<1>2. run.path = SubSeq(disks, 1, reached) /\ run.answer = IF reached = Len(disks) THEN answer ELSE Failed
  BY DEF Stages
<1> HIDE DEF run
<1>3. /\ run.path \in Seq(S) /\ Len(run.path) = reached
      /\ \A i \in 1..reached : run.path[i] = disks[i]
  BY <1>1, <1>2, SubSeqProperties
<1>4. DOMAIN run.path = 1..reached
  BY <1>3, LenProperties
<1>5. /\ disks[reached] \in Range(run.path)
      /\ \A e \in Range(run.path) : \E i \in 1..reached : e = disks[i]
  BY <1>3, <1>4 DEF Range
<1>6. QED
  BY <1>1, <1>2, <1>3, <1>5 DEF run, Reaches

(* An operation that refuses writes nothing but what the clearing wrote.    *)
LEMMA RefusedAt ==
  ASSUME NEW d, NEW answer, NEW run, run = Refuses(d, answer)
  PROVE  /\ Len(run.path) = 1
         /\ run.path[1] = d /\ run.path[Len(run.path)] = d /\ Range(run.path) = {d}
         /\ run.answer = answer
BY DEF Refuses, Range

(* A path starts with the disk the operation found and ends with a disk of  *)
(* the path.                                                               *)
WellFormed(run, d) ==
  /\ Len(run.path) \in Nat \ {0}
  /\ run.path[1] = d
  /\ run.path[Len(run.path)] \in Range(run.path)
  /\ Len(run.path) = 1 => Range(run.path) = {d}

(* The writes of the first key.                                             *)
LEMMA FirstKeyLeaves ==
  ASSUME NEW m \in Nat, NEW key \in 1..m, NEW d, Sound(d, m), d.current = 0,
         NEW run, run = FirstKey(d, key)
  PROVE  /\ WellFormed(run, d)
         /\ \A e \in Range(run.path) : Sound(e, m) /\ (Unharmed(d, e) \/ Founded(d, e))
         /\ run.answer.is = "ok" =>
              LET e == run.path[Len(run.path)]
              IN  /\ Founded(d, e)
                  /\ run.answer = Ok(1, e.store[1], 0)
<1> DEFINE kept == d.store[1] # 0
           written == IF kept THEN d ELSE [d EXCEPT !.store[1] = key]
           expected == written.store[1]
           noted == [written EXCEPT !.initial = expected]
           copied == IF noted.escrow[1] # 0 THEN noted ELSE [noted EXCEPT !.escrow[1] = expected]
           done == [copied EXCEPT !.current = 1, !.versions = {1}]
           reached == CASE ~kept /\ (d.initial # 0 \/ d.escrow[1] # 0) -> 1
                        [] written.initial \notin {0, expected} -> 2
                        [] copied.escrow[1] # expected -> 4
                        [] OTHER -> 5
<1>1. run = Stages(<<d, written, noted, copied, done>>, reached, Ok(1, expected, 0))
  BY DEF FirstKey
<1>2. /\ d \in DisksOf(m) /\ d.versions = {} /\ d.candidate = None
      /\ 1 \in Version /\ MaxVersion \in Nat \ {0}
  BY CustodyAssumption DEF Sound, Version
<1> DEFINE Rest(e) == /\ e \in DisksOf(m)
                      /\ e.current = 0 /\ e.versions = {} /\ e.candidate = None
<1>3. Rest(written) /\ expected \in BytesOf(m) \ {0}
  BY <1>2 DEF DisksOf, BytesOf
<1>4. Rest(noted) /\ noted.store[1] = expected
  <2> HIDE DEF written
  <2>1. QED
    BY <1>3 DEF DisksOf
<1>5. Rest(copied) /\ copied.store[1] = expected
  <2> HIDE DEF noted, expected
  <2>1. QED
    BY <1>2, <1>3, <1>4 DEF DisksOf
<1>6. /\ done \in DisksOf(m)
      /\ done.current = 1 /\ done.versions = {1} /\ done.candidate = None
      /\ done.store = copied.store /\ done.escrow = copied.escrow
  <2> HIDE DEF copied, reached
  <2>1. {1} \in SUBSET Version /\ 1 \in 0..MaxVersion
    BY <1>2
  <2>2. done \in DisksOf(m)
    BY <1>5, <2>1 DEF DisksOf
  <2>3. QED
    BY <1>5, <2>2 DEF DisksOf
<1>7. reached \in {1, 2, 4, 5} /\ (reached = 5 => copied.escrow[1] = expected)
  OBVIOUS
<1>r. Rest(d)
  BY <1>2
<1> DEFINE disks == <<d, written, noted, copied, done>>
       good == Ok(1, expected, 0)
<1> HIDE DEF written, noted, copied, done, expected, reached, Rest
<1>8. disks \in Seq(DisksOf(m)) /\ Len(disks) = 5
  BY <1>2, <1>3, <1>4, <1>5, <1>6 DEF Rest
<1>9. /\ disks[1] = d /\ disks[2] = written /\ disks[3] = noted /\ disks[4] = copied /\ disks[5] = done
  OBVIOUS
<1>s. run = Stages(disks, reached, good)
  BY <1>1
<1> HIDE DEF disks, good
<1>10. /\ Len(run.path) = reached /\ run.path[1] = d
       /\ run.path[Len(run.path)] = disks[reached]
       /\ disks[reached] \in Range(run.path)
       /\ \A e \in Range(run.path) : \E i \in 1..reached : e = disks[i]
       /\ run.answer = IF reached = 5 THEN good ELSE Failed
  <2>1. reached \in 1..Len(disks)
    BY <1>7, <1>8
  <2>2. Reaches(run, disks, reached, good)
    BY <1>s, <1>8, <2>1, StagesOf
  <2>3. QED
    BY <1>7, <1>8, <1>9, <2>2 DEF Reaches
<1>11. ASSUME NEW e, Rest(e) PROVE Sound(e, m) /\ Unharmed(d, e)
  BY <1>2, <1>11 DEF Rest, Sound, Unharmed, Same
<1>12. \A i \in 1..4 : Rest(disks[i])
  BY <1>r, <1>3, <1>4, <1>5, <1>9
<1>13. reached = 5 => Sound(done, m) /\ Founded(d, done) /\ done.store[1] = expected
  BY <1>3, <1>5, <1>6, <1>7 DEF Sound, Founded
<1>14. \A i \in 1..reached : Sound(disks[i], m) /\ (Unharmed(d, disks[i]) \/ Founded(d, disks[i]))
  BY <1>7, <1>9, <1>11, <1>12, <1>13
<1>15. WellFormed(run, d)
  BY <1>7, <1>9, <1>10 DEF WellFormed
<1>16. run.answer.is = "ok" => reached = 5
  BY <1>10 DEF Failed, Answer
<1>17. QED
  BY <1>9, <1>10, <1>13, <1>14, <1>15, <1>16 DEF good

(* The writes of a prepare.                                                 *)
PreparesOnly(run, d, m, kind, v, key, id) ==
  /\ WellFormed(run, d) /\ Len(run.path) = 4
  /\ \A e \in Range(run.path) :
       /\ Within(e) => Sound(e, m)
       /\ \/ e = d
          \/ /\ Prepared(d, e, id)
             /\ e.candidate.kind = kind /\ e.candidate.version = v
             /\ e.candidate.sentinel = key
  /\ run.answer.is = "ok" =>
       LET e == run.path[Len(run.path)]
       IN  /\ Prepared(d, e, id)
           /\ e.candidate.kind = kind /\ e.candidate.version = v
           /\ e.candidate.sentinel = key
           /\ run.answer = Ok(v, key, id)

LEMMA StagedLeaves ==
  ASSUME NEW m \in Nat, NEW id \in 1..m, NEW d, Sound(d, m), d.current # 0, d.candidate = None,
         NEW v \in Nat \ {0}, NEW key \in BytesOf(m) \ {0}, NEW kind \in {"rotate", "restore"},
         kind = "rotate" => v \notin d.versions
  PROVE  PreparesOnly(Staged(d, kind, v, key, id), d, m, kind, v, key, id)
<1> DEFINE run == Staged(d, kind, v, key, id)
<1> DEFINE c == [id |-> id, kind |-> kind, version |-> v, sentinel |-> key,
                 expected |-> d.current, expired |-> FALSE, copies |-> 0]
           Copied(n) == [c EXCEPT !.copies = n]
           With(n) == [d EXCEPT !.candidate = Copied(n)]
           disks == <<d, With(0), With(1), With(2)>>
           good == Ok(v, key, id)
<1>1. run = Stages(disks, 4, good)
  BY DEF Staged
<1> HIDE DEF run
<1>2. d \in DisksOf(m) /\ d.current \in Nat
  BY DEF Sound, DisksOf
<1>3. ASSUME NEW n \in 0..2
      PROVE  /\ Copied(n).id = id /\ Copied(n).kind = kind /\ Copied(n).version = v
             /\ Copied(n).sentinel = key /\ ~Copied(n).expired
             /\ Copied(n) # None
             /\ v <= MaxVersion => Copied(n) \in CandidatesOf(m)
  <2>1. /\ id \in Nat /\ key \in Nat \union {Altered} /\ n \in Nat /\ d.current \in Nat
        /\ v <= MaxVersion => v \in Version
    BY <1>2, CustodyAssumption DEF BytesOf, Version
  <2>2. Copied(n) \in [id : Nat, kind : {"rotate", "restore"}, version : Nat,
                       sentinel : Nat \union {Altered}, expected : Nat, expired : BOOLEAN, copies : Nat]
    BY <2>1
  <2>3. Copied(n) # None
    BY <2>2, NoneIsNoCandidate
  <2>4. v \in Version => Copied(n) \in CandidatesOf(m)
    BY <1>2 DEF CandidatesOf
  <2>5. /\ Copied(n).id = id /\ Copied(n).kind = kind /\ Copied(n).version = v
        /\ Copied(n).sentinel = key /\ ~Copied(n).expired
    OBVIOUS
  <2>6. QED
    BY <2>1, <2>3, <2>4, <2>5
<1> HIDE DEF c, Copied
<1>4. ASSUME NEW n \in 0..2
      PROVE  /\ With(n).current = d.current /\ With(n).versions = d.versions
             /\ With(n).initial = d.initial
             /\ With(n).store = d.store /\ With(n).escrow = d.escrow
             /\ With(n).candidate = Copied(n)
             /\ Copied(n) \in CandidatesOf(m) \union {None} => With(n) \in DisksOf(m)
  BY <1>2 DEF DisksOf
<1> DEFINE T == {d, With(0), With(1), With(2)}
<1>5. disks \in Seq(T) /\ Len(disks) = 4
  <2> HIDE DEF With
  <2>1. QED
    OBVIOUS
<1>6. disks[1] = d /\ disks[2] = With(0) /\ disks[3] = With(1) /\ disks[4] = With(2)
  <2> HIDE DEF With
  <2>1. QED
    OBVIOUS
<1> HIDE DEF With, disks, good, T
<1>7. Reaches(run, disks, 4, good)
  <2>1. 4 \in 1..Len(disks)
    BY <1>5
  <2>2. QED
    BY <1>1, <1>5, <2>1, StagesOf
<1>8. \A i \in 1..4 : disks[i] = d \/ \E n \in 0..2 : disks[i] = With(n)
  <2>1. \A i \in 1..4 : i = 1 \/ i = 2 \/ i = 3 \/ i = 4
    OBVIOUS
  <2>2. QED
    BY <1>6, <2>1
<1>9. ASSUME NEW n \in 0..2
      PROVE  /\ Within(With(n)) => Sound(With(n), m)
             /\ Prepared(d, With(n), id)
             /\ With(n).candidate.kind = kind /\ With(n).candidate.version = v
             /\ With(n).candidate.sentinel = key
  BY <1>3, <1>4 DEF Sound, Prepared, Same, Within
<1>10. WellFormed(run, d) /\ Len(run.path) = 4
  BY <1>6, <1>7 DEF WellFormed, Reaches
<1>11. \A e \in Range(run.path) : e = d \/ \E n \in 0..2 : e = With(n)
  BY <1>7, <1>8 DEF Reaches
<1>12. run.path[Len(run.path)] = With(2) /\ run.answer = good
  BY <1>5, <1>6, <1>7 DEF Reaches
<1>13. QED
  BY <1>9, <1>10, <1>11, <1>12 DEF good, run, PreparesOnly

(* The writes that make a candidate current.                                *)
LEMMA PromoteLeaves ==
  ASSUME NEW m \in Nat, NEW d, Sound(d, m), NEW c, c = d.candidate, c # None, c.kind = "rotate",
         NEW run, run = Promote(d, c)
  PROVE  /\ WellFormed(run, d)
         /\ \A e \in Range(run.path) : Sound(e, m) /\ (Unharmed(d, e) \/ Promoted(d, e, c.id))
         /\ run.answer.is = "ok" =>
              /\ Promoted(d, run.path[Len(run.path)], c.id)
              /\ run.answer = Ok(c.version, c.sentinel, 0)
<1> DEFINE stored == [d EXCEPT !.store[c.version] = c.sentinel]
           copied == [stored EXCEPT !.escrow[c.version] = c.sentinel]
           done == [copied EXCEPT !.current = c.version, !.candidate = None,
                                  !.versions = @ \union {c.version}]
           reached == CASE d.store[c.version] \notin {0, c.sentinel} -> 1
                        [] d.escrow[c.version] \notin {0, c.sentinel} -> 2
                        [] OTHER -> 4
           disks == <<d, stored, copied, done>>
           good == Ok(c.version, c.sentinel, 0)
<1>1. run = Stages(disks, reached, good)
  BY DEF Promote
<1>2. /\ d \in DisksOf(m) /\ c \in CandidatesOf(m)
      /\ c.version \in Version /\ c.sentinel \in BytesOf(m) /\ c.version \notin d.versions
      /\ c.version \in 1..MaxVersion /\ d.versions \subseteq Version
  BY DEF Sound, DisksOf, CandidatesOf, Version
<1> DEFINE Rest(e) == /\ e \in DisksOf(m)
                      /\ e.current = d.current /\ e.versions = d.versions /\ e.candidate = c
                      /\ \A v \in d.versions : e.store[v] = d.store[v] /\ e.escrow[v] = d.escrow[v]
<1>3. Rest(d)
  BY <1>2
<1>4. Rest(stored) /\ stored.store[c.version] = c.sentinel
  BY <1>2 DEF DisksOf
<1>5. Rest(copied) /\ copied.store = stored.store /\ copied.escrow[c.version] = c.sentinel
  <2> HIDE DEF stored
  <2>1. copied \in DisksOf(m) /\ copied.store = stored.store /\ copied.candidate = stored.candidate
        /\ copied.current = stored.current /\ copied.versions = stored.versions
    BY <1>2, <1>4 DEF DisksOf
  <2>2. \A v \in Version : copied.escrow[v] = IF v = c.version THEN c.sentinel ELSE stored.escrow[v]
    BY <1>2, <1>4 DEF DisksOf
  <2> HIDE DEF copied
  <2>3. QED
    BY <1>2, <1>4, <2>1, <2>2
<1>6. /\ done \in DisksOf(m)
      /\ done.current = c.version /\ done.versions = d.versions \union {c.version}
      /\ done.candidate = None
      /\ done.store = copied.store /\ done.escrow = copied.escrow
  <2> HIDE DEF copied
  <2>1. d.versions \union {c.version} \in SUBSET Version /\ c.version \in 0..MaxVersion
    BY <1>2
  <2>2. /\ done.current = c.version /\ done.versions = d.versions \union {c.version}
        /\ done.candidate = None
        /\ done.store = copied.store /\ done.escrow = copied.escrow
    BY <1>5 DEF DisksOf
  <2>3. done = [copied EXCEPT !.current = c.version, !.candidate = None,
                              !.versions = d.versions \union {c.version}]
    BY <1>5
  <2>4. done \in DisksOf(m)
    BY <1>5, <2>1, <2>3 DEF DisksOf
  <2>5. QED
    BY <2>2, <2>4
<1>7. reached \in {1, 2, 4}
  OBVIOUS
<1> HIDE DEF stored, copied, done, reached, good, Rest
<1> DEFINE T == {d, stored, copied, done}
<1>8. disks \in Seq(T) /\ Len(disks) = 4
  OBVIOUS
<1>9. /\ disks[1] = d /\ disks[2] = stored /\ disks[3] = copied /\ disks[4] = done
  OBVIOUS
<1> HIDE DEF disks, T
<1>10. Reaches(run, disks, reached, good)
  <2>1. reached \in 1..Len(disks)
    BY <1>7, <1>8
  <2>2. QED
    BY <1>1, <1>8, <2>1, StagesOf
<1>11. ASSUME NEW e, Rest(e) PROVE Sound(e, m) /\ Unharmed(d, e)
  BY <1>2, <1>11 DEF Rest, Sound, Unharmed, Same
<1>12. Sound(done, m)
  BY <1>2, <1>6 DEF Sound, Version
<1>13. Promoted(d, done, c.id)
  BY <1>2, <1>4, <1>5, <1>6 DEF Promoted, Commits, Rest
<1>14. \A i \in 1..reached : Sound(disks[i], m) /\ (Unharmed(d, disks[i]) \/ Promoted(d, disks[i], c.id))
  <2>1. \A i \in 1..reached : i = 1 \/ i = 2 \/ i = 3 \/ i = 4
    BY <1>7
  <2>2. QED
    BY <1>3, <1>4, <1>5, <1>9, <1>11, <1>12, <1>13, <2>1
<1>15. WellFormed(run, d)
  BY <1>7, <1>9, <1>10 DEF WellFormed, Reaches
<1>16. run.answer.is = "ok" => reached = 4
  BY <1>8, <1>10 DEF Failed, Answer, Reaches
<1>17. QED
  BY <1>9, <1>10, <1>8, <1>13, <1>14, <1>15, <1>16 DEF good, Reaches

(* The writes that put a retained key back.                                 *)
LEMMA PutBackLeaves ==
  ASSUME NEW m \in Nat, NEW d, Sound(d, m), NEW c, c = d.candidate, c # None, c.kind = "restore",
         NEW run, run = PutBack(d, c)
  PROVE  /\ WellFormed(run, d)
         /\ \A e \in Range(run.path) : Sound(e, m) /\ (Unharmed(d, e) \/ Returned(d, e, c.id))
         /\ run.answer.is = "ok" => run.answer = Ok(c.version, c.sentinel, 0)
<1> DEFINE stored == [d EXCEPT !.store[c.version] = c.sentinel]
           done == [stored EXCEPT !.candidate = None]
           disks == <<d, stored, done>>
           good == Ok(c.version, c.sentinel, 0)
<1>1. run = Stages(disks, 3, good)
  BY DEF PutBack
<1>2. /\ d \in DisksOf(m) /\ c \in CandidatesOf(m)
      /\ c.version \in Version /\ c.sentinel \in BytesOf(m)
      /\ d.versions \subseteq Version
  BY DEF Sound, DisksOf, CandidatesOf, Version
<1> DEFINE Rest(e) == /\ e \in DisksOf(m)
                      /\ e.current = d.current /\ e.versions = d.versions
                      /\ e.candidate \in {c, None} /\ e.escrow = d.escrow
                      /\ \A v \in d.versions : e.store[v] = IF v = c.version THEN c.sentinel ELSE d.store[v]
<1>3. Rest(stored) /\ stored.candidate = c
  BY <1>2 DEF DisksOf
<1>4. Rest(done)
  <2> HIDE DEF stored
  <2>1. /\ done \in DisksOf(m) /\ done.current = stored.current /\ done.versions = stored.versions
        /\ done.candidate = None /\ done.escrow = stored.escrow /\ done.store = stored.store
    BY <1>3 DEF DisksOf
  <2>2. QED
    BY <1>3, <2>1
<1> HIDE DEF stored, done, good, Rest
<1> DEFINE T == {d, stored, done}
<1>5. disks \in Seq(T) /\ Len(disks) = 3
  OBVIOUS
<1>6. /\ disks[1] = d /\ disks[2] = stored /\ disks[3] = done
  OBVIOUS
<1> HIDE DEF disks, T
<1>7. Reaches(run, disks, 3, good)
  <2>1. 3 \in 1..Len(disks)
    BY <1>5
  <2>2. QED
    BY <1>1, <1>5, <2>1, StagesOf
<1>8. ASSUME NEW e, Rest(e) PROVE Sound(e, m) /\ Returned(d, e, c.id)
  BY <1>2, <1>8 DEF Rest, Sound, Returned, Commits
<1>9. Unharmed(d, d)
  BY DEF Unharmed, Same
<1>10. \A i \in 1..3 : Sound(disks[i], m) /\ (Unharmed(d, disks[i]) \/ Returned(d, disks[i], c.id))
  <2>1. \A i \in 1..3 : i = 1 \/ i = 2 \/ i = 3
    OBVIOUS
  <2>2. QED
    BY <1>3, <1>4, <1>6, <1>8, <1>9, <2>1
<1>11. WellFormed(run, d) /\ run.answer = good
  BY <1>5, <1>6, <1>7 DEF WellFormed, Reaches
<1>12. QED
  BY <1>7, <1>10, <1>11 DEF good, Reaches

(* The natural numbers are well-founded.                                   *)
LEMMA LeastExists ==
  ASSUME NEW S \in SUBSET Nat, S # {}
  PROVE  \E x \in S : \A y \in S : x <= y
<1> DEFINE before == {p \in Nat \X Nat : p[1] < p[2]}
<1>1. IsWellFoundedOn(before, Nat)
  <2>1. before = OpToRel(<, Nat)
    BY DEF OpToRel
  <2>2. QED
    BY <2>1, NatLessThanWellFounded
<1>2. \E x \in S : \A y \in S : ~(<<y, x>> \in before)
  BY <1>1, WFMin
<1>3. \A x, y \in Nat : y < x => <<y, x>> \in before
  OBVIOUS
<1> HIDE DEF before
<1>4. \A x, y \in Nat : ~(y < x) => x <= y
  OBVIOUS
<1>5. QED
  BY <1>2, <1>3, <1>4

(* A rotation is for a version that is not retained.                        *)
LEMMA NextVersion ==
  ASSUME NEW S \in SUBSET Version, S # {}
  PROVE  Max(S) + 1 \in Nat \ {0} /\ Max(S) + 1 \notin S
<1> DEFINE mirror == {MaxVersion - x : x \in S}
<1>1. MaxVersion \in Nat /\ \A x \in S : x \in 1..MaxVersion /\ MaxVersion - x \in Nat
  BY CustodyAssumption DEF Version
<1>2. mirror \in SUBSET Nat /\ mirror # {}
  BY <1>1
<1>3. PICK x \in mirror : \A y \in mirror : x <= y
  BY <1>2, LeastExists
<1>4. PICK z \in S : x = MaxVersion - z
  BY <1>3
<1>5. \A y \in S : z >= y
  <2>1. \A y \in S : MaxVersion - z <= MaxVersion - y
    BY <1>3, <1>4
  <2>2. QED
    BY <1>1, <2>1
<1>6. Max(S) \in S /\ \A y \in S : Max(S) >= y
  BY <1>5 DEF Max
<1>7. QED
  BY <1>1, <1>6

-------------------------------------------------------------------------------
(* What an operation answers *)

Answers(d, e, op, a) ==
  /\ op.name \in Reads => Unharmed(d, e)
  /\ op.name = "status" => a.version = d.current
  /\ op.name = "initialize" =>
       /\ Unharmed(d, e) \/ Founded(d, e)
       /\ a.version = e.current /\ a.version # 0 /\ a.id = 0
       /\ a.sentinel = e.store[e.current] /\ a.sentinel = e.escrow[e.current] /\ a.sentinel # 0
  /\ op.name = "rotate/prepare" => PreparedRotation(d, e, op.id) /\ d.current = op.version
  /\ op.name = "restore/prepare" => PreparedRestore(d, e, op.id)
  /\ op.name \in Prepares =>
       a.version = e.candidate.version /\ a.sentinel = e.candidate.sentinel /\ a.id = op.id
  /\ op.name = "rotate/commit" =>
       /\ Promoted(d, e, op.id)
       /\ a.version = d.candidate.version /\ a.sentinel = d.candidate.sentinel

(* What an operation does to the disk it starts on.                         *)
Behaves(run, d, op, m) ==
  /\ WellFormed(run, d)
  /\ \A e \in Range(run.path) :
       /\ Within(e) => Sound(e, m)
       /\ Effect(d, e, op)
  /\ run.answer.is = "ok" =>
       /\ Answers(d, run.path[Len(run.path)], op, run.answer)
       /\ op.name \in Prepares => Len(run.path) > 1

(* A refusal behaves.                                                       *)
LEMMA RefusalBehaves ==
  ASSUME NEW m \in Nat, NEW d, Sound(d, m), NEW op, NEW answer, answer.is # "ok"
  PROVE  Behaves(Refuses(d, answer), d, op, m)
<1> DEFINE run == Refuses(d, answer)
<1>1. Unharmed(d, d)
  BY DEF Unharmed, Same
<1>2. /\ Len(run.path) = 1
      /\ run.path[1] = d /\ Range(run.path) = {d}
      /\ run.answer = answer
  BY RefusedAt
<1> HIDE DEF run
<1>3. WellFormed(run, d)
  BY <1>2 DEF WellFormed
<1>4. \A e \in Range(run.path) : Sound(e, m) /\ Effect(d, e, op)
  BY <1>1, <1>2 DEF Effect
<1>5. Behaves(run, d, op, m)
  BY <1>2, <1>3, <1>4 DEF Behaves
<1>6. QED
  BY <1>5 DEF run

(* So does an answer that leaves the disk as it is.                         *)
LEMMA ReadBehaves ==
  ASSUME NEW m \in Nat, NEW d, Sound(d, m), NEW op, NEW answer, Answers(d, d, op, answer),
         op.name \notin Prepares
  PROVE  Behaves(Refuses(d, answer), d, op, m)
<1> DEFINE run == Refuses(d, answer)
<1>1. Unharmed(d, d)
  BY DEF Unharmed, Same
<1>2. /\ Len(run.path) = 1
      /\ run.path[1] = d /\ Range(run.path) = {d}
      /\ run.answer = answer
  BY RefusedAt
<1> HIDE DEF run
<1>3. WellFormed(run, d)
  BY <1>2 DEF WellFormed
<1>4. \A e \in Range(run.path) : Sound(e, m) /\ Effect(d, e, op)
  BY <1>1, <1>2 DEF Effect
<1>5. Behaves(run, d, op, m)
  BY <1>2, <1>3, <1>4 DEF Behaves
<1>6. QED
  BY <1>5 DEF run

LEMMA InitializeBehaves ==
  ASSUME NEW m \in Nat, NEW d, Sound(d, m), NEW op, op.name = "initialize", op.id \in 1..m
  PROVE  Behaves(Initialize(d, op.id), d, op, m)
<1>1. CASE d.current = 0
  <2> DEFINE run == FirstKey(d, op.id)
  <2>1. Initialize(d, op.id) = run
    BY <1>1 DEF Initialize
  <2>2. PICK key \in 1..m : key = op.id
    OBVIOUS
  <2>3. run = FirstKey(d, key)
    BY <2>2
  <2> HIDE DEF run
  <2>4. /\ WellFormed(run, d)
        /\ \A e \in Range(run.path) : Sound(e, m) /\ (Unharmed(d, e) \/ Founded(d, e))
        /\ run.answer.is = "ok" =>
              LET e == run.path[Len(run.path)]
              IN  /\ Founded(d, e)
                  /\ run.answer = Ok(1, e.store[1], 0)
    BY <1>1, <2>3, FirstKeyLeaves
  <2>5. \A e \in Range(run.path) : Sound(e, m) /\ Effect(d, e, op)
    BY <2>4 DEF Effect
  <2>6. ASSUME run.answer.is = "ok" PROVE Answers(d, run.path[Len(run.path)], op, run.answer)
    BY <2>4, <2>6 DEF Answers, Founded, Ok, Answer, Reads, Prepares
  <2>7. QED
    BY <2>1, <2>4, <2>5, <2>6 DEF Behaves, Prepares
<1>2. CASE d.current # 0
  <2> DEFINE v == d.current
             answer == IF d.store[v] # 0 /\ d.escrow[v] = d.store[v] THEN Ok(v, d.store[v], 0) ELSE Failed
  <2>1. Initialize(d, op.id) = Refuses(d, answer)
    BY <1>2 DEF Initialize
  <2>2. Unharmed(d, d)
    BY DEF Unharmed, Same
  <2>3. answer.is = "ok" => Answers(d, d, op, answer)
    BY <1>2, <2>2 DEF Answers, Ok, Failed, Answer, Reads, Prepares
  <2> DEFINE run == Refuses(d, answer)
  <2>4. /\ Len(run.path) = 1
        /\ run.path[1] = d /\ Range(run.path) = {d}
        /\ run.answer = answer
    BY RefusedAt
  <2> HIDE DEF answer, run
  <2>5. Behaves(run, d, op, m)
    BY <2>2, <2>3, <2>4 DEF Behaves, WellFormed, Effect, Prepares
  <2>6. QED
    BY <2>1, <2>5 DEF run
<1>3. QED
  BY <1>1, <1>2

LEMMA PreparesBehave ==
  ASSUME NEW m \in Nat, NEW d, Sound(d, m), NEW op, op.name \in Prepares, op.id \in 1..m
  PROVE  /\ op.name = "rotate/prepare" => Behaves(RotatePrepare(d, op.version, op.id), d, op, m)
         /\ op.name = "restore/prepare" => Behaves(RestorePrepare(d, op.version, op.id), d, op, m)
<1>1. PICK id \in 1..m : id = op.id
  OBVIOUS
<1>2. /\ d \in DisksOf(m) /\ d.versions \in SUBSET Version
      /\ d.current # 0 => d.versions # {}
      /\ Conflict.is # "ok" /\ Failed.is # "ok"
      /\ id \in BytesOf(m) \ {0}
  BY DEF Sound, DisksOf, Conflict, Failed, Answer, BytesOf
<1>3. ASSUME NEW kind \in {"rotate", "restore"}, NEW v \in Nat \ {0}, NEW key \in BytesOf(m) \ {0},
             d.current # 0, d.candidate = None,
             kind = "rotate" => v \notin d.versions /\ op.name = "rotate/prepare" /\ op.version = d.current,
             kind = "restore" => v \in d.versions /\ op.name = "restore/prepare" /\ key = d.escrow[v]
      PROVE  Behaves(Staged(d, kind, v, key, op.id), d, op, m)
  <2> DEFINE run == Staged(d, kind, v, key, id)
  <2>1. run = Staged(d, kind, v, key, op.id)
    BY <1>1
  <2>2. PreparesOnly(run, d, m, kind, v, key, id)
    BY <1>3, StagedLeaves
  <2> HIDE DEF run
  <2>3. Unharmed(d, d)
    BY DEF Unharmed, Same
  <2>4. \A e \in Range(run.path) : Effect(d, e, op)
    BY <1>1, <1>3, <2>2, <2>3 DEF Effect, PreparedRotation, PreparedRestore, PreparesOnly
  <2>5. ASSUME run.answer.is = "ok" PROVE Answers(d, run.path[Len(run.path)], op, run.answer)
    BY <1>1, <1>3, <2>2, <2>5 DEF PreparesOnly, Answers, PreparedRotation, PreparedRestore, Ok, Answer, Reads, Prepares
  <2>6. QED
    BY <2>1, <2>2, <2>4, <2>5 DEF Behaves, PreparesOnly
<1>4. ASSUME op.name = "rotate/prepare" PROVE Behaves(RotatePrepare(d, op.version, op.id), d, op, m)
  <2>1. CASE d.current = 0 \/ op.version # d.current \/ d.candidate # None
    BY <1>2, <2>1, RefusalBehaves DEF RotatePrepare
  <2>2. CASE ~(d.current = 0 \/ op.version # d.current \/ d.candidate # None)
    <3> DEFINE v == Max(d.versions) + 1
    <3>1. v \in Nat \ {0} /\ v \notin d.versions
      BY <1>2, <2>2, NextVersion
    <3>2. RotatePrepare(d, op.version, op.id) = Staged(d, "rotate", v, id, op.id)
      BY <1>1, <2>2 DEF RotatePrepare
    <3> HIDE DEF v
    <3>3. QED
      BY <1>2, <1>3, <1>4, <2>2, <3>1, <3>2
  <2>3. QED
    BY <2>1, <2>2
<1>5. ASSUME op.name = "restore/prepare" PROVE Behaves(RestorePrepare(d, op.version, op.id), d, op, m)
  <2>1. CASE op.version \notin d.versions \/ d.candidate # None \/ d.escrow[op.version] = 0
    BY <1>2, <2>1, RefusalBehaves DEF RestorePrepare
  <2>2. CASE ~(op.version \notin d.versions \/ d.candidate # None \/ d.escrow[op.version] = 0)
    <3>1. PICK v \in d.versions : v = op.version
      BY <2>2
    <3>2. v \in Version /\ v \in Nat \ {0} /\ d.current # 0
      BY <1>2, <3>1, CustodyAssumption DEF Version, Sound
    <3>3. PICK key \in BytesOf(m) \ {0} : key = d.escrow[v]
      BY <1>2, <2>2, <3>1, <3>2 DEF DisksOf
    <3>4. RestorePrepare(d, op.version, op.id) = Staged(d, "restore", v, key, op.id)
      BY <2>2, <3>1, <3>3 DEF RestorePrepare
    <3>5. QED
      BY <1>3, <1>5, <2>2, <3>2, <3>3, <3>4
  <2>3. QED
    BY <2>1, <2>2
<1>6. QED
  BY <1>4, <1>5

LEMMA CommitsBehave ==
  ASSUME NEW m \in Nat, NEW d, Sound(d, m), NEW op
  PROVE  /\ op.name = "rotate/commit" => Behaves(Commit(d, "rotate", op.id), d, op, m)
         /\ op.name = "restore/commit" => Behaves(Commit(d, "restore", op.id), d, op, m)
<1> DEFINE c == d.candidate
           Usable(kind) ==
             c # None /\ c.id = op.id /\ c.kind = kind /\ ~c.expired /\ c.expected = d.current
<1>1. Conflict.is # "ok" /\ Failed.is # "ok"
  BY DEF Conflict, Failed, Answer
<1>2. ASSUME NEW kind, ~(Usable(kind) /\ c.copies = 2)
      PROVE  Behaves(Commit(d, kind, op.id), d, op, m)
  <2>1. Commit(d, kind, op.id) = Refuses(d, Conflict) \/ Commit(d, kind, op.id) = Refuses(d, Failed)
    BY <1>2 DEF Commit
  <2>2. QED
    BY <1>1, <2>1, RefusalBehaves
<1>3. ASSUME op.name = "rotate/commit", Usable("rotate"), c.copies = 2
      PROVE  Behaves(Commit(d, "rotate", op.id), d, op, m)
  <2> DEFINE run == Promote(d, c)
  <2>1. Commit(d, "rotate", op.id) = run
    BY <1>3 DEF Commit
  <2>2. /\ WellFormed(run, d)
        /\ \A e \in Range(run.path) : Sound(e, m) /\ (Unharmed(d, e) \/ Promoted(d, e, c.id))
        /\ run.answer.is = "ok" =>
              /\ Promoted(d, run.path[Len(run.path)], c.id)
              /\ run.answer = Ok(c.version, c.sentinel, 0)
    BY <1>3, PromoteLeaves
  <2> HIDE DEF run
  <2>3. \A e \in Range(run.path) : Sound(e, m) /\ Effect(d, e, op)
    BY <1>3, <2>2 DEF Effect
  <2>4. run.answer.is = "ok" => Answers(d, run.path[Len(run.path)], op, run.answer)
    BY <1>3, <2>2 DEF Answers, Ok, Answer, Reads, Prepares
  <2>5. QED
    BY <1>3, <2>1, <2>2, <2>3, <2>4 DEF Behaves, Prepares
<1>4. ASSUME op.name = "restore/commit", Usable("restore"), c.copies = 2
      PROVE  Behaves(Commit(d, "restore", op.id), d, op, m)
  <2> DEFINE run == PutBack(d, c)
  <2>1. Commit(d, "restore", op.id) = run
    BY <1>4 DEF Commit
  <2>2. /\ WellFormed(run, d)
        /\ \A e \in Range(run.path) : Sound(e, m) /\ (Unharmed(d, e) \/ Returned(d, e, c.id))
    BY <1>4, PutBackLeaves
  <2> HIDE DEF run
  <2>3. \A e \in Range(run.path) : Sound(e, m) /\ Effect(d, e, op)
    BY <1>4, <2>2 DEF Effect
  <2>4. Answers(d, run.path[Len(run.path)], op, run.answer)
    BY <1>4 DEF Answers, Reads, Prepares
  <2>5. QED
    BY <1>4, <2>1, <2>2, <2>3, <2>4 DEF Behaves, Prepares
<1>5. QED
  BY <1>2, <1>3, <1>4

-------------------------------------------------------------------------------

(* What an operation does after it has cleared an expired candidate.        *)
LEMMA AfterClearing ==
  ASSUME NEW d, NEW c, Unharmed(d, c), NEW e, NEW op
  PROVE  /\ Effect(c, e, op) => Effect(d, e, op)
         /\ \A a : Answers(c, e, op, a) => Answers(d, e, op, a)
<1>1. Same(c, e) => Same(d, e)
  BY DEF Unharmed, Same
<1>2. Unharmed(c, e) => Unharmed(d, e)
  BY <1>1 DEF Unharmed
<1>3. Founded(c, e) => Founded(d, e)
  BY DEF Founded, Unharmed, Same
<1>4. ASSUME NEW id PROVE PreparedRotation(c, e, id) => PreparedRotation(d, e, id)
  BY <1>1 DEF PreparedRotation, Prepared, Unharmed, Same
<1>5. ASSUME NEW id PROVE PreparedRestore(c, e, id) => PreparedRestore(d, e, id)
  BY <1>1 DEF PreparedRestore, Prepared, Unharmed, Same
<1>6. ASSUME NEW id PROVE Promoted(c, e, id) => Promoted(d, e, id) /\ c.candidate = d.candidate
  BY DEF Promoted, Commits, Unharmed, Same
<1>7. ASSUME NEW id PROVE Returned(c, e, id) => Returned(d, e, id)
  BY DEF Returned, Commits, Unharmed, Same
<1>8. d.current = c.current
  BY DEF Unharmed, Same
<1>9. Effect(c, e, op) => Effect(d, e, op)
  BY <1>2, <1>3, <1>4, <1>5, <1>6, <1>7 DEF Effect
<1>10. ASSUME NEW a, Answers(c, e, op, a) PROVE Answers(d, e, op, a)
  BY <1>2, <1>3, <1>4, <1>5, <1>6, <1>8, <1>10 DEF Answers
<1>11. QED
  BY <1>9, <1>10

(* Whatever the request, it starts on the disk or on the cleared disk.      *)
Serves(run, op, m) ==
  /\ Len(run.path) \in Nat \ {0}
  /\ run.path[Len(run.path)] \in Range(run.path)
  /\ Len(run.path) = 1 => Range(run.path) \subseteq {disk, Cleaned(disk)}
  /\ \A e \in Range(run.path) :
       /\ Within(e) => Sound(e, m)
       /\ Effect(disk, e, op)
  /\ run.answer.is = "ok" =>
       /\ Answers(disk, run.path[Len(run.path)], op, run.answer)
       /\ op.name \in Prepares => Len(run.path) > 1

LEMMA RunServes ==
  ASSUME NEW m \in Nat, Sound(disk, m), NEW op, op.name \in Writes \union Reads,
         op.name \in Prepares \union {"initialize"} => op.id \in 1..m
  PROVE  Serves(Run(op), op, m)
<1> DEFINE d == Cleaned(disk)
<1>1. Sound(d, m) /\ Unharmed(disk, d) /\ Unharmed(disk, disk) /\ Unharmed(d, d)
  BY CleanedDisk DEF Unharmed, Same
<1>2. Conflict.is # "ok"
  BY DEF Conflict, Answer
<1>3. CASE lock # "free"
  <2>1. Run(op) = Refuses(disk, Conflict)
    BY <1>3 DEF Run
  <2>2. Behaves(Run(op), disk, op, m)
    BY <1>2, <2>1, RefusalBehaves
  <2>3. QED
    BY <2>2 DEF Behaves, WellFormed, Serves
<1>4. CASE lock = "free"
  <2> HIDE DEF d
  <2>1. Behaves(Run(op), d, op, m)
    <3>1. CASE op.name = "status"
      <4>1. Run(op) = Refuses(d, Ok(d.current, 0, 0))
        BY <1>4, <3>1 DEF Run, d
      <4>2. Answers(d, d, op, Ok(d.current, 0, 0))
        BY <1>1, <3>1 DEF Answers, Ok, Answer, Prepares
      <4>3. QED
        BY <1>1, <3>1, <4>1, <4>2, ReadBehaves DEF Prepares
    <3>2. CASE op.name = "rehearse"
      <4>1. Run(op) = Refuses(d, Ok(0, 0, 0))
        BY <1>4, <3>2 DEF Run, d
      <4>2. Answers(d, d, op, Ok(0, 0, 0))
        BY <1>1, <3>2 DEF Answers, Prepares
      <4>3. QED
        BY <1>1, <3>2, <4>1, <4>2, ReadBehaves DEF Prepares
    <3>3. CASE op.name = "initialize"
      BY <1>1, <1>4, <3>3, InitializeBehaves DEF Run, d
    <3>4. CASE op.name \in Prepares
      BY <1>1, <1>4, <3>4, PreparesBehave DEF Run, d, Prepares
    <3>5. CASE op.name \in {"rotate/commit", "restore/commit"}
      BY <1>1, <1>4, <3>5, CommitsBehave DEF Run, d
    <3>6. QED
      BY <3>1, <3>2, <3>3, <3>4, <3>5 DEF Writes, Reads, Prepares
  <2>2. QED
    BY <1>1, <2>1, AfterClearing DEF Behaves, WellFormed, Serves, d
<1>5. QED
  BY <1>3, <1>4

-------------------------------------------------------------------------------
(* What a call to the engine leaves behind, however it ends.                *)

LEMMA LargerOf ==
  ASSUME NEW a \in Nat, NEW b \in Nat
  PROVE  Max({a, b}) \in Nat /\ Max({a, b}) >= a /\ Max({a, b}) >= b
<1>1. \E x \in {a, b} : \A y \in {a, b} : x >= y
  OBVIOUS
<1>2. Max({a, b}) \in {a, b} /\ \A y \in {a, b} : Max({a, b}) >= y
  BY <1>1 DEF Max
<1>3. QED
  BY <1>2

(* An outcome leaves a disk of the operation's path, or the disk it found.  *)
CallEnds(op, o) ==
  LET path == Run(op).path
  IN  /\ o.disk \in Range(path) \union {disk, Cleaned(disk)}
      /\ o.lock \in {"free", "running", "abandoned"}
      /\ o.cost \in {0, 1}
      /\ o.late # late => late = None /\ o.late = op /\ op.name \notin Reads /\ o.disk = disk
      /\ o.answer.is = "ok" =>
           o.disk = path[Len(path)] /\ o.answer = Run(op).answer /\ o.late = late /\ o.lock = lock

LEMMA OutcomesEnd ==
  ASSUME NEW op, NEW o \in Outcomes(op), lock \in {"free", "running", "abandoned"},
         Run(op).path[Len(Run(op).path)] \in Range(Run(op).path)
  PROVE  CallEnds(op, o)
<1> DEFINE run == Run(op)
           last == Last(run.path)
           Out(d, a, l, w, c) == [disk |-> d, answer |-> a, lock |-> l, late |-> w, cost |-> c]
           left == IF EngineDies /\ lock = "free" THEN {"free", "abandoned"} ELSE {lock}
           slow == IF lock = "free" /\ op.name \notin Reads THEN {"running"} ELSE {}
           waits == IF late = None /\ op.name \notin Reads THEN {op} ELSE {}
<1>1. \/ o = Out(last, run.answer, lock, late, 0)
      \/ \E d \in Range(run.path), l \in left : o = Out(d, Failed, l, late, 1)
      \/ \E l \in slow : o = Out(last, Failed, l, late, 1)
      \/ o = Out(Cleaned(disk), Conflict, lock, late, 1)
      \/ \E w \in waits : o = Out(disk, Failed, lock, w, 1)
  BY DEF Outcomes
<1>2. last = run.path[Len(run.path)] /\ last \in Range(run.path)
  BY DEF Last
<1>3. /\ \A l \in left \union slow : l \in {"free", "running", "abandoned"}
      /\ \A w \in waits : late = None /\ w = op /\ op.name \notin Reads
      /\ Failed.is # "ok" /\ Conflict.is # "ok"
  BY DEF Failed, Conflict, Answer
<1> HIDE DEF run, last, left, slow, waits
<1>4. CASE o = Out(last, run.answer, lock, late, 0)
  BY <1>2, <1>4 DEF CallEnds, run
<1>5. CASE \E d \in Range(run.path), l \in left : o = Out(d, Failed, l, late, 1)
  BY <1>3, <1>5 DEF CallEnds, run
<1>6. CASE \E l \in slow : o = Out(last, Failed, l, late, 1)
  BY <1>2, <1>3, <1>6 DEF CallEnds, run
<1>7. CASE o = Out(Cleaned(disk), Conflict, lock, late, 1)
  BY <1>3, <1>7 DEF CallEnds, run
<1>8. CASE \E w \in waits : o = Out(disk, Failed, lock, w, 1)
  BY <1>3, <1>8 DEF CallEnds, run
<1>9. QED
  BY <1>1, <1>4, <1>5, <1>6, <1>7, <1>8

(* What of a call matters to the gateway's records.                         *)
Called(op, o) ==
  /\ minted' \in Nat /\ minted <= minted'
  /\ Sound(disk', minted') /\ Effect(disk, disk', op)
  /\ lock' \in {"free", "running", "abandoned"}
  /\ late' # late => late = None /\ late' = op /\ op.name \in Writes /\ op.id <= minted' /\ disk' = disk
  /\ o.answer.is = "ok" =>
       /\ late' = late
       /\ Answers(disk, disk', op, o.answer)
       /\ op.name \in Prepares => op.id <= minted'
  /\ damaged' = damaged /\ upsets' \in 0..MaxUpsets
  /\ o.disk = disk'

LEMMA CallsAreServed ==
  ASSUME minted \in Nat, Sound(disk, minted), lock \in {"free", "running", "abandoned"},
         upsets \in 0..MaxUpsets,
         NEW op, op.name \in Writes \union Reads, op.id \in Nat,
         op.name \in Prepares \union {"initialize"} => op.id >= 1,
         NEW o \in Outcomes(op), Takes(op, o)
  PROVE  Called(op, o)
<1> DEFINE run == Run(op)
           m == Max({minted, op.id})
<1>1. m \in Nat /\ m >= minted /\ m >= op.id
  <2>1. PICK id \in Nat : id = op.id
    OBVIOUS
  <2>2. QED
    BY <2>1, LargerOf
<1>2. /\ disk' = o.disk /\ lock' = o.lock /\ late' = o.late
      /\ minted' = IF Len(run.path) > 1 \/ o.late # late THEN m ELSE minted
      /\ damaged' = damaged /\ upsets' = upsets + o.cost /\ upsets' <= MaxUpsets
      /\ Within(disk')
  BY DEF Takes
<1> HIDE DEF m
<1>3. Sound(disk, m)
  BY <1>1, SoundLater
<1>4. Serves(run, op, m)
  <2>1. op.name \in Prepares \union {"initialize"} => op.id \in 1..m
    BY <1>1
  <2>2. QED
    BY <1>1, <1>3, <2>1, RunServes
<1>5. CallEnds(op, o)
  BY <1>4, OutcomesEnd DEF Serves
<1>6. /\ Sound(Cleaned(disk), minted) /\ Sound(Cleaned(disk), m)
      /\ Effect(disk, Cleaned(disk), op) /\ Effect(disk, disk, op)
  BY <1>1, <1>3, CleanedDisk DEF Effect, Unharmed, Same
<1> HIDE DEF run
<1>7. minted' \in Nat /\ minted <= minted'
  BY <1>1, <1>2
<1>8. Effect(disk, disk', op)
  BY <1>2, <1>4, <1>5, <1>6 DEF CallEnds, Serves, run
<1>9. Sound(disk', minted')
  <2>1. CASE disk' \in {disk, Cleaned(disk)}
    BY <1>1, <1>2, <1>3, <1>6, <2>1
  <2>2. CASE disk' \notin {disk, Cleaned(disk)}
    <3>1. disk' \in Range(run.path)
      BY <1>2, <1>5, <2>2 DEF CallEnds, run
    <3>2. Len(run.path) > 1
      <4>1. Len(run.path) = 1 => Range(run.path) \subseteq {disk, Cleaned(disk)}
        BY <1>4 DEF Serves
      <4>2. PICK n \in Nat \ {0} : n = Len(run.path)
        BY <1>4 DEF Serves
      <4>3. n # 1
        BY <2>2, <3>1, <4>1, <4>2
      <4>4. n > 1
        BY <4>3
      <4>5. QED
        BY <4>2, <4>4
    <3>3. QED
      BY <1>2, <1>4, <3>1, <3>2 DEF Serves
  <2>3. QED
    BY <2>1, <2>2
<1>10. upsets' \in 0..MaxUpsets
  BY <1>2, <1>5, CustodyAssumption DEF CallEnds
<1>11. ASSUME o.answer.is = "ok"
       PROVE  /\ late' = late /\ Answers(disk, disk', op, o.answer)
              /\ op.name \in Prepares => op.id <= minted'
  BY <1>1, <1>2, <1>4, <1>5, <1>11 DEF CallEnds, Serves, run
<1>12. late' # late => late = None /\ late' = op /\ op.name \in Writes /\ op.id <= minted' /\ disk' = disk
  BY <1>1, <1>2, <1>5 DEF CallEnds
<1>13. QED
  BY <1>2, <1>5, <1>7, <1>8, <1>9, <1>10, <1>11, <1>12 DEF Called, CallEnds

-------------------------------------------------------------------------------
(* The engine against the records *)

LEMMA PendingIsAnOperation ==
  ASSUME RecordShape, HasPending
  PROVE  /\ Pending \in Operations /\ Pending.version \in Version
         /\ Pending.version \in 1..MaxVersion /\ ~Pending.done
<1> DEFINE i == CHOOSE i \in PendingOnes : TRUE
<1>1. i \in PendingOnes
  BY DEF HasPending
<1>2. i \in DOMAIN operations /\ ~operations[i].done
  BY <1>1 DEF PendingOnes
<1>3. operations[i] \in Operations
  BY <1>2 DEF RecordShape
<1>4. Pending = operations[i]
  BY DEF Pending
<1> HIDE DEF i
<1>5. QED
  BY <1>2, <1>3, <1>4 DEF Operations, Version

(* What is retained is a version, and the current key is retained.          *)
LEMMA Retained ==
  ASSUME NEW d, NEW m \in Nat, Sound(d, m)
  PROVE  /\ d.versions \subseteq Version /\ 0 \notin Version
         /\ d.current # 0 => d.current \in d.versions
         /\ d.candidate # None =>
              /\ d.candidate.id \in 1..m /\ d.candidate.version \in Version
              /\ d.candidate.sentinel # 0 /\ d.candidate.sentinel \in BytesOf(m)
              /\ d.current # 0
              /\ d.candidate.kind = "rotate" => d.candidate.version \notin d.versions
<1>1. d \in DisksOf(m)
  BY DEF Sound
<1>2. /\ d.versions \subseteq Version
      /\ d.candidate # None => d.candidate \in CandidatesOf(m)
  BY <1>1 DEF DisksOf
<1>3. QED
  BY <1>2 DEF Sound, CandidatesOf, Version

(* The engine keeps its shape while keys are made.                          *)
LEMMA ShapeLater ==
  ASSUME EngineShape(disk, late, minted), NEW d, NEW l, NEW m \in Nat, minted <= m, Sound(d, m),
         l # None /\ l # late => l.name \in Writes /\ l.id \in 1..m
  PROVE  EngineShape(d, l, m)
<1>1. minted \in Nat /\ BytesOf(minted) \subseteq BytesOf(m)
  BY DEF EngineShape, BytesOf
<1>2. [Version -> BytesOf(minted)] \subseteq [Version -> BytesOf(m)]
  BY <1>1
<1>3. HasPending => Pending.sentinel \in BytesOf(m) \ {0} /\ Pending.candidate \in 0..m
  <2>1. ASSUME HasPending PROVE Pending.sentinel \in BytesOf(m) \ {0} /\ Pending.candidate \in 0..m
    <3>1. Pending.sentinel \in BytesOf(minted) \ {0} /\ Pending.candidate \in 0..minted
      BY <2>1 DEF EngineShape
    <3>2. QED
      BY <1>1, <3>1
  <2>2. QED
    BY <2>1
<1>4. l # None => l.name \in Writes /\ l.id \in 1..m
  <2>1. CASE l = late
    BY <1>1, <2>1 DEF EngineShape
  <2>2. CASE l # late
    BY <2>2
  <2>3. QED
    BY <2>1, <2>2
<1>5. QED
  BY <1>2, <1>3, <1>4 DEF EngineShape

(* What the records say of a disk.                                          *)
Agrees(d) == FirstThingsFirst(d) /\ Explained(d) /\ PendingIsPrepared(d) /\ KeysMatch(d)

LEMMA UnharmedAgrees ==
  ASSUME minted \in Nat, Sound(disk, minted), RecordShape, Agrees(disk), NEW d, Unharmed(disk, d)
  PROVE  Agrees(d) /\ \A op : Harmless(disk, op) => Harmless(d, op)
<1>1. /\ d.current = disk.current /\ d.versions = disk.versions
      /\ \A v \in disk.versions : d.store[v] = disk.store[v] /\ d.escrow[v] = disk.escrow[v]
      /\ d.candidate # None => d.candidate = disk.candidate
  BY DEF Unharmed, Same
<1>2. \A id : Candidacy(d, id) => Candidacy(disk, id) /\ d.candidate = disk.candidate
  BY <1>1 DEF Candidacy
<1>3. \A id : Restorable(disk, id) => Restorable(d, id)
  BY <1>2 DEF Restorable
<1>4. FirstThingsFirst(d)
  BY <1>1 DEF Agrees, FirstThingsFirst
<1>5. Explained(d)
  <2>1. Changes => Pending.version \in Version
    BY PendingIsAnOperation DEF Changes
  <2>2. Changes /\ disk.current = Pending.version => disk.current \in disk.versions
    BY <2>1, Retained
  <2>3. QED
    BY <1>1, <2>2 DEF Agrees, Explained
<1>6. PendingIsPrepared(d)
  BY <1>2, <1>3 DEF Agrees, PendingIsPrepared
<1>7. KeysMatch(d)
  BY <1>1 DEF Agrees, KeysMatch
<1>8. ASSUME NEW op, Harmless(disk, op) PROVE Harmless(d, op)
  BY <1>2, <1>3, <1>8 DEF Harmless
<1>9. QED
  BY <1>4, <1>5, <1>6, <1>7, <1>8 DEF Agrees

(* The first key is made when nothing is recorded.                          *)
LEMMA FoundedAgrees ==
  ASSUME minted \in Nat, Sound(disk, minted), RecordShape, Agrees(disk), NEW d, Founded(disk, d)
  PROVE  Agrees(d) /\ ~HasPending /\ \A op : Harmless(disk, op) => Harmless(d, op)
<1>1. /\ disk.current = 0 /\ d.current = 1 /\ d.candidate = None
  BY DEF Founded
<1>2. disk.versions = {}
  BY <1>1 DEF Sound
<1>3. Recorded = {}
  BY <1>2 DEF Agrees, KeysMatch
<1>4. current = 0
  BY <1>3 DEF RecordShape
<1>5. ~HasPending
  BY <1>1, <1>4 DEF Agrees, FirstThingsFirst
<1>6. ~Changes /\ project = current
  BY <1>5 DEF Changes, Agrees, Explained
<1>7. \A id : ~Candidacy(d, id) /\ Restorable(d, id)
  BY <1>1 DEF Candidacy, Restorable
<1>8. FirstThingsFirst(d) /\ Explained(d) /\ PendingIsPrepared(d) /\ KeysMatch(d)
  BY <1>1, <1>3, <1>5, <1>6 DEF FirstThingsFirst, Explained, PendingIsPrepared, KeysMatch
<1>9. ASSUME NEW op, Harmless(disk, op) PROVE Harmless(d, op)
  BY <1>7, <1>9 DEF Harmless
<1>10. QED
  BY <1>5, <1>8, <1>9 DEF Agrees

(* A new candidate has an id of its own.                                    *)
LEMMA PreparedAgrees ==
  ASSUME minted \in Nat, Sound(disk, minted), RecordShape, Agrees(disk), current # 0,
         NEW d, NEW id, Prepared(disk, d, id), HasPending => Pending.candidate # id
  PROVE  Agrees(d) /\ \A op : Harmless(disk, op) /\ op.id # id => Harmless(d, op)
<1>1. /\ d.current = disk.current /\ d.versions = disk.versions
      /\ \A v \in disk.versions : d.store[v] = disk.store[v] /\ d.escrow[v] = disk.escrow[v]
      /\ d.candidate.id = id
  BY DEF Prepared, Same
<1>2. \A other : other # id => ~Candidacy(d, other) /\ Restorable(d, other)
  BY <1>1 DEF Candidacy, Restorable
<1>3. FirstThingsFirst(d)
  BY <1>1 DEF Agrees, FirstThingsFirst
<1>4. Explained(d)
  <2>1. Changes => Pending.version \in Version
    BY PendingIsAnOperation DEF Changes
  <2>2. Changes /\ disk.current = Pending.version => disk.current \in disk.versions
    BY <2>1, Retained
  <2>3. QED
    BY <1>1, <2>2 DEF Agrees, Explained
<1>5. PendingIsPrepared(d)
  BY <1>2 DEF Agrees, PendingIsPrepared, Changes
<1>6. KeysMatch(d)
  BY <1>1 DEF Agrees, KeysMatch
<1>7. ASSUME NEW op, Harmless(disk, op), op.id # id PROVE Harmless(d, op)
  BY <1>2, <1>7 DEF Harmless
<1>8. QED
  BY <1>3, <1>4, <1>5, <1>6, <1>7 DEF Agrees

(* A rotation's candidate is made current only if it is the recorded one.   *)
LEMMA PromotedAgrees ==
  ASSUME EngineShape(disk, late, minted), RecordShape, Agrees(disk),
         NEW d, NEW op, op.name = "rotate/commit", Harmless(disk, op), Promoted(disk, d, op.id)
  PROVE  /\ Agrees(d) /\ Changes /\ d.current = Pending.version
         /\ \A other : Harmless(disk, other) => Harmless(d, other)
<1> DEFINE c == disk.candidate
<1>1. /\ c # None /\ c.id = op.id /\ c.kind = "rotate"
      /\ d.current = c.version /\ d.versions = disk.versions \union {c.version} /\ d.candidate = None
      /\ d.store[c.version] = c.sentinel /\ d.escrow[c.version] = c.sentinel
      /\ \A v \in disk.versions : d.store[v] = disk.store[v] /\ d.escrow[v] = disk.escrow[v]
  BY DEF Promoted, Commits
<1>2. minted \in Nat /\ Sound(disk, minted)
  BY DEF EngineShape
<1>3. c.id \in 1..minted /\ disk.current # 0
  BY <1>1, <1>2, Retained
<1>4. Candidacy(disk, op.id)
  BY <1>1 DEF Candidacy
<1>5. Changes /\ Pending.candidate = op.id
  BY <1>4 DEF Harmless
<1>6. c.version = Pending.version /\ c.sentinel = Pending.sentinel
  BY <1>4, <1>5 DEF Agrees, PendingIsPrepared
<1>7. Pending.kind # "initialize"
  BY <1>1, <1>3, <1>5 DEF Agrees, FirstThingsFirst, Changes
<1>8. \A id : ~Candidacy(d, id) /\ Restorable(d, id)
  BY <1>1 DEF Candidacy, Restorable
<1>9. FirstThingsFirst(d)
  BY <1>1, <1>7 DEF Agrees, FirstThingsFirst
<1>10. Explained(d)
  BY <1>1, <1>5, <1>6 DEF Agrees, Explained
<1>11. PendingIsPrepared(d)
  BY <1>5, <1>8 DEF PendingIsPrepared, Changes
<1>12. KeysMatch(d)
  BY <1>1 DEF Agrees, KeysMatch
<1>13. ASSUME NEW other, Harmless(disk, other) PROVE Harmless(d, other)
  BY <1>8, <1>13 DEF Harmless
<1>14. QED
  BY <1>1, <1>5, <1>6, <1>9, <1>10, <1>11, <1>12, <1>13 DEF Agrees

(* What a restore puts back is the recorded key.                            *)
LEMMA ReturnedAgrees ==
  ASSUME minted \in Nat, Sound(disk, minted), RecordShape, Agrees(disk),
         NEW d, NEW op, op.name = "restore/commit", Harmless(disk, op), Returned(disk, d, op.id)
  PROVE  /\ Agrees(d) /\ \A other : Harmless(disk, other) => Harmless(d, other)
         /\ rows[disk.candidate.version] = disk.candidate.sentinel
<1> DEFINE c == disk.candidate
<1>1. /\ c # None /\ c.id = op.id /\ c.kind = "restore"
      /\ d.current = disk.current /\ d.versions = disk.versions /\ d.candidate \in {c, None}
      /\ \A v \in disk.versions : d.escrow[v] = disk.escrow[v]
      /\ \A v \in disk.versions : d.store[v] = IF v = c.version THEN c.sentinel ELSE disk.store[v]
  BY DEF Returned, Commits
<1>2. Candidacy(disk, op.id)
  BY <1>1 DEF Candidacy
<1>3. rows[c.version] = c.sentinel
  BY <1>1, <1>2 DEF Harmless, Restorable
<1>4. c.version \in Version /\ c.sentinel # 0
  BY <1>1, Retained
<1>5. c.version \in Recorded
  BY <1>3, <1>4 DEF Recorded
<1>6. \A id : Candidacy(d, id) => Candidacy(disk, id) /\ d.candidate = disk.candidate
  BY <1>1 DEF Candidacy
<1>7. \A id : Restorable(disk, id) => Restorable(d, id)
  BY <1>6 DEF Restorable
<1>8. FirstThingsFirst(d)
  BY <1>1 DEF Agrees, FirstThingsFirst
<1>9. Explained(d)
  <2>1. Changes => Pending.version \in Version /\ Pending.version # c.version
    BY <1>5, PendingIsAnOperation DEF Changes, Agrees, Explained
  <2>2. Changes /\ disk.current = Pending.version => disk.current \in disk.versions
    BY <2>1, Retained
  <2>3. QED
    BY <1>1, <2>1, <2>2 DEF Agrees, Explained
<1>10. PendingIsPrepared(d)
  BY <1>6, <1>7 DEF Agrees, PendingIsPrepared
<1>11. KeysMatch(d)
  BY <1>1, <1>3 DEF Agrees, KeysMatch
<1>12. ASSUME NEW other, Harmless(disk, other) PROVE Harmless(d, other)
  BY <1>6, <1>7, <1>12 DEF Harmless
<1>13. QED
  BY <1>3, <1>8, <1>9, <1>10, <1>11, <1>12 DEF Agrees

(* A retained version stays, and only a recorded key is written over it.    *)
Keeps(d) ==
  /\ disk.versions \subseteq d.versions
  /\ \A v \in disk.versions \intersect Recorded :
       d.store[v] # disk.store[v] => d.store[v] = rows[v]

(* A request that may be served leaves the engine as the records have it.   *)
LEMMA EffectFits ==
  ASSUME Fits(disk, late, minted), RecordShape,
         NEW op, Harmless(disk, op),
         NEW d, Effect(disk, d, op), NEW m \in Nat, minted <= m, Sound(d, m),
         NEW l, \/ l \in {late, None}
                \/ l = op /\ d = disk /\ op.name \in Writes /\ op.id \in 1..m,
         op.name \in Prepares /\ l # None /\ d # disk => l.id # op.id
  PROVE  Fits(d, l, m) /\ Keeps(d)
<1>1. minted \in Nat /\ Sound(disk, minted) /\ EngineShape(disk, late, minted)
  BY DEF Fits, EngineShape
<1>2. Agrees(disk) /\ (late # None => Harmless(disk, late))
  BY DEF Fits, Agrees
<1>3. l # None => Harmless(disk, l)
  BY <1>2
<1>4. EngineShape(d, l, m)
  BY <1>1, ShapeLater
<1>s. SUFFICES Agrees(d) /\ (l # None => Harmless(d, l)) /\ Keeps(d)
  BY <1>4 DEF Fits, Agrees
<1>5. CASE Unharmed(disk, d)
  <2>1. Agrees(d) /\ \A other : Harmless(disk, other) => Harmless(d, other)
    BY <1>1, <1>2, <1>5, UnharmedAgrees
  <2>2. Keeps(d)
    BY <1>5 DEF Unharmed, Same, Keeps
  <2>3. QED
    BY <1>3, <2>1, <2>2
<1>6. CASE op.name = "initialize" /\ Founded(disk, d)
  <2>1. Agrees(d) /\ \A other : Harmless(disk, other) => Harmless(d, other)
    BY <1>1, <1>2, <1>6, FoundedAgrees
  <2>2. disk.versions = {}
    BY <1>1, <1>6 DEF Founded, Sound
  <2>3. QED
    BY <1>3, <2>1, <2>2 DEF Keeps
<1>7. CASE op.name \in Prepares /\ Prepared(disk, d, op.id)
  <2>1. current # 0 /\ (HasPending => Pending.candidate # op.id)
    BY <1>7 DEF Harmless, Prepares, Writes
  <2>2. Agrees(d) /\ \A other : Harmless(disk, other) /\ other.id # op.id => Harmless(d, other)
    BY <1>1, <1>2, <1>7, <2>1, PreparedAgrees
  <2>3. Keeps(d)
    BY <1>7 DEF Prepared, Same, Keeps
  <2>4. l # None => Harmless(d, l)
    <3>1. CASE d = disk
      BY <1>3, <3>1
    <3>2. CASE d # disk
      BY <1>3, <1>7, <2>2, <3>2
    <3>3. QED
      BY <3>1, <3>2
  <2>5. QED
    BY <2>2, <2>3, <2>4
<1>8. CASE op.name = "rotate/commit" /\ Promoted(disk, d, op.id)
  <2>1. Agrees(d) /\ \A other : Harmless(disk, other) => Harmless(d, other)
    BY <1>1, <1>2, <1>8, PromotedAgrees
  <2>2. Keeps(d)
    BY <1>8 DEF Promoted, Keeps
  <2>3. QED
    BY <1>3, <2>1, <2>2
<1>9. CASE op.name = "restore/commit" /\ Returned(disk, d, op.id)
  <2>1. /\ Agrees(d) /\ \A other : Harmless(disk, other) => Harmless(d, other)
        /\ rows[disk.candidate.version] = disk.candidate.sentinel
    BY <1>1, <1>2, <1>9, ReturnedAgrees
  <2>2. Keeps(d)
    BY <1>9, <2>1 DEF Returned, Keeps
  <2>3. QED
    BY <1>3, <2>1, <2>2
<1>10. QED
  BY <1>5, <1>6, <1>7, <1>8, <1>9 DEF Effect, PreparedRotation, PreparedRestore, Prepares

(* The current key becomes no other than the pending one.                   *)
LEMMA CurrentMoves ==
  ASSUME Fits(disk, late, minted), RecordShape,
         NEW op, Harmless(disk, op), NEW d, Effect(disk, d, op)
  PROVE  Changes => d.current \in {disk.current, Pending.version}
<1>1. minted \in Nat /\ Sound(disk, minted) /\ EngineShape(disk, late, minted) /\ Agrees(disk)
  BY DEF Fits, EngineShape, Agrees
<1>2. CASE Unharmed(disk, d) \/ Prepared(disk, d, op.id) \/ Returned(disk, d, op.id)
  BY <1>2 DEF Unharmed, Prepared, Returned, Same
<1>3. CASE Founded(disk, d)
  BY <1>1, <1>3, FoundedAgrees DEF Changes
<1>4. CASE op.name = "rotate/commit" /\ Promoted(disk, d, op.id)
  BY <1>1, <1>4, PromotedAgrees
<1>5. QED
  BY <1>2, <1>3, <1>4 DEF Effect, PreparedRotation, PreparedRestore

(* The same, of a call the gateway makes.                                   *)
LEMMA CallsFit ==
  ASSUME Fits(disk, late, minted), RecordShape,
         lock \in {"free", "running", "abandoned"}, upsets \in 0..MaxUpsets,
         NEW op, op.name \in Writes \union Reads, op.id \in Nat, Harmless(disk, op),
         op.name \in Prepares \union {"initialize"} => op.id = NewId,
         op.name \in Writes => op.id # 0,
         NEW o \in Outcomes(op), Takes(op, o)
  PROVE  Called(op, o) /\ Fits(disk', late', minted') /\ Keeps(disk')
<1>1. minted \in Nat /\ Sound(disk, minted) /\ (late # None => late.id \in 1..minted)
  BY DEF Fits, EngineShape
<1>2. op.name \in Prepares \union {"initialize"} => op.id >= 1
  BY <1>1 DEF NewId
<1>3. Called(op, o)
  BY <1>1, <1>2, CallsAreServed
<1>4. /\ minted' \in Nat /\ minted <= minted'
      /\ Sound(disk', minted') /\ Effect(disk, disk', op)
      /\ late' # late => late' = op /\ op.name \in Writes /\ op.id <= minted' /\ disk' = disk
  BY <1>3 DEF Called
<1>5. \/ late' \in {late, None}
      \/ late' = op /\ disk' = disk /\ op.name \in Writes /\ op.id \in 1..minted'
  BY <1>4
<1>6. op.name \in Prepares /\ late' # None /\ disk' # disk => late'.id # op.id
  BY <1>1, <1>4 DEF NewId
<1>7. QED
  BY <1>3, <1>4, <1>5, <1>6, EffectFits

(* A read may always be served.                                             *)
LEMMA ReadsAreHarmless ==
  ASSUME NEW op, op.name \in Reads
  PROVE  Harmless(disk, op) /\ op.name \notin Writes /\ op.name \notin Prepares /\ op.name # "initialize"
BY DEF Reads, Harmless, Writes, Prepares

-------------------------------------------------------------------------------
(* The steps *)

LEMMA PendingStands ==
  ASSUME UNCHANGED operations
  PROVE  /\ PendingOnes' = PendingOnes /\ Pending' = Pending
         /\ HasPending' = HasPending /\ Changes' = Changes
<1>1. PendingOnes' = PendingOnes
  BY DEF PendingOnes
<1>2. Pending' = Pending
  BY <1>1 DEF Pending
<1>3. HasPending' = HasPending
  BY <1>1 DEF HasPending
<1>4. QED
  BY <1>1, <1>2, <1>3 DEF Changes

LEMMA RecordsStand ==
  ASSUME UNCHANGED <<rows, current, project, operations, damaged>>,
         Fits(disk', late', minted'), RecordShape, verified' \subseteq Recorded
  PROVE  Fits(disk, late, minted)' /\ RecordShape' /\ Recorded' = Recorded
<1>1. Recorded' = Recorded
  BY DEF Recorded
<1>2. /\ PendingOnes' = PendingOnes /\ Pending' = Pending
      /\ HasPending' = HasPending /\ Changes' = Changes
  BY PendingStands
<1>3. EngineShape(disk, late, minted)'
  BY <1>2 DEF Fits, EngineShape
<1>4. FirstThingsFirst(disk)' /\ Explained(disk)' /\ KeysMatch(disk)'
  BY <1>1, <1>2 DEF Fits, FirstThingsFirst, Explained, KeysMatch
<1>5. PendingIsPrepared(disk)' /\ (late' # None => Harmless(disk, late)')
  BY <1>2 DEF Fits, PendingIsPrepared, Harmless, Restorable, Candidacy
<1>6. RecordShape'
  BY <1>1, <1>2 DEF RecordShape
<1>7. QED
  BY <1>1, <1>3, <1>4, <1>5, <1>6 DEF Fits

(* A request goes from place to place.                                      *)
LEMMA PlaceOf ==
  ASSUME CallShape, NEW at, Goes(at)
  PROVE  /\ call'.at = at /\ call'.request = call.request /\ call'.next = call.next
         /\ call'.seen = call.seen
         /\ at \in Places => call' \in [request : Request, at : Places, next : {"ok", "act"}, seen : Nat]
<1>1. call \in [request : Request, at : Places, next : {"ok", "act"}, seen : Nat]
  BY DEF CallShape
<1>2. QED
  BY <1>1 DEF Goes

(* A request that ends leaves nothing to be found.                          *)
LEMMA Ends ==
  ASSUME CallShape, NEW at \in {"ok", "refused"}, Goes(at)
  PROVE  CallShape'
<1>1. call'.at = at /\ call' \in [request : Request, at : Places, next : {"ok", "act"}, seen : Nat]
  BY PlaceOf DEF Places
<1>2. QED
  BY <1>1 DEF CallShape

(* A read of the engine changes nothing but an expired candidate.           *)
LEMMA ReadsFit ==
  ASSUME IInv, NEW op, op.name \in Reads, op.id = 0, NEW o \in Outcomes(op), Takes(op, o)
  PROVE  /\ Fits(disk', late', minted') /\ Keeps(disk') /\ Unharmed(disk, disk')
         /\ o.answer.is = "ok" => Answers(disk, disk', op, o.answer)
         /\ lock' \in {"free", "running", "abandoned"} /\ upsets' \in 0..MaxUpsets
         /\ damaged' = damaged
<1>1. /\ Harmless(disk, op) /\ op.name \notin Writes
      /\ op.name \notin Prepares /\ op.name # "initialize"
  BY ReadsAreHarmless
<1>2. Called(op, o) /\ Fits(disk', late', minted') /\ Keeps(disk')
  BY <1>1, CallsFit DEF IInv
<1>3. Unharmed(disk, disk')
  BY <1>1, <1>2 DEF Called, Effect, Writes, Prepares
<1>4. QED
  BY <1>2, <1>3 DEF Called

LEMMA StatusKeeps ==
  ASSUME IInv, Status
  PROVE  IInv' /\ Keeps(disk')
<1> DEFINE op == Op("status", 0, 0)
<1>1. PICK o \in Outcomes(op) :
        /\ Takes(op, o)
        /\ call' = IF o.answer.is = "ok"
                   THEN [call EXCEPT !.at = "compare", !.seen = o.answer.version]
                   ELSE [call EXCEPT !.at = "refused"]
  BY DEF Status
<1>2. op.name = "status" /\ op.name \in Reads /\ op.id = 0
  BY DEF Op, Reads
<1> HIDE DEF op
<1>3. /\ Fits(disk', late', minted') /\ Keeps(disk') /\ Unharmed(disk, disk')
      /\ o.answer.is = "ok" => Answers(disk, disk', op, o.answer)
      /\ lock' \in {"free", "running", "abandoned"} /\ upsets' \in 0..MaxUpsets
      /\ damaged' = damaged
  BY <1>1, <1>2, ReadsFit
<1>4. UNCHANGED <<rows, current, project, operations, verified>> /\ At("status")
  BY DEF Status, records
<1>5. Fits(disk, late, minted)' /\ RecordShape'
  BY <1>3, <1>4, RecordsStand DEF IInv, RecordShape
<1>6. CallShape'
  <2>1. HasPending' /\ Pending' = Pending
    BY <1>4, PendingStands DEF IInv, CallShape, At
  <2>2. CASE o.answer.is = "ok"
    <3>1. o.answer.version = disk.current /\ disk'.current = disk.current
      BY <1>2, <1>3, <2>2 DEF Answers, Unharmed, Same
    <3>2. disk.current \in Nat
      BY CustodyAssumption DEF IInv, Fits, EngineShape, Sound, DisksOf
    <3>3. /\ call' \in [request : Request, at : Places, next : {"ok", "act"}, seen : Nat]
          /\ call'.at = "compare" /\ call'.seen = disk.current
      BY <1>1, <2>2, <3>1, <3>2 DEF IInv, CallShape, Places
    <3>4. QED
      BY <2>1, <3>1, <3>3 DEF CallShape
  <2>3. CASE o.answer.is # "ok"
    BY <1>1, <2>3, Ends DEF IInv, Goes
  <2>4. QED
    BY <2>2, <2>3
<1>7. QED
  BY <1>3, <1>5, <1>6 DEF IInv

LEMMA CompareKeeps ==
  ASSUME IInv, Compare
  PROVE  IInv' /\ Keeps(disk')
<1> DEFINE op == Op("rehearse", 0, 0)
<1>1. PICK o \in Outcomes(op) :
        /\ Takes(op, o)
        /\ Goes(IF o.answer.is # "ok" THEN "refused"
                ELSE IF Committed(o) THEN "finish"
                ELSE IF Pending.candidate = 0 THEN "refused" ELSE "commit")
  BY DEF Compare
<1>2. op.name \in Reads /\ op.id = 0
  BY DEF Op, Reads
<1> HIDE DEF op
<1>3. /\ Fits(disk', late', minted') /\ Keeps(disk') /\ Unharmed(disk, disk')
      /\ lock' \in {"free", "running", "abandoned"} /\ upsets' \in 0..MaxUpsets
      /\ damaged' = damaged
  BY <1>1, <1>2, ReadsFit
<1>4. UNCHANGED <<rows, current, project, operations, verified>> /\ call.at = "compare"
  BY DEF Compare, records, At
<1>5. Fits(disk, late, minted)' /\ RecordShape'
  BY <1>3, <1>4, RecordsStand DEF IInv, RecordShape
<1>6. CallShape'
  <2>1. HasPending' /\ Pending' = Pending /\ Changes' = Changes
    BY <1>4, PendingStands DEF IInv, CallShape
  <2>2. disk'.current = disk.current
    BY <1>3 DEF Unharmed, Same
  <2>3. CallShape
    BY DEF IInv
  <2>4. CASE Goes("refused")
    BY <2>3, <2>4, Ends
  <2>5. CASE Goes("finish") /\ Committed(o)
    <3>1. /\ call' \in [request : Request, at : Places, next : {"ok", "act"}, seen : Nat]
          /\ call'.at = "finish"
      BY <2>3, <2>5, PlaceOf DEF Places
    <3>2. Changes /\ call.seen = Pending.version
      BY <1>4, <2>3, <2>5 DEF Committed, Changes, CallShape
    <3>3. QED
      BY <1>4, <2>1, <2>2, <2>3, <3>1, <3>2 DEF CallShape
  <2>6. CASE Goes("commit") /\ Pending.candidate # 0
    <3>1. /\ call' \in [request : Request, at : Places, next : {"ok", "act"}, seen : Nat]
          /\ call'.at = "commit"
      BY <2>3, <2>6, PlaceOf DEF Places
    <3>2. QED
      BY <2>1, <2>6, <3>1 DEF CallShape
  <2>7. QED
    BY <1>1, <2>4, <2>5, <2>6
<1>7. QED
  BY <1>3, <1>5, <1>6 DEF IInv

LEMMA CommitCandidateKeeps ==
  ASSUME IInv, CommitCandidate
  PROVE  IInv' /\ Keeps(disk')
<1> DEFINE op == CommitOp
<1>1. PICK o \in Outcomes(op) :
        /\ Takes(op, o)
        /\ LET agreed == o.answer.version = Pending.version /\ o.answer.sentinel = Pending.sentinel
           IN  Goes(IF o.answer.is = "ok" /\ agreed THEN "finish"
                    ELSE IF o.answer.is = "conflict" /\ At("commit") THEN "prepare"
                    ELSE "refused")
  BY DEF CommitCandidate
<1>2. /\ UNCHANGED <<rows, current, project, operations, verified>>
      /\ call.at \in {"commit", "recommit"}
  BY DEF CommitCandidate, records, At
<1>3. CallShape /\ HasPending /\ Pending.candidate # 0
  BY <1>2 DEF IInv, CallShape
<1>4. Pending.candidate \in 1..minted /\ Pending.candidate \in Nat
  BY <1>3 DEF IInv, Fits, EngineShape
<1>5. /\ op.id = Pending.candidate
      /\ op.name = IF Changes THEN "rotate/commit" ELSE "restore/commit"
  BY <1>3 DEF CommitOp, Op, Changes
<1> HIDE DEF op
<1>6. /\ op.name \in Writes /\ op.name \notin Prepares \union {"initialize"}
      /\ op.id \in Nat /\ op.id # 0
  BY <1>3, <1>4, <1>5 DEF Writes, Prepares
<1>7. Harmless(disk, op)
  <2>1. current # 0
    BY <1>3 DEF IInv, Fits, FirstThingsFirst
  <2>2. op.name = "restore/commit" => Restorable(disk, op.id)
    BY <1>3, <1>5 DEF IInv, Fits, PendingIsPrepared, Changes
  <2>3. QED
    BY <1>5, <1>6, <2>1, <2>2 DEF Harmless
<1>8. Called(op, o) /\ Fits(disk', late', minted') /\ Keeps(disk')
  BY <1>1, <1>6, <1>7, CallsFit DEF IInv
<1>9. /\ lock' \in {"free", "running", "abandoned"} /\ upsets' \in 0..MaxUpsets
      /\ damaged' = damaged
      /\ o.answer.is = "ok" => Answers(disk, disk', op, o.answer)
  BY <1>8 DEF Called
<1>10. Fits(disk, late, minted)' /\ RecordShape'
  BY <1>2, <1>8, <1>9, RecordsStand DEF IInv, RecordShape
<1>11. CallShape'
  <2>1. HasPending' /\ Pending' = Pending /\ Changes' = Changes
    BY <1>2, <1>3, PendingStands
  <2>2. CASE Goes("refused")
    BY <1>3, <2>2, Ends
  <2>3. CASE Goes("prepare")
    <3>1. /\ call' \in [request : Request, at : Places, next : {"ok", "act"}, seen : Nat]
          /\ call'.at = "prepare"
      BY <1>3, <2>3, PlaceOf DEF Places
    <3>2. QED
      BY <1>3, <2>1, <3>1 DEF CallShape
  <2>4. CASE /\ Goes("finish") /\ o.answer.is = "ok"
             /\ o.answer.version = Pending.version
    <3>1. /\ call' \in [request : Request, at : Places, next : {"ok", "act"}, seen : Nat]
          /\ call'.at = "finish"
      BY <1>3, <2>4, PlaceOf DEF Places
    <3>2. ASSUME Changes PROVE disk'.current = Pending.version
      <4>1. op.name = "rotate/commit" /\ Answers(disk, disk', op, o.answer)
        BY <1>5, <1>9, <2>4, <3>2
      <4>2. Promoted(disk, disk', op.id) /\ o.answer.version = disk.candidate.version
        BY <4>1 DEF Answers
      <4>3. QED
        BY <2>4, <4>2 DEF Promoted
    <3>3. QED
      BY <2>1, <3>1, <3>2 DEF CallShape
  <2>5. QED
    BY <1>1, <2>2, <2>3, <2>4
<1>12. QED
  BY <1>8, <1>9, <1>10, <1>11 DEF IInv

(* What a rehearsal writes to the records.                                  *)
LEMMA RehearsalFits ==
  ASSUME IInv, NEW o \in Outcomes(RehearseOp), Takes(RehearseOp, o),
         verified' = Rehearsed(o), UNCHANGED <<rows, current, project, operations>>
  PROVE  /\ Fits(disk, late, minted)' /\ RecordShape' /\ Keeps(disk')
         /\ lock' \in {"free", "running", "abandoned"} /\ upsets' \in 0..MaxUpsets
<1> DEFINE op == RehearseOp
<1>1. op.name \in Reads /\ op.id = 0
  BY DEF RehearseOp, Op, Reads
<1> HIDE DEF op
<1>2. o \in Outcomes(op) /\ Takes(op, o)
  BY DEF op
<1>3. /\ Fits(disk', late', minted') /\ Keeps(disk')
      /\ lock' \in {"free", "running", "abandoned"} /\ upsets' \in 0..MaxUpsets
      /\ damaged' = damaged
  BY <1>1, <1>2, ReadsFit
<1>4. verified' \subseteq Recorded
  BY DEF Rehearsed
<1>5. QED
  BY <1>3, <1>4, RecordsStand DEF IInv

LEMMA VerifyKeeps ==
  ASSUME IInv, Verify
  PROVE  IInv' /\ Keeps(disk')
<1>1. PICK o \in Outcomes(RehearseOp) :
        /\ Takes(RehearseOp, o) /\ verified' = Rehearsed(o)
        /\ Goes(IF Rehearsed(o) = Recorded THEN call.next ELSE "refused")
  BY DEF Verify
<1>2. UNCHANGED <<rows, current, project, operations>> /\ call.at = "verify" /\ CallShape
  BY DEF Verify, At, IInv
<1>3. /\ Fits(disk, late, minted)' /\ RecordShape' /\ Keeps(disk')
      /\ lock' \in {"free", "running", "abandoned"} /\ upsets' \in 0..MaxUpsets
  BY <1>1, <1>2, RehearsalFits
<1>4. CallShape'
  <2>1. ~HasPending /\ HasPending' = HasPending /\ call.next \in {"ok", "act"}
    BY <1>2, PendingStands DEF CallShape
  <2>2. CASE Goes("refused") \/ Goes("ok")
    BY <1>2, <2>2, Ends
  <2>3. CASE Goes("act")
    <3>1. /\ call' \in [request : Request, at : Places, next : {"ok", "act"}, seen : Nat]
          /\ call'.at = "act"
      BY <1>2, <2>3, PlaceOf DEF Places
    <3>2. QED
      BY <2>1, <3>1 DEF CallShape
  <2>4. QED
    BY <1>1, <2>1, <2>2, <2>3
<1>5. QED
  BY <1>3, <1>4 DEF IInv

LEMMA RehearseKeeps ==
  ASSUME IInv, Rehearse
  PROVE  IInv' /\ Keeps(disk')
<1>1. PICK o \in Outcomes(RehearseOp) : Takes(RehearseOp, o) /\ verified' = Rehearsed(o)
  BY DEF Rehearse
<1>2. UNCHANGED <<rows, current, project, operations>> /\ Goes("ok") /\ CallShape
  BY DEF Rehearse, IInv
<1>3. /\ Fits(disk, late, minted)' /\ RecordShape' /\ Keeps(disk')
      /\ lock' \in {"free", "running", "abandoned"} /\ upsets' \in 0..MaxUpsets
  BY <1>1, <1>2, RehearsalFits
<1>4. CallShape'
  BY <1>2, Ends
<1>5. QED
  BY <1>3, <1>4 DEF IInv

(* The only pending operation is the one that is pending.                   *)
LEMMA PendingIsTheOnly ==
  ASSUME NEW i \in PendingOnes, \A j \in PendingOnes : j = i
  PROVE  HasPending /\ Pending = operations[i]
BY DEF HasPending, Pending

(* A new operation is recorded when none is pending.                        *)
LEMMA Recording ==
  ASSUME operations \in Seq(Operations), ~HasPending, NEW r \in Operations, ~r.done,
         operations' = Append(operations, r)
  PROVE  /\ operations' \in Seq(Operations) /\ HasPending' /\ Pending' = r
         /\ \A i, j \in PendingOnes' : i = j
<1> DEFINE n == Len(operations)
<1>1. /\ operations' \in Seq(Operations) /\ n \in Nat
      /\ DOMAIN operations' = 1..(n + 1) /\ operations'[n + 1] = r
      /\ \A i \in 1..n : operations'[i] = operations[i]
  BY AppendProperties, LenProperties
<1>2. \A i \in 1..n : operations[i].done
  BY LenProperties DEF HasPending, PendingOnes
<1>3. PendingOnes' = {n + 1}
  <2>1. PendingOnes' = {i \in DOMAIN operations' : ~operations'[i].done}
    BY DEF PendingOnes
  <2>2. \A i \in 1..(n + 1) : i \in 1..n \/ i = n + 1
    BY <1>1
  <2>3. n + 1 \in 1..(n + 1)
    BY <1>1
  <2>4. QED
    BY <1>1, <1>2, <2>1, <2>2, <2>3
<1>4. Pending' = operations'[n + 1]
  BY <1>3 DEF Pending
<1>5. HasPending'
  BY <1>3 DEF HasPending
<1>6. QED
  BY <1>1, <1>3, <1>4, <1>5

(* What an answer must be to be recorded.                                   *)
Recordable(kind, a) ==
  /\ a.version \in Version /\ a.sentinel \in BytesOf(minted') \ {0} /\ a.id \in 0..minted'
  /\ kind # "initialize" => current # 0
  /\ kind = "initialize" => current = 0 /\ a.version = 1 /\ disk'.current = 1 /\ a.id = 0
  /\ kind # "restore" => a.version \notin Recorded
  /\ kind # "restore" /\ disk'.current = a.version =>
       disk'.store[a.version] = a.sentinel /\ disk'.escrow[a.version] = a.sentinel
  /\ kind = "restore" => rows[a.version] = a.sentinel
  /\ Candidacy(disk', a.id) =>
       /\ disk'.candidate.version = a.version /\ disk'.candidate.sentinel = a.sentinel
       /\ disk'.candidate.kind = kind
  /\ late' # None => late'.id # a.id /\ ~Candidacy(disk', late'.id)

LEMMA RecordingFits ==
  ASSUME Fits(disk', late', minted'), RecordShape, CallShape, ~HasPending,
         NEW kind \in Kinds, NEW a, Recordable(kind, a), Records(kind, a),
         UNCHANGED <<rows, current, project, damaged>>, verified' \subseteq Recorded
  PROVE  /\ Fits(disk, late, minted)' /\ RecordShape' /\ HasPending'
         /\ Pending'.kind = kind /\ Pending'.version = a.version
<1> DEFINE r == [kind |-> kind, version |-> a.version, sentinel |-> a.sentinel, candidate |-> a.id,
                 key |-> IF kind = "initialize" THEN NoKey ELSE call.request.key, done |-> FALSE]
<1>0. minted' \in Nat
  BY DEF Fits, EngineShape
<1>1. r \in Operations
  <2>1. a.version \in Version /\ a.sentinel \in Nat \union {Altered} /\ a.id \in Nat
    BY <1>0 DEF Recordable, BytesOf
  <2>2. call.request \in Request
    BY DEF CallShape
  <2>3. QED
    BY <2>1, <2>2 DEF Operations
<1>2. operations' = Append(operations, r) /\ operations \in Seq(Operations)
  BY DEF Records, RecordShape
<1>3. /\ operations' \in Seq(Operations) /\ HasPending' /\ Pending' = r
      /\ \A i, j \in PendingOnes' : i = j
  BY <1>1, <1>2, Recording
<1>4. /\ Pending'.kind = kind /\ Pending'.version = a.version /\ Pending'.sentinel = a.sentinel
      /\ Pending'.candidate = a.id
  BY <1>3
<1> HIDE DEF r
<1>5. Recorded' = Recorded
  BY DEF Recorded
<1>6. Changes' <=> kind # "restore"
  BY <1>3, <1>4 DEF Changes
<1>7. ~Changes /\ project = current
  BY DEF Changes, Fits, Explained
<1>8. EngineShape(disk, late, minted)'
  BY <1>3, <1>4 DEF Fits, EngineShape, Recordable
<1>9. FirstThingsFirst(disk)'
  BY <1>3, <1>4 DEF Fits, FirstThingsFirst, Recordable
<1>10. Explained(disk)'
  BY <1>4, <1>5, <1>6, <1>7 DEF Fits, Explained, Recordable
<1>11. PendingIsPrepared(disk)'
  <2>1. Candidacy(disk, Pending.candidate)' => Candidacy(disk', a.id)
    BY <1>4 DEF Candidacy
  <2>2. kind = "restore" => Restorable(disk, Pending.candidate)'
    BY <1>4, <2>1 DEF Recordable, Restorable, Candidacy
  <2>3. Changes' /\ Candidacy(disk, Pending.candidate)' => disk'.candidate.kind = "rotate"
    <3>1. CASE kind = "initialize"
      <4>1. disk'.candidate = None
        BY <3>1 DEF Recordable, Fits, FirstThingsFirst
      <4>2. QED
        BY <2>1, <4>1 DEF Candidacy
    <3>2. CASE kind # "initialize"
      BY <1>6, <2>1, <3>2 DEF Recordable, Kinds
    <3>3. QED
      BY <3>1, <3>2
  <2>4. QED
    BY <1>4, <1>6, <2>1, <2>2, <2>3 DEF PendingIsPrepared, Recordable
<1>12. late' # None => Harmless(disk, late)'
  BY <1>3, <1>4 DEF Fits, Harmless, Restorable, Candidacy, Recordable
<1>13. KeysMatch(disk)'
  BY <1>5 DEF Fits, KeysMatch
<1>14. RecordShape'
  BY <1>3, <1>5 DEF RecordShape
<1>15. QED
  BY <1>3, <1>4, <1>8, <1>9, <1>10, <1>11, <1>12, <1>13, <1>14 DEF Fits

(* A candidate that was prepared, and its id, are new.                      *)
LEMMA PreparedIsNew ==
  ASSUME Fits(disk, late, minted), NEW op, op.name \in Prepares, op.id = NewId,
         NEW o \in Outcomes(op), Called(op, o), o.answer.is = "ok"
  PROVE  LET a == o.answer
         IN  /\ a.version \in Version /\ a.sentinel \in BytesOf(minted') \ {0}
             /\ a.id = NewId /\ NewId \in 1..minted'
             /\ disk'.candidate # None /\ disk'.candidate.id = NewId
             /\ disk'.candidate.version = a.version /\ disk'.candidate.sentinel = a.sentinel
             /\ disk'.current = disk.current /\ disk.current \in disk.versions
             /\ op.name = "rotate/prepare" =>
                  /\ a.version \notin disk.versions /\ disk'.candidate.kind = "rotate"
                  /\ disk.current = op.version
             /\ op.name = "restore/prepare" => disk'.candidate.kind = "restore"
             /\ late' # None => late'.id # NewId /\ ~Candidacy(disk', late'.id)
<1>1. /\ minted' \in Nat /\ Sound(disk', minted') /\ late' = late
      /\ Answers(disk, disk', op, o.answer) /\ op.id <= minted'
  BY DEF Called
<1>2. minted \in Nat /\ Sound(disk, minted) /\ (late # None => late.id \in 1..minted)
  BY DEF Fits, EngineShape
<1>3. /\ Prepared(disk, disk', NewId)
      /\ o.answer.version = disk'.candidate.version /\ o.answer.sentinel = disk'.candidate.sentinel
      /\ o.answer.id = NewId
  BY <1>1 DEF Answers, Prepares, PreparedRotation, PreparedRestore
<1>4. /\ op.name = "rotate/prepare" =>
           /\ disk'.candidate.version \notin disk.versions /\ disk'.candidate.kind = "rotate"
           /\ disk.current = op.version
      /\ op.name = "restore/prepare" => disk'.candidate.kind = "restore"
  BY <1>1 DEF Answers, PreparedRotation, PreparedRestore
<1>5. /\ disk'.current = disk.current /\ disk.current # 0
      /\ disk'.candidate # None /\ disk'.candidate.id = NewId
  BY <1>3 DEF Prepared, Same
<1>6. disk.current \in disk.versions
  BY <1>2, <1>5, Retained
<1>7. NewId \in 1..minted'
  BY <1>1, <1>2 DEF NewId
<1>8. disk'.candidate.version \in Version /\ disk'.candidate.sentinel \in BytesOf(minted') \ {0}
  BY <1>1, <1>5, Retained
<1>9. late' # None => late'.id # NewId
  BY <1>1, <1>2 DEF NewId
<1>10. late' # None => ~Candidacy(disk', late'.id)
  BY <1>5, <1>9 DEF Candidacy
<1>11. QED
  BY <1>3, <1>4, <1>5, <1>6, <1>7, <1>8, <1>9, <1>10

LEMMA RotateKeeps ==
  ASSUME IInv, Rotate
  PROVE  IInv' /\ Keeps(disk')
<1> DEFINE op == Op("rotate/prepare", current, NewId)
<1>1. PICK o \in Outcomes(op) :
        /\ Takes(op, o)
        /\ IF o.answer.is = "ok"
           THEN Records("rotate", o.answer)
                /\ call' = [call EXCEPT !.at = "status", !.next = "ok"]
           ELSE UNCHANGED operations /\ Goes("refused")
  BY DEF Rotate
<1>2. /\ UNCHANGED <<rows, current, verified, project>>
      /\ call.at = "act" /\ current # 0
  BY DEF Rotate, Acts, At
<1>3. CallShape /\ ~HasPending /\ RecordShape /\ Fits(disk, late, minted)
  BY <1>2 DEF IInv, CallShape
<1>4. minted \in Nat
  BY <1>3 DEF Fits, EngineShape
<1>5. op.name = "rotate/prepare" /\ op.id = NewId /\ op.version = current
  BY DEF Op
<1> HIDE DEF op
<1>6. op.name \in Writes /\ op.name \in Prepares /\ op.id \in Nat /\ op.id # 0
  BY <1>4, <1>5 DEF Writes, Prepares, NewId
<1>7. Harmless(disk, op)
  BY <1>2, <1>3, <1>5 DEF Harmless
<1>8. Called(op, o) /\ Fits(disk', late', minted') /\ Keeps(disk')
  BY <1>1, <1>3, <1>5, <1>6, <1>7, CallsFit DEF IInv
<1>9. /\ lock' \in {"free", "running", "abandoned"} /\ upsets' \in 0..MaxUpsets
      /\ damaged' = damaged
  BY <1>8 DEF Called
<1>v. verified' \subseteq Recorded
  BY <1>2, <1>3 DEF RecordShape
<1>10. CASE o.answer.is # "ok"
  <2>1. UNCHANGED operations /\ Goes("refused")
    BY <1>1, <1>10
  <2>2. Fits(disk, late, minted)' /\ RecordShape'
    BY <1>2, <1>3, <1>8, <1>9, <1>v, <2>1, RecordsStand
  <2>3. CallShape'
    BY <1>3, <2>1, Ends
  <2>4. QED
    BY <1>8, <1>9, <2>2, <2>3 DEF IInv
<1>11. CASE o.answer.is = "ok"
  <2> DEFINE a == o.answer
  <2>1. /\ a.version \in Version /\ a.sentinel \in BytesOf(minted') \ {0}
        /\ a.id = NewId /\ NewId \in 1..minted'
        /\ disk'.candidate # None /\ disk'.candidate.id = NewId
        /\ disk'.candidate.version = a.version /\ disk'.candidate.sentinel = a.sentinel
        /\ disk'.current = disk.current /\ disk.current \in disk.versions
        /\ a.version \notin disk.versions /\ disk'.candidate.kind = "rotate"
        /\ late' # None => late'.id # NewId /\ ~Candidacy(disk', late'.id)
    BY <1>3, <1>5, <1>6, <1>8, <1>11, PreparedIsNew
  <2>2. a.version \notin Recorded
    BY <1>3, <2>1 DEF Fits, KeysMatch
  <2> HIDE DEF a
  <2>3. a.id \in 0..minted'
    BY <2>1
  <2>4. Recordable("rotate", a)
    BY <1>2, <2>1, <2>2, <2>3 DEF Recordable
  <2>5. Records("rotate", a) /\ call' = [call EXCEPT !.at = "status", !.next = "ok"]
    BY <1>1, <1>11 DEF a
  <2>6. Fits(disk, late, minted)' /\ RecordShape' /\ HasPending'
    BY <1>2, <1>3, <1>8, <1>9, <1>v, <2>4, <2>5, RecordingFits DEF Kinds
  <2>7. CallShape'
    <3>1. /\ call' \in [request : Request, at : Places, next : {"ok", "act"}, seen : Nat]
          /\ call'.at = "status"
      BY <1>3, <2>5 DEF CallShape, Places
    <3>2. QED
      BY <2>6, <3>1 DEF CallShape
  <2>8. QED
    BY <1>8, <1>9, <2>6, <2>7 DEF IInv
<1>12. QED
  BY <1>10, <1>11

LEMMA RestoreKeeps ==
  ASSUME IInv, Restore
  PROVE  IInv' /\ Keeps(disk')
<1> DEFINE op == Op("restore/prepare", call.request.version, NewId)
<1>1. PICK o \in Outcomes(op) :
        /\ Takes(op, o)
        /\ IF IsRecorded(o.answer)
           THEN /\ Records("restore", o.answer)
                /\ call' = [call EXCEPT !.at = "status", !.next = "ok"]
                /\ UNCHANGED verified
           ELSE /\ verified' = IF o.answer.is = "ok" THEN verified \ {o.answer.version} ELSE verified
                /\ Goes("refused") /\ UNCHANGED operations
  BY DEF Restore
<1>2. /\ UNCHANGED <<rows, current, project>>
      /\ call.at = "act" /\ current # 0
  BY DEF Restore, Acts, At
<1>3. CallShape /\ ~HasPending /\ RecordShape /\ Fits(disk, late, minted)
  BY <1>2 DEF IInv, CallShape
<1>4. minted \in Nat
  BY <1>3 DEF Fits, EngineShape
<1>5. op.name = "restore/prepare" /\ op.id = NewId
  BY DEF Op
<1> HIDE DEF op
<1>6. op.name \in Writes /\ op.name \in Prepares /\ op.id \in Nat /\ op.id # 0
  BY <1>4, <1>5 DEF Writes, Prepares, NewId
<1>7. Harmless(disk, op)
  BY <1>2, <1>3, <1>5 DEF Harmless
<1>8. Called(op, o) /\ Fits(disk', late', minted') /\ Keeps(disk')
  BY <1>1, <1>3, <1>5, <1>6, <1>7, CallsFit DEF IInv
<1>9. /\ lock' \in {"free", "running", "abandoned"} /\ upsets' \in 0..MaxUpsets
      /\ damaged' = damaged
  BY <1>8 DEF Called
<1>v. verified' \subseteq Recorded
  BY <1>1, <1>3 DEF RecordShape
<1>10. CASE ~IsRecorded(o.answer)
  <2>1. UNCHANGED operations /\ Goes("refused")
    BY <1>1, <1>10
  <2>2. Fits(disk, late, minted)' /\ RecordShape'
    BY <1>2, <1>3, <1>8, <1>9, <1>v, <2>1, RecordsStand
  <2>3. CallShape'
    BY <1>3, <2>1, Ends
  <2>4. QED
    BY <1>8, <1>9, <2>2, <2>3 DEF IInv
<1>11. CASE IsRecorded(o.answer)
  <2> DEFINE a == o.answer
  <2>0. a.is = "ok" /\ rows[a.version] = a.sentinel
    BY <1>11 DEF IsRecorded
  <2>1. /\ a.version \in Version /\ a.sentinel \in BytesOf(minted') \ {0}
        /\ a.id = NewId /\ NewId \in 1..minted'
        /\ disk'.candidate.version = a.version /\ disk'.candidate.sentinel = a.sentinel
        /\ disk'.candidate.kind = "restore"
        /\ late' # None => late'.id # NewId /\ ~Candidacy(disk', late'.id)
    BY <1>3, <1>5, <1>6, <1>8, <2>0, PreparedIsNew
  <2> HIDE DEF a
  <2>3. a.id \in 0..minted'
    BY <2>1
  <2>4. Recordable("restore", a)
    BY <1>2, <2>0, <2>1, <2>3 DEF Recordable
  <2>5. Records("restore", a) /\ call' = [call EXCEPT !.at = "status", !.next = "ok"]
    BY <1>1, <1>11 DEF a
  <2>6. Fits(disk, late, minted)' /\ RecordShape' /\ HasPending' /\ Pending'.kind = "restore"
    BY <1>2, <1>3, <1>8, <1>9, <1>v, <2>4, <2>5, RecordingFits DEF Kinds
  <2>7. CallShape'
    <3>1. /\ call' \in [request : Request, at : Places, next : {"ok", "act"}, seen : Nat]
          /\ call'.at = "status"
      BY <1>3, <2>5 DEF CallShape, Places
    <3>2. QED
      BY <2>6, <3>1 DEF CallShape
  <2>8. QED
    BY <1>8, <1>9, <2>6, <2>7 DEF IInv
<1>12. QED
  BY <1>10, <1>11

LEMMA InitializeKeeps ==
  ASSUME IInv, InitializeKey
  PROVE  IInv' /\ Keeps(disk')
<1> DEFINE op == Op("initialize", 0, NewId)
           Known(a) == a.is = "ok" /\ rows[a.version] = a.sentinel
           First(a) == a.is = "ok" /\ Recorded = {}
<1>1. PICK o \in Outcomes(op) :
        /\ Takes(op, o)
        /\ IF First(o.answer) THEN Records("initialize", o.answer) ELSE UNCHANGED operations
        /\ call' = [call EXCEPT !.next = "ok",
                      !.at = IF First(o.answer) THEN "finish"
                             ELSE IF Known(o.answer) THEN "verify" ELSE "refused"]
  BY DEF InitializeKey
<1>2. UNCHANGED <<rows, current, verified, project>> /\ call.at = "act"
  BY DEF InitializeKey, Acts, At
<1>3. CallShape /\ ~HasPending /\ RecordShape /\ Fits(disk, late, minted)
  BY <1>2 DEF IInv, CallShape
<1>4. minted \in Nat
  BY <1>3 DEF Fits, EngineShape
<1>5. op.name = "initialize" /\ op.id = NewId
  BY DEF Op
<1> HIDE DEF op
<1>6. op.name \in Writes /\ op.name \notin Prepares /\ op.id \in Nat /\ op.id # 0
  BY <1>4, <1>5 DEF Writes, Prepares, NewId
<1>7. Harmless(disk, op)
  BY <1>5, <1>6 DEF Harmless
<1>8. Called(op, o) /\ Fits(disk', late', minted') /\ Keeps(disk')
  BY <1>1, <1>3, <1>5, <1>6, <1>7, CallsFit DEF IInv
<1>9. /\ lock' \in {"free", "running", "abandoned"} /\ upsets' \in 0..MaxUpsets
      /\ damaged' = damaged
  BY <1>8 DEF Called
<1>v. verified' \subseteq Recorded
  BY <1>2, <1>3 DEF RecordShape
<1>10. CASE ~First(o.answer)
  <2>1. UNCHANGED operations
    BY <1>1, <1>10
  <2>2. Fits(disk, late, minted)' /\ RecordShape'
    BY <1>2, <1>3, <1>8, <1>9, <1>v, <2>1, RecordsStand
  <2>3. CallShape'
    <3>1. ~HasPending'
      BY <1>3, <2>1, PendingStands
    <3>2. /\ call' \in [request : Request, at : Places, next : {"ok", "act"}, seen : Nat]
          /\ call'.at \in {"verify", "refused"}
      BY <1>1, <1>3, <1>10 DEF CallShape, Places
    <3>3. QED
      BY <3>1, <3>2 DEF CallShape
  <2>4. QED
    BY <1>8, <1>9, <2>2, <2>3 DEF IInv
<1>11. CASE First(o.answer)
  <2> DEFINE a == o.answer
  <2>1. a.is = "ok" /\ Recorded = {}
    BY <1>11
  <2>2. current = 0
    BY <1>3, <2>1 DEF RecordShape
  <2>3. /\ a.version = disk'.current /\ a.version # 0 /\ a.id = 0
        /\ a.sentinel = disk'.store[a.version] /\ a.sentinel = disk'.escrow[a.version] /\ a.sentinel # 0
    BY <1>5, <1>8, <2>1 DEF Called, Answers
  <2>4. disk'.current = 1 /\ disk'.candidate = None
    BY <1>3, <1>8, <2>2, <2>3 DEF Fits, Explained, Changes, FirstThingsFirst
  <2>5. /\ minted' \in Nat /\ Sound(disk', minted')
        /\ late' # None => late'.id \in 1..minted'
    BY <1>8 DEF Fits, EngineShape
  <2> HIDE DEF a
  <2>6. a.version \in Version /\ a.sentinel \in BytesOf(minted') \ {0}
    <3>1. 1 \in Version
      BY CustodyAssumption DEF Version
    <3>2. disk'.store \in [Version -> BytesOf(minted')]
      BY <2>5 DEF Sound, DisksOf
    <3>3. QED
      BY <2>3, <2>4, <3>1, <3>2
  <2>7. \A id : ~Candidacy(disk', id)
    BY <2>4 DEF Candidacy
  <2>8. Recordable("initialize", a)
    BY <2>1, <2>2, <2>3, <2>4, <2>5, <2>6, <2>7 DEF Recordable
  <2>9. Records("initialize", a)
    BY <1>1, <1>11 DEF a
  <2>10. /\ Fits(disk, late, minted)' /\ RecordShape' /\ HasPending'
         /\ Pending'.version = a.version
    BY <1>2, <1>3, <1>8, <1>9, <1>v, <2>8, <2>9, RecordingFits DEF Kinds
  <2>11. CallShape'
    <3>1. /\ call' \in [request : Request, at : Places, next : {"ok", "act"}, seen : Nat]
          /\ call'.at = "finish"
      BY <1>1, <1>3, <1>11 DEF CallShape, Places
    <3>2. QED
      BY <2>3, <2>10, <3>1 DEF CallShape
  <2>12. QED
    BY <1>8, <1>9, <2>10, <2>11 DEF IInv
<1>12. QED
  BY <1>10, <1>11

LEMMA FunctionIsASequence ==
  ASSUME NEW S, NEW n \in Nat, NEW f \in [1..n -> S]
  PROVE  f \in Seq(S)
BY SeqDef

(* The pending operation gets the candidate that was prepared in its place. *)
LEMMA Replacing ==
  ASSUME RecordShape, HasPending, NEW a, a.id \in Nat, a.sentinel \in Nat \union {Altered},
         operations' = [i \in DOMAIN operations |->
            IF operations[i].done THEN operations[i]
            ELSE [operations[i] EXCEPT !.candidate = a.id, !.sentinel = a.sentinel]]
  PROVE  /\ operations' \in Seq(Operations)
         /\ PendingOnes' = PendingOnes /\ HasPending'
         /\ Pending'.kind = Pending.kind /\ Pending'.version = Pending.version
         /\ Pending'.candidate = a.id /\ Pending'.sentinel = a.sentinel
<1> DEFINE Other(i) == [operations[i] EXCEPT !.candidate = a.id, !.sentinel = a.sentinel]
           n == Len(operations)
<1>1. operations \in Seq(Operations) /\ n \in Nat /\ DOMAIN operations = 1..n
  BY LenProperties DEF RecordShape
<1>2. ASSUME NEW i \in 1..n
      PROVE  /\ Other(i) \in Operations /\ Other(i).kind = operations[i].kind
             /\ Other(i).version = operations[i].version /\ Other(i).done = operations[i].done
             /\ Other(i).candidate = a.id /\ Other(i).sentinel = a.sentinel
  <2>1. operations[i] \in Operations
    BY <1>1, ElementOfSeq
  <2>2. QED
    BY <2>1 DEF Operations
<1> DEFINE New(i) == IF operations[i].done THEN operations[i] ELSE Other(i)
<1>3. operations' = [i \in 1..n |-> New(i)]
  BY <1>1
<1> HIDE DEF Other, n
<1>4. \A i \in 1..n : operations[i] \in Operations
  BY <1>1, ElementOfSeq DEF n
<1>5. \A i \in 1..n : New(i) \in Operations
  BY <1>2, <1>4
<1>6. operations' \in Seq(Operations)
  <2> HIDE DEF New
  <2>1. operations' \in [1..n -> Operations]
    BY <1>3, <1>5
  <2>2. QED
    BY <1>1, <2>1, FunctionIsASequence
<1>7. PendingOnes' = PendingOnes
  <2>1. DOMAIN operations' = DOMAIN operations
    OBVIOUS
  <2>2. \A i \in DOMAIN operations : operations'[i].done = operations[i].done
    BY <1>1, <1>2, <1>3
  <2>3. QED
    BY <2>1, <2>2 DEF PendingOnes
<1>8. PICK i \in 1..n : Pending = operations[i] /\ ~operations[i].done /\ Pending' = operations'[i]
  <2>1. PICK i \in PendingOnes : i = CHOOSE j \in PendingOnes : TRUE
    BY DEF HasPending
  <2>2. Pending = operations[i] /\ Pending' = operations'[i]
    BY <1>7, <2>1 DEF Pending
  <2>3. i \in 1..n /\ ~operations[i].done
    BY <1>1 DEF PendingOnes
  <2>4. QED
    BY <2>2, <2>3
<1>9. Pending' = Other(i)
  BY <1>3, <1>8
<1>10. HasPending'
  BY <1>7 DEF HasPending
<1>11. QED
  BY <1>2, <1>6, <1>7, <1>8, <1>9, <1>10

(* Nothing is pending once the operations are closed.                       *)
LEMMA Closing ==
  ASSUME operations \in Seq(Operations), operations' = Closed
  PROVE  operations' \in Seq(Operations) /\ PendingOnes' = {} /\ ~HasPending'
<1> DEFINE n == Len(operations)
           Other(i) == [operations[i] EXCEPT !.done = TRUE]
<1>1. n \in Nat /\ DOMAIN operations = 1..n /\ \A i \in 1..n : operations[i] \in Operations
  BY LenProperties, ElementOfSeq
<1>2. ASSUME NEW i \in 1..n PROVE Other(i) \in Operations /\ Other(i).done
  BY <1>1 DEF Operations
<1>3. operations' = [i \in 1..n |-> Other(i)]
  BY <1>1 DEF Closed
<1> HIDE DEF n, Other
<1>4. operations' \in [1..n -> Operations]
  BY <1>2, <1>3
<1>5. operations' \in Seq(Operations)
  BY <1>1, <1>4, FunctionIsASequence
<1>6. PendingOnes' = {}
  BY <1>2, <1>3 DEF PendingOnes
<1>7. QED
  BY <1>5, <1>6 DEF HasPending

LEMMA PrepareAgainKeeps ==
  ASSUME IInv, PrepareAgain
  PROVE  IInv' /\ Keeps(disk')
<1> DEFINE op == PrepareOp
<1>1. PICK o \in Outcomes(op) :
        /\ Takes(op, o)
        /\ IF Replaces(o.answer)
           THEN /\ operations' = [i \in DOMAIN operations |->
                     IF operations[i].done THEN operations[i]
                     ELSE [operations[i] EXCEPT !.candidate = o.answer.id,
                                                !.sentinel = o.answer.sentinel]]
                /\ Goes("recommit")
           ELSE Goes("refused") /\ UNCHANGED operations
  BY DEF PrepareAgain
<1>2. UNCHANGED <<rows, current, verified, project>> /\ call.at = "prepare"
  BY DEF PrepareAgain, At
<1>3. /\ CallShape /\ HasPending /\ Pending.candidate # 0
      /\ RecordShape /\ Fits(disk, late, minted)
  BY <1>2 DEF IInv, CallShape
<1>4. minted \in Nat /\ Pending.candidate \in 0..minted /\ current # 0 /\ Pending.kind # "initialize"
  BY <1>3 DEF Fits, EngineShape, FirstThingsFirst
<1>5. /\ op.id = NewId
      /\ op.name = IF Changes THEN "rotate/prepare" ELSE "restore/prepare"
  BY <1>3 DEF PrepareOp, Op, Changes
<1> HIDE DEF op
<1>6. op.name \in Writes /\ op.name \in Prepares /\ op.id \in Nat /\ op.id # 0
  BY <1>4, <1>5 DEF Writes, Prepares, NewId
<1>7. Harmless(disk, op)
  BY <1>4, <1>5 DEF Harmless, NewId
<1>8. Called(op, o) /\ Fits(disk', late', minted') /\ Keeps(disk')
  BY <1>1, <1>3, <1>5, <1>6, <1>7, CallsFit DEF IInv
<1>9. /\ lock' \in {"free", "running", "abandoned"} /\ upsets' \in 0..MaxUpsets
      /\ damaged' = damaged
  BY <1>8 DEF Called
<1>v. verified' \subseteq Recorded
  BY <1>2, <1>3 DEF RecordShape
<1>10. CASE ~Replaces(o.answer)
  <2>1. UNCHANGED operations /\ Goes("refused")
    BY <1>1, <1>10
  <2>2. Fits(disk, late, minted)' /\ RecordShape'
    BY <1>2, <1>3, <1>8, <1>9, <1>v, <2>1, RecordsStand
  <2>3. CallShape'
    BY <1>3, <2>1, Ends
  <2>4. QED
    BY <1>8, <1>9, <2>2, <2>3 DEF IInv
<1>11. CASE Replaces(o.answer)
  <2> DEFINE a == o.answer
  <2>1. /\ a.is = "ok" /\ a.version = Pending.version
        /\ Pending.kind = "restore" => a.sentinel = Pending.sentinel
    BY <1>11 DEF Replaces
  <2>2. /\ a.version \in Version /\ a.sentinel \in BytesOf(minted') \ {0}
        /\ a.id = NewId /\ NewId \in 1..minted'
        /\ disk'.candidate.id = NewId
        /\ disk'.candidate.version = a.version /\ disk'.candidate.sentinel = a.sentinel
        /\ disk'.current = disk.current /\ disk.current \in disk.versions
        /\ op.name = "rotate/prepare" => a.version \notin disk.versions /\ disk'.candidate.kind = "rotate"
        /\ late' # None => late'.id # NewId /\ ~Candidacy(disk', late'.id)
    BY <1>3, <1>5, <1>6, <1>8, <2>1, PreparedIsNew
  <2>3. minted' \in Nat
    BY <1>8 DEF Called
  <2> HIDE DEF a
  <2>4. /\ operations' = [i \in DOMAIN operations |->
              IF operations[i].done THEN operations[i]
              ELSE [operations[i] EXCEPT !.candidate = a.id, !.sentinel = a.sentinel]]
        /\ Goes("recommit")
    BY <1>1, <1>11 DEF a
  <2>5. a.id \in Nat
    BY <2>2, <2>3
  <2>6. a.sentinel \in Nat \union {Altered}
    <3>1. \A m \in Nat : BytesOf(m) \subseteq Nat \union {Altered}
      BY DEF BytesOf
    <3>2. QED
      BY <2>2, <2>3, <3>1
  <2>7. /\ operations' \in Seq(Operations) /\ PendingOnes' = PendingOnes /\ HasPending'
        /\ Pending'.kind = Pending.kind /\ Pending'.version = Pending.version
        /\ Pending'.candidate = a.id /\ Pending'.sentinel = a.sentinel
    BY <1>3, <2>4, <2>5, <2>6, Replacing
  <2>8. Recorded' = Recorded /\ Changes' = Changes
    BY <1>2, <1>3, <2>7 DEF Recorded, Changes
  <2>9. Changes => disk'.current # Pending.version /\ disk'.candidate.kind = "rotate"
    BY <1>5, <2>1, <2>2
  <2>10. EngineShape(disk, late, minted)'
    BY <1>2, <1>8, <2>2, <2>7 DEF Fits, EngineShape
  <2>11. FirstThingsFirst(disk)'
    BY <1>2, <1>4, <1>8, <2>7 DEF Fits, FirstThingsFirst
  <2>12. Explained(disk)'
    BY <1>2, <1>8, <2>7, <2>8, <2>9 DEF Fits, Explained
  <2>13. PendingIsPrepared(disk)'
    <3>1. Changes' /\ Candidacy(disk, Pending.candidate)' =>
            /\ disk'.candidate.kind = "rotate" /\ disk'.candidate.version = Pending'.version
            /\ disk'.candidate.sentinel = Pending'.sentinel
      BY <2>1, <2>2, <2>7, <2>8, <2>9
    <3>2. Pending.kind = "restore" => rows[Pending.version] = a.sentinel
      BY <1>3, <2>1 DEF Fits, PendingIsPrepared
    <3>3. QED
      BY <1>2, <2>1, <2>2, <2>7, <3>1, <3>2 DEF PendingIsPrepared, Restorable
  <2>14. late' # None => Harmless(disk, late)'
    BY <1>2, <1>8, <2>2, <2>7 DEF Fits, Harmless, Restorable, Candidacy
  <2>15. KeysMatch(disk)'
    BY <1>2, <1>8, <1>9, <2>8 DEF Fits, KeysMatch
  <2>16. RecordShape'
    BY <1>2, <1>3, <2>7, <2>8 DEF RecordShape
  <2>17. CallShape'
    <3>1. /\ call' \in [request : Request, at : Places, next : {"ok", "act"}, seen : Nat]
          /\ call'.at = "recommit"
      BY <1>3, <2>4, PlaceOf DEF Places
    <3>2. QED
      BY <2>2, <2>7, <3>1 DEF CallShape
  <2>18. QED
    BY <1>8, <1>9, <2>10, <2>11, <2>12, <2>13, <2>14, <2>15, <2>16, <2>17 DEF IInv, Fits
<1>12. QED
  BY <1>10, <1>11

LEMMA FinishKeeps ==
  ASSUME IInv, Finish
  PROVE  IInv' /\ Keeps(disk')
<1> DEFINE v == Pending.version
<1>1. /\ IF Pending.kind = "restore" THEN UNCHANGED <<rows, current, project>>
         ELSE /\ rows' = [rows EXCEPT ![v] = IF @ = 0 THEN Pending.sentinel ELSE @]
              /\ current' = v /\ project' = v
      /\ operations' = Closed /\ Goes("verify")
      /\ UNCHANGED <<disk, lock, late, minted, verified, damaged, upsets>>
      /\ call.at = "finish"
  BY DEF Finish, At, engine
<1>2. /\ CallShape /\ HasPending /\ (Changes => disk.current = v)
      /\ RecordShape /\ Fits(disk, late, minted)
  BY <1>1 DEF IInv, CallShape
<1>3. operations' \in Seq(Operations) /\ PendingOnes' = {} /\ ~HasPending' /\ ~Changes'
  BY <1>1, <1>2, Closing DEF RecordShape, Changes
<1>4. /\ v \in Version /\ v \in 1..MaxVersion
      /\ Pending.sentinel \in BytesOf(minted) \ {0}
      /\ minted \in Nat /\ Sound(disk, minted) /\ rows \in [Version -> BytesOf(minted)]
  BY <1>2, PendingIsAnOperation DEF Fits, EngineShape
<1>c. CallShape'
  <2>1. /\ call' \in [request : Request, at : Places, next : {"ok", "act"}, seen : Nat]
        /\ call'.at = "verify"
    BY <1>1, <1>2, PlaceOf DEF Places
  <2>2. QED
    BY <1>3, <2>1 DEF CallShape
<1>k. Keeps(disk')
  BY <1>1 DEF Keeps
<1>5. CASE ~Changes
  <2>1. UNCHANGED <<rows, current, project>> /\ Pending.kind = "restore"
    BY <1>1, <1>2, <1>5 DEF Changes
  <2>2. Recorded' = Recorded
    BY <2>1 DEF Recorded
  <2>3. FirstThingsFirst(disk)' /\ Explained(disk)'
    BY <1>1, <1>2, <1>3, <1>5, <2>1, <2>2 DEF Fits, FirstThingsFirst, Explained
  <2>4. PendingIsPrepared(disk)' /\ (late' # None => Harmless(disk, late)')
    BY <1>1, <1>2, <1>3, <1>5, <2>1
       DEF Fits, PendingIsPrepared, Harmless, Restorable, Candidacy
  <2>5. KeysMatch(disk)'
    BY <1>1, <1>2, <2>1, <2>2 DEF Fits, KeysMatch
  <2>6. EngineShape(disk, late, minted)'
    BY <1>1, <1>2, <1>3, <2>1 DEF Fits, EngineShape
  <2>7. RecordShape'
    BY <1>1, <1>2, <1>3, <2>1, <2>2 DEF RecordShape
  <2>8. QED
    BY <1>1, <1>c, <1>k, <2>3, <2>4, <2>5, <2>6, <2>7 DEF IInv, Fits
<1>6. CASE Changes
  <2>1. /\ rows' = [rows EXCEPT ![v] = IF @ = 0 THEN Pending.sentinel ELSE @]
        /\ current' = v /\ project' = v /\ disk.current = v
    BY <1>1, <1>2, <1>6 DEF Changes
  <2>2. v \notin Recorded
    BY <1>2, <1>6 DEF Fits, Explained
  <2>3. rows[v] = 0
    BY <1>4, <2>2 DEF Recorded
  <2> HIDE DEF v
  <2>4. /\ rows' \in [Version -> BytesOf(minted)] /\ rows'[v] = Pending.sentinel
        /\ \A w \in Version : w # v => rows'[w] = rows[w]
    BY <1>4, <2>1, <2>3
  <2>5. Recorded' = Recorded \union {v}
    BY <1>4, <2>2, <2>4 DEF Recorded
  <2>6. disk.current \in disk.versions
    BY <1>4, <2>1, Retained
  <2>7. /\ disk.candidate # None => disk.candidate.version \in Version /\ disk.candidate.sentinel # 0
        /\ disk.candidate # None /\ disk.candidate.kind = "rotate" => disk.candidate.version # v
    BY <1>4, <2>1, <2>6, Retained
  <2>8. \A id : Restorable(disk, id) => Restorable(disk, id)'
    <3>1. ASSUME NEW id, Restorable(disk, id), Candidacy(disk, id), disk.candidate.kind = "restore"
          PROVE  rows'[disk.candidate.version] = disk.candidate.sentinel
      <4>1. rows[disk.candidate.version] = disk.candidate.sentinel
        BY <3>1 DEF Restorable
      <4>2. disk.candidate.version # v /\ disk.candidate.version \in Version
        BY <2>3, <2>7, <3>1, <4>1 DEF Candidacy
      <4>3. QED
        BY <2>4, <4>1, <4>2
    <3>2. QED
      BY <1>1, <3>1 DEF Restorable, Candidacy
  <2>9. late # None /\ late.name = "rotate/commit" => ~Candidacy(disk, late.id)
    <3>1. ASSUME late # None, late.name = "rotate/commit", Candidacy(disk, late.id) PROVE FALSE
      <4>1. Candidacy(disk, Pending.candidate)
        BY <1>2, <3>1 DEF Fits, Harmless
      <4>2. disk.candidate.kind = "rotate" /\ disk.candidate.version = v /\ disk.candidate # None
        BY <1>2, <1>6, <4>1 DEF Fits, PendingIsPrepared, Candidacy, v
      <4>3. QED
        BY <2>7, <4>2
    <3>2. QED
      BY <3>1
  <2>10. EngineShape(disk, late, minted)'
    BY <1>1, <1>2, <1>3, <2>4 DEF Fits, EngineShape
  <2>11. current' # 0
    BY <1>4, <2>1 DEF v
  <2>12. FirstThingsFirst(disk)' /\ Explained(disk)' /\ PendingIsPrepared(disk)'
    BY <1>1, <1>3, <2>1, <2>11 DEF FirstThingsFirst, Explained, PendingIsPrepared, Changes
  <2>13. late' # None => Harmless(disk, late)'
    BY <1>1, <1>2, <1>3, <2>8, <2>9, <2>11 DEF Fits, Harmless, Candidacy
  <2>14. KeysMatch(disk)'
    <3>1. \A w \in Recorded : rows'[w] = rows[w]
      BY <2>2, <2>4 DEF Recorded
    <3>2. /\ v \in disk.versions
          /\ <<"store", v>> \notin damaged => disk.store[v] = rows'[v]
          /\ <<"escrow", v>> \notin damaged => disk.escrow[v] = rows'[v]
      BY <1>2, <1>6, <2>1, <2>4, <2>6 DEF Fits, Explained, v
    <3>3. KeysMatch(disk)
      BY <1>2 DEF Fits
    <3>4. QED
      BY <1>1, <2>5, <3>1, <3>2, <3>3 DEF KeysMatch
  <2>15. RecordShape'
    BY <1>1, <1>2, <1>3, <1>4, <2>1, <2>5, <2>11 DEF RecordShape, v
  <2>16. QED
    BY <1>1, <1>c, <1>k, <2>10, <2>12, <2>13, <2>14, <2>15 DEF IInv, Fits
<1>7. QED
  BY <1>5, <1>6

(* The engine's part of what stands while a request is taken up or dropped. *)
LEMMA EngineStands ==
  ASSUME IInv, UNCHANGED <<disk, lock, late, minted, damaged>>
  PROVE  /\ Keeps(disk') /\ lock' \in {"free", "running", "abandoned"}
         /\ Fits(disk', late', minted')
BY DEF IInv, Keeps

LEMMA BeginKeeps ==
  ASSUME IInv, NEW r \in Request, Begin(r)
  PROVE  IInv' /\ Keeps(disk')
<1>1. UNCHANGED <<disk, lock, late, minted, rows, current, verified, project, operations, damaged, upsets>>
  BY DEF Begin, engine, records
<1>2. /\ Keeps(disk') /\ lock' \in {"free", "running", "abandoned"}
      /\ Fits(disk', late', minted')
  BY <1>1, EngineStands
<1>3. Fits(disk, late, minted)' /\ RecordShape'
  BY <1>1, <1>2, RecordsStand DEF IInv, RecordShape
<1> DEFINE next == IF Earlier(r) # {} \/ (PendingOnes # {} /\ Pending.kind = r.action) THEN "ok" ELSE "act"
           other == \E i \in Earlier(r) : operations[i].kind # r.action
           at == IF other THEN "refused" ELSE IF PendingOnes # {} THEN "status" ELSE next
<1>4. call' = [request |-> r, next |-> next, seen |-> 0, at |-> at]
  BY DEF Begin
<1>5. /\ next \in {"ok", "act"} /\ at \in {"refused", "status", "ok", "act"}
      /\ (at = "status" => HasPending) /\ (at = "act" => ~HasPending)
  BY DEF HasPending
<1>6. HasPending' = HasPending
  BY <1>1, PendingStands
<1> HIDE DEF next, at
<1>7. /\ call' \in [request : Request, at : Places, next : {"ok", "act"}, seen : Nat]
      /\ call'.at = at
  BY <1>4, <1>5 DEF Places
<1>8. CallShape'
  BY <1>5, <1>6, <1>7 DEF CallShape
<1>9. QED
  BY <1>1, <1>2, <1>3, <1>8 DEF IInv

LEMMA FinishFailsKeeps ==
  ASSUME IInv, FinishFails
  PROVE  IInv' /\ Keeps(disk')
<1>1. /\ UNCHANGED <<disk, lock, late, minted, rows, current, verified, operations, damaged>>
      /\ Goes("refused") /\ call.at = "finish"
      /\ project' \in {project, Pending.version} /\ (Pending.kind = "restore" => project' = project)
      /\ upsets' = upsets + 1 /\ upsets < MaxUpsets
  BY DEF FinishFails, engine, Upset, At
<1>2. /\ CallShape /\ HasPending /\ RecordShape /\ Fits(disk, late, minted)
      /\ upsets' \in 0..MaxUpsets
  BY <1>1, CustodyAssumption DEF IInv, CallShape
<1>3. /\ Keeps(disk') /\ lock' \in {"free", "running", "abandoned"}
  BY <1>1, EngineStands
<1>4. Recorded' = Recorded
  BY <1>1 DEF Recorded
<1>5. Pending.version \in 0..MaxVersion
  BY <1>2, PendingIsAnOperation
<1>6. /\ PendingOnes' = PendingOnes /\ Pending' = Pending
      /\ HasPending' = HasPending /\ Changes' = Changes
  BY <1>1, PendingStands
<1>7. project' # project => Changes /\ Pending.version = project'
  BY <1>1, <1>2 DEF Changes
<1>8. RecordShape'
  BY <1>1, <1>2, <1>4, <1>5, <1>6 DEF RecordShape
<1>9. Explained(disk)'
  BY <1>1, <1>2, <1>4, <1>6, <1>7 DEF Fits, Explained
<1>10. EngineShape(disk, late, minted)' /\ FirstThingsFirst(disk)' /\ KeysMatch(disk)'
  BY <1>1, <1>2, <1>4, <1>6 DEF Fits, EngineShape, FirstThingsFirst, KeysMatch
<1>11. PendingIsPrepared(disk)' /\ (late' # None => Harmless(disk, late)')
  BY <1>1, <1>2, <1>6 DEF Fits, PendingIsPrepared, Harmless, Restorable, Candidacy
<1>12. CallShape'
  BY <1>1, <1>2, Ends
<1>13. QED
  BY <1>2, <1>3, <1>8, <1>9, <1>10, <1>11, <1>12 DEF IInv, Fits

LEMMA RefusalsKeep ==
  ASSUME IInv, NothingToAct \/ GatewayStops
  PROVE  IInv' /\ Keeps(disk')
<1>1. /\ UNCHANGED <<disk, lock, late, minted, rows, current, verified, project, operations, damaged>>
      /\ Goes("refused")
  BY DEF NothingToAct, GatewayStops, engine, records
<1>2. upsets' \in 0..MaxUpsets
  BY CustodyAssumption DEF IInv, NothingToAct, GatewayStops, Upset
<1>3. /\ Keeps(disk') /\ lock' \in {"free", "running", "abandoned"}
      /\ Fits(disk', late', minted')
  BY <1>1, EngineStands
<1>4. Fits(disk, late, minted)' /\ RecordShape'
  BY <1>1, <1>3, RecordsStand DEF IInv, RecordShape
<1>5. CallShape'
  BY <1>1, Ends DEF IInv
<1>6. QED
  BY <1>2, <1>3, <1>4, <1>5 DEF IInv

(* What happens to the engine leaves the request where it is.               *)
LEMMA RequestStands ==
  ASSUME CallShape, UNCHANGED <<call, operations>>,
         Changes => disk'.current \in {disk.current, Pending.version}
  PROVE  CallShape'
<1>1. Pending' = Pending /\ HasPending' = HasPending /\ Changes' = Changes
  BY PendingStands
<1>2. QED
  BY <1>1 DEF CallShape

LEMMA EngineDoneKeeps ==
  ASSUME IInv, EngineDone
  PROVE  IInv' /\ Keeps(disk')
<1>1. /\ UNCHANGED <<disk, late, minted, rows, current, verified, project, operations, call, damaged, upsets>>
      /\ lock' = "free"
  BY DEF EngineDone, records
<1>2. Keeps(disk') /\ Fits(disk', late', minted')
  BY <1>1 DEF IInv, Keeps
<1>3. Fits(disk, late, minted)' /\ RecordShape'
  BY <1>1, <1>2, RecordsStand DEF IInv, RecordShape
<1>4. CallShape'
  BY <1>1, RequestStands DEF IInv
<1>5. QED
  BY <1>1, <1>2, <1>3, <1>4 DEF IInv

(* A candidate that expires is the same candidate.                          *)
LEMMA ExpireKeeps ==
  ASSUME IInv, Expire
  PROVE  IInv' /\ Keeps(disk')
<1>1. /\ UNCHANGED <<lock, late, minted, rows, current, verified, project, operations, call, damaged>>
      /\ disk.candidate # None /\ disk' = [disk EXCEPT !.candidate.expired = TRUE]
  BY DEF Expire, records
<1>2. upsets' \in 0..MaxUpsets
  BY CustodyAssumption DEF IInv, Expire, Upset
<1>3. /\ minted \in Nat /\ Sound(disk, minted) /\ Fits(disk, late, minted) /\ RecordShape
      /\ disk \in DisksOf(minted) /\ disk.candidate \in CandidatesOf(minted)
  BY <1>1 DEF IInv, Fits, EngineShape, Sound, DisksOf
<1> DEFINE c == [disk.candidate EXCEPT !.expired = TRUE]
<1>4. /\ c \in CandidatesOf(minted) /\ c.id = disk.candidate.id /\ c.kind = disk.candidate.kind
      /\ c.version = disk.candidate.version /\ c.sentinel = disk.candidate.sentinel
  BY <1>3 DEF CandidatesOf
<1>5. disk' = [disk EXCEPT !.candidate = c]
  BY <1>1, <1>3 DEF DisksOf
<1> HIDE DEF c
<1>6. /\ disk' \in DisksOf(minted) /\ disk'.candidate = c /\ disk'.current = disk.current
      /\ disk'.versions = disk.versions /\ disk'.store = disk.store /\ disk'.escrow = disk.escrow
  BY <1>3, <1>4, <1>5 DEF DisksOf
<1>7. Sound(disk', minted)
  BY <1>1, <1>3, <1>4, <1>6 DEF Sound
<1>8. \A id : /\ Candidacy(disk', id) => Candidacy(disk, id)
              /\ Restorable(disk, id) => Restorable(disk', id)
  BY <1>1, <1>4, <1>6 DEF Candidacy, Restorable
<1>9. Keeps(disk')
  BY <1>6 DEF Keeps
<1>10. EngineShape(disk', late', minted')
  BY <1>1, <1>3, <1>7 DEF Fits, EngineShape
<1>11. FirstThingsFirst(disk') /\ Explained(disk') /\ KeysMatch(disk')
  BY <1>1, <1>3, <1>6 DEF Fits, FirstThingsFirst, Explained, KeysMatch
<1>12. PendingIsPrepared(disk') /\ (late' # None => Harmless(disk', late'))
  BY <1>1, <1>3, <1>4, <1>6, <1>8 DEF Fits, PendingIsPrepared, Harmless
<1>13. Fits(disk', late', minted')
  BY <1>10, <1>11, <1>12 DEF Fits
<1>14. Fits(disk, late, minted)' /\ RecordShape'
  BY <1>1, <1>3, <1>13, RecordsStand DEF RecordShape
<1>15. CallShape'
  BY <1>1, <1>6, RequestStands DEF IInv
<1>16. QED
  BY <1>1, <1>2, <1>9, <1>14, <1>15 DEF IInv

(* A request that is served late finds nothing it may harm.                 *)
LEMMA ServedLateKeeps ==
  ASSUME IInv, ServedLate
  PROVE  IInv' /\ Keeps(disk')
<1>1. /\ UNCHANGED <<lock, minted, rows, current, verified, project, operations, call, damaged, upsets>>
      /\ late # None /\ late' = None /\ Within(disk')
      /\ disk' = disk \/ disk' = Last(Run(late).path)
  BY DEF ServedLate, records
<1>2. /\ minted \in Nat /\ Sound(disk, minted) /\ Fits(disk, late, minted) /\ RecordShape
      /\ late.name \in Writes /\ late.id \in 1..minted /\ Harmless(disk, late)
  BY <1>1 DEF IInv, Fits, EngineShape
<1>3. Serves(Run(late), late, minted)
  BY <1>2, RunServes
<1>4. Sound(disk', minted) /\ Effect(disk, disk', late)
  <2>1. CASE disk' = disk
    BY <1>2, <2>1 DEF Effect, Unharmed, Same
  <2>2. CASE disk' = Last(Run(late).path)
    <3> DEFINE path == Run(late).path
    <3>1. disk' = path[Len(path)] /\ path[Len(path)] \in Range(path)
      BY <1>3, <2>2 DEF Last, Serves
    <3>2. QED
      BY <1>1, <1>3, <3>1 DEF Serves
  <2>3. QED
    BY <1>1, <2>1, <2>2
<1>5. Fits(disk', None, minted) /\ Keeps(disk')
  <2>1. minted <= minted
    BY <1>2
  <2>2. QED
    BY <1>2, <1>4, <2>1, EffectFits
<1>6. Fits(disk', late', minted')
  BY <1>1, <1>5
<1>7. Fits(disk, late, minted)' /\ RecordShape'
  BY <1>1, <1>2, <1>6, RecordsStand DEF RecordShape
<1>8. Changes => disk'.current \in {disk.current, Pending.version}
  BY <1>2, <1>4, CurrentMoves
<1>9. CallShape'
  BY <1>1, <1>8, RequestStands DEF IInv
<1>10. QED
  BY <1>1, <1>5, <1>7, <1>9 DEF IInv

(* What the damage leaves is what it does not touch.                        *)
LEMMA DamagedDisk ==
  ASSUME NEW m \in Nat, Sound(disk, m), NEW place \in {"store", "escrow"}, NEW v \in Version,
         NEW bytes \in {0, Altered}, disk' = [disk EXCEPT ![place][v] = bytes]
  PROVE  /\ Sound(disk', m)
         /\ disk'.current = disk.current /\ disk'.versions = disk.versions
         /\ disk'.candidate = disk.candidate
         /\ \A w \in Version : <<place, v>> # <<"store", w>> => disk'.store[w] = disk.store[w]
         /\ \A w \in Version : <<place, v>> # <<"escrow", w>> => disk'.escrow[w] = disk.escrow[w]
<1>1. disk \in DisksOf(m) /\ bytes \in BytesOf(m)
  BY DEF Sound, BytesOf
<1> DEFINE Rest == /\ disk' \in DisksOf(m) /\ disk'.current = disk.current
                   /\ disk'.versions = disk.versions /\ disk'.candidate = disk.candidate
<1>2. CASE place = "store"
  <2>1. disk' = [disk EXCEPT !.store[v] = bytes]
    BY <1>2
  <2>2. Rest /\ disk'.escrow = disk.escrow /\ \A w \in Version : w # v => disk'.store[w] = disk.store[w]
    BY <1>1, <2>1 DEF DisksOf
  <2>3. QED
    BY <1>2, <2>2 DEF Sound
<1>3. CASE place = "escrow"
  <2>1. disk' = [disk EXCEPT !.escrow[v] = bytes]
    BY <1>3
  <2>2. Rest /\ disk'.store = disk.store /\ \A w \in Version : w # v => disk'.escrow[w] = disk.escrow[w]
    BY <1>1, <2>1 DEF DisksOf
  <2>3. QED
    BY <1>3, <2>2 DEF Sound
<1>4. QED
  BY <1>2, <1>3

LEMMA DamageKeeps ==
  ASSUME IInv, NEW place \in {"store", "escrow"}, NEW v \in Version, Damage(place, v)
  PROVE  IInv' /\ damaged' # damaged /\ disk'.versions = disk.versions
<1>1. PICK bytes \in {0, Altered} : disk' = [disk EXCEPT ![place][v] = bytes]
  BY DEF Damage
<1>2. /\ UNCHANGED <<lock, late, minted, rows, current, verified, project, operations, call, upsets>>
      /\ damaged' = damaged \union {<<place, v>>} /\ <<place, v>> \notin damaged
  BY DEF Damage, records
<1>3. /\ minted \in Nat /\ Sound(disk, minted) /\ Fits(disk, late, minted) /\ RecordShape
  BY DEF IInv, Fits, EngineShape
<1>4. /\ Sound(disk', minted)
      /\ disk'.current = disk.current /\ disk'.versions = disk.versions
      /\ disk'.candidate = disk.candidate
      /\ \A w \in Version : <<place, v>> # <<"store", w>> => disk'.store[w] = disk.store[w]
      /\ \A w \in Version : <<place, v>> # <<"escrow", w>> => disk'.escrow[w] = disk.escrow[w]
  BY <1>1, <1>3, DamagedDisk
<1>5. \A w \in Version :
        /\ <<"store", w>> \notin damaged' =>
             <<"store", w>> \notin damaged /\ disk'.store[w] = disk.store[w]
        /\ <<"escrow", w>> \notin damaged' =>
             <<"escrow", w>> \notin damaged /\ disk'.escrow[w] = disk.escrow[w]
  BY <1>2, <1>4
<1>6. /\ PendingOnes' = PendingOnes /\ Pending' = Pending
      /\ HasPending' = HasPending /\ Changes' = Changes /\ Recorded' = Recorded
  BY <1>2, PendingStands DEF Recorded
<1>7. EngineShape(disk, late, minted)'
  BY <1>2, <1>3, <1>4, <1>6 DEF Fits, EngineShape
<1>8. FirstThingsFirst(disk)'
  BY <1>2, <1>3, <1>4, <1>6 DEF Fits, FirstThingsFirst
<1>9. Explained(disk)'
  <2>1. Changes => Pending.version \in Version
    BY <1>3, PendingIsAnOperation DEF Changes
  <2>2. Explained(disk)
    BY <1>3 DEF Fits
  <2>3. Changes /\ disk.current = Pending.version =>
          /\ <<"store", disk.current>> \notin damaged' => disk'.store[disk.current] = Pending.sentinel
          /\ <<"escrow", disk.current>> \notin damaged' => disk'.escrow[disk.current] = Pending.sentinel
    BY <1>5, <2>1, <2>2 DEF Explained
  <2>4. QED
    BY <1>2, <1>4, <1>6, <2>2, <2>3 DEF Explained
<1>10. PendingIsPrepared(disk)' /\ (late' # None => Harmless(disk, late)')
  BY <1>2, <1>3, <1>4, <1>6 DEF Fits, PendingIsPrepared, Harmless, Restorable, Candidacy
<1>11. KeysMatch(disk)'
  <2>1. \A w \in Recorded : w \in Version
    BY DEF Recorded
  <2>2. KeysMatch(disk)
    BY <1>3 DEF Fits
  <2>3. QED
    BY <1>2, <1>4, <1>5, <1>6, <2>1, <2>2 DEF KeysMatch
<1>12. RecordShape'
  BY <1>2, <1>3, <1>6 DEF RecordShape
<1>13. CallShape'
  BY <1>2, <1>4, RequestStands DEF IInv
<1>14. QED
  BY <1>2, <1>4, <1>7, <1>8, <1>9, <1>10, <1>11, <1>12, <1>13 DEF IInv, Fits

-------------------------------------------------------------------------------
(* The invariant *)

LEMMA InitFits ==
  ASSUME Init
  PROVE  IInv
<1>1. /\ disk = Empty /\ late = None /\ minted = 0 /\ lock = "free"
      /\ rows = [v \in Version |-> 0] /\ current = 0 /\ verified = {} /\ project = 0
      /\ operations = << >> /\ upsets = 0
  BY DEF Init
<1>2. PICK r \in Request : call = [request |-> r, at |-> "refused", next |-> "act", seen |-> 0]
  BY DEF Init
<1>3. Recorded = {}
  BY <1>1 DEF Recorded
<1>4. PendingOnes = {} /\ ~HasPending /\ ~Changes
  BY <1>1 DEF PendingOnes, HasPending, Changes
<1>5. Sound(disk, 0)
  <2>1. Empty \in DisksOf(0)
    BY CustodyAssumption DEF Empty, DisksOf, BytesOf
  <2>2. QED
    BY <1>1, <2>1 DEF Sound, Empty
<1>6. disk.candidate = None /\ disk.current = 0
  BY <1>1 DEF Empty
<1>7. rows \in [Version -> BytesOf(0)]
  BY <1>1 DEF BytesOf
<1>8. EngineShape(disk, late, minted)
  BY <1>1, <1>4, <1>5, <1>7 DEF EngineShape
<1>9. FirstThingsFirst(disk) /\ Explained(disk) /\ PendingIsPrepared(disk) /\ KeysMatch(disk)
  BY <1>1, <1>3, <1>4, <1>6 DEF FirstThingsFirst, Explained, PendingIsPrepared, KeysMatch
<1>10. RecordShape
  BY <1>1, <1>3, <1>4, CustodyAssumption DEF RecordShape
<1>11. CallShape
  BY <1>2, <1>4 DEF CallShape, Places
<1>12. QED
  BY <1>1, <1>8, <1>9, <1>10, <1>11, CustodyAssumption DEF IInv, Fits

LEMMA StepKeeps ==
  ASSUME IInv, Step
  PROVE  IInv' /\ Keeps(disk')
<1>1. CASE Status
  BY <1>1, StatusKeeps
<1>2. CASE Compare
  BY <1>2, CompareKeeps
<1>3. CASE CommitCandidate
  BY <1>3, CommitCandidateKeeps
<1>4. CASE PrepareAgain
  BY <1>4, PrepareAgainKeeps
<1>5. CASE Finish
  BY <1>5, FinishKeeps
<1>6. CASE Verify
  BY <1>6, VerifyKeeps
<1>7. CASE Rehearse
  BY <1>7, RehearseKeeps
<1>8. CASE InitializeKey
  BY <1>8, InitializeKeeps
<1>9. CASE Rotate
  BY <1>9, RotateKeeps
<1>10. CASE Restore
  BY <1>10, RestoreKeeps
<1>11. CASE NothingToAct
  BY <1>11, RefusalsKeep
<1>12. QED
  BY <1>1, <1>2, <1>3, <1>4, <1>5, <1>6, <1>7, <1>8, <1>9, <1>10, <1>11 DEF Step

LEMMA StandingStill ==
  ASSUME IInv, UNCHANGED vars
  PROVE  IInv'
<1>1. /\ UNCHANGED <<disk, lock, late, minted, rows, current, verified, project, operations, damaged>>
      /\ UNCHANGED <<call, upsets>>
  BY DEF vars, engine, records
<1>2. Fits(disk', late', minted') /\ lock' \in {"free", "running", "abandoned"}
  BY <1>1, EngineStands
<1>3. Fits(disk, late, minted)' /\ RecordShape'
  BY <1>1, <1>2, RecordsStand DEF IInv, RecordShape
<1>4. CallShape'
  BY <1>1, RequestStands DEF IInv
<1>5. QED
  BY <1>1, <1>2, <1>3, <1>4 DEF IInv

(* A step keeps the invariant, and either keeps the retained keys or is     *)
(* damage.                                                                  *)
LEMMA NextKeeps ==
  ASSUME IInv, Next
  PROVE  IInv' /\ (Keeps(disk') \/ (damaged' # damaged /\ disk'.versions = disk.versions))
<1>1. CASE \E r \in Request : Begin(r)
  BY <1>1, BeginKeeps
<1>2. CASE Step
  BY <1>2, StepKeeps
<1>3. CASE FinishFails
  BY <1>3, FinishFailsKeeps
<1>4. CASE GatewayStops
  BY <1>4, RefusalsKeep
<1>5. CASE Expire
  BY <1>5, ExpireKeeps
<1>6. CASE EngineDone
  BY <1>6, EngineDoneKeeps
<1>7. CASE ServedLate
  BY <1>7, ServedLateKeeps
<1>8. CASE \E place \in {"store", "escrow"}, v \in Version : Damage(place, v)
  BY <1>8, DamageKeeps
<1>9. QED
  BY <1>1, <1>2, <1>3, <1>4, <1>5, <1>6, <1>7, <1>8 DEF Next

(* The invariant holds in every behaviour, with or without fairness.        *)
THEOREM Custody == Spec => []IInv
<1>1. Init => IInv
  BY InitFits
<1>2. IInv /\ [Next]_vars => IInv'
  BY NextKeeps, StandingStill
<1>3. QED
  BY <1>1, <1>2, PTL DEF Spec

(* Whatever is lost, comes late or is done by halves, files, records and    *)
(* the running request keep their shape.                                    *)
THEOREM CustodyTyping == Spec => []TypeOK
<1>1. IInv => TypeOK
  <2> SUFFICES ASSUME IInv PROVE TypeOK
    OBVIOUS
  <2>1. /\ minted \in Nat /\ Sound(disk, minted) /\ RecordShape /\ CallShape
        /\ rows \in [Version -> BytesOf(minted)]
        /\ lock \in {"free", "running", "abandoned"} /\ upsets \in 0..MaxUpsets
    BY DEF IInv, Fits, EngineShape
  <2>2. BytesOf(minted) = Bytes
    BY DEF BytesOf, Bytes
  <2>3. /\ disk.versions \subseteq Version /\ disk.current \in disk.versions \union {0}
        /\ disk.store \in [Version -> Bytes] /\ disk.escrow \in [Version -> Bytes]
        /\ disk.initial \in Bytes
    BY <2>1, <2>2 DEF Sound, DisksOf
  <2>4. Cardinality(PendingOnes) <= 1
    <3>1. CASE PendingOnes = {}
      BY <3>1, FS_EmptySet
    <3>2. CASE PendingOnes # {}
      <4>1. PICK i \in PendingOnes : TRUE
        BY <3>2
      <4>2. PendingOnes = {i}
        BY <2>1, <4>1 DEF RecordShape
      <4>3. Cardinality({i}) = 1
        BY FS_Singleton
      <4>4. QED
        BY <4>2, <4>3
    <3>3. QED
      BY <3>1, <3>2
  <2>5. \A i \in DOMAIN operations : operations[i].kind \in Kinds
    <3>1. \A i \in DOMAIN operations : operations[i] \in Operations
      BY <2>1, LenProperties, ElementOfSeq DEF RecordShape
    <3>2. QED
      BY <3>1 DEF Operations
  <2>6. QED
    BY <2>1, <2>2, <2>3, <2>4, <2>5 DEF TypeOK, RecordShape, CallShape, HasPending
<1>2. QED
  BY <1>1, Custody, PTL

(* The engine's current key, the current row and the receipts' version are  *)
(* the same, unless the pending operation says which is about to be.        *)
THEOREM CustodyExplained == Spec => []CurrentIsExplained
<1>1. IInv => CurrentIsExplained
  BY DEF IInv, Fits, Explained, CurrentIsExplained, Changes, HasPending
<1>2. QED
  BY <1>1, Custody, PTL

(* Every recorded version is retained, with the recorded key in each copy   *)
(* that nobody touched.                                                     *)
THEOREM CustodyMatch == Spec => []KeysMatchRecords
<1>1. IInv => KeysMatchRecords
  BY DEF IInv, Fits, KeysMatch, KeysMatchRecords
<1>2. QED
  BY <1>1, Custody, PTL

(* No retained version is given up, and what is written over a retained key *)
(* in the store is the key on record.                                       *)
THEOREM CustodyReturns == Spec => OnlyRecordedKeysReturn
<1> DEFINE Returns ==
      /\ disk.versions \subseteq disk'.versions
      /\ \A v \in disk.versions \intersect Recorded :
           disk'.store[v] # disk.store[v] /\ damaged' = damaged => disk'.store[v] = rows[v]
<1>1. IInv /\ [Next]_vars => [Returns]_vars
  BY NextKeeps DEF Keeps
<1>2. QED
  BY <1>1, Custody, PTL DEF Spec, OnlyRecordedKeysReturn
===============================================================================
