------------------------- MODULE FilingRegisterProofs -------------------------
(***************************************************************************)
(* Proofs about FilingRegister, for any deliveries, bytes, attributions    *)
(* and number of failures: the landing database holds the same bytes once, *)
(* and what it holds is what the register says.                            *)
(*                                                                         *)
(* The invariant follows the running pass.  What it is about to persist    *)
(* differs from the record in memory in the progress of the filing only,   *)
(* and it takes a filing up for landing only if no earlier attempt of this *)
(* or another process has committed it: a reconciliation recovers the      *)
(* commit receipts before it resumes.                                      *)
(***************************************************************************)
EXTENDS FilingRegister, SequenceTheorems, FiniteSetTheorems, WellFoundedInduction, TLAPS

LEMMA LeastExists ==
  ASSUME NEW S \in SUBSET Nat, S # {}
  PROVE  \E x \in S : \A y \in S : x <= y
<1> DEFINE before == {p \in Nat \X Nat : p[1] < p[2]}
<1>1. IsWellFoundedOn(before, Nat)
  <2>1. before = OpToRel(<, Nat)
    BY DEF OpToRel
  <2>2. QED
    BY <2>1, NatLessThanWellFounded
<1>2. \E x \in S : \A y \in S : ~(<<y, x>> \in before)
  BY <1>1, WFMin
<1>3. \A x, y \in Nat : y < x => <<y, x>> \in before
  OBVIOUS
<1> HIDE DEF before
<1>4. \A x, y \in Nat : ~(y < x) => x <= y
  OBVIOUS
<1>5. QED
  BY <1>2, <1>3, <1>4

LEMMA Smallest ==
  ASSUME NEW S \in SUBSET Nat, S # {}
  PROVE  Min(S) \in S /\ \A y \in S : Min(S) <= y
BY LeastExists DEF Min

LEMMA Greatest ==
  ASSUME NEW n \in Nat, NEW S \in SUBSET (0..n), S # {}
  PROVE  Max(S) \in S
<1> DEFINE mirror == {n - x : x \in S}
<1>1. mirror \in SUBSET Nat /\ mirror # {}
  <2>1. \A x \in S : x \in 0..n /\ n - x \in Nat
    OBVIOUS
  <2>2. QED
    BY <2>1
<1>2. PICK x \in mirror : \A y \in mirror : x <= y
  BY <1>1, LeastExists
<1>3. PICK z \in S : x = n - z
  BY <1>2
<1>4. \A y \in S : z >= y
  <2>1. \A y \in S : n - z <= n - y
    BY <1>2, <1>3
  <2>2. QED
    BY <2>1
<1>5. QED
  BY <1>4 DEF Max

(* The register is no longer than the deliveries are many.                 *)
LEMMA TheRegister ==
  ASSUME TypeOK
  PROVE  /\ Len(filings) \in Nat /\ Ids = 1..Len(filings)
         /\ Cardinality(Arrival) \in Nat
         /\ Ids \subseteq 1..Cardinality(Arrival)
         /\ \A i \in Ids : filings[i] \in FilingType
<1>1. Len(filings) \in Nat /\ Ids = 1..Len(filings) /\ \A i \in Ids : filings[i] \in FilingType
  BY LenProperties, ElementOfSeq DEF TypeOK, Ids
<1>2. /\ Cardinality(Arrival) \in Nat /\ Cardinality(zone) \in Nat
      /\ Cardinality(zone) <= Cardinality(Arrival)
  BY FilingAssumption, FS_Subset, FS_CardinalityType DEF TypeOK
<1>3. QED
  BY <1>1, <1>2 DEF TypeOK

----------------------------------------------------------------------------
(* What the operators return *)

IdentifiedAs(f, g, others) ==
  /\ g \in FilingType
  /\ g.file = f.file /\ g.landing = f.landing /\ g.revision = f.revision /\ g.delivered = f.delivered
  /\ \/ g = f
     \/ g.status = "duplicate"
     \/ g.status = "ready" /\ \A j \in others : filings[j].status = "ready" => Sha[filings[j].file] # Sha[f.file]

(* The links a filing gets lead to filings that are registered.             *)
LEMMA LinksLead ==
  ASSUME TypeOK, NEW S \in SUBSET Ids
  PROVE  Latest(S) \in Link /\ (S # {} => OriginalOf(S) \in Link)
<1>1. /\ Cardinality(Arrival) \in Nat /\ Ids \subseteq 1..Cardinality(Arrival)
      /\ \A i \in Ids : filings[i] \in FilingType
  BY TheRegister
<1>2. S \in SUBSET (0..Cardinality(Arrival)) /\ S \in SUBSET Nat
  BY <1>1
<1>3. S # {} => Max(S) \in S /\ Min(S) \in S
  BY <1>1, <1>2, Greatest, Smallest
<1>4. \A i \in Ids : i \in Link /\ filings[i].duplicateOf \in Link
  BY <1>1 DEF Link, FilingType
<1>5. 0 \in Link
  BY <1>1 DEF Link
<1>6. QED
  BY <1>3, <1>4, <1>5 DEF Latest, OriginalOf

(* A filing is identified under the rules of the moment: it stays as it is, *)
(* becomes a duplicate, or becomes ready when no ready filing has its bytes. *)
LEMMA Identifying ==
  ASSUME TypeOK, NEW f \in FilingType, NEW found \in Tuple \cup {Unmatched},
         NEW others \in SUBSET Ids
  PROVE  IdentifiedAs(f, Identified(f, found, others), others)
<1> DEFINE twins == {j \in others : filings[j].status # "quarantined" /\ Sha[filings[j].file] = Sha[f.file]}
           rivals == {j \in others : filings[j].status = "ready" /\ filings[j].tuple = found}
           g == Identified(f, found, others)
<1>1. CASE found = Unmatched
  BY <1>1 DEF Identified, IdentifiedAs
<1>2. CASE found # Unmatched /\ twins # {}
  <2>1. OriginalOf(twins) \in Link
    BY <1>2, LinksLead
  <2>2. g = [f EXCEPT !.status = "duplicate", !.tuple = found, !.duplicateOf = OriginalOf(twins)]
    BY <1>2 DEF Identified
  <2>3. /\ g \in FilingType /\ g.status = "duplicate"
        /\ g.file = f.file /\ g.landing = f.landing /\ g.revision = f.revision /\ g.delivered = f.delivered
    BY <2>1, <2>2 DEF FilingType, Status
  <2>4. QED
    BY <2>3 DEF IdentifiedAs
<1>3. CASE found # Unmatched /\ twins = {}
  <2>1. Latest(rivals) \in Link
    BY LinksLead
  <2>2. g = [f EXCEPT !.status = "ready", !.tuple = found, !.supersedes = Latest(rivals)]
    BY <1>3 DEF Identified
  <2>3. /\ g \in FilingType /\ g.status = "ready"
        /\ g.file = f.file /\ g.landing = f.landing /\ g.revision = f.revision /\ g.delivered = f.delivered
    BY <2>1, <2>2 DEF FilingType, Status
  <2>4. \A j \in others : filings[j].status = "ready" => Sha[filings[j].file] # Sha[f.file]
    BY <1>3
  <2>5. QED
    BY <2>3, <2>4 DEF IdentifiedAs
<1>4. QED
  BY <1>1, <1>2, <1>3

(* The register after filing i is rewritten.                                *)
LEMMA Rewritten ==
  ASSUME TypeOK, NEW i \in Ids, NEW g \in FilingType, filings' = [filings EXCEPT ![i] = g]
  PROVE  /\ filings' \in Seq(FilingType) /\ Len(filings') = Len(filings) /\ Ids' = Ids
         /\ filings'[i] = g
         /\ \A j \in Ids : j # i => filings'[j] = filings[j]
<1>1. filings \in Seq(FilingType) /\ i \in 1..Len(filings) /\ Ids = 1..Len(filings)
  BY TheRegister DEF TypeOK
<1>2. /\ filings' \in Seq(FilingType) /\ Len(filings') = Len(filings)
      /\ \A j \in 1..Len(filings) : filings'[j] = IF j = i THEN g ELSE filings[j]
  BY <1>1, ExceptSeq
<1>3. DOMAIN filings' = 1..Len(filings')
  BY <1>2, LenProperties
<1>4. QED
  BY <1>1, <1>2, <1>3 DEF Ids

(* The register after a filing is added.                                    *)
LEMMA Extended ==
  ASSUME TypeOK, NEW g \in FilingType, filings' = Append(filings, g)
  PROVE  /\ filings' \in Seq(FilingType) /\ Len(filings') = Len(filings) + 1
         /\ Ids' = Ids \cup {Len(filings) + 1} /\ Len(filings) + 1 \notin Ids
         /\ filings'[Len(filings) + 1] = g
         /\ \A j \in Ids : filings'[j] = filings[j]
<1>1. filings \in Seq(FilingType) /\ Ids = 1..Len(filings) /\ Len(filings) \in Nat
  BY TheRegister DEF TypeOK
<1>2. /\ filings' \in Seq(FilingType) /\ Len(filings') = Len(filings) + 1
      /\ \A j \in 1..Len(filings) : filings'[j] = filings[j]
      /\ filings'[Len(filings) + 1] = g
  BY <1>1, AppendProperties
<1>3. DOMAIN filings' = 1..Len(filings')
  BY <1>2, LenProperties
<1>4. QED
  BY <1>1, <1>2, <1>3 DEF Ids

(* A record persisted with the next revision.                               *)
LEMMA Revised ==
  ASSUME TypeOK, NEW i \in Ids, NEW f \in FilingType, filings' = Stored(i, f)
  PROVE  \E g \in FilingType :
           /\ filings' = [filings EXCEPT ![i] = g]
           /\ g.file = f.file /\ g.status = f.status /\ g.tuple = f.tuple /\ g.supersedes = f.supersedes
           /\ g.landing = f.landing
<1> DEFINE g == [f EXCEPT !.revision = @ + 1]
<1>1. f.revision \in Nat \ {0}
  BY DEF FilingType
<1>2. f.revision + 1 \in Nat \ {0}
  BY <1>1
<1>3. /\ g \in FilingType
      /\ g.file = f.file /\ g.status = f.status /\ g.tuple = f.tuple /\ g.supersedes = f.supersedes
      /\ g.landing = f.landing
  BY <1>2 DEF FilingType
<1>4. filings' = [filings EXCEPT ![i] = g]
  BY DEF Stored
<1>5. QED
  BY <1>3, <1>4

----------------------------------------------------------------------------
(* What a step does to the register *)

(* The file of a filing is a settled delivery, and no two have the same.    *)
FilesDiffer ==
  /\ \A i \in Ids : filings[i].file \in zone
  /\ \A i, j \in Ids : filings[i].file = filings[j].file => i = j

(* Filing i is rewritten: an attempt to land it ends, its landing is        *)
(* recovered, or its notice is recorded; it stays what it is, or is put in  *)
(* quarantine.                                                              *)
Progresses(i) ==
  \E g \in FilingType :
    /\ i \in Ids /\ filings' = [filings EXCEPT ![i] = g]
    /\ g.file = filings[i].file /\ g.tuple = filings[i].tuple /\ g.supersedes = filings[i].supersedes
    /\ filings[i].landing # "none" => g.landing # "none"
    /\ \/ g.status = filings[i].status
       \/ g.status = "quarantined" /\ ~Committed(i)

(* Filing i is new, or was in quarantine and is identified anew.            *)
Identifies(i) ==
  \E g \in FilingType :
    /\ \A j \in Ids \ {i} : filings[j].status = "ready" /\ g.status = "ready" =>
                              Sha[filings[j].file] # Sha[g.file]
    /\ \/ /\ i \in Ids /\ filings' = [filings EXCEPT ![i] = g]
          /\ filings[i].status = "quarantined" /\ filings[i].landing = "none"
          /\ g.file = filings[i].file
       \/ /\ i = Len(filings) + 1 /\ filings' = Append(filings, g)
          /\ g.file \in zone /\ ~Registered(g.file)

(* What a pass is about to persist is the record it works on, further on.   *)
Continues(f, g) ==
  /\ f.file = g.file /\ f.tuple = g.tuple /\ f.supersedes = g.supersedes

(* The pass persists no other change than this, and takes up no filing that *)
(* has its rows.                                                            *)
PassKeeps ==
  /\ pass.at \in {"landed", "save"} =>
       /\ Continues(pass.next, Current)
       /\ Current.landing # "none" => pass.next.landing # "none"
  /\ pass.at = "landed" => pass.next.status = Current.status
  /\ pass.at = "save" =>
       \/ pass.next.status = Current.status
       \/ pass.next.status = "quarantined" /\ ~Committed(pass.id)
  /\ pass.at = "work" /\ ~HasNoWork => ~Committed(pass.id)

LEMMA NewFiling ==
  ASSUME NEW a \in Arrival, FilingAssumption
  PROVE  Filing(a) \in FilingType
<1>1. 0 \in Link
  BY FS_CardinalityType DEF FilingAssumption, Link
<1>2. QED
  BY <1>1 DEF Filing, FilingType, Status

LEMMA RegisterSteps ==
  ASSUME TypeOK, PassKeeps, [Next]_vars
  PROVE  \/ UNCHANGED filings
         \/ \E i \in Ids : Progresses(i)
         \/ \E i \in Ids \cup {Len(filings) + 1} : Identifies(i)
<1>1. ASSUME NEW a \in Arrival, Register(a)
      PROVE  Identifies(Len(filings) + 1)
  <2>1. PICK found \in Tuple \cup {Unmatched} : filings' = Append(filings, Identified(Filing(a), found, Ids))
    BY <1>1 DEF Register
  <2> DEFINE g == Identified(Filing(a), found, Ids)
  <2>2. Filing(a) \in FilingType /\ Filing(a).status = "quarantined" /\ Filing(a).file = a
    BY NewFiling, FilingAssumption DEF Filing
  <2>3. IdentifiedAs(Filing(a), g, Ids)
    BY <2>2, Identifying
  <2> HIDE DEF g
  <2>4. /\ g \in FilingType /\ g.file = a
        /\ \A j \in Ids : filings[j].status = "ready" /\ g.status = "ready" => Sha[filings[j].file] # Sha[g.file]
    BY <2>2, <2>3 DEF IdentifiedAs
  <2>5. filings' = Append(filings, g) /\ a \in zone /\ ~Registered(a)
    BY <1>1, <2>1 DEF Register, g
  <2>6. QED
    BY <2>4, <2>5 DEF Identifies
<1>2. ASSUME NEW i \in Ids, Retry(i)
      PROVE  Identifies(i)
  <2>1. PICK found \in Tuple \cup {Unmatched} :
          filings' = Stored(i, Identified([filings[i] EXCEPT !.inspected = FALSE], found, Ids \ {i}))
    BY <1>2 DEF Retry
  <2> DEFINE f == [filings[i] EXCEPT !.inspected = FALSE]
             h == Identified(f, found, Ids \ {i})
  <2>2. filings[i] \in FilingType /\ filings[i].status = "quarantined" /\ filings[i].landing = "none"
    BY <1>2, TheRegister DEF Retry
  <2>3. f \in FilingType /\ f.status = "quarantined" /\ f.file = filings[i].file
    BY <2>2 DEF FilingType
  <2> HIDE DEF f
  <2>4. IdentifiedAs(f, h, Ids \ {i})
    BY <2>3, Identifying
  <2> HIDE DEF h
  <2>5. /\ h \in FilingType /\ h.file = filings[i].file
        /\ \A j \in Ids \ {i} : filings[j].status = "ready" /\ h.status = "ready" => Sha[filings[j].file] # Sha[h.file]
    BY <2>3, <2>4 DEF IdentifiedAs
  <2>6. filings' = Stored(i, h)
    BY <2>1 DEF f, h
  <2>7. PICK g \in FilingType : filings' = [filings EXCEPT ![i] = g] /\ g.file = h.file /\ g.status = h.status
    BY <2>5, <2>6, Revised
  <2>8. QED
    BY <2>2, <2>5, <2>7 DEF Identifies
<1>3. ASSUME Save
      PROVE  Progresses(pass.id)
  <2>1. pass.at = "save" /\ filings' = Stored(pass.id, pass.next)
    BY <1>3 DEF Save, At
  <2> DEFINE i == pass.id
             f == pass.next
  <2>2. f \in FilingType /\ i \in Ids
    BY <2>1 DEF TypeOK
  <2>3. filings' = Stored(i, f)
    BY <2>1
  <2>4. /\ Continues(f, filings[i])
        /\ filings[i].landing # "none" => f.landing # "none"
        /\ f.status = filings[i].status \/ (f.status = "quarantined" /\ ~Committed(i))
    BY <2>1 DEF PassKeeps, Current
  <2> HIDE DEF i, f
  <2>5. PICK g \in FilingType :
           /\ filings' = [filings EXCEPT ![i] = g]
           /\ g.file = f.file /\ g.status = f.status /\ g.tuple = f.tuple /\ g.supersedes = f.supersedes
           /\ g.landing = f.landing
    BY <2>2, <2>3, Revised
  <2>6. Progresses(i)
    BY <2>2, <2>4, <2>5 DEF Progresses, Continues
  <2>7. QED
    BY <2>6 DEF i
<1>4. ASSUME Recover, Unknown # {}
      PROVE  Progresses(Min(Unknown))
  <2>1. Min(Unknown) \in Unknown
    <3>1. Unknown \in SUBSET Nat
      BY TheRegister DEF Unknown
    <3>2. QED
      BY <1>4, <3>1, Smallest
  <2> DEFINE i == Min(Unknown)
             f == [filings[i] EXCEPT !.landing = "unregistered"]
  <2>2. i \in Ids /\ filings[i] \in FilingType /\ filings[i].landing = "none"
    BY <2>1, TheRegister DEF Unknown
  <2>3. filings' = Stored(i, f)
    BY <1>4 DEF Recover
  <2> HIDE DEF i
  <2>4. /\ f \in FilingType /\ f.file = filings[i].file /\ f.status = filings[i].status
        /\ f.tuple = filings[i].tuple /\ f.supersedes = filings[i].supersedes /\ f.landing # "none"
    BY <2>2 DEF FilingType
  <2> HIDE DEF f
  <2>5. PICK g \in FilingType :
           /\ filings' = [filings EXCEPT ![i] = g]
           /\ g.file = f.file /\ g.status = f.status /\ g.tuple = f.tuple /\ g.supersedes = f.supersedes
           /\ g.landing = f.landing
    BY <2>2, <2>3, <2>4, Revised
  <2>6. Progresses(i)
    BY <2>2, <2>4, <2>5 DEF Progresses
  <2>7. QED
    BY <2>6 DEF i
<1>5. ASSUME Told
      PROVE  Progresses(pass.id)
  <2>1. pass.at = "told" /\ filings' = [filings EXCEPT ![pass.id].delivered = filings[pass.id].revision]
    BY <1>5 DEF Told, At
  <2>2. pass.id \in Ids /\ filings[pass.id] \in FilingType
    BY <2>1, TheRegister DEF TypeOK
  <2> DEFINE g == [filings[pass.id] EXCEPT !.delivered = filings[pass.id].revision]
  <2>3. /\ g \in FilingType /\ g.file = filings[pass.id].file /\ g.status = filings[pass.id].status
        /\ g.tuple = filings[pass.id].tuple /\ g.supersedes = filings[pass.id].supersedes
        /\ g.landing = filings[pass.id].landing
    BY <2>2 DEF FilingType
  <2>4. filings' = [filings EXCEPT ![pass.id] = g]
    BY <2>1
  <2> HIDE DEF g
  <2>5. QED
    BY <2>2, <2>3, <2>4 DEF Progresses
<1>6. CASE UNCHANGED vars
  BY <1>6 DEF vars, local
<1>7. CASE \/ \E a \in Arrival : Deliver(a)
           \/ Open \/ ClearLock \/ StartPass \/ ArrivesLate
  BY <1>7 DEF Deliver, Open, ClearLock, StartPass, ArrivesLate, local
<1>8. CASE \/ \E a \in Arrival : Register(a)
           \/ Save \/ Recover \/ Told
           \/ \E i \in Ids : Retry(i)
  <2>1. CASE Recover
    <3>1. CASE Unknown = {}
      BY <2>1, <3>1 DEF Recover
    <3>2. CASE Unknown # {}
      BY <1>4, <2>1, <3>2 DEF Progresses
    <3>3. QED
      BY <3>1, <3>2
  <2>2. CASE Save \/ Told
    BY <1>3, <1>5, <2>2 DEF Progresses
  <2>3. QED
    BY <1>1, <1>2, <1>8, <2>1, <2>2
<1>9. CASE ScanDone \/ NothingToDo \/ Land \/ SendReceipt \/ Resume \/ Resend \/ PublishDone \/ Notify
  BY <1>9 DEF ScanDone, NothingToDo, Land, SendReceipt, Resume, Resend, PublishDone, Notify
<1>10. CASE Close \/ Crash \/ PassFails \/ Refused \/ Unavailable \/ ReceiptFails \/ NotifyFails
  BY <1>10 DEF Close, Crash, PassFails, Refused, Unavailable, ReceiptFails, NotifyFails
<1>11. QED
  BY <1>6, <1>7, <1>8, <1>9, <1>10 DEF Next, PassStep, Trouble

(* What the step leaves of the register.                                    *)
LEMMA AfterStep ==
  ASSUME TypeOK, PassKeeps, [Next]_vars
  PROVE  /\ filings' \in Seq(FilingType) /\ Len(filings') \in Nat /\ Ids' = 1..Len(filings')
         /\ Ids \subseteq Ids'
         /\ \A i \in Ids' : filings'[i] \in FilingType
         /\ \A i \in Ids : filings'[i].file = filings[i].file
         /\ \A i \in Ids : filings[i].landing # "none" => filings'[i].landing # "none"
         /\ \A i \in Ids : filings[i].status = "ready" =>
              /\ filings'[i].tuple = filings[i].tuple /\ filings'[i].supersedes = filings[i].supersedes
              /\ filings'[i].status = "ready" \/ ~Committed(i)
<1>1. /\ filings \in Seq(FilingType) /\ Len(filings) \in Nat /\ Ids = 1..Len(filings)
      /\ \A i \in Ids : filings[i] \in FilingType
  BY TheRegister DEF TypeOK
<1>2. CASE UNCHANGED filings
  BY <1>1, <1>2 DEF Ids
<1>3. ASSUME NEW i \in Ids, NEW g \in FilingType, filings' = [filings EXCEPT ![i] = g]
      PROVE  /\ filings' \in Seq(FilingType) /\ Len(filings') \in Nat /\ Ids' = 1..Len(filings') /\ Ids' = Ids
             /\ filings'[i] = g
             /\ \A j \in Ids : j # i => filings'[j] = filings[j]
  BY <1>1, <1>3, Rewritten
<1>4. ASSUME NEW i \in Ids, Progresses(i)
      PROVE  /\ filings' \in Seq(FilingType) /\ Len(filings') \in Nat /\ Ids' = 1..Len(filings')
             /\ Ids \subseteq Ids'
             /\ \A j \in Ids' : filings'[j] \in FilingType
             /\ \A j \in Ids :
                  /\ filings'[j].file = filings[j].file
                  /\ filings'[j].tuple = filings[j].tuple /\ filings'[j].supersedes = filings[j].supersedes
                  /\ filings[j].landing # "none" => filings'[j].landing # "none"
                  /\ filings[j].status = "ready" => filings'[j].status = "ready" \/ ~Committed(j)
  <2>1. PICK g \in FilingType :
          /\ filings' = [filings EXCEPT ![i] = g]
          /\ g.file = filings[i].file /\ g.tuple = filings[i].tuple /\ g.supersedes = filings[i].supersedes
          /\ filings[i].landing # "none" => g.landing # "none"
          /\ g.status = filings[i].status \/ (g.status = "quarantined" /\ ~Committed(i))
    BY <1>4 DEF Progresses
  <2>2. /\ filings' \in Seq(FilingType) /\ Len(filings') \in Nat /\ Ids' = 1..Len(filings') /\ Ids' = Ids
        /\ filings'[i] = g
        /\ \A j \in Ids : j # i => filings'[j] = filings[j]
    BY <1>3, <2>1
  <2>3. \A j \in Ids' : filings'[j] \in FilingType
    BY <1>1, <2>2
  <2>4. QED
    BY <2>1, <2>2, <2>3
<1>5. ASSUME NEW i \in Ids \cup {Len(filings) + 1}, Identifies(i)
      PROVE  /\ filings' \in Seq(FilingType) /\ Len(filings') \in Nat /\ Ids' = 1..Len(filings')
             /\ Ids \subseteq Ids'
             /\ \A j \in Ids' : filings'[j] \in FilingType
             /\ \A j \in Ids :
                  /\ filings'[j].file = filings[j].file
                  /\ filings[j].landing # "none" => filings'[j] = filings[j]
                  /\ filings[j].status = "ready" => filings'[j] = filings[j]
  <2>1. PICK g \in FilingType :
          \/ /\ i \in Ids /\ filings' = [filings EXCEPT ![i] = g]
             /\ filings[i].status = "quarantined" /\ filings[i].landing = "none"
             /\ g.file = filings[i].file
          \/ i = Len(filings) + 1 /\ filings' = Append(filings, g)
    BY <1>5 DEF Identifies
  <2>2. CASE filings' = Append(filings, g)
    <3>1. /\ filings' \in Seq(FilingType) /\ Len(filings') = Len(filings) + 1
          /\ Ids' = Ids \cup {Len(filings) + 1}
          /\ filings'[Len(filings) + 1] = g
          /\ \A j \in Ids : filings'[j] = filings[j]
      BY <2>2, Extended
    <3>2. \A j \in Ids' : filings'[j] \in FilingType
      BY <1>1, <3>1
    <3>3. Len(filings') \in Nat /\ Ids' = 1..Len(filings')
      BY <1>1, <3>1
    <3>4. QED
      BY <3>1, <3>2, <3>3
  <2>3. CASE /\ i \in Ids /\ filings' = [filings EXCEPT ![i] = g]
             /\ filings[i].status = "quarantined" /\ filings[i].landing = "none"
             /\ g.file = filings[i].file
    <3>1. /\ filings' \in Seq(FilingType) /\ Len(filings') \in Nat /\ Ids' = 1..Len(filings') /\ Ids' = Ids
          /\ filings'[i] = g
          /\ \A j \in Ids : j # i => filings'[j] = filings[j]
      BY <1>3, <2>3
    <3>2. \A j \in Ids' : filings'[j] \in FilingType
      BY <1>1, <3>1
    <3>3. QED
      BY <2>3, <3>1, <3>2
  <2>4. QED
    BY <2>1, <2>2, <2>3
<1>6. QED
  BY <1>2, <1>4, <1>5, RegisterSteps

(* Deliveries stay and no file is registered twice.                         *)
LEMMA FilesStayDifferent ==
  ASSUME TypeOK, PassKeeps, FilesDiffer, [Next]_vars
  PROVE  FilesDiffer' /\ zone \subseteq zone' /\ zone' \subseteq Arrival
<1>1. zone \subseteq zone' /\ zone' \subseteq Arrival
  <2>1. CASE \E a \in Arrival : Deliver(a)
    BY <2>1 DEF Deliver, TypeOK
  <2>2. CASE UNCHANGED vars \/ Open \/ ClearLock \/ StartPass \/ ArrivesLate
    BY <2>2 DEF Open, ClearLock, StartPass, ArrivesLate, vars, TypeOK
  <2>3. CASE PassStep
    BY <2>3 DEF PassStep, Register, ScanDone, NothingToDo, Land, SendReceipt, Save, Recover, Resume, Resend,
                PublishDone, Notify, Told, TypeOK
  <2>4. CASE Trouble
    BY <2>4 DEF Trouble, Close, Crash, PassFails, Refused, Unavailable, ReceiptFails, NotifyFails, Retry, TypeOK
  <2>5. QED
    BY <2>1, <2>2, <2>3, <2>4 DEF Next
<1>2. Ids \subseteq Ids' /\ \A i \in Ids : filings'[i].file = filings[i].file
  BY AfterStep
<1>3. \A i \in Ids' \ Ids : i = Len(filings) + 1 /\ filings'[i].file \in zone /\ ~Registered(filings'[i].file)
  <2>1. CASE UNCHANGED filings
    BY <2>1 DEF Ids
  <2>2. CASE \E i \in Ids : Progresses(i)
    BY <2>2, Rewritten DEF Progresses
  <2>3. ASSUME NEW i \in Ids \cup {Len(filings) + 1}, Identifies(i)
        PROVE  \A j \in Ids' \ Ids : j = Len(filings) + 1 /\ filings'[j].file \in zone /\ ~Registered(filings'[j].file)
    <3>1. PICK g \in FilingType :
            \/ i \in Ids /\ filings' = [filings EXCEPT ![i] = g]
            \/ filings' = Append(filings, g) /\ g.file \in zone /\ ~Registered(g.file)
      BY <2>3 DEF Identifies
    <3>2. CASE filings' = Append(filings, g) /\ g.file \in zone /\ ~Registered(g.file)
      BY <3>2, Extended
    <3>3. CASE i \in Ids /\ filings' = [filings EXCEPT ![i] = g]
      BY <3>3, Rewritten
    <3>4. QED
      BY <3>1, <3>2, <3>3
  <2>4. QED
    BY <2>1, <2>2, <2>3, RegisterSteps
<1>4. \A i \in Ids' : filings'[i].file \in zone'
  BY <1>1, <1>2, <1>3 DEF FilesDiffer
<1>5. \A i, j \in Ids' : filings'[i].file = filings'[j].file => i = j
  BY <1>2, <1>3 DEF FilesDiffer, Registered
<1>6. QED
  BY <1>1, <1>4, <1>5 DEF FilesDiffer

----------------------------------------------------------------------------
(* The types *)

Backs == {"rest", "scan", "resume", "resend"}

(* What is persisted next is a filing, and a place that works on a filing   *)
(* works on a registered one.                                               *)
PassTyped ==
  /\ pass \in [at : Stands, id : Nat, back : Backs, next : {pass.next}]
  /\ pass.at \in {"landed", "save"} => pass.next \in FilingType
  /\ pass.at \in {"work", "landed", "save", "told"} => pass.id \in Ids


(* A pass changed in its fields.                                            *)
LEMMA Redirected ==
  ASSUME NEW p, NEW x, NEW at \in Stands, NEW id \in Nat, NEW back \in Backs, NEW next,
         p \in [at : Stands, id : Nat, back : Backs, next : {x}]
  PROVE  LET q == [p EXCEPT !.at = at, !.id = id, !.back = back, !.next = next]
             r == [p EXCEPT !.at = at, !.id = id, !.next = next]
             s == [p EXCEPT !.at = at, !.id = id, !.back = back]
             t == [p EXCEPT !.at = at, !.id = id]
             u == [p EXCEPT !.at = at, !.next = next]
         IN  /\ q \in [at : Stands, id : Nat, back : Backs, next : {next}] /\ q.at = at /\ q.id = id /\ q.next = next
             /\ r \in [at : Stands, id : Nat, back : Backs, next : {next}] /\ r.at = at /\ r.id = id /\ r.next = next
             /\ s \in [at : Stands, id : Nat, back : Backs, next : {x}] /\ s.at = at /\ s.id = id /\ s.next = x
             /\ t \in [at : Stands, id : Nat, back : Backs, next : {x}] /\ t.at = at /\ t.id = id /\ t.next = x
             /\ u \in [at : Stands, id : Nat, back : Backs, next : {next}] /\ u.at = at /\ u.id = p.id /\ u.next = next
OBVIOUS

LEMMA SmallestFiling ==
  ASSUME TypeOK, NEW S \in SUBSET Ids, S # {}
  PROVE  Min(S) \in S /\ Min(S) \in Nat
<1>1. S \in SUBSET Nat
  BY TheRegister
<1>2. QED
  BY <1>1, Smallest

LEMMA Saving ==
  ASSUME TypeOK, Ids' = Ids, NEW f \in FilingType, pass.id \in Ids, Saves(f)
  PROVE  PassTyped'
<1>1. pass \in [at : Stands, id : Nat, back : Backs, next : {pass.next}] /\ pass.id \in Nat
  BY DEF TypeOK, Backs
<1>2. CASE pass' = Leaves
  <2>1. pass' = [pass EXCEPT !.at = pass.back, !.id = pass.id + 1, !.next = << >>]
    BY <1>2 DEF Leaves
  <2>2. pass.back \in Backs /\ pass.back \in Stands /\ pass.id + 1 \in Nat
    BY <1>1 DEF Backs, Stands
  <2>3. /\ pass' \in [at : Stands, id : Nat, back : Backs, next : {<< >>}]
        /\ pass'.at \in Backs /\ pass'.next = << >>
    BY <1>1, <2>1, <2>2, Redirected
  <2>4. QED
    BY <2>3 DEF PassTyped, Backs
<1>3. CASE pass' = [pass EXCEPT !.at = "save", !.next = f]
  <2>1. /\ pass' \in [at : Stands, id : Nat, back : Backs, next : {f}]
        /\ pass'.at = "save" /\ pass'.id = pass.id
    BY <1>1, <1>3 DEF Stands
  <2>2. QED
    BY <2>1 DEF PassTyped
<1>4. QED
  BY <1>2, <1>3 DEF Saves

LEMMA Entering ==
  ASSUME NEW at \in {"scan", "recover", "resume", "resend", "publish"}, Enters(at)
  PROVE  PassTyped'
<1>1. pass' = [at |-> at, id |-> 1, back |-> "rest", next |-> << >>]
  BY DEF Enters, Rest
<1>2. pass' \in [at : Stands, id : Nat, back : Backs, next : {<< >>}]
  BY <1>1 DEF Stands, Backs
<1>3. QED
  BY <1>1, <1>2 DEF PassTyped

LEMMA Resting0 ==
  ASSUME pass' = Rest
  PROVE  PassTyped'
<1>1. pass' \in [at : Stands, id : Nat, back : Backs, next : {<< >>}]
  BY DEF Rest, Stands, Backs
<1>2. QED
  BY <1>1 DEF PassTyped, Rest

(* A filing the pass works on, and what is stored of it next.               *)
LEMMA WorkedOn ==
  ASSUME TypeOK, pass.at \in {"work", "landed", "save", "told"}
  PROVE  pass.id \in Ids /\ Current \in FilingType
BY TheRegister DEF TypeOK, Current

LEMMA NextRecords ==
  ASSUME NEW f \in FilingType
  PROVE  /\ Quarantined(f) \in FilingType
         /\ [f EXCEPT !.inspected = TRUE] \in FilingType
         /\ \A l \in {"unregistered", "registered"} : [f EXCEPT !.landing = l] \in FilingType
BY DEF Quarantined, FilingType, Status

LEMMA PassStaysTyped ==
  ASSUME TypeOK, PassKeeps, [Next]_vars
  PROVE  PassTyped'
<1>1. Ids \subseteq Ids' /\ Ids' = 1..Len(filings') /\ Ids = 1..Len(filings) /\ Len(filings) \in Nat
  BY AfterStep, TheRegister
<1>2. /\ PassTyped
      /\ pass \in [at : Stands, id : Nat, back : Backs, next : {pass.next}]
      /\ pass.back \in Backs /\ pass.back \in Stands /\ pass.id + 1 \in Nat
  BY DEF PassTyped, TypeOK, Backs, Stands
<1>3. CASE UNCHANGED pass
  BY <1>1, <1>2, <1>3 DEF PassTyped
<1>4. CASE \E a \in Arrival : Register(a)
  <2>1. /\ pass' = [pass EXCEPT !.at = "work", !.id = Len(filings) + 1, !.back = "scan"]
        /\ Len(filings) + 1 \in Ids'
    <3>1. PICK a \in Arrival, found \in Tuple \cup {Unmatched} :
            filings' = Append(filings, Identified(Filing(a), found, Ids))
      BY <1>4 DEF Register
    <3>2. Identified(Filing(a), found, Ids) \in FilingType
      BY NewFiling, FilingAssumption, Identifying DEF IdentifiedAs
    <3>3. QED
      BY <1>4, <3>1, <3>2, Extended DEF Register
  <2>2. Len(filings) + 1 \in Nat /\ "work" \in Stands /\ "scan" \in Backs
    BY <1>1 DEF Stands, Backs
  <2>3. /\ pass' \in [at : Stands, id : Nat, back : Backs, next : {pass.next}]
        /\ pass'.at = "work" /\ pass'.id = Len(filings) + 1 /\ pass'.next = pass.next
    BY <1>2, <2>1, <2>2, Redirected
  <2>4. QED
    BY <2>1, <2>3 DEF PassTyped
<1>5. CASE ScanDone
  <2>1. pass' = [pass EXCEPT !.at = "publish", !.id = 1, !.back = "scan"]
    BY <1>5 DEF ScanDone
  <2>2. pass' \in [at : Stands, id : Nat, back : Backs, next : {pass.next}] /\ pass'.at = "publish"
    BY <1>2, <2>1 DEF Stands, Backs
  <2>3. QED
    BY <2>2 DEF PassTyped
<1>6. CASE NothingToDo \/ Refused \/ Unavailable
  <2>1. PICK f \in {Current, Inspected, Quarantined(Current), Quarantined(Inspected)} : Saves(f)
    BY <1>6 DEF NothingToDo, Refused, Unavailable
  <2>2. pass.at = "work" /\ UNCHANGED filings
    BY <1>6 DEF NothingToDo, Refused, Unavailable, At
  <2>3. pass.id \in Ids /\ Current \in FilingType
    BY <2>2, WorkedOn
  <2>4. f \in FilingType
    BY <2>3, NextRecords DEF Inspected
  <2>5. QED
    BY <2>1, <2>2, <2>3, <2>4, Saving DEF Ids
<1>7. CASE SendReceipt \/ ReceiptFails
  <2>1. PICK l \in {"unregistered", "registered"} : Saves([pass.next EXCEPT !.landing = l])
    BY <1>7 DEF SendReceipt, ReceiptFails
  <2>2. pass.at = "landed" /\ UNCHANGED filings
    BY <1>7 DEF SendReceipt, ReceiptFails, At
  <2>3. pass.id \in Ids /\ pass.next \in FilingType
    BY <2>2, WorkedOn DEF TypeOK
  <2>4. [pass.next EXCEPT !.landing = l] \in FilingType
    BY <2>3, NextRecords
  <2>5. QED
    BY <2>1, <2>2, <2>3, <2>4, Saving DEF Ids
<1>8. CASE Land
  <2>1. pass.at = "work" /\ UNCHANGED filings /\ pass' = [pass EXCEPT !.at = "landed", !.next = Inspected]
    BY <1>8 DEF Land, At
  <2>2. pass.id \in Ids /\ Inspected \in FilingType
    BY <2>1, WorkedOn, NextRecords DEF Inspected
  <2>3. pass' \in [at : Stands, id : Nat, back : Backs, next : {Inspected}] /\ pass'.id = pass.id
    BY <1>2, <2>1 DEF Stands
  <2>4. QED
    BY <1>1, <2>2, <2>3 DEF PassTyped
<1>9. CASE Save
  <2>1. pass' = [pass EXCEPT !.at = pass.back, !.id = pass.id + 1, !.next = << >>]
    BY <1>9 DEF Save, Leaves
  <2>2. pass' \in [at : Stands, id : Nat, back : Backs, next : {<< >>}] /\ pass'.at \in Backs /\ pass'.next = << >>
    BY <1>2, <2>1, Redirected
  <2>3. QED
    BY <2>2 DEF PassTyped, Backs
<1>10. CASE Resume
  <2> DEFINE open == {i \in Ids : i >= pass.id /\ filings[i].status = "ready" /\ filings[i].landing = "none"}
  <2>1. CASE open = {}
    BY <1>10, <2>1, Entering DEF Resume
  <2>2. CASE open # {}
    <3>1. pass' = [pass EXCEPT !.at = "work", !.id = Min(open), !.back = "resume"]
      BY <1>10, <2>2 DEF Resume
    <3>2. Min(open) \in Ids /\ Min(open) \in Nat /\ "work" \in Stands /\ "resume" \in Backs
      BY <2>2, SmallestFiling DEF Stands, Backs
    <3>3. /\ pass' \in [at : Stands, id : Nat, back : Backs, next : {pass.next}]
          /\ pass'.at = "work" /\ pass'.id = Min(open) /\ pass'.next = pass.next
      BY <1>2, <3>1, <3>2, Redirected
    <3>4. QED
      BY <1>1, <3>2, <3>3 DEF PassTyped
  <2>3. QED
    BY <2>1, <2>2
<1>11. CASE Resend
  <2> DEFINE landed == {i \in Ids : i >= pass.id /\ filings[i].landing # "none"}
  <2>1. CASE landed = {}
    BY <1>11, <2>1, Entering DEF Resend
  <2>2. CASE landed # {}
    <3>1. pass' = [at |-> "landed", id |-> Min(landed), back |-> "resend", next |-> filings[Min(landed)]]
      BY <1>11, <2>2 DEF Resend
    <3>2. Min(landed) \in Ids /\ Min(landed) \in Nat
      BY <2>2, SmallestFiling
    <3>3. filings[Min(landed)] \in FilingType
      BY <3>2, TheRegister
    <3>4. /\ pass' \in [at : Stands, id : Nat, back : Backs, next : {filings[Min(landed)]}]
          /\ pass'.at = "landed" /\ pass'.id = Min(landed) /\ pass'.next = filings[Min(landed)]
      BY <1>1, <3>1, <3>2 DEF Stands, Backs
    <3>5. QED
      BY <1>1, <3>2, <3>3, <3>4 DEF PassTyped
  <2>3. QED
    BY <2>1, <2>2
<1>12. CASE StartPass \/ (Recover /\ Unknown = {}) \/ \E i \in Ids : Retry(i)
  BY <1>12, Entering DEF StartPass, Recover, Retry
<1>13. CASE Close \/ Crash \/ PassFails \/ PublishDone
  BY <1>13, Resting0 DEF Close, Crash, PassFails, PublishDone, Forgets
<1>14. CASE Notify \/ NotifyFails \/ Told
  <2>1. Due # {} => Min(Due) \in Ids
    <3>1. Due \in SUBSET Ids
      BY DEF Due
    <3>2. QED
      BY <3>1, SmallestFiling
  <2>2. PICK at \in {"told", "publish"}, id \in Nat : Goes(at, id) /\ (at = "told" => id \in Ids)
    BY <1>1, <1>2, <1>14, <2>1 DEF Notify, NotifyFails, Told, At
  <2>3. pass' = [pass EXCEPT !.at = at, !.id = id]
    BY <2>2 DEF Goes
  <2>4. /\ pass' \in [at : Stands, id : Nat, back : Backs, next : {pass.next}]
        /\ pass'.at = at /\ pass'.id = id
    BY <1>2, <2>3 DEF Stands
  <2>5. QED
    BY <1>1, <2>2, <2>4 DEF PassTyped
<1>15. CASE (\E a \in Arrival : Deliver(a)) \/ Open \/ ClearLock \/ ArrivesLate \/ (Recover /\ Unknown # {})
            \/ UNCHANGED vars
  BY <1>3, <1>15 DEF Deliver, Open, ClearLock, ArrivesLate, Recover, vars, local
<1>16. QED
  BY <1>4, <1>5, <1>6, <1>7, <1>8, <1>9, <1>10, <1>11, <1>12, <1>13, <1>14, <1>15 DEF Next, PassStep, Trouble

(* Only a running engine is in a pass.                                      *)
LEMMA EngineStaysTyped ==
  ASSUME TypeOK, [Next]_vars
  PROVE  /\ engine' \in {"new", "closed", "open", "dead"} /\ upsets' \in 0..MaxUpsets
         /\ engine' # "open" => pass' = Rest
<1>1. upsets' \in Nat /\ upsets' <= MaxUpsets <=> upsets' \in 0..MaxUpsets
  BY FilingAssumption
<1>2. upsets \in Nat /\ upsets <= MaxUpsets /\ (upsets < MaxUpsets => upsets + 1 \in 0..MaxUpsets)
  BY FilingAssumption DEF TypeOK
<1> DEFINE Good == /\ engine' \in {"new", "closed", "open", "dead"} /\ upsets' \in 0..MaxUpsets
                   /\ engine' # "open" => pass' = Rest
<1>3. CASE UNCHANGED vars \/ (\E a \in Arrival : Deliver(a)) \/ ArrivesLate
  BY <1>2, <1>3 DEF vars, local, Deliver, ArrivesLate, TypeOK
<1>4. CASE Open \/ ClearLock \/ StartPass
  BY <1>2, <1>4 DEF Open, ClearLock, StartPass, Resting, TypeOK
<1>5. CASE PassStep
  <2>1. engine = "open" /\ engine' = engine /\ upsets' = upsets
    BY <1>5 DEF PassStep, Register, ScanDone, NothingToDo, Land, SendReceipt, Save, Recover, Resume, Resend,
                PublishDone, Notify, Told, At
  <2>2. QED
    BY <1>2, <2>1 DEF TypeOK
<1>6. CASE Trouble
  <2>1. /\ upsets' = upsets + 1 /\ upsets < MaxUpsets
        /\ engine = "open" /\ (engine' = engine \/ (engine' \in {"closed", "dead"} /\ pass' = Rest))
    BY <1>6 DEF Trouble, Close, Crash, PassFails, Refused, Unavailable, ReceiptFails, NotifyFails, Retry,
                Upset, At, Resting, Forgets
  <2>2. QED
    BY <1>2, <2>1
<1>7. QED
  BY <1>3, <1>4, <1>5, <1>6 DEF Next

CommitType == [id : Ids, tuple : Tuple \cup {Unmatched}, supersedes : Link]

NoticeType == [id : Ids, revision : Nat, outcome : Outcomes]

LEMMA NoticesAreTyped ==
  ASSUME TypeOK, NEW i \in Ids
  PROVE  NoticeOf(i) \in NoticeType
<1>1. filings[i] \in FilingType
  BY TheRegister
<1>2. Outcome(filings[i]) \in Outcomes /\ filings[i].revision \in Nat
  BY <1>1 DEF Outcome, Outcomes, FilingType, Status
<1>3. QED
  BY <1>2 DEF NoticeOf, NoticeType

LEMMA AcceptedIsTyped ==
  ASSUME TypeOK, NEW n \in NoticeType, Accepted(n)
  PROVE  notices' \in [1..Cardinality(Arrival) -> [revision : Nat, outcome : Outcomes \cup {"none"}]]
<1>1. n.id \in 1..Cardinality(Arrival)
  BY TheRegister DEF NoticeType
<1>2. [revision |-> n.revision, outcome |-> n.outcome] \in [revision : Nat, outcome : Outcomes \cup {"none"}]
  BY DEF NoticeType
<1>3. QED
  BY <1>1, <1>2 DEF Accepted, TypeOK

(* What a step commits: the receipt of a filing that has none, or nothing.  *)
LEMMA CommitSteps ==
  ASSUME TypeOK, PassKeeps, [Next]_vars
  PROVE  \/ UNCHANGED commits
         \/ /\ commits' = commits \cup {Receipt} /\ Receipt \in CommitType
            /\ pass.at = "work" /\ ~HasNoWork /\ ~Committed(pass.id)
            /\ UNCHANGED filings
<1>1. CASE Land \/ Unavailable
  <2>1. /\ pass.at = "work" /\ ~HasNoWork /\ UNCHANGED filings
        /\ Commits \/ UNCHANGED commits
    BY <1>1 DEF Land, Unavailable, At
  <2>2. pass.id \in Ids /\ Current \in FilingType
    BY <2>1, WorkedOn
  <2>3. Receipt \in CommitType
    BY <2>2 DEF Receipt, CommitType, FilingType
  <2>4. ~Committed(pass.id)
    BY <2>1 DEF PassKeeps
  <2>5. QED
    BY <2>1, <2>3, <2>4 DEF Commits
<1>2. CASE UNCHANGED vars \/ (\E a \in Arrival : Deliver(a)) \/ Open \/ ClearLock \/ StartPass \/ ArrivesLate
  BY <1>2 DEF vars, remote, Deliver, Open, ClearLock, StartPass, ArrivesLate
<1>3. CASE \/ \E a \in Arrival : Register(a)
           \/ ScanDone \/ NothingToDo \/ SendReceipt \/ Save \/ Recover \/ Resume \/ Resend
           \/ PublishDone \/ Notify \/ Told
  BY <1>3 DEF Register, ScanDone, NothingToDo, SendReceipt, Save, Recover, Resume, Resend, PublishDone, Notify,
              Told, remote
<1>4. CASE \/ Close \/ Crash \/ PassFails \/ Refused \/ ReceiptFails \/ NotifyFails
           \/ \E i \in Ids : Retry(i)
  BY <1>4 DEF Close, Crash, PassFails, Refused, ReceiptFails, NotifyFails, Retry, remote
<1>5. QED
  BY <1>1, <1>2, <1>3, <1>4 DEF Next, PassStep, Trouble

(* The gateway's side, and the notices that failed.                         *)
LEMMA GatewayStaysTyped ==
  ASSUME TypeOK, PassKeeps, [Next]_vars
  PROVE  /\ attempted' \subseteq Ids' /\ receipts' \subseteq Ids' /\ late' \subseteq NoticeType'
         /\ notices' \in [1..Cardinality(Arrival) -> [revision : Nat, outcome : Outcomes \cup {"none"}]]
<1>1. Ids \subseteq Ids' /\ NoticeType \subseteq NoticeType'
  <2>1. Ids \subseteq Ids'
    BY AfterStep
  <2>2. QED
    BY <2>1 DEF NoticeType
<1>2. attempted \subseteq Ids /\ receipts \subseteq Ids /\ late \subseteq NoticeType
  BY DEF TypeOK, NoticeType
<1>3. notices \in [1..Cardinality(Arrival) -> [revision : Nat, outcome : Outcomes \cup {"none"}]]
  BY DEF TypeOK
<1>4. CASE UNCHANGED <<receipts, notices, late>> /\ (UNCHANGED attempted \/ attempted' = {})
  BY <1>1, <1>2, <1>3, <1>4
<1>5. CASE SendReceipt \/ ReceiptFails
  <2>1. pass.at = "landed" /\ UNCHANGED <<attempted, notices, late>> /\ receipts' \subseteq receipts \cup {pass.id}
    BY <1>5 DEF SendReceipt, ReceiptFails, At
  <2>2. pass.id \in Ids
    BY <2>1, WorkedOn
  <2>3. QED
    BY <1>1, <1>2, <1>3, <2>1, <2>2
<1>6. CASE Notify \/ NotifyFails
  <2>1. Due # {} /\ Due \in SUBSET Ids
    BY <1>6 DEF Notify, NotifyFails, Due
  <2>2. Min(Due) \in Ids
    BY <2>1, SmallestFiling
  <2>3. NoticeOf(Min(Due)) \in NoticeType
    BY <2>2, NoticesAreTyped
  <2>4. CASE Notify
    BY <1>1, <1>2, <2>3, <2>4, AcceptedIsTyped DEF Notify
  <2>5. CASE NotifyFails
    BY <1>1, <1>2, <1>3, <2>2, <2>3, <2>5 DEF NotifyFails
  <2>6. QED
    BY <1>6, <2>4, <2>5
<1>7. CASE ArrivesLate
  <2>1. PICK n \in late : Accepted(n) /\ late' = late \ {n}
    BY <1>7 DEF ArrivesLate
  <2>2. n \in NoticeType
    BY <1>2
  <2>3. QED
    BY <1>1, <1>2, <1>7, <2>1, <2>2, AcceptedIsTyped DEF ArrivesLate, local
<1>8. CASE UNCHANGED vars \/ (\E a \in Arrival : Deliver(a)) \/ Open \/ ClearLock \/ StartPass
  BY <1>4, <1>8 DEF vars, local, remote, Deliver, Open, ClearLock, StartPass
<1>9. CASE \/ \E a \in Arrival : Register(a)
           \/ ScanDone \/ NothingToDo \/ Land \/ Save \/ Recover \/ Resume \/ Resend
           \/ PublishDone \/ Told
  BY <1>4, <1>9 DEF Register, ScanDone, NothingToDo, Land, Save, Recover, Resume, Resend, PublishDone, Told, remote
<1>10. CASE \/ Close \/ Crash \/ PassFails \/ Refused \/ Unavailable
            \/ \E i \in Ids : Retry(i)
  BY <1>4, <1>10 DEF Close, Crash, PassFails, Refused, Unavailable, Retry, Forgets, remote
<1>11. QED
  BY <1>5, <1>6, <1>7, <1>8, <1>9, <1>10 DEF Next, PassStep, Trouble

LEMMA NoMoreThan ==
  ASSUME NEW n \in Nat, NEW Z, IsFiniteSet(Z), NEW f \in [1..n -> Z],
         \A i, j \in 1..n : f[i] = f[j] => i = j
  PROVE  n <= Cardinality(Z)
<1>1. f \in Injection(1..n, Z)
  BY DEF Injection, IsInjective
<1>2. Cardinality(1..n) <= Cardinality(Z)
  BY <1>1, FS_Injection
<1>3. 1 \in Int /\ n \in Int
  OBVIOUS
<1>4. Cardinality(1..n) = IF 1 > n THEN 0 ELSE n - 1 + 1
  BY <1>3, FS_Interval
<1>5. QED
  BY <1>2, <1>4

LEMMA TypesStay ==
  ASSUME TypeOK, PassKeeps, FilesDiffer, [Next]_vars
  PROVE  TypeOK'
<1>1. /\ filings' \in Seq(FilingType) /\ Len(filings') \in Nat /\ Ids' = 1..Len(filings') /\ Ids \subseteq Ids'
  BY AfterStep
<1>2. zone' \subseteq Arrival /\ FilesDiffer'
  BY FilesStayDifferent
<1>3. Len(filings') <= Cardinality(zone')
  <2> DEFINE file == [i \in 1..Len(filings') |-> filings'[i].file]
  <2>1. IsFiniteSet(zone')
    BY <1>2, FilingAssumption, FS_Subset
  <2>2. file \in [1..Len(filings') -> zone']
    BY <1>1, <1>2 DEF FilesDiffer
  <2>3. \A i, j \in 1..Len(filings') : file[i] = file[j] => i = j
    BY <1>1, <1>2 DEF FilesDiffer
  <2>4. QED
    BY <1>1, <2>1, <2>2, <2>3, NoMoreThan
<1>4. PassTyped'
  BY PassStaysTyped
<1>5. commits' \subseteq CommitType'
  <2>1. commits \subseteq CommitType /\ CommitType \subseteq CommitType'
    BY <1>1 DEF TypeOK, CommitType
  <2>2. QED
    BY <2>1, CommitSteps
<1>6. /\ engine' \in {"new", "closed", "open", "dead"} /\ upsets' \in 0..MaxUpsets
      /\ engine' # "open" => pass' = Rest
  BY EngineStaysTyped
<1>7. /\ attempted' \subseteq Ids' /\ receipts' \subseteq Ids' /\ late' \subseteq NoticeType'
      /\ notices' \in [1..Cardinality(Arrival) -> [revision : Nat, outcome : Outcomes \cup {"none"}]]
  BY GatewayStaysTyped
<1>8. QED
  BY <1>1, <1>2, <1>3, <1>4, <1>5, <1>6, <1>7 DEF TypeOK, PassTyped, Backs, CommitType, NoticeType

----------------------------------------------------------------------------
(* The invariant *)

(* Of the filings with the same bytes one is ready at most.                 *)
OneReady ==
  \A i, j \in Ids :
    filings[i].status = "ready" /\ filings[j].status = "ready" /\ Sha[filings[i].file] = Sha[filings[j].file] => i = j

OneReceipt == \A c, d \in commits : c.id = d.id => c = d

(* The pass is in the first loop of a reconciliation, and the filings it    *)
(* has not come to.                                                         *)
Resuming == pass.at = "resume" \/ (pass.at \in {"work", "landed", "save"} /\ pass.back = "resume")

Ahead == {i \in Ids : IF pass.at = "resume" THEN pass.id <= i ELSE pass.id < i}

(* Ahead of that loop every commit has been recovered.                      *)
Recovered == Resuming => \A i \in Ahead : Committed(i) => filings[i].landing # "none"

Inv ==
  /\ TypeOK /\ FilesDiffer
  /\ OneReady /\ OneReceipt /\ RowsMatchRegister
  /\ PassKeeps /\ Recovered

LEMMA InvInit ==
  ASSUME Init
  PROVE  Inv
<1>1. /\ filings = << >> /\ filings \in Seq(FilingType) /\ Len(filings) = 0 /\ Ids = {}
  BY EmptySeq DEF Init, Ids
<1>2. zone = {} /\ Cardinality(zone) = 0 /\ Cardinality(Arrival) \in Nat
  BY FS_EmptySet, FS_CardinalityType, FilingAssumption DEF Init
<1>3. pass = Rest /\ pass \in [at : Stands, id : Nat, back : Backs, next : {pass.next}] /\ pass.at = "rest"
  BY DEF Init, Rest, Stands, Backs
<1>4. notices \in [1..Cardinality(Arrival) -> [revision : Nat, outcome : Outcomes \cup {"none"}]]
  BY DEF Init
<1>5. TypeOK
  BY <1>1, <1>2, <1>3, <1>4, FilingAssumption DEF Init, TypeOK, Backs
<1>6. FilesDiffer /\ OneReady /\ OneReceipt /\ RowsMatchRegister /\ PassKeeps /\ Recovered
  BY <1>1, <1>3 DEF Init, FilesDiffer, OneReady, OneReceipt, RowsMatchRegister, PassKeeps, Recovered, Resuming
<1>7. QED
  BY <1>5, <1>6 DEF Inv

LEMMA OneStaysReady ==
  ASSUME Inv, [Next]_vars
  PROVE  OneReady'
<1>1. TypeOK /\ PassKeeps /\ OneReady
  BY DEF Inv
<1>2. CASE UNCHANGED filings
  BY <1>1, <1>2 DEF OneReady, Ids
<1>3. ASSUME NEW i \in Ids, Progresses(i)
      PROVE  OneReady'
  <2>1. PICK g \in FilingType :
          /\ filings' = [filings EXCEPT ![i] = g] /\ g.file = filings[i].file
          /\ g.status = "ready" => filings[i].status = "ready"
    BY <1>3 DEF Progresses
  <2>2. Ids' = Ids /\ filings'[i] = g /\ \A j \in Ids : j # i => filings'[j] = filings[j]
    BY <1>1, <2>1, Rewritten
  <2>3. \A j \in Ids : /\ filings'[j].file = filings[j].file
                       /\ filings'[j].status = "ready" => filings[j].status = "ready"
    BY <2>1, <2>2
  <2>4. QED
    BY <1>1, <2>2, <2>3 DEF OneReady
<1>4. ASSUME NEW i \in Ids \cup {Len(filings) + 1}, Identifies(i)
      PROVE  OneReady'
  <2>1. PICK g \in FilingType :
          /\ \A j \in Ids \ {i} : filings[j].status = "ready" /\ g.status = "ready" =>
                                    Sha[filings[j].file] # Sha[g.file]
          /\ \/ i \in Ids /\ filings' = [filings EXCEPT ![i] = g]
             \/ i = Len(filings) + 1 /\ filings' = Append(filings, g)
    BY <1>4 DEF Identifies
  <2>2. filings'[i] = g /\ Ids' = Ids \cup {i} /\ \A j \in Ids \ {i} : filings'[j] = filings[j]
    <3>1. CASE i \in Ids /\ filings' = [filings EXCEPT ![i] = g]
      BY <1>1, <3>1, Rewritten
    <3>2. CASE i = Len(filings) + 1 /\ filings' = Append(filings, g)
      BY <1>1, <3>2, Extended
    <3>3. QED
      BY <2>1, <3>1, <3>2
  <2>3. QED
    BY <1>1, <2>1, <2>2 DEF OneReady
<1>5. QED
  BY <1>1, <1>2, <1>3, <1>4, RegisterSteps

LEMMA RowsStayMatched ==
  ASSUME Inv, [Next]_vars
  PROVE  OneReceipt' /\ RowsMatchRegister'
<1>1. TypeOK /\ PassKeeps /\ OneReceipt /\ RowsMatchRegister
  BY DEF Inv
<1>2. \A c \in commits : c.id \in Ids /\ Committed(c.id)
  BY <1>1 DEF TypeOK, Committed
<1>3. \A c \in commits : /\ filings'[c.id].status = "ready"
                         /\ filings'[c.id].tuple = c.tuple /\ filings'[c.id].supersedes = c.supersedes
  BY <1>1, <1>2, AfterStep DEF RowsMatchRegister
<1>4. CASE UNCHANGED commits
  BY <1>1, <1>3, <1>4 DEF OneReceipt, RowsMatchRegister
<1>5. CASE /\ commits' = commits \cup {Receipt}
           /\ ~HasNoWork /\ ~Committed(pass.id) /\ UNCHANGED filings
  <2>1. Receipt.id = pass.id /\ Receipt.tuple = Current.tuple /\ Receipt.supersedes = Current.supersedes
    BY DEF Receipt
  <2>2. filings'[pass.id].status = "ready"
    BY <1>5 DEF HasNoWork, Current
  <2>3. \A c \in commits : c.id # pass.id
    BY <1>5 DEF Committed
  <2> HIDE DEF Receipt
  <2>4. OneReceipt'
    BY <1>1, <1>5, <2>1, <2>3 DEF OneReceipt
  <2>5. RowsMatchRegister'
    BY <1>3, <1>5, <2>1, <2>2 DEF RowsMatchRegister, Current
  <2>6. QED
    BY <2>4, <2>5
<1>6. QED
  BY <1>1, <1>4, <1>5, CommitSteps

(* A reconciliation's first loop begins when all commits are recovered, and *)
(* goes forward.                                                            *)
LEMMA LoopSteps ==
  ASSUME TypeOK, [Next]_vars, Resuming'
  PROVE  \/ pass.at = "recover" /\ Unknown = {} /\ UNCHANGED <<filings, commits>>
         \/ Resuming /\ Ahead' \cap Ids \subseteq Ahead
<1>1. /\ Ids \in SUBSET Nat
      /\ pass \in [at : Stands, id : Nat, back : Backs, next : {pass.next}] /\ pass.id \in Nat
  BY TheRegister DEF TypeOK, Backs
<1>2. ASSUME pass'.at = pass.at, pass'.id = pass.id, pass'.back = pass.back
      PROVE  Resuming /\ Ahead' \cap Ids \subseteq Ahead
  BY <1>2 DEF Resuming, Ahead
<1>3. CASE UNCHANGED vars \/ (\E a \in Arrival : Deliver(a)) \/ Open \/ ClearLock \/ ArrivesLate
  BY <1>2, <1>3 DEF vars, local, Deliver, Open, ClearLock, ArrivesLate
<1>4. CASE Close \/ Crash \/ PassFails \/ PublishDone \/ StartPass \/ Notify \/ NotifyFails \/ Told
           \/ (\E i \in Ids : Retry(i)) \/ ScanDone \/ (\E a \in Arrival : Register(a))
  <2>1. pass' = Rest => ~Resuming'
    BY DEF Rest, Resuming
  <2>2. \A at \in {"scan", "recover", "publish"} : Enters(at) => ~Resuming'
    BY DEF Enters, Rest, Resuming
  <2>3. \A at \in {"told", "publish"}, id \in Nat : Goes(at, id) => ~Resuming'
    BY <1>1 DEF Goes, Resuming
  <2>4. CASE Close \/ Crash \/ PassFails \/ PublishDone \/ StartPass \/ (\E i \in Ids : Retry(i))
    BY <2>1, <2>2, <2>4 DEF Close, Crash, PassFails, PublishDone, StartPass, Retry, Forgets
  <2>5. CASE Notify \/ NotifyFails \/ Told
    BY <1>1, <2>5 DEF Notify, NotifyFails, Told, Goes, Resuming
  <2>6. CASE ScanDone \/ (\E a \in Arrival : Register(a))
    BY <1>1, <2>6 DEF ScanDone, Register, Resuming
  <2>7. QED
    BY <1>4, <2>4, <2>5, <2>6
<1>5. CASE Recover
  <2>1. CASE Unknown = {}
    BY <1>5, <2>1 DEF Recover, At, remote
  <2>2. CASE Unknown # {}
    BY <1>2, <1>5, <2>2 DEF Recover
  <2>3. QED
    BY <2>1, <2>2
<1>6. ASSUME pass' = Leaves, pass.at \in {"work", "landed", "save"}
      PROVE  Resuming /\ Ahead' \cap Ids \subseteq Ahead
  <2>1. pass'.at = pass.back /\ pass'.id = pass.id + 1
    BY <1>1, <1>6 DEF Leaves
  <2>2. pass.back = "resume"
    BY <1>1, <1>6, <2>1 DEF Resuming, Backs
  <2>3. QED
    BY <1>1, <1>6, <2>1, <2>2 DEF Resuming, Ahead
<1>7. ASSUME NEW f, Saves(f), pass.at \in {"work", "landed"}
      PROVE  Resuming /\ Ahead' \cap Ids \subseteq Ahead
  <2>1. CASE pass' = [pass EXCEPT !.at = "save", !.next = f]
    BY <1>1, <1>7, <2>1 DEF Resuming, Ahead
  <2>2. QED
    BY <1>6, <1>7, <2>1 DEF Saves
<1>8. CASE NothingToDo \/ Refused \/ Unavailable \/ SendReceipt \/ ReceiptFails
  BY <1>7, <1>8 DEF NothingToDo, Refused, Unavailable, SendReceipt, ReceiptFails, At
<1>9. CASE Save
  BY <1>6, <1>9 DEF Save, At
<1>10. CASE Land
  BY <1>1, <1>10 DEF Land, At, Resuming, Ahead
<1>11. CASE Resend
  <2>1. Enters("publish") => ~Resuming'
    BY DEF Enters, Rest, Resuming
  <2>2. ASSUME NEW i, NEW f, pass' = [at |-> "landed", id |-> i, back |-> "resend", next |-> f]
        PROVE  ~Resuming'
    BY <2>2 DEF Resuming
  <2>3. QED
    BY <1>11, <2>1, <2>2 DEF Resend
<1>12. CASE Resume
  <2> DEFINE open == {i \in Ids : i >= pass.id /\ filings[i].status = "ready" /\ filings[i].landing = "none"}
  <2>1. pass.at = "resume"
    BY <1>12 DEF Resume, At
  <2>2. CASE open = {}
    BY <1>12, <2>2 DEF Resume, Enters, Rest, Resuming
  <2>3. CASE open # {}
    <3>1. Min(open) \in open /\ Min(open) \in Nat
      BY <2>3, SmallestFiling
    <3>2. pass' = [pass EXCEPT !.at = "work", !.id = Min(open), !.back = "resume"]
      BY <1>12, <2>3 DEF Resume
    <3>3. pass'.at = "work" /\ pass'.id = Min(open) /\ Min(open) >= pass.id
      BY <1>1, <3>1, <3>2
    <3> HIDE DEF open
    <3>4. \A i \in Ids : Min(open) < i => pass.id <= i
      BY <1>1, <3>1, <3>3
    <3>5. \A i \in Ahead' \cap Ids : i \in Ahead
      BY <2>1, <3>3, <3>4 DEF Ahead
    <3>6. QED
      BY <2>1, <3>5 DEF Resuming
  <2>4. QED
    BY <2>2, <2>3
<1>13. QED
  BY <1>3, <1>4, <1>5, <1>8, <1>9, <1>10, <1>11, <1>12 DEF Next, PassStep, Trouble

LEMMA StaysRecovered ==
  ASSUME Inv, [Next]_vars
  PROVE  Recovered'
<1>1. TypeOK /\ PassKeeps /\ Recovered
  BY DEF Inv
<1> SUFFICES ASSUME Resuming', NEW i \in Ahead', Committed(i)'
             PROVE  filings'[i].landing # "none"
  BY DEF Recovered
<1>2. \A j \in Ids : filings[j].landing # "none" => filings'[j].landing # "none"
  BY <1>1, AfterStep
<1>3. \/ Committed(i) /\ i \in Ids
      \/ pass.at = "work" /\ i = pass.id /\ i \in Ids
  <2>1. \A c \in commits : c.id \in Ids
    BY <1>1 DEF TypeOK
  <2>2. pass.at = "work" => pass.id \in Ids
    BY <1>1, WorkedOn
  <2>3. QED
    BY <1>1, <2>1, <2>2, CommitSteps DEF Committed, Receipt
<1>4. CASE pass.at = "recover" /\ Unknown = {} /\ UNCHANGED <<filings, commits>>
  BY <1>3, <1>4 DEF Unknown, Committed
<1>5. CASE Resuming /\ Ahead' \cap Ids \subseteq Ahead
  <2>1. i \in Ahead
    BY <1>3, <1>5
  <2>2. ~(pass.at = "work" /\ i = pass.id)
    <3>1. \A j \in Nat : ~(j < j)
      OBVIOUS
    <3>2. pass.id \in Nat
      BY <1>1 DEF TypeOK
    <3>3. QED
      BY <2>1, <3>1, <3>2 DEF Ahead
  <2>3. QED
    BY <1>1, <1>2, <1>3, <1>5, <2>1, <2>2 DEF Recovered
<1>6. QED
  BY <1>1, <1>4, <1>5, LoopSteps

(* What Saves leaves for the next step: the record that was worked on, with *)
(* its landing and, when nothing was committed, its status changed.         *)
LEMMA SavesKeeps ==
  ASSUME TypeOK, NEW f \in FilingType, Saves(f), UNCHANGED filings,
         Continues(f, Current), Current.landing # "none" => f.landing # "none",
         \/ f.status = Current.status
         \/ f.status = "quarantined" /\ UNCHANGED commits /\ ~Committed(pass.id),
         pass.at \in {"work", "landed"}
  PROVE  PassKeeps'
<1>1. pass \in [at : Stands, id : Nat, back : Backs, next : {pass.next}]
  BY DEF TypeOK, Backs
<1>2. CASE pass' = Leaves
  <2>1. pass'.at = pass.back /\ pass.back \in Backs
    BY <1>1, <1>2 DEF Leaves
  <2>2. pass'.at \notin {"work", "landed", "save"}
    BY <2>1 DEF Backs
  <2>3. QED
    BY <2>2 DEF PassKeeps
<1>3. CASE pass' = [pass EXCEPT !.at = "save", !.next = f]
  <2>1. pass'.at = "save" /\ pass'.next = f /\ pass'.id = pass.id
    BY <1>1, <1>3
  <2>2. Current' = Current
    BY <2>1 DEF Current
  <2>3. UNCHANGED commits => Committed(pass.id)' = Committed(pass.id)
    BY <2>1 DEF Committed
  <2>4. QED
    BY <2>1, <2>2, <2>3 DEF PassKeeps, Continues
<1>4. QED
  BY <1>2, <1>3 DEF Saves

LEMMA PassStaysKept ==
  ASSUME Inv, [Next]_vars
  PROVE  PassKeeps'
<1>1. TypeOK /\ PassKeeps /\ Recovered
  BY DEF Inv
<1>2. /\ pass \in [at : Stands, id : Nat, back : Backs, next : {pass.next}]
      /\ \A c \in commits : c.id \in Ids
  BY <1>1 DEF TypeOK, Backs
<1>3. ASSUME pass'.at \notin {"work", "landed", "save"}
      PROVE  PassKeeps'
  BY <1>3 DEF PassKeeps
<1>4. ASSUME UNCHANGED <<pass, filings, commits>>
      PROVE  PassKeeps'
  BY <1>1, <1>4 DEF PassKeeps, Current, HasNoWork, Committed
<1>5. CASE UNCHANGED vars \/ (\E a \in Arrival : Deliver(a)) \/ Open \/ ClearLock \/ ArrivesLate
  BY <1>4, <1>5 DEF vars, local, remote, Deliver, Open, ClearLock, ArrivesLate
<1>6. CASE Close \/ Crash \/ PassFails \/ PublishDone \/ StartPass \/ (\E i \in Ids : Retry(i))
  <2>1. pass' = Rest => pass'.at \notin {"work", "landed", "save"}
    BY DEF Rest
  <2>2. \A at \in {"scan", "recover"} : Enters(at) => pass'.at \notin {"work", "landed", "save"}
    BY DEF Enters, Rest
  <2>3. QED
    BY <1>3, <1>6, <2>1, <2>2 DEF Close, Crash, PassFails, PublishDone, StartPass, Retry, Forgets
<1>7. CASE ScanDone \/ Notify \/ NotifyFails \/ Told
  BY <1>2, <1>3, <1>7 DEF ScanDone, Notify, NotifyFails, Told, Goes
<1>8. CASE Recover
  <2>1. CASE Unknown = {}
    BY <1>3, <1>8, <2>1 DEF Recover, Enters, Rest
  <2>2. CASE Unknown # {}
    BY <1>3, <1>8, <2>2 DEF Recover, At
  <2>3. QED
    BY <2>1, <2>2
<1>9. CASE Save
  <2>1. pass'.at = pass.back /\ pass.back \in Backs
    BY <1>2, <1>9 DEF Save, Leaves
  <2>2. QED
    BY <1>3, <2>1 DEF Backs
<1>10. CASE \E a \in Arrival : Register(a)
  <2>1. /\ pass' = [pass EXCEPT !.at = "work", !.id = Len(filings) + 1, !.back = "scan"]
        /\ UNCHANGED commits
    BY <1>10 DEF Register, remote
  <2>2. pass'.at = "work" /\ pass'.id = Len(filings) + 1
    BY <1>2, <2>1
  <2>3. \A c \in commits : c.id # Len(filings) + 1
    BY <1>1, <1>2, TheRegister
  <2>4. QED
    BY <2>1, <2>2, <2>3 DEF PassKeeps, Committed
<1>11. CASE NothingToDo \/ Refused \/ Unavailable
  <2>1. pass.at = "work" /\ UNCHANGED filings /\ pass.id \in Ids /\ Current \in FilingType
    BY <1>1, <1>11, WorkedOn DEF NothingToDo, Refused, Unavailable, At
  <2>2. PICK f \in {Current, Inspected, Quarantined(Current), Quarantined(Inspected)} :
          /\ Saves(f)
          /\ f \in {Current, Inspected} \/ (UNCHANGED commits /\ ~HasNoWork)
    BY <1>11 DEF NothingToDo, Refused, Unavailable, remote
  <2>3. Inspected \in FilingType /\ Quarantined(Current) \in FilingType /\ Quarantined(Inspected) \in FilingType
    BY <2>1, NextRecords DEF Inspected
  <2>4. /\ Continues(Inspected, Current) /\ Inspected.landing = Current.landing /\ Inspected.status = Current.status
    BY <2>1 DEF Inspected, Continues, FilingType
  <2>5. \A g \in {Current, Inspected} :
          /\ Continues(Quarantined(g), Current) /\ Quarantined(g).landing = Current.landing
          /\ Quarantined(g).status = "quarantined"
    BY <2>1, <2>3, <2>4 DEF Quarantined, Continues, FilingType
  <2>6. Continues(Current, Current)
    BY DEF Continues
  <2>7. /\ f \in FilingType /\ Continues(f, Current) /\ f.landing = Current.landing
        /\ f.status = Current.status \/ (f.status = "quarantined" /\ UNCHANGED commits /\ ~HasNoWork)
    BY <2>1, <2>2, <2>3, <2>4, <2>5, <2>6
  <2>8. ~HasNoWork => ~Committed(pass.id)
    BY <1>1, <2>1 DEF PassKeeps
  <2>9. QED
    BY <1>1, <2>1, <2>2, <2>7, <2>8, SavesKeeps
<1>12. CASE Land
  <2>1. /\ pass.at = "work" /\ UNCHANGED filings
        /\ pass' = [pass EXCEPT !.at = "landed", !.next = Inspected]
    BY <1>12 DEF Land, At
  <2>2. Current \in FilingType
    BY <1>1, <2>1, WorkedOn
  <2>3. /\ Continues(Inspected, Current) /\ Inspected.landing = Current.landing /\ Inspected.status = Current.status
    BY <2>2 DEF Inspected, Continues, FilingType
  <2>4. pass'.at = "landed" /\ pass'.next = Inspected /\ pass'.id = pass.id
    BY <1>2, <2>1
  <2>5. Current' = Current
    BY <2>1, <2>4 DEF Current
  <2>6. QED
    BY <2>3, <2>4, <2>5 DEF PassKeeps, Continues
<1>13. CASE SendReceipt \/ ReceiptFails
  <2>1. PICK l \in {"unregistered", "registered"} : Saves([pass.next EXCEPT !.landing = l])
    BY <1>13 DEF SendReceipt, ReceiptFails
  <2>2. pass.at = "landed" /\ UNCHANGED filings /\ pass.next \in FilingType
    BY <1>1, <1>13 DEF SendReceipt, ReceiptFails, At, TypeOK
  <2> DEFINE f == [pass.next EXCEPT !.landing = l]
  <2>3. f \in FilingType /\ f.landing # "none"
    BY <2>2 DEF FilingType
  <2>4. f.status = pass.next.status /\ Continues(f, pass.next)
    BY <2>2 DEF FilingType, Continues
  <2>5. pass.next.status = Current.status /\ Continues(pass.next, Current)
    BY <1>1, <2>2 DEF PassKeeps
  <2>6. f.status = Current.status /\ Continues(f, Current)
    BY <2>4, <2>5 DEF Continues
  <2>7. Saves(f)
    BY <2>1
  <2> HIDE DEF f
  <2>8. QED
    BY <1>1, <2>2, <2>3, <2>6, <2>7, SavesKeeps
<1>14. CASE Resume
  <2> DEFINE open == {i \in Ids : i >= pass.id /\ filings[i].status = "ready" /\ filings[i].landing = "none"}
  <2>1. pass.at = "resume" /\ UNCHANGED <<filings, commits>>
    BY <1>14 DEF Resume, At, remote
  <2>2. CASE open = {}
    BY <1>3, <1>14, <2>2 DEF Resume, Enters, Rest
  <2>3. CASE open # {}
    <3>1. Min(open) \in open /\ Min(open) \in Nat
      BY <1>1, <2>3, SmallestFiling
    <3>2. pass' = [pass EXCEPT !.at = "work", !.id = Min(open), !.back = "resume"]
      BY <1>14, <2>3 DEF Resume
    <3>3. pass'.at = "work" /\ pass'.id = Min(open)
      BY <1>2, <3>2
    <3>4. Min(open) \in Ids /\ Min(open) >= pass.id /\ filings[Min(open)].landing = "none"
      BY <3>1
    <3>5. Min(open) >= pass.id => pass.id <= Min(open)
      BY <1>2, <3>1
    <3> HIDE DEF open
    <3>6. Min(open) \in Ahead
      BY <2>1, <3>4, <3>5 DEF Ahead
    <3>7. ~Committed(Min(open))
      BY <1>1, <2>1, <3>4, <3>6 DEF Recovered, Resuming
    <3>8. QED
      BY <2>1, <3>3, <3>7 DEF PassKeeps, Committed
  <2>4. QED
    BY <2>2, <2>3
<1>15. CASE Resend
  <2>1. CASE Enters("publish")
    BY <1>3, <2>1 DEF Enters, Rest
  <2>2. ASSUME NEW i, pass' = [at |-> "landed", id |-> i, back |-> "resend", next |-> filings[i]]
        PROVE  PassKeeps'
    <3>1. pass'.at = "landed" /\ pass'.id = i /\ pass'.next = filings[i]
      BY <2>2
    <3>2. UNCHANGED filings
      BY <1>15 DEF Resend
    <3>3. QED
      BY <3>1, <3>2 DEF PassKeeps, Continues, Current
  <2>3. QED
    BY <1>15, <2>1, <2>2 DEF Resend
<1>16. QED
  BY <1>5, <1>6, <1>7, <1>8, <1>9, <1>10, <1>11, <1>12, <1>13, <1>14, <1>15 DEF Next, PassStep, Trouble

LEMMA InvStays ==
  ASSUME Inv, [Next]_vars
  PROVE  Inv'
<1>1. TypeOK /\ PassKeeps /\ FilesDiffer
  BY DEF Inv
<1>2. TypeOK' /\ FilesDiffer'
  BY <1>1, TypesStay, FilesStayDifferent
<1>3. QED
  BY <1>2, OneStaysReady, RowsStayMatched, PassStaysKept, StaysRecovered DEF Inv

LEMMA Invariance == Spec => []Inv
<1>1. Init => Inv
  BY InvInit
<1>2. Inv /\ [Next]_vars => Inv'
  BY InvStays
<1>3. QED
  BY <1>1, <1>2, PTL DEF Spec

----------------------------------------------------------------------------
(* The register, the pass, the landing database and the gateway keep their  *)
(* types, whatever fails and whenever the engine dies.                      *)
THEOREM FilingTyping == Spec => []TypeOK
<1>1. Inv => TypeOK
  BY DEF Inv
<1>2. QED
  BY <1>1, Invariance, PTL

(* What the landing database holds is what the register says of the filing: *)
(* no retry, refusal or replay changes a filing whose rows are committed.   *)
THEOREM RowsStandAsRegistered == Spec => []RowsMatchRegister
<1>1. Inv => RowsMatchRegister
  BY DEF Inv
<1>2. QED
  BY <1>1, Invariance, PTL

(* The same bytes are landed once, whatever is redelivered, retried or      *)
(* replayed after a lost answer or a crash: two receipts of the same bytes  *)
(* would be of two filings that are both ready, or of one landed twice.     *)
THEOREM BytesLandOnce == Spec => []LandedOnce
<1>1. Inv => LandedOnce
  <2> SUFFICES ASSUME Inv, NEW c \in commits, NEW d \in commits, Sha[filings[c.id].file] = Sha[filings[d.id].file]
               PROVE  c = d
    BY DEF LandedOnce
  <2>1. c.id \in Ids /\ d.id \in Ids
    BY DEF Inv, TypeOK
  <2>2. filings[c.id].status = "ready" /\ filings[d.id].status = "ready"
    BY DEF Inv, RowsMatchRegister
  <2>3. c.id = d.id
    BY <2>1, <2>2 DEF Inv, OneReady
  <2>4. QED
    BY <2>3 DEF Inv, OneReceipt
<1>2. QED
  BY <1>1, Invariance, PTL
===============================================================================
