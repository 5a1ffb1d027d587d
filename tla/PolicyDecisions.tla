---------------------------- MODULE PolicyDecisions ----------------------------
(* Who decides the treatment of a column in a pool: an administrator (one    *)
(* column, or a selection under an idempotency key), a provisioning script,  *)
(* and the pattern rules that a finished introspection applies to what it    *)
(* discovered.  Every decision advances the project's policy version in its  *)
(* own transaction; a compilation reads the version, the policy and the      *)
(* version again.  Custody columns and bearer-only credentials exclude each  *)
(* other in a pool.  Validation of types and declarations is Suits.          *)
EXTENDS Naturals, FiniteSets, FiniteSetsExt

CONSTANTS
  Pool, Element,    \* sets of numbers: targets are visited in their order
  Rule,             \* records [treatment, priority, matches]
  Treatment,
  Suits,            \* the <<element, treatment>> that validation accepts
  Handler,          \* processes that dispatch finished introspections
  Key,              \* idempotency keys of bulk decisions
  MaxVersion,       \* bound on the policy version
  Undecided

VARIABLES
  decision,     \* decision[p][e]: Undecided, or [treatment, by]
  version,      \* project.policy_version
  bearer,       \* pools with a live bearer-only credential
  custodyUp,    \* a custody provider passed its connection check
  rules,        \* the pattern rules there are
  older,        \* older[e]: the rules older than the discovery of e
  receipt,      \* receipt[p][e]: "none", "open" or "processed"
  delivered,    \* elements whose introspection is acknowledged
  handling,     \* handling[h]: the element h handles the discovery of, or 0
  bulk,         \* the keys under which a bulk decision left its receipt
  asked,        \* a manual custody decision past its availability check
  reader        \* a compilation: its version and what it read

decisions == <<decision, version>>
discovery == <<older, receipt, delivered, handling>>
vars == <<decisions, bearer, custodyUp, rules, discovery, bulk, asked, reader>>

NotReading == [pc |-> "idle", version |-> 0, read |-> <<>>]
Init ==
  /\ decision = [p \in Pool |-> [e \in Element |-> Undecided]]
  /\ version = 1 /\ bearer = {} /\ custodyUp = TRUE /\ rules = {}
  /\ older = [e \in Element |-> {}]
  /\ receipt = [p \in Pool |-> [e \in Element |-> "none"]]
  /\ delivered = {} /\ handling = [h \in Handler |-> 0]
  /\ bulk = {} /\ asked = {} /\ reader = NotReading

(* Mutant: only a new row advances the version.                              *)
DecideUnversioned(p, E, t, by) ==
  /\ version < MaxVersion
  /\ decision' = [decision EXCEPT ![p] = [e \in Element |->
                    IF e \in E THEN [treatment |-> t, by |-> by] ELSE @[e]]]
  /\ version' = IF \E e \in E : decision[p][e] = Undecided THEN version + 1 ELSE version

(* A row of entitlement is written and the version advances with it.         *)
Decide(p, E, t, by) ==
  /\ version < MaxVersion
  /\ decision' = [decision EXCEPT ![p] = [e \in Element |->
                    IF e \in E THEN [treatment |-> t, by |-> by] ELSE @[e]]]
  /\ version' = version + 1

(* The trigger on entitlement: custody and bearer-only exclude each other.   *)
Raises(p, t) == t = "custody" /\ p \in bearer
Holds(p, t) == \E e \in Element : decision[p][e] # Undecided /\ decision[p][e].treatment = t
Known(e) == \E p \in Pool : receipt[p][e] # "none"
------------------------------------------------------------------------------
(* set: availability of custody is asked before the transaction.             *)
AskCustody(p, e) ==
  /\ custodyUp /\ <<p, e>> \notin asked
  /\ asked' = asked \cup {<<p, e>>}
  /\ UNCHANGED <<decisions, bearer, custodyUp, rules, discovery, bulk, reader>>

SetOne(p, e, t) ==
  /\ Known(e) /\ <<e, t>> \in Suits
  /\ t = "custody" => <<p, e>> \in asked
  /\ ~Raises(p, t)
  /\ Decide(p, {e}, t, "user")
  /\ asked' = asked \ {<<p, e>>}
  /\ UNCHANGED <<bearer, custodyUp, rules, discovery, bulk, reader>>

(* Mutant: the script's bulk decisions replace what was decided.             *)
SetManyReplacing(p, E, t, k, requireUndecided) ==
  /\ k \notin bulk
  /\ t = "custody" => custodyUp
  /\ ~Raises(p, t)
  /\ \A e \in E : Known(e) /\ <<e, t>> \in Suits
  /\ Decide(p, E, t, IF requireUndecided THEN "provisioning" ELSE "user")
  /\ bulk' = bulk \cup {k}
  /\ UNCHANGED <<bearer, custodyUp, rules, discovery, asked, reader>>

(* bulk set: a receipt answers, otherwise everything or nothing is decided;  *)
(* only a decision leaves a receipt.                                         *)
SetMany(p, E, t, k, requireUndecided) ==
  /\ k \notin bulk
  /\ t = "custody" => custodyUp
  /\ ~Raises(p, t)
  /\ requireUndecided => \A e \in E : decision[p][e] = Undecided
  /\ \A e \in E : Known(e) /\ <<e, t>> \in Suits
  /\ Decide(p, E, t, IF requireUndecided THEN "provisioning" ELSE "user")
  /\ bulk' = bulk \cup {k}
  /\ UNCHANGED <<bearer, custodyUp, rules, discovery, asked, reader>>

ReceiptLapses(k) ==
  /\ k \in bulk
  /\ bulk' = bulk \ {k}
  /\ UNCHANGED <<decisions, bearer, custodyUp, rules, discovery, asked, reader>>

(* A credential is issued (under the pool's lock) or revoked.                *)
IssueBearer(p) ==
  /\ p \notin bearer /\ ~Holds(p, "custody")
  /\ bearer' = bearer \cup {p}
  /\ UNCHANGED <<decisions, custodyUp, rules, discovery, bulk, asked, reader>>
RevokeBearer(p) ==
  /\ p \in bearer
  /\ bearer' = bearer \ {p}
  /\ UNCHANGED <<decisions, custodyUp, rules, discovery, bulk, asked, reader>>
ProviderChanges ==
  /\ custodyUp' = ~custodyUp
  /\ UNCHANGED <<decisions, bearer, rules, discovery, bulk, asked, reader>>
------------------------------------------------------------------------------
CreateRule(r) ==
  /\ r \notin rules
  /\ rules' = rules \cup {r}
  /\ UNCHANGED <<decisions, bearer, custodyUp, discovery, bulk, asked, reader>>
DeleteRule(r) ==
  /\ r \in rules
  /\ rules' = rules \ {r}
  /\ older' = [e \in Element |-> older[e] \ {r}]
  /\ UNCHANGED <<decisions, bearer, custodyUp, receipt, delivered, handling, bulk, asked, reader>>

(* An introspection publishes a new element: a target for every bound pool.  *)
Discover(e) ==
  /\ ~Known(e)
  /\ older' = [older EXCEPT ![e] = rules]
  /\ receipt' = [p \in Pool |-> [receipt[p] EXCEPT ![e] = "open"]]
  /\ UNCHANGED <<decisions, bearer, custodyUp, rules, delivered, handling, bulk, asked, reader>>

(* A dispatcher takes the first introspection that is not acknowledged.      *)
Handle(h) ==
  LET waiting == {e \in Element : Known(e) /\ e \notin delivered}
  IN /\ handling[h] = 0 /\ waiting # {}
     /\ handling' = [handling EXCEPT ![h] = Min(waiting)]
     /\ UNCHANGED <<decisions, bearer, custodyUp, rules, older, receipt, delivered, bulk, asked, reader>>

Open(e) == {p \in Pool : receipt[p][e] = "open"}
Candidates(e) == {r \in older[e] : e \in r.matches}
Tied(R) == \E r, s \in R : r # s /\ r.priority = s.priority
Selected(R) == CHOOSE r \in R : \A s \in R : s.priority <= r.priority

(* Mutant: whatever is decided already.                                      *)
DecidingAnyway(p, e) ==
  IF Candidates(e) = {} \/ Tied(Candidates(e)) THEN {}
  ELSE {r \in {Selected(Candidates(e))} : <<e, r.treatment>> \in Suits}

(* The rule that decides this target, if one does: an existing decision      *)
(* wins, a tie decides nothing, and neither does a treatment that does not   *)
(* suit the element.                                                         *)
Deciding(p, e) ==
  IF decision[p][e] # Undecided \/ Candidates(e) = {} \/ Tied(Candidates(e)) THEN {}
  ELSE {r \in {Selected(Candidates(e))} : <<e, r.treatment>> \in Suits}

Processed(p, e) == receipt' = [receipt EXCEPT ![p][e] = "processed"]

(* Mutant: the trigger looks at credentials only.                            *)
ApplyUnguarded(h) ==
  LET e == handling[h]
      p == Min(Open(e))
  IN /\ e # 0 /\ Open(e) # {}
     /\ \A r \in Deciding(p, e) : Decide(p, {e}, r.treatment, "rule")
     /\ Deciding(p, e) = {} => UNCHANGED decisions
     /\ Processed(p, e)
     /\ UNCHANGED <<bearer, custodyUp, rules, older, delivered, handling, bulk, asked, reader>>

(* apply: one target, one transaction, under the source's lock.              *)
Apply(h) ==
  LET e == handling[h]
      p == Min(Open(e))
  IN /\ e # 0 /\ Open(e) # {}
     /\ \A r \in Deciding(p, e) : ~Raises(p, r.treatment) /\ Decide(p, {e}, r.treatment, "rule")
     /\ Deciding(p, e) = {} => UNCHANGED decisions
     /\ Processed(p, e)
     /\ UNCHANGED <<bearer, custodyUp, rules, older, delivered, handling, bulk, asked, reader>>

(* The trigger raises: the transaction and the whole dispatch are over.  So  *)
(* is a dispatch whose process stops.                                        *)
Fails(h) ==
  LET e == handling[h]
  IN /\ e # 0 /\ Open(e) # {}
     /\ \E r \in Deciding(Min(Open(e)), e) : Raises(Min(Open(e)), r.treatment)
     /\ handling' = [handling EXCEPT ![h] = 0]
     /\ UNCHANGED <<decisions, bearer, custodyUp, rules, older, receipt, delivered, bulk, asked, reader>>
Stops(h) ==
  /\ handling[h] # 0
  /\ handling' = [handling EXCEPT ![h] = 0]
  /\ UNCHANGED <<decisions, bearer, custodyUp, rules, older, receipt, delivered, bulk, asked, reader>>

(* Acknowledged when every target has a receipt.                             *)
Acknowledge(h) ==
  /\ handling[h] # 0 /\ Open(handling[h]) = {}
  /\ delivered' = delivered \cup {handling[h]}
  /\ handling' = [handling EXCEPT ![h] = 0]
  /\ UNCHANGED <<decisions, bearer, custodyUp, rules, older, receipt, bulk, asked, reader>>
------------------------------------------------------------------------------
(* compilation: the version, the snapshot of one statement, the version.     *)
ReadVersion ==
  /\ reader.pc = "idle"
  /\ reader' = [NotReading EXCEPT !.pc = "versioned", !.version = version]
  /\ UNCHANGED <<decisions, bearer, custodyUp, rules, discovery, bulk, asked>>
ReadPolicy ==
  /\ reader.pc = "versioned"
  /\ reader' = [reader EXCEPT !.pc = "read", !.read = decision]
  /\ UNCHANGED <<decisions, bearer, custodyUp, rules, discovery, bulk, asked>>
Answer ==
  /\ reader.pc = "read"
  /\ reader' = IF version = reader.version THEN [reader EXCEPT !.pc = "prepared"] ELSE NotReading
  /\ UNCHANGED <<decisions, bearer, custodyUp, rules, discovery, bulk, asked>>
Forget ==
  /\ reader.pc = "prepared"
  /\ reader' = NotReading
  /\ UNCHANGED <<decisions, bearer, custodyUp, rules, discovery, bulk, asked>>
Compile == ReadVersion \/ ReadPolicy \/ Answer \/ Forget

Next ==
  \/ \E p \in Pool, e \in Element : AskCustody(p, e)
  \/ \E p \in Pool, e \in Element, t \in Treatment : SetOne(p, e, t)
  \/ \E p \in Pool, E \in SUBSET Element \ {{}}, t \in Treatment, k \in Key, u \in BOOLEAN : SetMany(p, E, t, k, u)
  \/ \E k \in Key : ReceiptLapses(k)
  \/ \E p \in Pool : IssueBearer(p) \/ RevokeBearer(p)
  \/ ProviderChanges
  \/ \E r \in Rule : CreateRule(r) \/ DeleteRule(r)
  \/ \E e \in Element : Discover(e)
  \/ \E h \in Handler : Handle(h) \/ Apply(h) \/ Fails(h) \/ Stops(h) \/ Acknowledge(h)
  \/ Compile

(* Every later job and every start dispatches what is not acknowledged, and  *)
(* a dispatcher that is not stopped for ever gets on.                        *)
Fairness == \A h \in Handler : WF_vars(Handle(h)) /\ SF_vars(Apply(h)) /\ SF_vars(Acknowledge(h))
------------------------------------------------------------------------------
(* CustodyIsBound: in a pool with a custody column nobody holds a live       *)
(* bearer-only credential, whichever of the two came first and whoever       *)
(* decided (custody-credential-guard.ts:3-6, keys.ts:61, and the trigger).   *)
CustodyIsBound == \A p \in bearer : ~Holds(p, "custody")

(* DecidedByAPersonStays: a decision is replaced by a person's only; a rule  *)
(* and the provisioning script fill gaps (pattern-rules.ts:65-66, 80-81,     *)
(* bulk-entitlements.ts:37).                                                 *)
DecidedByAPersonStays ==
  [][\A p \in Pool, e \in Element :
       decision[p][e] # Undecided /\ decision'[p][e] # decision[p][e] => decision'[p][e].by = "user"]_vars

(* PreparedIsCurrent: what a compilation answers is the policy in force as   *)
(* it answers, under its version: no decision between the two readings of    *)
(* the version stays unnoticed (entitlement-read.ts:51, 55-66, 89-90).       *)
PreparedIsCurrent ==
  [][reader.pc = "read" /\ reader'.pc = "prepared" => reader.read = decision /\ reader.version = version]_vars

(* EveryTargetIsDecided: a target that introspection recorded gets its       *)
(* receipt in the end (pattern-rules.ts:36-37).                              *)
EveryTargetIsDecided == \A p \in Pool, e \in Element : receipt[p][e] = "open" ~> receipt[p][e] = "processed"
==============================================================================
