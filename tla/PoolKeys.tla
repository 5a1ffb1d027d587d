------------------------------ MODULE PoolKeys ------------------------------
(***************************************************************************)
(* The keys of a pool and the agents that come with them.  A credential    *)
(* has a current key and, for a grace, the one it replaced; an              *)
(* administrator revokes a key and is told which agents use it.  The       *)
(* commands of a project exclude one another; an agent that is observed    *)
(* shares the pool with other agents and excludes the commands.  An        *)
(* agent's presence ages with the clock, whether or not a sweep has seen   *)
(* it age.                                                                 *)
(***************************************************************************)
EXTENDS Integers

CONSTANTS None, Agent, Credential, Request, \* Request: an actor's Idempotency-Keys of a route
          MaxKeys, MaxTime,
          Grace,                      \* poolKeyGraceSeconds
          ReceiptLife,                \* how long a command is replayed: 24 hours
          Idle, Stale, Gone           \* a minute, three heartbeats, the disconnect grace

VARIABLES now,
          credential, \* None | "live" | "revoked"
          key,        \* pool_key
          receipt,    \* pool_key_request: the command answered, its key and when it lapses
          origin,     \* key -> the request that made it, and when
          shown,      \* how often a key's plaintext was put into an answer
          named,      \* of a revoked key: the agents its revocation named
          row,        \* agent_presence
          signal,     \* an agent's request: "idle" | "verified" | "checked"
          listed      \* agents the sweep has listed
vars == <<now, credential, key, receipt, origin, shown, named, row, signal, listed>>

Never == -1
Keys == 1..MaxKeys
Command == [kind : {"create", "issue", "rotate", "revokeCredential"}, credential : Credential, key : {0}]
             \cup [kind : {"revoke"}, credential : {None}, key : Keys]
Nobody == [state |-> None, key |-> 0, first |-> 0, seen |-> 0, request |-> Never, stale |-> Never]
Unmade == [by |-> None, at |-> Never]
NoKey == [state |-> None, credential |-> None, until |-> Never]
Quiet == [at |-> "idle", key |-> 0, kind |-> None, time |-> Never]

TypeOK ==
  /\ now \in 0..MaxTime /\ credential \in [Credential -> {None, "live", "revoked"}]
  /\ \A k \in Keys : /\ key[k].state \in {None, "current", "retiring", "expired", "revoked"}
                     /\ key[k].credential \in Credential \cup {None} /\ key[k].until \in -1..(MaxTime + Grace)
  /\ shown \in [Keys -> 0..2] /\ \A k \in Keys : origin[k].at \in -1..now
  /\ named \in [Keys -> SUBSET Agent] /\ listed \subseteq Agent
  /\ \A a \in Agent : row[a].state \in {None, "connecting", "active", "idle", "stale", "disconnected"}

Init ==
  /\ now = 0 /\ credential = [c \in Credential |-> None] /\ key = [k \in Keys |-> NoKey]
  /\ receipt = [r \in Request |-> None] /\ origin = [k \in Keys |-> Unmade]
  /\ shown = [k \in Keys |-> 0] /\ named = [k \in Keys |-> {}]
  /\ row = [a \in Agent |-> Nobody] /\ signal = [a \in Agent |-> Quiet] /\ listed = {}

Tick == now < MaxTime /\ now' = now + 1
        /\ UNCHANGED <<credential, key, receipt, origin, shown, named, row, signal, listed>>

----------------------------------------------------------------------------
(* Mutant: an agent becomes stale when a sweep first finds it late.         *)
AgeWhenSwept(r, t) ==
  LET stale == IF r.stale # Never THEN r.stale ELSE IF t >= r.seen + Stale THEN t ELSE t + 1
  IN IF r.state \in {None, "disconnected"} THEN r
     ELSE IF t >= stale + Gone THEN [r EXCEPT !.state = "disconnected", !.stale = stale]
     ELSE IF t >= stale THEN [r EXCEPT !.state = "stale", !.stale = stale]
     ELSE r

(* agePresence: deadlines are times of events, not of the sweep.            *)
Age(r, t) ==
  LET stale == IF r.stale # Never THEN r.stale ELSE r.seen + Stale
      asking == IF r.request # Never THEN r.request ELSE r.first
  IN IF r.state \in {None, "disconnected"} THEN r
     ELSE IF t >= stale + Gone THEN [r EXCEPT !.state = "disconnected", !.stale = stale]
     ELSE IF t >= stale THEN [r EXCEPT !.state = "stale", !.stale = stale]
     ELSE IF r.state = "active" /\ t >= asking + Idle THEN [r EXCEPT !.state = "idle"]
     ELSE r

(* observePresence                                                          *)
Observed(old, kind, k, t) ==
  LET r == IF old.state = None THEN [Nobody EXCEPT !.first = t] ELSE old
      request == IF kind = "request" THEN t ELSE r.request
      asking == IF request # Never THEN request ELSE r.first
  IN [r EXCEPT !.key = k, !.seen = t, !.request = request, !.stale = Never,
               !.state = CASE kind = "connect" -> "connecting"
                           [] kind = "request" -> "active"
                           [] kind = "heartbeat" -> IF t - asking >= Idle THEN "idle" ELSE "active"]

Verifies(k, t) ==
  /\ key[k].state # None /\ credential[key[k].credential] = "live"
  /\ key[k].state = "current" \/ (key[k].state = "retiring" /\ key[k].until > t)

(* An agent comes with a key, which is verified on its own.                 *)
Authenticate(a, k, kind) ==
  /\ signal[a] = Quiet /\ Verifies(k, now)
  /\ signal' = [signal EXCEPT ![a] = [Quiet EXCEPT !.at = "verified", !.key = k, !.kind = kind]]
  /\ UNCHANGED <<now, credential, key, receipt, origin, shown, named, row, listed>>

(* In the transaction that observes it, the pool shared, it is verified     *)
(* again; a refusal leaves no trace.                                        *)
Observe(a) ==
  /\ signal[a].at = "verified"
  /\ LET k == signal[a].key
         held == key[k].state = "current" \/ (key[k].state = "retiring" /\ key[k].until > now)
     IN signal' = [signal EXCEPT ![a] = IF held THEN [@ EXCEPT !.at = "checked", !.time = now] ELSE Quiet]
  /\ UNCHANGED <<now, credential, key, receipt, origin, shown, named, row, listed>>

Save(a) ==
  /\ signal[a].at = "checked" /\ signal' = [signal EXCEPT ![a] = Quiet]
  /\ row' = [row EXCEPT ![a] = Observed(@, signal[a].kind, signal[a].key, signal[a].time)]
  /\ UNCHANGED <<now, credential, key, receipt, origin, shown, named, listed>>

(* The sweep lists who is not gone and takes them one transaction each.     *)
List ==
  /\ listed = {} /\ listed' = {a \in Agent : row[a].state \notin {None, "disconnected"}}
  /\ UNCHANGED <<now, credential, key, receipt, origin, shown, named, row, signal>>

Sweep(a) ==
  /\ a \in listed /\ signal[a].at # "checked"
  /\ listed' = listed \ {a} /\ row' = [row EXCEPT ![a] = Age(@, now)]
  /\ UNCHANGED <<now, credential, key, receipt, origin, shown, named, signal>>

----------------------------------------------------------------------------
(* Mutant: a command does not wait for the agents being observed.           *)
PoolIsFreeAlways == TRUE

PoolIsFree == \A a \in Agent : signal[a].at # "checked"

Fresh == CHOOSE k \in Keys : key[k].state = None /\ \A j \in 1..(k - 1) : key[j].state # None
HasRoom == \E k \in Keys : key[k].state = None
Made == {c \in Credential : credential[c] # None}
Current(c) == {k \in Keys : key[k].credential = c /\ key[k].state = "current"}
Retiring(c) == {k \in Keys : key[k].credential = c /\ key[k].state = "retiring"}

(* The receipt is committed with the key, in the place of one that has      *)
(* lapsed, and never holds its plaintext; the answer that does may be lost  *)
(* on its way.                                                              *)
Answer(r, c, k, plain) ==
  /\ receipt' = [receipt EXCEPT ![r] = [command |-> c, key |-> k, until |-> now + ReceiptLife]]
  /\ origin' = IF plain THEN [origin EXCEPT ![k] = [by |-> r, at |-> now]] ELSE origin
  /\ shown' = IF plain THEN [shown EXCEPT ![k] = @ + 1] ELSE shown

Issue(r, c) ==
  /\ c.kind = "issue" /\ Made # {} /\ c.credential \notin Made
  /\ credential' = [credential EXCEPT ![c.credential] = "live"]
  /\ key' = [key EXCEPT ![Fresh] = [state |-> "current", credential |-> c.credential, until |-> Never]]
  /\ Answer(r, c, Fresh, TRUE) /\ UNCHANGED named

(* The pool is created with a credential and its key.                       *)
Create(r, c) ==
  /\ c.kind = "create" /\ Made = {}
  /\ credential' = [credential EXCEPT ![c.credential] = "live"]
  /\ key' = [key EXCEPT ![Fresh] = [state |-> "current", credential |-> c.credential, until |-> Never]]
  /\ Answer(r, c, Fresh, TRUE) /\ UNCHANGED named

(* A retiring key bars a rotation until its grace is over.                  *)
Rotate(r, c) ==
  /\ c.kind = "rotate" /\ credential[c.credential] = "live" /\ \A k \in Retiring(c.credential) : key[k].until <= now
  /\ key' = [k \in Keys |->
       IF k = Fresh THEN [state |-> "current", credential |-> c.credential, until |-> Never]
       ELSE IF k \in Retiring(c.credential) THEN [key[k] EXCEPT !.state = "expired"]
       ELSE IF k \in Current(c.credential) THEN [key[k] EXCEPT !.state = "retiring", !.until = now + Grace]
       ELSE key[k]]
  /\ Answer(r, c, Fresh, TRUE) /\ UNCHANGED <<credential, named>>

(* The agents last seen with the key are named, those gone apart.           *)
Revoke(r, c) ==
  LET k == c.key IN
  /\ c.kind = "revoke"
  /\ key[k].state = "current" \/ (key[k].state = "retiring" /\ key[k].until > now)
  /\ key' = [key EXCEPT ![k].state = "revoked", ![k].until = Never]
  /\ named' = [named EXCEPT ![k] = {a \in Agent : row[a].state # None /\ row[a].key = k}]
  /\ Answer(r, c, k, FALSE) /\ UNCHANGED credential

RevokeCredential(r, c) ==
  /\ c.kind = "revokeCredential" /\ credential[c.credential] = "live"
  /\ credential' = [credential EXCEPT ![c.credential] = "revoked"]
  /\ key' = [k \in Keys |-> IF k \in Current(c.credential) \cup Retiring(c.credential)
                            THEN [key[k] EXCEPT !.state = "revoked", !.until = Never] ELSE key[k]]
  /\ Answer(r, c, 0, FALSE) /\ UNCHANGED named


Replays(r) == receipt[r] # None /\ receipt[r].until > now

(* Under the project's lock.  A command with a receipt that has not lapsed  *)
(* is answered from it, or refused when it is another one; after that the   *)
(* same Idempotency-Key is a new request.                                   *)
Execute(r, c) ==
  /\ PoolIsFree /\ ~Replays(r)
  /\ c.kind \in {"create", "issue", "rotate"} => HasRoom
  /\ Create(r, c) \/ Issue(r, c) \/ Rotate(r, c) \/ Revoke(r, c) \/ RevokeCredential(r, c)
  /\ UNCHANGED <<now, row, signal, listed>>

Next ==
  \/ Tick \/ List
  \/ \E a \in Agent, k \in Keys, kind \in {"connect", "request", "heartbeat"} : Authenticate(a, k, kind)
  \/ \E a \in Agent : Observe(a) \/ Save(a) \/ Sweep(a)
  \/ \E r \in Request, c \in Command : Execute(r, c)
Spec == Init /\ [][Next]_vars

----------------------------------------------------------------------------
(* Who uses a revoked key is named by its revocation: no agent slips in     *)
(* while it is decided or afterwards (presence.ts:25-26, keys.ts:96-101).  *)
RevocationNamesAll ==
  \A k \in Keys, a \in Agent :
    key[k].state = "revoked" /\ credential[key[k].credential] = "live" /\ row[a].state # None /\ row[a].key = k
      => a \in named[k]

(* Within the life of a receipt a repeated command makes no second key: two *)
(* keys of one Idempotency-Key were made that long apart, also when other   *)
(* commands used it in between; and each plaintext is shown once at most    *)
(* (keys.ts:35-36, 104-109).                                                *)
OneKeyPerRequest ==
  /\ \A k \in Keys : shown[k] <= 1
  /\ \A j, k \in Keys : j # k /\ origin[j].by = origin[k].by /\ origin[j].by # None
       => origin[j].at + ReceiptLife <= origin[k].at \/ origin[k].at + ReceiptLife <= origin[j].at

(* What is read of an agent does not depend on when the sweep ran           *)
(* (presence.ts:7 of the domain, 72-90 of the infrastructure).              *)
SweepsAreInvisible ==
  [][listed' # listed =>
       \A a \in Agent, t \in now..(MaxTime + Stale + Gone) : Age(row'[a], t).state = Age(row[a], t).state]_vars
=============================================================================
