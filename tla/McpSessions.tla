------------------------------ MODULE McpSessions ------------------------------
(* The agent endpoint's sessions (mcp/infrastructure/http.ts, mcp/application/ *)
(* access.ts).  A session never stands for a key: every request authenticates, *)
(* and once a second one batch of reads closes the sessions whose key is gone, *)
(* announces changed tools and pings.  Requests, rotations and revocations     *)
(* happen while the batch is being read.                                       *)
EXTENDS Naturals, FiniteSets

CONSTANTS
  Session,     \* sessions that may be opened
  Credential,  \* the pools' credentials, each with its current key
  MaxChanges   \* a bound on rotations, revocations and changes of the modes

VARIABLES
  key,        \* the current key version of each credential, 0 once revoked
  modes,      \* the pool's query mode, as committed
  changes,
  open,       \* the sessions in memory
  owner,      \* the credential each was opened with
  principal,  \* its principal: who last authenticated, as a fresh object each time
  announced,  \* the fingerprint last announced to its client
  batch,      \* the sessions and principals being read, and what was read of them
  handling    \* a request past its authentication: its session and principal,
              \* and the modes there have been since
vars == <<key, modes, changes, open, owner, principal, announced, batch, handling>>

None == [of |-> "nobody", version |-> 0, modes |-> FALSE, fresh |-> 0]
Idle == [at |-> "idle", of |-> [s \in {} |-> None], valid |-> {}, modes |-> FALSE]
Free == [at |-> "free", session |-> "none", who |-> None, since |-> {}]

Init ==
  /\ key = [c \in Credential |-> 1] /\ modes = TRUE /\ changes = 0
  /\ open = {} /\ owner \in [Session -> Credential]
  /\ principal = [s \in Session |-> None] /\ announced = [s \in Session |-> TRUE]
  /\ batch = Idle /\ handling = Free

(* A key is rotated or revoked, or the pool's modes change, on any host.      *)
Change ==
  /\ changes < MaxChanges /\ changes' = changes + 1
  /\ \/ \E c \in {d \in Credential : key[d] # 0} : \E v \in {0, key[c] + 1} : key' = [key EXCEPT ![c] = v] /\ UNCHANGED modes
     \/ modes' = ~modes /\ UNCHANGED key
  /\ handling' = IF handling.at = "free" THEN Free ELSE [handling EXCEPT !.since = @ \cup {modes'}]
  /\ UNCHANGED <<open, owner, principal, announced, batch>>
------------------------------------------------------------------------------
(* A request shows a session and a key.  The key is verified, and the session *)
(* has to be of the same credential; a mutant takes any session.              *)
AuthenticateAny(s, c) ==
  /\ handling.at = "free" /\ key[c] # 0 /\ (s \in open \/ owner[s] = c)
  /\ handling' = [at |-> "handling", session |-> s, who |-> [of |-> c, version |-> key[c], modes |-> modes, fresh |-> 1 - principal[s].fresh],
                  since |-> {modes}]
  /\ UNCHANGED <<key, modes, changes, open, owner, principal, announced, batch>>

Authenticate(s, c) ==
  /\ handling.at = "free" /\ key[c] # 0
  /\ IF s \in open THEN principal[s].of = c ELSE owner[s] = c
  /\ handling' = [at |-> "handling", session |-> s, who |-> [of |-> c, version |-> key[c], modes |-> modes, fresh |-> 1 - principal[s].fresh],
                  since |-> {modes}]
  /\ UNCHANGED <<key, modes, changes, open, owner, principal, announced, batch>>

(* The binding and the presence are observed against the key again; then the  *)
(* session takes the caller's principal, or a new one is opened for it.       *)
Handle ==
  LET s == handling.session who == handling.who
  IN /\ handling.at = "handling"
     /\ handling' = IF key[who.of] = who.version THEN [handling EXCEPT !.at = "inside"] ELSE Free
     /\ IF key[who.of] = who.version
        THEN /\ open' = open \cup {s} /\ principal' = [principal EXCEPT ![s] = who]
             /\ announced' = [announced EXCEPT ![s] = IF s \in open THEN @ ELSE who.modes]
        ELSE UNCHANGED <<open, principal, announced>>
     /\ UNCHANGED <<key, modes, changes, owner, batch>>

(* What the request asks for in the session is listed, looked up and answered *)
(* with the caller it brought itself; redemption needs a custody provider.    *)
Tool == {"describe", "explain", "query", "redeem"}
Listed(who) == {t \in Tool : t = "query" => who.modes}

(* A mutant: the tools are those that were last announced to the session.     *)
AnsweredAsAnnounced ==
  /\ handling.at = "inside"
  /\ \/ announced[handling.session] /\ handling' = [handling EXCEPT !.at = "query"]
     \/ handling' = Free
  /\ UNCHANGED <<key, modes, changes, open, owner, principal, announced, batch>>

(* A tool that is not listed is unknown, arguments may not fit its schema, and *)
(* what is listed runs or is refused; only the query and the list of tools,   *)
(* when it has the query, are followed.                                       *)
Answered ==
  /\ handling.at = "inside"
  /\ \/ "query" \in Listed(handling.who) /\ handling' = [handling EXCEPT !.at = "query"]
     \/ handling' = Free
  /\ UNCHANGED <<key, modes, changes, open, owner, principal, announced, batch>>

Replied ==
  /\ handling.at = "query" /\ handling' = Free
  /\ UNCHANGED <<key, modes, changes, open, owner, principal, announced, batch>>

Disconnect(s) ==
  /\ s \in open /\ open' = open \ {s}
  /\ UNCHANGED <<key, modes, changes, owner, principal, announced, batch, handling>>
------------------------------------------------------------------------------
BeginBatch ==
  /\ batch.at = "idle" /\ open # {}
  /\ batch' = [at |-> "reading", of |-> [s \in open |-> principal[s]], valid |-> {}, modes |-> FALSE]
  /\ UNCHANGED <<key, modes, changes, open, owner, principal, announced, handling>>

(* One statement reads them all.  When it fails every session is closed.      *)
ReadBatch ==
  /\ batch.at = "reading"
  /\ \/ /\ batch' = [batch EXCEPT !.at = "read", !.modes = modes,
                       !.valid = {s \in DOMAIN batch.of : key[batch.of[s].of] = batch.of[s].version}]
        /\ UNCHANGED open
     \/ batch' = Idle /\ open' = open \ DOMAIN batch.of
  /\ UNCHANGED <<key, modes, changes, owner, principal, announced, handling>>

Same(p, q) == p.of = q.of /\ p.version = q.version
Rest(s) == IF DOMAIN batch.of = {s} THEN Idle ELSE [batch EXCEPT !.of = [t \in DOMAIN @ \ {s} |-> @[t]], !.valid = @ \ {s}]
Announce(s, tools) ==
  IF tools = announced[s] THEN UNCHANGED <<principal, announced>>
  ELSE principal' = [principal EXCEPT ![s].modes = tools, ![s].fresh = 1 - @] /\ announced' = [announced EXCEPT ![s] = tools]

(* Mutants: a session is judged by what was read of an older principal; or    *)
(* one whose principal was replaced in the meantime is never judged.          *)
ApplyStale(s) ==
  /\ batch.at = "read" /\ s \in DOMAIN batch.of /\ batch' = Rest(s)
  /\ IF s \notin open THEN UNCHANGED <<open, principal, announced>>
     ELSE IF s \notin batch.valid THEN open' = open \ {s} /\ UNCHANGED <<principal, announced>>
     ELSE UNCHANGED open /\ Announce(s, batch.modes)
  /\ UNCHANGED <<key, modes, changes, owner, handling>>
ApplyFingerprint(s) ==
  /\ batch.at = "read" /\ s \in DOMAIN batch.of /\ batch' = Rest(s)
  /\ IF s \notin open THEN UNCHANGED <<open, principal, announced>>
     ELSE IF principal[s] # batch.of[s]
     THEN open' = (IF Same(principal[s], batch.of[s]) /\ s \notin batch.valid THEN open \ {s} ELSE open) /\ UNCHANGED <<principal, announced>>
     ELSE IF s \notin batch.valid THEN open' = open \ {s} /\ UNCHANGED <<principal, announced>>
     ELSE /\ UNCHANGED open
          /\ IF batch.modes = principal[s].modes THEN UNCHANGED <<principal, announced>> ELSE Announce(s, batch.modes)
  /\ UNCHANGED <<key, modes, changes, owner, handling>>

(* The result is applied to the session it was read of.  If a request has     *)
(* replaced the principal it only closes a session of the very same key.      *)
Apply(s) ==
  /\ batch.at = "read" /\ s \in DOMAIN batch.of /\ batch' = Rest(s)
  /\ IF s \notin open THEN UNCHANGED <<open, principal, announced>>
     ELSE IF principal[s] # batch.of[s]
     THEN open' = (IF Same(principal[s], batch.of[s]) /\ s \notin batch.valid THEN open \ {s} ELSE open) /\ UNCHANGED <<principal, announced>>
     ELSE IF s \notin batch.valid THEN open' = open \ {s} /\ UNCHANGED <<principal, announced>>
     ELSE UNCHANGED open /\ Announce(s, batch.modes)
  /\ UNCHANGED <<key, modes, changes, owner, handling>>

Next ==
  \/ Change \/ Handle \/ Answered \/ Replied \/ BeginBatch \/ ReadBatch
  \/ \E s \in Session : Disconnect(s) \/ Apply(s) \/ \E c \in Credential : Authenticate(s, c)
Fairness == WF_vars(BeginBatch) /\ WF_vars(ReadBatch) /\ \A s \in Session : WF_vars(Apply(s))
Spec == Init /\ [][Next]_vars /\ Fairness
------------------------------------------------------------------------------
(* A poll never closes a session whose current key is good, however old the   *)
(* reading it closes it by; only a failed batch closes them all (refresh).    *)
GoodSessionsSurvive == [][
  \A s \in open : batch.at = "read" /\ batch' # batch /\ s \notin open' => key[principal[s].of] # principal[s].version]_vars

(* Every session belongs to the credential it was opened with (handle).       *)
SessionsKeepTheirOwner == \A s \in open : principal[s].of = owner[s]

(* Once its requests pause, a session whose key is gone is closed, and one    *)
(* that stays open has been told of the tools its pool has now (refresh).     *)
Current(s) == announced[s] = modes /\ key[principal[s].of] = principal[s].version
SessionsFollowTheirPool == <>[](handling.at = "free") => \A s \in Session : []<>(s \in open => Current(s))

(* A query is listed or run only for a request since whose authentication the *)
(* pool has allowed queries, whatever its session was told (create).          *)
QueriesFollowTheModes == handling.at = "query" => TRUE \in handling.since
==============================================================================
