---------------------------- MODULE DatabaseScope ----------------------------
(***************************************************************************)
(* A connection to PostgreSQL and the scopes that use it in turn.  A scope *)
(* opens a transaction, takes its role and its project, hands its function *)
(* a way to run statements and ends the transaction when the function has. *)
(* The function may run branches at once (Promise.all), each of them some  *)
(* statements one after another; it fails with the first branch that does, *)
(* while the others go on, and may ask for more when the scope is over: a  *)
(* late statement goes over the connection as it then is.                  *)
(***************************************************************************)
EXTENDS Integers, Sequences, SequencesExt, FiniteSets

CONSTANTS Scope, Branch,
          Statements       \* statements of a branch

VARIABLES holder,    \* the scope that has the connection, or none
          tx,        \* the session: "none" | "open" | "aborted"
          role,      \* the scope whose role and project the session has
          tuned,     \* the session runs under a statement's own settings
          previous,  \* a scope's tuned statement: what it found of that, to restore
          chain,     \* a scope's statements asked for and not finished, in order
          step,      \* what the first of them does: "start" | "run" | "restore"
          pc,        \* "idle" | "running" | "draining" | "over"
          left,      \* statements a branch has still to ask for
          state,     \* a branch: "ready" | "waiting" | "ok" | "failed"
          drain,     \* what a draining scope waits for
          ended,     \* how a scope ended: "none" | "commit" | "rollback"
          outside,   \* <<scope, late>> of the statements sent outside their scope's transaction
          spilled    \* a statement ran under another one's settings
vars == <<holder, tx, role, tuned, previous, chain, step, pc, left, state, drain, ended, outside, spilled>>

Nobody == "nobody"
(* Late: asked for when the function was over.                              *)
Statement == [branch : Branch, tuned : BOOLEAN, late : BOOLEAN]

TypeOK ==
  /\ {holder, role} \subseteq Scope \cup {Nobody}
  /\ tx \in {"none", "open", "aborted"} /\ {tuned, spilled} \subseteq BOOLEAN
  /\ previous \in [Scope -> BOOLEAN] /\ outside \subseteq Scope \X BOOLEAN
  /\ chain \in [Scope -> Seq(Statement)] /\ step \in [Scope -> {"start", "run", "restore"}]
  /\ pc \in [Scope -> {"idle", "running", "draining", "over"}]
  /\ state \in [Scope -> [Branch -> {"ready", "waiting", "ok", "failed"}]]

Init ==
  /\ holder = Nobody /\ tx = "none" /\ role = Nobody /\ tuned = FALSE /\ previous = [s \in Scope |-> FALSE]
  /\ chain = [s \in Scope |-> <<>>] /\ step = [s \in Scope |-> "start"]
  /\ pc = [s \in Scope |-> "idle"]
  /\ left = [s \in Scope |-> [b \in Branch |-> Statements]]
  /\ state = [s \in Scope |-> [b \in Branch |-> "ready"]]
  /\ drain = {} /\ ended = [s \in Scope |-> "none"]
  /\ outside = {} /\ spilled = FALSE

(* A connection from the pool, BEGIN, SET LOCAL ROLE and the project; the   *)
(* function asks for the first statement of every branch.                   *)
Begin(s, own) ==
  /\ pc[s] = "idle" /\ holder = Nobody
  /\ holder' = s /\ tx' = "open" /\ role' = s /\ pc' = [pc EXCEPT ![s] = "running"]
  /\ \E first \in SetToSeqs({[branch |-> b, tuned |-> own[b], late |-> FALSE] : b \in Branch}) :
       chain' = [chain EXCEPT ![s] = first]
  /\ left' = [left EXCEPT ![s] = [b \in Branch |-> @[b] - 1]]
  /\ state' = [state EXCEPT ![s] = [b \in Branch |-> "waiting"]]
  /\ UNCHANGED <<tuned, previous, step, drain, ended, outside, spilled>>

(* Tx.query: a statement is put behind those asked for before it.           *)
Query(s, b, own) ==
  /\ state[s][b] = "ready" /\ pc[s] # "idle"
  /\ chain' = [chain EXCEPT ![s] = Append(@, [branch |-> b, tuned |-> own, late |-> pc[s] # "running"])]
  /\ left' = [left EXCEPT ![s][b] = @ - 1] /\ state' = [state EXCEPT ![s][b] = "waiting"]
  /\ UNCHANGED <<holder, tx, role, tuned, previous, step, pc, drain, ended, outside, spilled>>

(* What a branch makes of its answer fails.                                 *)
Throw(s, b) ==
  /\ pc[s] = "running" /\ state[s][b] \in {"ready", "ok"}
  /\ state' = [state EXCEPT ![s][b] = "failed"]
  /\ UNCHANGED <<holder, tx, role, tuned, previous, chain, step, pc, left, drain, ended, outside, spilled>>

First(s) == Head(chain[s])
Done(s, outcome) ==
  /\ chain' = [chain EXCEPT ![s] = Tail(@)] /\ step' = [step EXCEPT ![s] = "start"]
  /\ state' = [state EXCEPT ![s][First(s).branch] = outcome]
  /\ previous' = [previous EXCEPT ![s] = FALSE]
Answered(s) == IF left[s][First(s).branch] = 0 THEN "ok" ELSE "ready"
Sends(s) == outside' = IF role = s THEN outside ELSE outside \cup {<<s, First(s).late>>}

(* The first statement's own settings are read and set, for it alone: SET   *)
(* LOCAL lasts as long as a transaction, and has no effect without one.     *)
Tune(s) ==
  /\ chain[s] # <<>> /\ step[s] = "start" /\ First(s).tuned /\ tx # "aborted" /\ Sends(s)
  /\ tuned' = (tx = "open") /\ previous' = [previous EXCEPT ![s] = tuned]
  /\ step' = [step EXCEPT ![s] = "run"]
  /\ UNCHANGED <<holder, tx, role, chain, pc, left, state, drain, ended, spilled>>

Run(s) ==
  /\ chain[s] # <<>> /\ step[s] = (IF First(s).tuned THEN "run" ELSE "start") /\ tx # "aborted" /\ Sends(s)
  /\ spilled' = (spilled \/ tuned # First(s).tuned)
  /\ IF First(s).tuned THEN step' = [step EXCEPT ![s] = "restore"] /\ UNCHANGED <<previous, chain, state>>
     ELSE Done(s, Answered(s))
  /\ UNCHANGED <<holder, tx, role, tuned, pc, left, drain, ended>>

(* Refused before it is sent: it wants what a statement must not.           *)
Refuse(s) ==
  /\ chain[s] # <<>> /\ step[s] = "start" /\ Done(s, "failed")
  /\ UNCHANGED <<holder, tx, role, tuned, pc, left, drain, ended, outside, spilled>>

(* It fails, or meets a transaction that has: nothing is undone, for the    *)
(* rollback will.                                                           *)
RunFails(s) ==
  /\ chain[s] # <<>> /\ Sends(s) /\ Done(s, "failed")
  /\ tx' = IF tx = "open" THEN "aborted" ELSE tx
  /\ UNCHANGED <<holder, role, tuned, pc, left, drain, ended, spilled>>

(* Mutant: the settings are left to the end of the transaction.             *)
RestoreNever(s) ==
  /\ chain[s] # <<>> /\ step[s] = "restore" /\ tx # "aborted" /\ Sends(s) /\ Done(s, Answered(s))
  /\ UNCHANGED <<holder, tx, role, tuned, pc, left, drain, ended, spilled>>

Restore(s) ==
  /\ chain[s] # <<>> /\ step[s] = "restore" /\ tx # "aborted" /\ Sends(s) /\ Done(s, Answered(s))
  /\ tuned' = IF tx = "open" THEN previous[s] ELSE tuned
  /\ UNCHANGED <<holder, tx, role, pc, left, drain, ended, spilled>>

(* Mutant: the scope ends without waiting for what was asked for.           *)
SettleAtOnce(s) ==
  /\ pc[s] = "running"
  /\ \/ \A b \in Branch : state[s][b] = "ok"
     \/ \E b \in Branch : state[s][b] = "failed"
  /\ pc' = [pc EXCEPT ![s] = "draining"] /\ drain' = {}
  /\ UNCHANGED <<holder, tx, role, tuned, previous, chain, step, left, state, ended, outside, spilled>>

(* The function has returned or failed; the scope waits for the statements  *)
(* asked for so far.                                                        *)
Settle(s) ==
  /\ pc[s] = "running"
  /\ \/ \A b \in Branch : state[s][b] = "ok"
     \/ \E b \in Branch : state[s][b] = "failed"
  /\ pc' = [pc EXCEPT ![s] = "draining"] /\ drain' = ToSet(chain[s])
  /\ UNCHANGED <<holder, tx, role, tuned, previous, chain, step, left, state, ended, outside, spilled>>

(* COMMIT or ROLLBACK, and the connection goes back to the pool.            *)
End(s) ==
  /\ pc[s] = "draining" /\ drain \cap ToSet(chain[s]) = {}
  /\ pc' = [pc EXCEPT ![s] = "over"] /\ drain' = {}
  /\ ended' = [ended EXCEPT ![s] =
       IF \A b \in Branch : state[s][b] = "ok" THEN "commit" ELSE "rollback"]
  /\ tx' = "none" /\ role' = Nobody /\ tuned' = FALSE /\ holder' = Nobody
  /\ UNCHANGED <<previous, chain, step, left, state, outside, spilled>>

Next ==
  \/ \E s \in Scope, own \in [Branch -> BOOLEAN] : Begin(s, own)
  \/ \E s \in Scope : Settle(s) \/ End(s) \/ Tune(s) \/ Run(s) \/ Refuse(s) \/ RunFails(s) \/ Restore(s)
  \/ \E s \in Scope, b \in Branch : Throw(s, b) \/ \E own \in BOOLEAN : Query(s, b, own)
Spec == Init /\ [][Next]_vars

----------------------------------------------------------------------------
(* A statement's settings are its own: nothing that runs beside it in the   *)
(* scope, or after it in another scope, runs under them, as long as no late *)
(* statement has been sent over a connection that is no longer its own.     *)
SettingsStayTheirOwn == spilled => \E s \in Scope : <<s, TRUE>> \in outside

(* Every statement asked for while the function goes on runs in the scope's *)
(* transaction, under its role and project; and so does every statement at  *)
(* all of a scope that commits.                                             *)
AskedInTimeRunsInside ==
  \A s \in Scope : /\ <<s, FALSE>> \notin outside
                    /\ ended[s] = "commit" => <<s, TRUE>> \notin outside

(* What scope.ts:100-101 says: none runs outside.  A branch that asks for   *)
(* another statement when the scope is over breaks it.                      *)
NoneRunsOutsideItsScope == outside = {}
=============================================================================
