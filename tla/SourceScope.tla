------------------------------ MODULE SourceScope -----------------------------
(* The engine's operations on one customer source                            *)
(* (sidecar/infrastructure/postgres-source-scope.ts).  `run` holds a reader    *)
(* against a deadline and a cancellation: the race is left at once, while the *)
(* reader goes on to its next check.  `external` lends the lease to DuckDB's  *)
(* scanner and waits for it.  A connection counts until it has been closed.   *)
EXTENDS Naturals, FiniteSets

CONSTANTS
  Operation,     \* the operations asked of the source
  MaxConnections \* maxConnectionsPerSource

VARIABLES
  mode,       \* how each operation reads: "run" or "external"
  caller,     \* where its caller is
  reader,     \* where its reader is
  client,     \* its connection: "none", "connecting" or "open"
  expired,    \* whether it was cancelled, overdue or lost its connection
  attempt,    \* the attempt to connect
  known,      \* whether the pid of its backend is known, to cancel it
  outcome,    \* what the caller was told
  late,       \* statements of the customer's sent after expiry
  active      \* the leases counted for the source
vars == <<mode, caller, reader, client, expired, attempt, known, outcome, late, active>>

Steps == {"credentials", "connect", "identity", "begin", "settings", "work", "commit"}
TypeOK ==
  /\ mode \in [Operation -> {"run", "external"}]
  /\ caller \in [Operation -> {"idle", "waiting", "cancelling", "closing", "done"}]
  /\ reader \in [Operation -> Steps \cup {"idle", "read", "failed"}]
  /\ client \in [Operation -> {"none", "connecting", "open"}]
  /\ expired \in [Operation -> BOOLEAN] /\ known \in [Operation -> BOOLEAN] /\ late \in [Operation -> BOOLEAN]
  /\ attempt \in [Operation -> 1..2]
  /\ outcome \in [Operation -> {"none", "busy", "rows", "error", "interrupted"}]
  /\ active \in 0..Cardinality(Operation)

Init ==
  /\ mode \in [Operation -> {"run", "external"}]
  /\ caller = [o \in Operation |-> "idle"] /\ reader = [o \in Operation |-> "idle"]
  /\ client = [o \in Operation |-> "none"] /\ attempt = [o \in Operation |-> 1]
  /\ expired = [o \in Operation |-> FALSE] /\ known = [o \in Operation |-> FALSE] /\ late = [o \in Operation |-> FALSE]
  /\ outcome = [o \in Operation |-> "none"] /\ active = 0

(* Beyond the ceiling the operation is refused, not queued.                   *)
Start(o) ==
  /\ caller[o] = "idle"
  /\ IF active >= MaxConnections
     THEN /\ caller' = [caller EXCEPT ![o] = "done"] /\ outcome' = [outcome EXCEPT ![o] = "busy"]
          /\ UNCHANGED <<reader, active>>
     ELSE /\ caller' = [caller EXCEPT ![o] = "waiting"] /\ reader' = [reader EXCEPT ![o] = "credentials"]
          /\ active' = active + 1 /\ UNCHANGED outcome
  /\ UNCHANGED <<mode, client, expired, attempt, known, late>>

(* Mutants: expiry noticed only once connected, or only by the next answer.   *)
AfterConnecting(o) ==
  CASE reader[o] = "credentials" -> "connect"
    [] reader[o] = "connect" -> IF expired[o] THEN "failed" ELSE IF mode[o] = "run" THEN "identity" ELSE "work"
    [] OTHER -> "failed"
AfterSettings(o) ==
  CASE reader[o] = "credentials" -> "connect" [] reader[o] = "connect" -> IF mode[o] = "run" THEN "identity" ELSE "work"
    [] reader[o] = "identity" -> "begin" [] reader[o] = "begin" -> "settings" [] reader[o] = "settings" -> "work"
    [] OTHER -> "read"

(* Where the reader goes when a step has been answered.  After BEGIN there is *)
(* no check, and the settings are still sent.                                 *)
After(o) ==
  LET checked(next) == IF expired[o] THEN "failed" ELSE next
  IN CASE reader[o] = "credentials" -> checked("connect")
       [] reader[o] = "connect" -> checked(IF mode[o] = "run" THEN "identity" ELSE "work")
       [] reader[o] = "identity" -> checked("begin")
       [] reader[o] = "begin" -> "settings"
       [] reader[o] = "settings" -> checked("work")
       [] reader[o] = "work" -> checked(IF mode[o] = "run" THEN "commit" ELSE "read")
       [] reader[o] = "commit" -> "read"


Answered(o) ==
  /\ reader[o] \in Steps
  /\ mode[o] = "external" => caller[o] = "waiting"
  /\ reader[o] \notin {"credentials", "connect"} => client[o] = "open"
  /\ reader[o] = "connect" => client[o] = "connecting"
  /\ reader' = [reader EXCEPT ![o] = After(o)]
  /\ client' = [client EXCEPT ![o] = CASE After(o) = "connect" -> "connecting" [] reader[o] = "connect" -> "open" [] OTHER -> @]
  /\ known' = [known EXCEPT ![o] = @ \/ reader[o] = "identity"]
  /\ late' = [late EXCEPT ![o] = @ \/ (After(o) = "work" /\ expired[o])]
  /\ UNCHANGED <<mode, caller, expired, attempt, outcome, active>>

(* The customer's own statements, one after another within the work.          *)
Statement(o) ==
  /\ reader[o] = "work" /\ client[o] = "open" /\ mode[o] = "run"
  /\ reader' = [reader EXCEPT ![o] = IF expired[o] THEN "failed" ELSE @]
  /\ UNCHANGED <<mode, caller, client, expired, attempt, known, outcome, late, active>>

(* Only the connect is tried again, once, when the failure may pass and time  *)
(* is left (which is open here), and only after the first client is closed.   *)
ConnectFails(o) ==
  /\ reader[o] = "connect" /\ client[o] = "connecting"
  /\ \/ /\ ~expired[o] /\ attempt[o] = 1 /\ mode[o] = "run"
        /\ attempt' = [attempt EXCEPT ![o] = 2]
        /\ UNCHANGED <<reader, client>>
     \/ /\ reader' = [reader EXCEPT ![o] = "failed"]
        /\ client' = [client EXCEPT ![o] = "none"]
        /\ UNCHANGED attempt
  /\ UNCHANGED <<mode, caller, expired, known, outcome, late, active>>

(* A step fails: by itself, by the cancelled backend, with its connection (an *)
(* error on an established connection expires the operation), or because the  *)
(* connection has been closed under it.                                       *)
Fails(o) ==
  /\ reader[o] \in Steps \ {"connect"}
  /\ reader' = [reader EXCEPT ![o] = "failed"]
  /\ \E lost \in BOOLEAN :
       /\ lost => client[o] = "open"
       /\ expired' = [expired EXCEPT ![o] = @ \/ lost]
  /\ UNCHANGED <<mode, caller, client, attempt, known, outcome, late, active>>

ClosedUnder(o) ==
  /\ reader[o] \in Steps \ {"credentials"} /\ client[o] = "none"
  /\ reader' = [reader EXCEPT ![o] = "failed"]
  /\ UNCHANGED <<mode, caller, client, expired, attempt, known, outcome, late, active>>

(* The deadline or the caller's signal.  `run` leaves the race; `external`    *)
(* gives up the credential it waits for, has its scan cancelled, and waits.   *)
Interrupt(o) ==
  /\ caller[o] = "waiting" /\ ~expired[o]
  /\ expired' = [expired EXCEPT ![o] = TRUE]
  /\ IF mode[o] = "run"
     THEN /\ outcome' = [outcome EXCEPT ![o] = "interrupted"]
          /\ caller' = [caller EXCEPT ![o] = IF known[o] THEN "cancelling" ELSE "closing"]
          /\ UNCHANGED reader
     ELSE /\ reader' = [reader EXCEPT ![o] = IF @ = "credentials" THEN "failed" ELSE @]
          /\ UNCHANGED <<outcome, caller>>
  /\ UNCHANGED <<mode, client, attempt, known, late, active>>

(* The reader has come to an end that the caller is still waiting for.        *)
Settle(o) ==
  /\ caller[o] = "waiting" /\ reader[o] \in {"read", "failed"}
  /\ outcome' = [outcome EXCEPT ![o] = CASE reader[o] = "read" -> "rows" [] expired[o] -> "interrupted" [] OTHER -> "error"]
  /\ caller' = [caller EXCEPT ![o] = IF mode[o] = "run" /\ expired[o] /\ known[o] THEN "cancelling" ELSE "closing"]
  /\ expired' = [expired EXCEPT ![o] = TRUE]
  /\ UNCHANGED <<mode, reader, client, attempt, known, late, active>>

(* The backend is cancelled over a connection of its own; its answer is       *)
(* drained for a second at most (a mutant: for as long as it takes).          *)
CancelledWhenDrained(o) ==
  /\ caller[o] = "cancelling" /\ reader[o] \notin Steps
  /\ caller' = [caller EXCEPT ![o] = "closing"]
  /\ UNCHANGED <<mode, reader, client, expired, attempt, known, outcome, late, active>>

Cancelled(o) ==
  /\ caller[o] = "cancelling"
  /\ caller' = [caller EXCEPT ![o] = "closing"]
  /\ UNCHANGED <<mode, reader, client, expired, attempt, known, outcome, late, active>>

(* A mutant: the lease is given back while the connection still closes.       *)
CloseLater(o) ==
  /\ caller[o] = "closing" /\ caller' = [caller EXCEPT ![o] = "done"] /\ active' = active - 1
  /\ UNCHANGED <<mode, reader, client, expired, attempt, known, outcome, late>>

Close(o) ==
  /\ caller[o] = "closing"
  /\ caller' = [caller EXCEPT ![o] = "done"]
  /\ client' = [client EXCEPT ![o] = "none"]
  /\ active' = active - 1
  /\ UNCHANGED <<mode, reader, expired, attempt, known, outcome, late>>

Next == \E o \in Operation :
  \/ Start(o) \/ Answered(o) \/ Statement(o) \/ ConnectFails(o) \/ Fails(o) \/ ClosedUnder(o)
  \/ Interrupt(o) \/ Settle(o) \/ Cancelled(o) \/ Close(o)

(* The deadline comes and the caller's own steps are taken; a scanner, which  *)
(* is waited for, answers or fails.  Of a reader in `run` nothing is assumed:  *)
(* its source may never answer.                                               *)
Fairness == \A o \in Operation :
  /\ WF_vars(Interrupt(o)) /\ WF_vars(Settle(o)) /\ WF_vars(Cancelled(o)) /\ WF_vars(Close(o))
  /\ WF_vars(mode[o] = "external" /\ (Answered(o) \/ Fails(o)))
Spec == Init /\ [][Next]_vars /\ Fairness
------------------------------------------------------------------------------
(* Never more connections to the source than its ceiling, those of operations *)
(* that were cancelled in the middle of connecting included (run, external).  *)
WithinCeiling == Cardinality({o \in Operation : client[o] # "none"}) <= MaxConnections

(* Once an operation has expired none of the customer's statements is begun  *)
(* (run: the checks at lines 118, 146, 150 and 154).                          *)
ExpiredAsksNothing == \A o \in Operation : ~late[o]

(* Every lease is given back, also when the source never answers             *)
(* (run, external: the finally clauses).                                      *)
EveryLeaseReturns == \A o \in Operation : caller[o] # "idle" ~> caller[o] = "done"
==============================================================================
