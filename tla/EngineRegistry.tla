---------------------------- MODULE EngineRegistry ----------------------------
(* The registry of engines of one gateway                                   *)
(* (src/modules/engines/application/registry.ts): the probes that are       *)
(* shared while they run, the observations of health that queries reuse,    *)
(* the heartbeats recorded with a registration, and the steps of a query    *)
(* from its route to the endpoint it is served. One engine; its             *)
(* registration may be edited, here or at another gateway, at any moment.   *)
EXTENDS Naturals, FiniteSets

CONSTANTS
  None,
  Query,        \* queries being routed
  MaxVersions,  \* bound: versions of the registration
  MaxChanges    \* bound: changes of the engine, the policy and the clocks

VARIABLES
  reuse,     \* the policy reuses observations
  row,       \* the registration as stored
  engine,    \* "well", "down" or "old": of another contract
  seen,      \* this gateway's observation of each version, or None
  tracked,   \* versions refreshed in the background: "no", "used", "refreshed"
  probe,     \* shared probes by version and kind
  query,     \* how far each query is
  checked,   \* versions somebody tested by hand
  changes

vars == <<reuse, row, engine, seen, tracked, probe, query, checked, changes>>

Version == 1..MaxVersions
Kinds == {"full", "health"}   \* with the registration of egress, or without
Health == {"unverified", "healthy", "unavailable", "mismatch"}
NotAsked == [at |-> "idle", version |-> 1, kind |-> "full", last |-> FALSE,
             holds |-> FALSE]

TypeOK ==
  /\ reuse \in BOOLEAN
  /\ row \in [version : Version, health : Health, applied : BOOLEAN,
              beat : {"none", "fresh", "stale"}]
  /\ engine \in {"well", "down", "old"}
  /\ \A v \in Version : seen[v] # None => seen[v] \in [fresh : BOOLEAN, latest : BOOLEAN]
  /\ tracked \in [Version -> {"no", "used", "refreshed"}]
  /\ probe \in [Version \X Kinds -> {"none", "asking", "registering", "saving",
                                     "mismatch", "failing", "failed"}]
  /\ \A q \in Query :
       query[q].at \in {"idle", "routed", "waiting", "confirming", "admitted",
                        "served", "refused"}

Init ==
  /\ reuse \in BOOLEAN
  /\ row = [version |-> 1, health |-> "unverified", applied |-> FALSE, beat |-> "none"]
  /\ engine \in {"well", "down", "old"}
  /\ seen = [v \in Version |-> None]
  /\ tracked = [v \in Version |-> "no"]
  /\ probe = [key \in Version \X Kinds |-> "none"]
  /\ query = [q \in Query |-> NotAsked]
  /\ checked = {}
  /\ changes = 0

----------------------------------------------------------------------------
(* Shared probes *)

(* What waits for a probe learns its result when it ends.                   *)
Told(v, kind, well) ==
  query' = [q \in Query |->
    IF query[q].at = "waiting" /\ query[q].version = v /\ query[q].kind = kind
      THEN [query[q] EXCEPT !.at = IF well THEN "confirming" ELSE "refused"]
      ELSE query[q]]

(* A probe that runs is joined, one that failed a moment ago not repeated.  *)
Begun(v, kind) ==
  [probe EXCEPT ![<<v, kind>>] = IF @ = "none" THEN "asking" ELSE @]

ProbeFails(v, kind) ==
  /\ probe' = [probe EXCEPT ![<<v, kind>>] = "failed"]
  /\ Told(v, kind, FALSE)

WithoutSeen(v) == [seen EXCEPT ![v] = None]

(* An observation that is withdrawn is no longer what a query keeps.        *)
Withdrawn(v) ==
  /\ seen' = WithoutSeen(v)
  /\ query' = [q \in Query |-> [query[q] EXCEPT !.holds = @ /\ query[q].version # v]]

(* The engine's health is asked. A connection that times out says nothing   *)
(* of it; any other failure withdraws what was seen.                        *)
Ask(v, kind) ==
  /\ probe[<<v, kind>>] = "asking"
  /\ \/ /\ engine = "well"
        /\ probe' = [probe EXCEPT ![<<v, kind>>] = IF kind = "full" THEN "registering" ELSE "saving"]
        /\ UNCHANGED <<seen, query>>
     \/ /\ engine = "old"
        /\ probe' = [probe EXCEPT ![<<v, kind>>] = "mismatch"]
        /\ UNCHANGED <<seen, query>>
     \/ /\ engine = "down"
        /\ ProbeFails(v, kind)
        /\ UNCHANGED seen
     \/ /\ engine = "down"
        /\ probe' = [probe EXCEPT ![<<v, kind>>] = "failing"]
        /\ Withdrawn(v)
  /\ UNCHANGED <<reuse, row, engine, tracked, checked, changes>>

RegisterEgress(v, kind) ==
  /\ probe[<<v, kind>>] = "registering"
  /\ \/ /\ engine = "well"
        /\ probe' = [probe EXCEPT ![<<v, kind>>] = "saving"]
        /\ UNCHANGED <<seen, query>>
     \/ /\ engine # "well"
        /\ ProbeFails(v, kind)
        /\ UNCHANGED seen
     \/ /\ engine # "well"
        /\ probe' = [probe EXCEPT ![<<v, kind>>] = "failing"]
        /\ Withdrawn(v)
  /\ UNCHANGED <<reuse, row, engine, tracked, checked, changes>>

(* The result is saved with the registration it was asked of, if that is    *)
(* still the registration.                                                  *)
SavesAnyVersion(v) == TRUE  \* mutant
Saves(v) == row.version = v

Save(v, kind) ==
  /\ probe[<<v, kind>>] \in {"saving", "mismatch", "failing"}
  /\ LET outcome == CASE probe[<<v, kind>>] = "saving" -> "healthy"
                      [] probe[<<v, kind>>] = "mismatch" -> "mismatch"
                      [] OTHER -> "unavailable"
         well == Saves(v) /\ outcome = "healthy"
     IN /\ row' = IF Saves(v) THEN [row EXCEPT !.health = outcome] ELSE row
        /\ seen' = IF well THEN [seen EXCEPT ![v] = [fresh |-> TRUE, latest |-> TRUE]]
                   ELSE WithoutSeen(v)
        /\ probe' = [probe EXCEPT ![<<v, kind>>] = IF well THEN "none" ELSE "failed"]
        /\ query' = [q \in Query |->
             LET told == query[q].at = "waiting" /\ query[q].version = v
                                                 /\ query[q].kind = kind
             IN [query[q] EXCEPT
                   !.at = IF ~told THEN @ ELSE IF well THEN "confirming" ELSE "refused",
                   !.holds = @ /\ query[q].version # v]]
  /\ UNCHANGED <<reuse, engine, tracked, checked, changes>>

(* The second for which a failure is remembered is over.                    *)
Forget(v, kind) ==
  /\ probe[<<v, kind>>] = "failed"
  /\ probe' = [probe EXCEPT ![<<v, kind>>] = "none"]
  /\ UNCHANGED <<reuse, row, engine, seen, tracked, query, checked, changes>>

----------------------------------------------------------------------------
(* A query *)

(* What a heartbeat says is read with the registration it belongs to.       *)
Beating(v) == row.version = v /\ row.health = "healthy" /\ row.applied /\ row.beat # "none"

Await(q, kind, last) ==
  LET v == query[q].version
  IN /\ probe' = Begun(v, kind)
     /\ query' = [query EXCEPT ![q].at = IF probe[<<v, kind>>] = "failed" THEN "refused"
                                         ELSE "waiting",
                               ![q].kind = kind, ![q].last = last, ![q].holds = FALSE]

Moved(q, at) == query' = [query EXCEPT ![q].at = at]

(* Every query keeps the engine it wants among those refreshed, one that is *)
(* not healthy at the moment too.                                           *)
TracksHealthyOnly == row.health = "healthy"  \* mutant
Tracks == row.health # "unverified"

Route(q) ==
  /\ query[q].at = "idle"
  /\ tracked' = IF Tracks THEN [tracked EXCEPT ![row.version] =
                                  IF @ = "no" THEN "used" ELSE @]
                ELSE tracked
  /\ LET routed == [NotAsked EXCEPT !.version = row.version]
         v == row.version
     IN IF row.health # "healthy"
          THEN /\ query' = [query EXCEPT ![q] = [routed EXCEPT !.at = "refused"]]
               /\ UNCHANGED probe
          ELSE IF reuse
          THEN /\ query' = [query EXCEPT ![q] = [routed EXCEPT !.at = "routed"]]
               /\ UNCHANGED probe
          ELSE /\ probe' = Begun(v, "full")
               /\ query' = [query EXCEPT ![q] = [routed EXCEPT
                    !.at = IF probe[<<v, "full">>] = "failed" THEN "refused" ELSE "waiting"]]
  /\ UNCHANGED <<reuse, row, engine, seen, checked, changes>>

(* With a fresh heartbeat an observation that is fresh and the latest is    *)
(* reused; with a stale one the engine is asked.                            *)
Admit(q) ==
  /\ query[q].at = "routed"
  /\ LET v == query[q].version
     IN \/ /\ ~Beating(v)
           /\ Moved(q, "refused")
           /\ UNCHANGED probe
        \/ /\ Beating(v)
           /\ row.beat = "stale"
           /\ Await(q, "health", FALSE)
        \/ /\ Beating(v)
           /\ row.beat = "fresh"
           /\ IF seen[v] = [fresh |-> TRUE, latest |-> TRUE]
                THEN Moved(q, "admitted") /\ UNCHANGED probe
                ELSE Await(q, "full", FALSE)
  /\ UNCHANGED <<reuse, row, engine, seen, tracked, checked, changes>>

(* After a probe: a query that found the heartbeat stale keeps what it saw. *)
Confirm(q) ==
  /\ query[q].at = "confirming"
  /\ ~query[q].last
  /\ LET v == query[q].version
     IN IF reuse /\ query[q].kind = "full" /\ ~Beating(v)
          THEN Moved(q, "refused")
          ELSE query' = [query EXCEPT ![q].at = "admitted",
                 ![q].holds = reuse /\ seen[v] # None
                                /\ (query[q].kind = "health" \/ row.beat = "stale")]
  /\ UNCHANGED <<reuse, row, engine, seen, tracked, probe, checked, changes>>

IsFresh(v) == seen[v] # None /\ seen[v].fresh
Served(q) == Moved(q, IF IsFresh(query[q].version) THEN "served" ELSE "refused")

(* The attestation of tokens takes its time, or refuses: the registration   *)
(* and the heartbeat are read again before the endpoint is served.          *)
RechecksNever(q) == FALSE  \* mutant
Rechecks(q) == reuse

Dispatch(q) ==
  /\ query[q].at = "admitted"
  /\ LET v == query[q].version
     IN \/ /\ Moved(q, "refused")
           /\ UNCHANGED probe
        \/ /\ ~Rechecks(q)
           /\ Served(q)
           /\ UNCHANGED probe
        \/ /\ Rechecks(q)
           /\ Beating(v)
           /\ IF row.beat = "stale" /\ ~query[q].holds
                THEN Await(q, "health", TRUE)
                ELSE Served(q) /\ UNCHANGED probe
  /\ UNCHANGED <<reuse, row, engine, seen, tracked, checked, changes>>

DispatchConfirmed(q) ==
  /\ query[q].at = "confirming"
  /\ query[q].last
  /\ IF Beating(query[q].version) THEN Served(q) ELSE Moved(q, "refused")
  /\ UNCHANGED <<reuse, row, engine, seen, tracked, probe, checked, changes>>

Again(q) ==
  /\ query[q].at \in {"served", "refused"}
  /\ query' = [query EXCEPT ![q] = NotAsked]
  /\ UNCHANGED <<reuse, row, engine, seen, tracked, probe, checked, changes>>

----------------------------------------------------------------------------
(* People, the refresh, the other gateways and the engine *)

(* A connection test, the only first verification of a registration.        *)
Verify ==
  /\ checked' = checked \cup {row.version}
  /\ probe' = Begun(row.version, "full")
  /\ UNCHANGED <<reuse, row, engine, seen, tracked, query, changes>>

(* An edit here forgets what was seen; one elsewhere is not noticed.        *)
Update(here) ==
  /\ row.version < MaxVersions
  /\ row' = [row EXCEPT !.version = @ + 1, !.health = "unverified"]
  /\ seen' = IF here THEN [v \in Version |-> None] ELSE seen
  /\ tracked' = IF here THEN [v \in Version |-> IF seen[v] = None THEN tracked[v] ELSE "no"]
                ELSE tracked
  /\ query' = IF here THEN [q \in Query |-> [query[q] EXCEPT !.holds = FALSE]] ELSE query
  /\ UNCHANGED <<reuse, engine, probe, checked, changes>>

Refresh(v) ==
  /\ reuse
  /\ tracked[v] # "no"
  /\ IF row.version = v /\ row.health # "unverified"
       THEN /\ probe' = Begun(v, "full")
            /\ tracked' = [tracked EXCEPT ![v] = "refreshed"]
            /\ UNCHANGED <<seen, query>>
       ELSE /\ tracked' = [tracked EXCEPT ![v] = "no"]
            /\ Withdrawn(v)
            /\ UNCHANGED probe
  /\ UNCHANGED <<reuse, row, engine, checked, changes>>

Changing == changes < MaxChanges /\ changes' = changes + 1

(* Not used for as long as an observation lasts, which is more than one     *)
(* period of the refresh.                                                   *)
Untrack(v) ==
  /\ Changing
  /\ tracked[v] = "refreshed"
  /\ tracked' = [tracked EXCEPT ![v] = "no"]
  /\ Withdrawn(v)
  /\ UNCHANGED <<reuse, row, engine, probe, checked>>

(* An observation that nothing refreshes and that is too old is dropped.    *)
Sweep(v) ==
  /\ reuse
  /\ tracked[v] = "no"
  /\ seen[v] # None /\ ~IsFresh(v)
  /\ Withdrawn(v)
  /\ UNCHANGED <<reuse, row, engine, tracked, probe, checked, changes>>

VerifiedElsewhere ==
  /\ Changing
  /\ engine = "well"
  /\ row' = [row EXCEPT !.health = "healthy"]
  /\ checked' = checked \cup {row.version}
  /\ seen' = [v \in Version |-> IF seen[v] = None THEN None
                                ELSE [seen[v] EXCEPT !.latest = FALSE]]
  /\ UNCHANGED <<reuse, engine, tracked, probe, query>>

(* A heartbeat says which policy the engine applies; only a verified        *)
(* registration takes one.                                                  *)
Heartbeat ==
  /\ row.health = "healthy"
  /\ engine = "well"
  /\ row' = [row EXCEPT !.beat = "fresh", !.applied = TRUE]
  /\ UNCHANGED <<reuse, engine, seen, tracked, probe, query, checked, changes>>

AssignmentsChange ==
  /\ Changing
  /\ row' = [row EXCEPT !.applied = FALSE]
  /\ UNCHANGED <<reuse, engine, seen, tracked, probe, query, checked>>

HeartbeatAges ==
  /\ Changing
  /\ row.beat = "fresh"
  /\ row' = [row EXCEPT !.beat = "stale"]
  /\ UNCHANGED <<reuse, engine, seen, tracked, probe, query, checked>>

ObservationAges(v) ==
  /\ Changing
  /\ IsFresh(v)
  /\ seen' = [seen EXCEPT ![v].fresh = FALSE]
  /\ UNCHANGED <<reuse, row, engine, tracked, probe, query, checked>>

EngineChanges ==
  /\ Changing
  /\ engine' \in {"well", "down", "old"} \ {engine}
  /\ UNCHANGED <<reuse, row, seen, tracked, probe, query, checked>>

----------------------------------------------------------------------------
ProbeStep(v, kind) == Ask(v, kind) \/ RegisterEgress(v, kind) \/ Save(v, kind) \/ Forget(v, kind)
QueryStep(q) ==
  Route(q) \/ Admit(q) \/ Confirm(q) \/ Dispatch(q) \/ DispatchConfirmed(q) \/ Again(q)

Next ==
  \/ \E v \in Version, kind \in Kinds : ProbeStep(v, kind)
  \/ \E q \in Query : QueryStep(q)
  \/ Verify
  \/ \E here \in BOOLEAN : Update(here)
  \/ \E v \in Version : Refresh(v) \/ Untrack(v) \/ Sweep(v) \/ ObservationAges(v)
  \/ VerifiedElsewhere \/ Heartbeat \/ AssignmentsChange \/ HeartbeatAges \/ EngineChanges

(* Probes end, the refresh comes round, and queries keep coming.            *)
Fairness ==
  /\ \A v \in Version, kind \in Kinds : WF_vars(ProbeStep(v, kind))
  /\ \A q \in Query : WF_vars(QueryStep(q))
  /\ \A v \in Version : WF_vars(Refresh(v))

Spec == Init /\ [][Next]_vars /\ Fairness

----------------------------------------------------------------------------
(* Properties *)

(* No query is served an engine by a registration nobody has tested: a      *)
(* probe that is under way when the address or the pin is edited does not   *)
(* make the new ones healthy (registry.ts:132, repository.ts:25).           *)
ServedWasTested ==
  \A q \in Query : query[q].at = "served" => query[q].version \in checked

(* Where observations are reused, what is dispatched is the registration of *)
(* that moment, healthy and with its policy applied, however long the token *)
(* attestation took (registry.ts:91).                                       *)
DispatchedIsCurrent ==
  [][\A q \in Query : query[q].at # "served" /\ query'[q].at = "served" =>
       /\ IsFresh(query[q].version)
       /\ reuse => Beating(query[q].version)]_vars

(* An engine that failed and is well again is served again without anybody  *)
(* testing it, as long as queries ask for it (registry.ts:140).             *)
HealsByItself ==
  <>[](reuse /\ engine = "well" /\ row.health # "unverified") => <>[](row.health = "healthy")
==============================================================================
