-------------------------- MODULE EngineSupervision --------------------------
(* The supervisor of an engine (sidecar/supervise.ts, supervision.ts), the  *)
(* start and stop of its child (sidecar/start.ts) and the lock file that    *)
(* each landing zone's register holds: restarts with growing delays, a      *)
(* status listener while no child runs, and locks reclaimed by pid once     *)
(* the child that wrote them is reaped.                                     *)
EXTENDS Naturals, FiniteSets

CONSTANTS
  None,
  Zone,        \* landing zones of the configuration
  Pid,         \* process numbers, used again once their process is gone
  Delays,      \* restarts before giving up (5 in the code)
  MaxStarts,   \* bound: children
  Separate     \* the other owner numbers its processes by itself: a host or a container of its own

VARIABLES
  phase,       \* what the supervisor does
  attempt,     \* failures since the last stable period
  halting,     \* the supervisor has been told to stop
  child,       \* None, or the running child
  diagnostic,  \* the status listener holds the port
  lock,        \* None, or what a zone's lock file says and who made it
  other,       \* None, or the pid of another process using the same zones
  starts,      \* children so far
  unstable     \* those since the last stable period

vars == <<phase, attempt, halting, child, diagnostic, lock, other, starts, unstable>>

Empty == None   \* what a lock file says before it is written

TypeOK ==
  /\ phase \in {"starting", "spawning", "running", "exited", "waiting",
                "exhausted", "stopped", "failed"}
  /\ attempt \in 0..Delays
  /\ \A z \in Zone : lock[z] # None =>
       /\ lock[z].says \in Pid \cup {Empty}
       /\ lock[z].owner \in (1..MaxStarts) \cup {0}
  /\ other \in Pid \cup {None}
  /\ child # None =>
       /\ child.at \in {"early", "probing", "opening", "ready", "steady", "gone"}
       /\ child.opened \subseteq Zone
       /\ child.taking \in Zone \cup {None}

Init ==
  /\ phase = "starting"
  /\ attempt = 0
  /\ halting = FALSE
  /\ child = None
  /\ diagnostic = FALSE
  /\ lock = [z \in Zone |-> None]
  /\ other = None
  /\ starts = 0
  /\ unstable = 0

supervisor == <<phase, attempt, halting, diagnostic, starts, unstable>>

----------------------------------------------------------------------------
(* The child *)

Alive == child # None /\ child.at # "gone"
Exit == child' = [child EXCEPT !.at = "gone"]
Without(zones) == [z \in Zone |-> IF z \in zones THEN None ELSE lock[z]]

(* Configuration, custody and audit file, then one probe of the query       *)
(* engine, come before the signal handlers and the zones.                   *)
Checks ==
  /\ Alive
  /\ child.at = "early"
  /\ \/ child' = [child EXCEPT !.at = "probing"]
     \/ Exit
  /\ UNCHANGED <<lock, other, supervisor>>

Probe ==
  /\ Alive
  /\ child.at = "probing"
  /\ \/ child' = [child EXCEPT !.at = "opening"]
     \/ Exit
  /\ UNCHANGED <<lock, other, supervisor>>

(* A startup that fails closes what it had opened.                          *)
StartupFails(locks) ==
  /\ Exit
  /\ lock' = [z \in Zone |-> IF z \in child.opened THEN None ELSE locks[z]]

TakeLock(z) ==
  /\ Alive
  /\ child.at = "opening"
  /\ child.taking = None
  /\ z \notin child.opened
  /\ IF lock[z] = None
       THEN /\ lock' = [lock EXCEPT ![z] = [says |-> Empty, owner |-> starts]]
            /\ child' = [child EXCEPT !.taking = z]
       ELSE StartupFails(lock)
  /\ UNCHANGED <<other, supervisor>>

WriteLock(z) ==
  /\ Alive
  /\ child.taking = z
  /\ lock[z].says = Empty
  /\ lock' = [lock EXCEPT ![z].says = child.pid]
  /\ UNCHANGED <<child, other, supervisor>>

(* Rules and state are read under the lock, which a bad one gives back.     *)
OpenZone(z) ==
  /\ Alive
  /\ child.taking = z
  /\ lock[z].says # Empty
  /\ \/ /\ child' = [child EXCEPT !.opened = @ \cup {z}, !.taking = None]
        /\ UNCHANGED lock
     \/ StartupFails([lock EXCEPT ![z] = None])
  /\ UNCHANGED <<other, supervisor>>

Listen ==
  /\ Alive
  /\ child.at = "opening"
  /\ child.opened = Zone
  /\ \/ /\ ~diagnostic
        /\ child' = [child EXCEPT !.at = "ready"]
        /\ UNCHANGED lock
     \/ StartupFails(lock)
  /\ UNCHANGED <<other, supervisor>>

(* SIGTERM: a child that has no handler yet ends; another closes the zones  *)
(* it has open by now, while its startup goes on.                           *)
Terminated ==
  /\ Alive
  /\ child.told
  /\ child.closing = None
  /\ IF child.at \in {"early", "probing"} THEN Exit
     ELSE child' = [child EXCEPT !.closing = child.opened]
  /\ UNCHANGED <<lock, other, supervisor>>

Closed ==
  /\ Alive
  /\ child.closing # None
  /\ lock' = Without(child.closing)
  /\ Exit
  /\ UNCHANGED <<other, supervisor>>

(* A crash, the process's own deadline, or the supervisor's SIGKILL.        *)
Dies ==
  /\ Alive
  /\ Exit
  /\ UNCHANGED <<lock, other, supervisor>>

----------------------------------------------------------------------------
(* The supervisor *)

BeforeStart ==
  /\ phase = "starting"
  /\ IF halting THEN phase' = "stopped" ELSE phase' = "spawning"
  /\ diagnostic' = FALSE
  /\ UNCHANGED <<attempt, halting, child, lock, other, starts, unstable>>

TermAtSpawnMissed == FALSE  \* mutant
TermAtSpawn == halting

Spawn ==
  /\ phase = "spawning"
  /\ \E p \in Pid :
       /\ ~Separate => p # other
       /\ child' = [pid |-> p, at |-> "early", opened |-> {}, taking |-> None,
                    told |-> TermAtSpawn, closing |-> None]
  /\ phase' = "running"
  /\ starts' = starts + 1
  /\ unstable' = unstable + 1
  /\ UNCHANGED <<attempt, halting, diagnostic, lock, other>>

(* Heartbeats come for the whole of the stable period, then the allowance  *)
(* of restarts is there again.                                              *)
Steady ==
  /\ Alive
  /\ child.at = "ready"
  /\ child' = [child EXCEPT !.at = "steady"]
  /\ UNCHANGED <<lock, other, supervisor>>

Sustained == child.at = "steady"
MayReplenishOnceReady == child.at \in {"ready", "steady"}  \* mutant
MayReplenish == Sustained

Replenish ==
  /\ Alive
  /\ MayReplenish
  /\ attempt > 0
  /\ attempt' = 0
  /\ unstable' = IF Sustained THEN 1 ELSE unstable
  /\ UNCHANGED <<phase, halting, child, diagnostic, lock, other, starts>>

(* Only locks that say the pid of the reaped child are reclaimed.           *)
OwnedByChild(z) == lock[z] # None /\ lock[z].says = child.pid
ReleaseAllLocks == lock' = Without(Zone)  \* mutant
ReleaseUnlessHalting ==  \* mutant
  lock' = IF halting THEN lock ELSE Without({z \in Zone : OwnedByChild(z)})
ReleaseChildLocks == lock' = Without({z \in Zone : OwnedByChild(z)})

AfterExit ==
  /\ phase = "running"
  /\ child # None
  /\ child.at = "gone"
  /\ ReleaseChildLocks
  /\ diagnostic' = ~halting
  /\ phase' = "exited"
  /\ child' = None
  /\ UNCHANGED <<attempt, halting, other, starts, unstable>>

(* A lock that cannot be removed or a port that cannot be bound ends the    *)
(* supervisor.                                                              *)
AfterExitFails ==
  /\ phase = "running"
  /\ child # None
  /\ child.at = "gone"
  /\ \/ ReleaseChildLocks
     \/ UNCHANGED lock
  /\ phase' = "failed"
  /\ child' = None
  /\ UNCHANGED <<attempt, halting, diagnostic, other, starts, unstable>>

Schedule ==
  /\ phase = "exited"
  /\ phase' = IF halting THEN "stopped"
              ELSE IF attempt = Delays THEN "exhausted" ELSE "waiting"
  /\ UNCHANGED <<attempt, halting, child, diagnostic, lock, other, starts, unstable>>

(* The delay passes, or the stop cuts it short.                             *)
Wake ==
  /\ phase = "waiting"
  /\ starts >= MaxStarts => halting
  /\ phase' = "starting"
  /\ attempt' = IF halting THEN attempt ELSE attempt + 1
  /\ UNCHANGED <<halting, child, diagnostic, lock, other, starts, unstable>>

ExhaustedStops ==
  /\ phase = "exhausted"
  /\ halting
  /\ phase' = "stopped"
  /\ diagnostic' = FALSE
  /\ UNCHANGED <<attempt, halting, child, lock, other, starts, unstable>>

Halt ==
  /\ ~halting
  /\ halting' = TRUE
  /\ child' = IF phase = "running" THEN [child EXCEPT !.told = TRUE] ELSE child
  /\ UNCHANGED <<phase, attempt, diagnostic, lock, other, starts, unstable>>

----------------------------------------------------------------------------
(* Another process that uses the same zones: an engine outside this         *)
(* supervisor. It may die and leave its lock.                               *)

OtherTakes(z) ==
  /\ lock[z] = None
  /\ \E p \in Pid :
       /\ other \in {None, p}
       /\ child # None /\ ~Separate => p # child.pid
       /\ other' = p
       /\ lock' = [lock EXCEPT ![z] = [says |-> p, owner |-> 0]]
  /\ UNCHANGED <<child, supervisor>>

OtherLeaves(z) ==
  /\ other # None
  /\ lock[z] # None
  /\ lock[z] = [says |-> other, owner |-> 0]
  /\ lock' = Without({z})
  /\ UNCHANGED <<other, child, supervisor>>

OtherDies ==
  /\ other # None
  /\ other' = None
  /\ UNCHANGED <<lock, child, supervisor>>

----------------------------------------------------------------------------
ChildStep ==
  \/ Checks \/ Probe \/ Listen \/ Steady \/ Terminated \/ Closed \/ Dies
  \/ \E z \in Zone : TakeLock(z) \/ WriteLock(z) \/ OpenZone(z)

SupervisorStep ==
  \/ BeforeStart \/ Spawn \/ Replenish \/ AfterExit \/ AfterExitFails
  \/ Schedule \/ Wake \/ ExhaustedStops

Next ==
  \/ ChildStep
  \/ SupervisorStep
  \/ Halt
  \/ OtherDies
  \/ \E z \in Zone : OtherTakes(z) \/ OtherLeaves(z)

(* The supervisor goes on; a child told to stop is killed in the end.       *)
Fairness ==
  /\ WF_vars(BeforeStart) /\ WF_vars(Spawn) /\ WF_vars(AfterExit)
  /\ WF_vars(Schedule) /\ WF_vars(Wake) /\ WF_vars(ExhaustedStops)
  /\ WF_vars(Terminated) /\ WF_vars(Dies /\ child.told)

Spec == Init /\ [][Next]_vars /\ Fairness

----------------------------------------------------------------------------
(* Properties *)

(* A child that is being reaped has the number of a living process beside   *)
(* the supervisor: only where each of the two numbers its own.              *)
NumbersMeet ==
  Separate /\ phase = "running" /\ child # None /\ child.at = "gone" /\ child.pid = other

(* No living owner loses its lock: neither the reclaiming of a dead child's *)
(* locks nor a startup that fails removes a lock that another process holds *)
(* (sidecar/supervise.ts:18, sidecar/supervision.ts:10); but a child that   *)
(* is reaped takes the locks with it of a process that has its number on    *)
(* another host or in another container.                                    *)
LocksOfOthersStay ==
  [][\A z \in Zone :
       lock[z] # None /\ other # None /\ lock[z] = [says |-> other, owner |-> 0]
         /\ lock'[z] # lock[z]
         => OtherLeaves(z) \/ NumbersMeet]_vars

(* What supervise.ts:19-20 says: it never does.  Numbers that meet break it.*)
UnknownOwnersKeepTheirLocks ==
  [][\A z \in Zone :
       lock[z] # None /\ other # None /\ lock[z] = [says |-> other, owner |-> 0]
         /\ lock'[z] # lock[z]
         => OtherLeaves(z)]_vars

(* While no child runs, a lock that one of them left is one that it had no  *)
(* time to write its pid to; every other has been reclaimed, also when the  *)
(* stop came in the middle of a startup (sidecar/supervise.ts:20).          *)
NothingLeftLocked ==
  phase \in {"starting", "spawning", "waiting", "exhausted", "stopped"} =>
    \A z \in Zone : lock[z] # None /\ lock[z].owner # 0 => lock[z].says = Empty

(* However children fail, no more than the first and the allowed restarts   *)
(* are started without a stable period between, and the status listener     *)
(* never keeps a child from its port (sidecar/supervision.ts:38).           *)
RestartsAreBounded ==
  /\ unstable <= Delays + 1
  /\ Alive => ~diagnostic

(* A supervisor told to stop ends, whatever it was doing: waiting, opening  *)
(* the listener or between the check and the spawn (supervision.ts:33).     *)
StopEnds == halting ~> phase \in {"stopped", "failed"}
==============================================================================
