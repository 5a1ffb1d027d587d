---------------------------- MODULE TestDatabase ----------------------------
(***************************************************************************)
(* What keeps the suites' tests apart on one PostgreSQL database.  A run   *)
(* takes the database and seeds it; then come bodies and teardowns in turn,*)
(* each under an owner of the connections it used and of the statements it *)
(* asked for.  Work that fails, or outlives its time, goes on by itself    *)
(* while its owner refuses it: its sessions are ended, and seen to be gone,*)
(* before the next phase begins, or the whole run stops.                   *)
(***************************************************************************)
EXTENDS Naturals, Sequences, FiniteSets

CONSTANTS Client, Invocation, None,
          Phases,        \* odd ones are bodies, even ones teardowns
          MaxCalls       \* of tests, to connect, to borrow a client or to ask a statement

VARIABLES holder,    \* the invocation that has the advisory lock
          rows,      \* the one whose fixtures the tables hold
          run,       \* the one whose phases are followed
          phase, step,
          late,      \* the running phase's time is over
          owner,     \* of a phase: aborted, over its budget, met a blocked reset
          asked,     \* their calls
          conn,      \* the driver's clients and their sessions
          ops,       \* statements asked of a client and not settled, in order
          cleaning,  \* the phase whose sessions are being ended, or 0
          stage,     \* how far that is with each client
          cleaned,   \* the phases it has been done for
          stopped    \* the marker that no further test may use the database
seeded == <<holder, rows, run>>
cleanup == <<cleaning, stage, cleaned>>
vars == <<seeded, phase, step, late, owner, asked, conn, ops, cleanup, stopped>>

Phase == 1..Phases
Body(p) == p % 2 = 1
Kind == {"write", "reset", "rollback"}
Fresh == [at |-> "new", owners |-> {}, born |-> FALSE, retiring |-> FALSE, user |-> 0, capped |-> FALSE, tx |-> FALSE]
InPool(c) == conn[c].user = Phases + 1
Aborted(p) == owner[p].aborted
Pending(p) == \E c \in Client : \E i \in DOMAIN ops[c] : ops[c][i].by = p

TypeOK ==
  /\ {holder, rows, run} \subseteq Invocation \cup {None}
  /\ phase \in 0..Phases /\ step \in {"seed", "work", "drain", "next", "after", "over"}
  /\ {late, stopped} \subseteq BOOLEAN /\ cleaning \in 0..Phases /\ cleaned \subseteq Phase
  /\ asked \in 0..MaxCalls
  /\ \A c \in Client : conn[c].user \in 0..Phases + 1 /\ conn[c].owners \subseteq Phase
  /\ \A c \in Client : \A i \in DOMAIN ops[c] : ops[c][i].by \in Phase /\ ops[c][i].kind \in Kind

Init ==
  /\ holder = None /\ rows = None /\ run \in Invocation
  /\ phase = 0 /\ step = "seed" /\ late = FALSE
  /\ owner = [p \in Phase |-> [aborted |-> FALSE, over |-> FALSE, blocked |-> FALSE]] /\ asked = 0
  /\ conn = [c \in Client |-> Fresh] /\ ops = [c \in Client |-> <<>>]
  /\ cleaning = 0 /\ stage = [c \in Client |-> "no"] /\ cleaned = {} /\ stopped = FALSE

------------------------------------------------------------------------------
Seeds(i) ==
  /\ holder' = i /\ rows' = i
  /\ IF i = run THEN step = "seed" /\ phase' = 1 /\ step' = "work"
                ELSE step # "over" /\ UNCHANGED <<phase, step>>
  /\ UNCHANGED <<run, late, owner, asked, conn, ops, cleanup, stopped>>

(* Mutant: the tables are emptied whoever has the lock.                     *)
SeedAnyway(i) == holder # i /\ Seeds(i)

(* An invocation takes the advisory lock or fails, then empties and seeds   *)
(* the tables.                                                              *)
Seed(i) == holder = None /\ Seeds(i)

(* Its session, and with it the lock, ends with it.                         *)
Leave == /\ holder # None /\ (holder = run => step = "over") /\ holder' = None
         /\ UNCHANGED <<rows, run, phase, step, late, owner, asked, conn, ops, cleanup, stopped>>

------------------------------------------------------------------------------
(* The work of a phase, and what is left running of earlier ones.           *)
Calls(p) == p <= phase /\ step # "over" /\ asked < MaxCalls /\ asked' = asked + 1
Connect(p, c) ==
  /\ Calls(p) /\ conn[c].at = "new" /\ ~ \E d \in Client : InPool(d)
  /\ conn' = [conn EXCEPT ![c].at = "connecting", ![c].owners = {p}, ![c].user = p]
  /\ UNCHANGED <<seeded, phase, step, late, owner, ops, cleanup, stopped>>

Connected(c) ==
  /\ conn[c].at = "connecting" /\ conn' = [conn EXCEPT ![c].at = "open"]
  /\ UNCHANGED <<seeded, phase, step, late, owner, ops, cleanup, asked, stopped>>

Borrow(p, c) ==
  /\ Calls(p) /\ InPool(c) /\ conn' = [conn EXCEPT ![c].user = p]
  /\ UNCHANGED <<seeded, phase, step, late, owner, ops, cleanup, stopped>>

(* Mutant: an aborted owner's statements are taken.                         *)
QueryAlways(p, c, kind) ==
  /\ Calls(p) /\ conn[c].user = p /\ conn[c].at = "open"
  /\ ops' = [ops EXCEPT ![c] = Append(@, [by |-> p, kind |-> kind, at |-> "settings"])]
  /\ conn' = [conn EXCEPT ![c].owners = @ \cup {p}]
  /\ UNCHANGED <<seeded, phase, step, late, owner, cleanup, stopped>>

(* A statement is refused of an aborted owner and of a stopped run, unless  *)
(* it rolls back; else it waits for those before it on its connection.      *)
Query(p, c, kind) ==
  /\ Calls(p) /\ conn[c].user = p /\ conn[c].at = "open"
  /\ IF (Aborted(p) \/ stopped) /\ kind # "rollback"
       THEN UNCHANGED <<ops, conn>>
       ELSE /\ ops' = [ops EXCEPT ![c] = Append(@, [by |-> p, kind |-> kind, at |-> IF @ = <<>> THEN "settings" ELSE "queued"])]
            /\ conn' = [conn EXCEPT ![c].owners = @ \cup {p}]
  /\ UNCHANGED <<seeded, phase, step, late, owner, cleanup, stopped>>

(* Mutant: a client goes back to the pool although it is being ended.       *)
ReleaseAlways(c) ==
  /\ conn[c].user \in Phase /\ conn[c].at # "connecting" /\ ops[c] = <<>> /\ ~conn[c].tx
  /\ conn' = [conn EXCEPT ![c].user = Phases + 1]
  /\ UNCHANGED <<seeded, phase, step, late, owner, ops, cleanup, asked, stopped>>

(* Its user gives a client back; one that is retiring, or has failed, the   *)
(* pool does not keep.                                                      *)
Release(c) ==
  /\ conn[c].user \in Phase /\ conn[c].at # "connecting" /\ ops[c] = <<>> /\ ~conn[c].tx
  /\ conn' = [conn EXCEPT ![c] = IF @.retiring \/ @.at = "gone" THEN [@ EXCEPT !.user = 0, !.at = "gone"]
                                                                 ELSE [@ EXCEPT !.user = Phases + 1]]
  /\ UNCHANGED <<seeded, phase, step, late, owner, ops, cleanup, asked, stopped>>

------------------------------------------------------------------------------
First(c) == Head(ops[c])
Doing(c, at) == ops[c] # <<>> /\ First(c).at = at
To(c, at) == ops' = [ops EXCEPT ![c] = <<[@[1] EXCEPT !.at = at]>> \o Tail(@)]
Settled(c) == ops' = [ops EXCEPT ![c] = Tail(@)]

(* The turn of a statement that has waited.                                 *)
Turn(c) ==
  /\ Doing(c, "queued")
  /\ IF Aborted(First(c).by) /\ First(c).kind # "rollback" THEN Settled(c) ELSE To(c, "settings")
  /\ UNCHANGED <<seeded, phase, step, late, owner, conn, cleanup, asked, stopped>>

(* The first one on a session learns when it began.  What is left of the    *)
(* runner's time becomes the statement's timeout, or it is refused.  A reset *)
(* waits one second for its locks at most.                                  *)
Configure(c) ==
  /\ Doing(c, "settings")
  /\ LET o == First(c)
         refused == late /\ o.kind # "rollback"
     IN /\ owner' = IF refused THEN [owner EXCEPT ![o.by].over = TRUE] ELSE owner
        /\ IF refused THEN Settled(c) ELSE To(c, IF o.kind = "reset" THEN "observe" ELSE "running")
        /\ conn' = [conn EXCEPT ![c].born = TRUE, ![c].capped = @ \/ (o.kind = "reset" /\ ~refused)]
  /\ UNCHANGED <<seeded, phase, step, late, cleanup, asked, stopped>>

(* A reset is watched from a session of its own, without which it fails.    *)
Observe(c) ==
  /\ Doing(c, "observe") /\ (To(c, "running") \/ Settled(c))
  /\ UNCHANGED <<seeded, phase, step, late, owner, conn, cleanup, asked, stopped>>

(* What a session does.  A write may leave its transaction open.            *)
Locked(c) == \E d \in Client \ {c} : conn[d].tx \/ (Doing(d, "running") /\ First(d).kind = "write")
Answered(c) ==
  /\ Doing(c, "running") /\ First(c).kind \in {"write", "rollback"} /\ Settled(c)
  /\ \E open \in BOOLEAN : /\ open => First(c).kind = "write"
                           /\ conn' = [conn EXCEPT ![c].tx = open]
  /\ UNCHANGED <<seeded, phase, step, late, owner, cleanup, asked, stopped>>

ResetAnswered(c) ==
  /\ Doing(c, "running") /\ First(c).kind = "reset" /\ ~Locked(c) /\ To(c, "restore")
  /\ UNCHANGED <<seeded, phase, step, late, owner, conn, cleanup, asked, stopped>>

(* The reset's limit is taken back before anyone else has the session.      *)
Restore(c) ==
  /\ Doing(c, "restore") /\ Settled(c) /\ conn' = [conn EXCEPT ![c].capped = FALSE]
  /\ UNCHANGED <<seeded, phase, step, late, owner, cleanup, asked, stopped>>

(* A reset that others hold up for a second, of this run or not, aborts its *)
(* owner.                                                                   *)
ResetBlocked(c) ==
  /\ Doing(c, "running") /\ First(c).kind = "reset" /\ Settled(c)
  /\ owner' = [owner EXCEPT ![First(c).by].blocked = TRUE, ![First(c).by].aborted = TRUE]
  /\ UNCHANGED <<seeded, phase, step, late, conn, cleanup, asked, stopped>>

Fails(c) ==
  /\ ops[c] # <<>> /\ First(c).at \in {"settings", "running", "restore"} /\ Settled(c)
  /\ UNCHANGED <<seeded, phase, step, late, owner, conn, cleanup, asked, stopped>>

------------------------------------------------------------------------------
(* The time of a phase is over: a body's signal aborts its owner, and the   *)
(* ending of its sessions starts while the work still goes on.              *)
Begins(p) ==
  /\ cleaning' = p
  /\ stage' = [c \in Client |-> CASE p \notin conn[c].owners -> "no"
                                  [] p \in conn[c].owners /\ conn[c].at = "connecting" -> "failed"
                                  [] OTHER -> "connect"]
  /\ conn' = [c \in Client |-> IF p \in conn[c].owners THEN [conn[c] EXCEPT !.retiring = TRUE] ELSE conn[c]]
Drains(p) == IF cleaning = p \/ p \in cleaned THEN UNCHANGED <<cleaning, stage, conn>> ELSE Begins(p)

TimeIsOver ==
  /\ step = "work" /\ ~late /\ late' = TRUE
  /\ IF Body(phase)
       THEN owner' = [owner EXCEPT ![phase].aborted = TRUE] /\ Drains(phase)
       ELSE UNCHANGED <<owner, cleaning, stage, conn>>
  /\ UNCHANGED <<seeded, phase, step, ops, cleaned, asked, stopped>>

(* A phase's work is settled for the runner: well, if its time is not over  *)
(* and no statement was refused for it, or else its owner is aborted; an    *)
(* aborted owner is drained before anything else.                           *)
WorkSettles(well) ==
  /\ step = "work" /\ (well => ~late)
  /\ LET fails == ~well \/ owner[phase].over \/ Aborted(phase)
     IN /\ owner' = [owner EXCEPT ![phase].aborted = fails]
        /\ step' = IF fails THEN "drain" ELSE "next"
        /\ IF fails THEN Drains(phase) ELSE UNCHANGED <<cleaning, stage, conn>>
  /\ UNCHANGED <<seeded, phase, late, ops, cleaned, asked, stopped>>

(* The one ending of an owner's sessions is awaited.                        *)
Drained ==
  /\ step = "drain" /\ phase \in cleaned /\ step' = "next"
  /\ stopped' = (stopped \/ owner[phase].blocked)
  /\ UNCHANGED <<seeded, phase, late, owner, conn, ops, cleanup, asked>>

(* Mutant: what a finished body left pending is let go on.                  *)
AfterTaskLeaves ==
  /\ step = "next" /\ ~Body(phase)
  /\ owner' = [owner EXCEPT ![phase - 1].aborted = TRUE]
  /\ step' = "after" /\ UNCHANGED <<cleaning, stage, conn>>
  /\ UNCHANGED <<seeded, phase, late, ops, cleaned, asked, stopped>>

(* After a task its body's owner is aborted, and drained if it has work     *)
(* pending.                                                                 *)
AfterTask ==
  /\ step = "next" /\ ~Body(phase)
  /\ owner' = [owner EXCEPT ![phase - 1].aborted = TRUE]
  /\ step' = "after" /\ IF Pending(phase - 1) THEN Drains(phase - 1) ELSE UNCHANGED <<cleaning, stage, conn>>
  /\ UNCHANGED <<seeded, phase, late, ops, cleaned, asked, stopped>>

(* A teardown follows in any case; a body only in a run that is not stopped.*)
NextPhase ==
  /\ \/ step = "next" /\ Body(phase) /\ UNCHANGED stopped
     \/ step = "after" /\ cleaning = 0 /\ stopped' = (stopped \/ \E p \in cleaned : owner[p].blocked)
  /\ IF phase = Phases \/ (stopped' /\ ~Body(phase))
       THEN step' = "over" /\ UNCHANGED phase
       ELSE phase' = phase + 1 /\ step' = "work"
  /\ late' = FALSE
  /\ UNCHANGED <<seeded, owner, conn, ops, cleanup, asked>>

------------------------------------------------------------------------------
At(c, s) == cleaning # 0 /\ stage[c] = s
Moves(c, s) == stage' = [stage EXCEPT ![c] = s]

(* A session is known by its process and birth: without the latter, once    *)
(* what was asked of it has settled or a second has passed, it cannot be    *)
(* ended.  What it runs is cancelled; a cancellation may come between two   *)
(* statements and be lost.  What is pending is then given a second.         *)
CancelRunning(c) ==
  /\ At(c, "connect")
  /\ \/ conn[c].born /\ Moves(c, "state") /\ (UNCHANGED ops \/ (Doing(c, "running") /\ Settled(c)))
     \/ ~conn[c].born /\ Moves(c, "failed") /\ UNCHANGED ops
  /\ UNCHANGED <<seeded, phase, step, late, owner, conn, cleaning, cleaned, asked, stopped>>

(* Mutant: the pool keeps the client of a session that is ended.            *)
EndKeeps(c) ==
  /\ At(c, "state")
  /\ conn' = [conn EXCEPT ![c] = [@ EXCEPT !.at = "gone", !.tx = FALSE]]
  /\ ops' = [ops EXCEPT ![c] = <<>>] /\ Moves(c, "no")
  /\ UNCHANGED <<seeded, phase, step, late, owner, cleaning, cleaned, asked, stopped>>

(* A session that is not busy is rolled back and its pool forgets it; any   *)
(* is terminated, and has to be seen gone within two seconds.               *)
EndSession(c) ==
  /\ At(c, "state")
  /\ \/ /\ conn' = [conn EXCEPT ![c] = [@ EXCEPT !.at = "gone", !.tx = FALSE,
                                            !.user = IF Doing(c, "running") THEN @ ELSE 0]]
        /\ ops' = [ops EXCEPT ![c] = <<>>] /\ Moves(c, "no")
     \/ UNCHANGED <<conn, ops>> /\ Moves(c, "failed")
  /\ UNCHANGED <<seeded, phase, step, late, owner, cleaning, cleaned, asked, stopped>>

(* All of them have to be gone, within five seconds, or the run stops.      *)
CleaningEnds ==
  /\ cleaning # 0 /\ cleaning' = 0 /\ cleaned' = cleaned \cup {cleaning}
  /\ stage' = [c \in Client |-> "no"]
  /\ stopped' = (stopped \/ \E c \in Client : stage[c] # "no")
  /\ UNCHANGED <<seeded, phase, step, late, owner, conn, ops, asked>>

------------------------------------------------------------------------------
Works == \/ \E p \in Phase, c \in Client : Connect(p, c) \/ Borrow(p, c) \/ \E k \in Kind : Query(p, c, k)
         \/ \E c \in Client : Connected(c) \/ Release(c)
Executes == \E c \in Client :
  \/ Turn(c) \/ Configure(c) \/ Observe(c) \/ Answered(c)
  \/ ResetAnswered(c) \/ Restore(c) \/ ResetBlocked(c) \/ Fails(c)
Cleans == CleaningEnds \/ \E c \in Client : CancelRunning(c) \/ EndSession(c)
Next == \/ \E i \in Invocation : Seed(i)
        \/ Leave \/ Works \/ Executes \/ TimeIsOver \/ (\E well \in BOOLEAN : WorkSettles(well))
        \/ Drained \/ AfterTask \/ NextPhase \/ Cleans
Spec == Init /\ [][Next]_vars

------------------------------------------------------------------------------
(* Nothing but a rollback is asked any more, and no transaction left open, by *)
(* work that was given up, once another phase works, nor by an earlier test  *)
(* once another one does (database-deadline.ts:207, 150-194;                  *)
(* database-runner.ts:35-36, 71).                                            *)
Given(p) == p \in cleaned \/ (Body(p) /\ Body(phase))
AbandonedIsOver ==
  step = "work" /\ ~stopped =>
    \A c \in Client :
      /\ \A i \in DOMAIN ops[c] : LET o == ops[c][i] IN o.by # phase /\ Given(o.by) => o.kind = "rollback"
      /\ conn[c].tx /\ conn[c].user # phase => conn[c].user \notin cleaned

(* The pool lends no client whose session is ended (database-deadline.ts:180-183, 304-306). *)
NoneDeadIsLent == \A c \in Client : InPool(c) => conn[c].at = "open"

(* A run in which work met a blocked reset, or left sessions that may still  *)
(* be there, has no further test (database-deadline.ts:142, 199-201).        *)
NothingFollowsAStop ==
  step = "work" /\ Body(phase) /\ cleaning # phase /\ phase \notin cleaned =>
    /\ ~stopped
    /\ \A p \in cleaned : ~owner[p].blocked
    /\ \A c \in Client : conn[c].retiring => conn[c].at = "gone"

(* Its own fixtures are what a run's tests find (normal-environment.ts:185-193). *)
FixturesAreItsOwn == step \notin {"seed", "over"} => rows = run

(* "Failed resets retire the client" (database-deadline.ts:246).  It does   *)
(* not hold: a test that takes the failure of a reset for an answer ends    *)
(* well, and its session goes back to the pool with a second's lock limit.  *)
CapsAreTakenBack == \A c \in Client : InPool(c) => ~conn[c].capped
==============================================================================
