---------------------------- MODULE PackagePairing ----------------------------
(* The customer packages on their hosts: one engine package, from its        *)
(* installation through backups and restores                                 *)
(* (scripts/operator/customer-install.ts, deploy/customer/command), and the  *)
(* gateway packages that claim it with a pairing code                        *)
(* (scripts/operator/engine-pairing.ts). Answers are lost, containers and    *)
(* commands die between any two files they write.                            *)
EXTENDS Naturals, FiniteSets

CONSTANTS
  None,
  Gateway,      \* gateway packages
  MaxRefused,   \* refusals a minute of the pairing listener
  MaxCodes,     \* bound: pairing codes issued
  MaxWork,      \* bound: changes the running services write
  MaxUpsets     \* bound: losses, crashes and commands of the operators

VARIABLES
  engine,       \* the engine's state directory
  volume,       \* the last change in its volumes
  listener,     \* the pairing listener, as long as the services run
  claim,        \* each gateway's ./register-engine
  gateway,      \* each gateway's state directory
  job,          \* the command that runs on the engine's host
  backups,      \* recorded backups of the engine
  undone,       \* gateways whose pairing a restore of the engine took back
  upsets

vars == <<engine, volume, listener, claim, gateway, job, backups, undone, upsets>>

Stopped == [up |-> FALSE, peer |-> None, busy |-> None, refused |-> 0]
NoJob == [at |-> "none", ran |-> FALSE, state |-> None, volume |-> 0]
Empty == [made |-> "no", secret |-> 0, peer |-> None, ca |-> None, pin |-> None,
          code |-> 0, live |-> FALSE, mark |-> 0]

TypeOK ==
  /\ engine \in [made : {"no", "part", "composed", "whole"}, secret : Nat,
                 peer : Gateway \cup {None}, ca : Gateway \cup {None},
                 pin : Gateway \cup {None}, code : 0..MaxCodes, live : BOOLEAN,
                 mark : 0..MaxWork]
  /\ volume \in 0..MaxWork
  /\ listener \in [up : BOOLEAN, peer : Gateway \cup {None},
                   busy : Gateway \cup {None}, refused : 0..MaxRefused]
  /\ claim \in [Gateway -> [at : {"idle", "result", "unknown", "pair", "reading",
                                  "answered", "trusting", "recorded"}, code : 0..MaxCodes]]
  /\ gateway \in [Gateway -> [ca : BOOLEAN, peer : BOOLEAN, published : BOOLEAN]]
  /\ job.at \in {"none", "initializing", "copying", "recording", "replacing", "unpacking"}
  /\ \A b \in backups : b.state.made = "whole" /\ b.volume \in 0..MaxWork
  /\ undone \subseteq Gateway

Init ==
  /\ engine = Empty
  /\ volume = 0
  /\ listener = Stopped
  /\ claim = [g \in Gateway |-> [at |-> "idle", code |-> 0]]
  /\ gateway = [g \in Gateway |-> [ca |-> FALSE, peer |-> FALSE, published |-> FALSE]]
  /\ job = NoJob
  /\ backups = {}
  /\ undone = {}
  /\ upsets = 0

Upset == upsets < MaxUpsets /\ upsets' = upsets + 1

----------------------------------------------------------------------------
(* Installation *)

(* Secrets are made once. A directory that was begun and not finished, for  *)
(* a certificate or an image that could not be had, is left alone.          *)
MayInitializeAgain == engine.made \notin {"composed", "whole"}  \* mutant
MayInitialize == engine.made = "no"

Initialize ==
  /\ job = NoJob
  /\ MayInitialize
  /\ engine' = [engine EXCEPT !.made = "part", !.secret = @ + 1]
  /\ job' = [job EXCEPT !.at = "initializing"]
  /\ UNCHANGED <<volume, listener, claim, gateway, backups, undone, upsets>>

FinishInstall ==
  /\ job.at = "initializing"
  /\ \/ /\ engine.made = "part"
        /\ engine' = [engine EXCEPT !.made = "composed"]
        /\ UNCHANGED job
     \/ /\ engine.made = "composed"
        /\ engine' = [engine EXCEPT !.made = "whole"]
        /\ job' = NoJob
  /\ UNCHANGED <<volume, listener, claim, gateway, backups, undone, upsets>>

(* The listener reads the recorded peer as it starts and puts its trust in  *)
(* place again, the authority before the pin.                               *)
ReappliedNever(state) == state  \* mutant
Reapplied(state) ==
  IF state.peer = None THEN state ELSE [state EXCEPT !.ca = state.peer, !.pin = state.peer]

Started(state) ==
  /\ engine' = Reapplied(state)
  /\ listener' = [Stopped EXCEPT !.up = TRUE, !.peer = state.peer]

Start ==
  /\ job = NoJob
  /\ engine.made \in {"composed", "whole"}
  /\ ~listener.up
  /\ Started(engine)
  /\ UNCHANGED <<volume, claim, gateway, job, backups, undone, upsets>>

Severed == [g \in Gateway |-> IF claim[g].at \in {"result", "pair", "reading"}
                                THEN [claim[g] EXCEPT !.at = "idle"] ELSE claim[g]]

Halt ==
  /\ Upset
  /\ listener.up
  /\ listener' = Stopped
  /\ claim' = Severed
  /\ UNCHANGED <<engine, volume, gateway, job, backups, undone>>

(* The services write to both the directory and the volumes.                *)
Work ==
  /\ listener.up
  /\ engine.mark = volume
  /\ volume < MaxWork
  /\ volume' = volume + 1
  /\ engine' = [engine EXCEPT !.mark = volume + 1]
  /\ UNCHANGED <<listener, claim, gateway, job, backups, undone, upsets>>

----------------------------------------------------------------------------
(* The pairing code and the listener *)

IssueCode ==
  /\ engine.made \in {"composed", "whole"}
  /\ engine.peer = None
  /\ engine.code < MaxCodes
  /\ engine' = [engine EXCEPT !.code = @ + 1, !.live = TRUE]
  /\ UNCHANGED <<volume, listener, claim, gateway, job, backups, undone, upsets>>

CodeExpires ==
  /\ Upset
  /\ engine.live
  /\ engine' = [engine EXCEPT !.live = FALSE]
  /\ UNCHANGED <<volume, listener, claim, gateway, job, backups, undone>>

(* The gateway the engine has recorded is told what it was told before.     *)
RecordedNever(g) == FALSE  \* mutant
Recorded(g) == listener.peer = g

AnswerResult(g) ==
  /\ claim[g].at = "result"
  /\ listener.up
  /\ claim' = [claim EXCEPT ![g].at = IF Recorded(g) THEN "answered" ELSE "unknown"]
  /\ UNCHANGED <<engine, volume, listener, gateway, job, backups, undone, upsets>>

TurnedAway(g) == claim' = [claim EXCEPT ![g].at = "idle"]

TakePair(g) ==
  /\ claim[g].at = "pair"
  /\ listener.up
  /\ IF listener.busy # None \/ listener.refused >= MaxRefused
       THEN TurnedAway(g) /\ UNCHANGED listener
       ELSE /\ claim' = [claim EXCEPT ![g].at = "reading"]
            /\ listener' = [listener EXCEPT !.busy = g]
  /\ UNCHANGED <<engine, volume, gateway, job, backups, undone, upsets>>

(* From the body on it is one piece: an engine that has a peer keeps it.    *)
(* The process may end after the peer is recorded, before the trust is in   *)
(* place or before the answer is sent.                                      *)
UnpairedUnasked == listener.up  \* mutant
Unpaired == listener.peer = None /\ engine.peer = None

CodeIsGood(code) == engine.live /\ code = engine.code

Pair(g) ==
  /\ claim[g].at = "reading"
  /\ listener.up
  /\ Unpaired /\ CodeIsGood(claim[g].code)
  /\ \/ /\ engine' = [engine EXCEPT !.peer = g, !.ca = g, !.pin = g]
        /\ listener' = [listener EXCEPT !.peer = g, !.busy = None]
        /\ claim' = [claim EXCEPT ![g].at = "answered"]
        /\ UNCHANGED upsets
     \/ /\ Upset
        /\ \E ca \in {engine.ca, g} : engine' = [engine EXCEPT !.peer = g, !.ca = ca]
        /\ listener' = Stopped
        /\ claim' = Severed
  /\ UNCHANGED <<volume, gateway, job, backups, undone>>

(* Refused too when the body does not come within five seconds.             *)
RefusePair(g) ==
  /\ claim[g].at = "reading"
  /\ listener.up
  /\ ~(Unpaired /\ CodeIsGood(claim[g].code)) \/ upsets < MaxUpsets
  /\ upsets' = IF Unpaired /\ CodeIsGood(claim[g].code) THEN upsets + 1 ELSE upsets
  /\ listener' = [listener EXCEPT !.busy = None,
                                  !.refused = IF @ < MaxRefused THEN @ + 1 ELSE @]
  /\ TurnedAway(g)
  /\ UNCHANGED <<engine, volume, gateway, job, backups, undone>>

WindowPasses ==
  /\ listener.refused > 0
  /\ listener' = [listener EXCEPT !.refused = 0]
  /\ UNCHANGED <<engine, volume, claim, gateway, job, backups, undone, upsets>>

----------------------------------------------------------------------------
(* A gateway claims the engine *)

(* With any code it was given: first the result of an earlier claim.        *)
BeginClaim(g, code) ==
  /\ claim[g].at = "idle"
  /\ listener.up
  /\ claim' = [claim EXCEPT ![g] = [at |-> "result", code |-> code]]
  /\ UNCHANGED <<engine, volume, listener, gateway, job, backups, undone, upsets>>

AskPair(g) ==
  /\ claim[g].at = "unknown"
  /\ claim' = [claim EXCEPT ![g].at = "pair"]
  /\ UNCHANGED <<engine, volume, listener, gateway, job, backups, undone, upsets>>

(* Trust that matches is retained as it is.                                 *)
Trust(g) ==
  /\ claim[g].at = "answered"
  /\ IF gateway[g].peer
       THEN /\ TurnedAway(g)
            /\ UNCHANGED gateway
       ELSE /\ claim' = [claim EXCEPT ![g].at = "trusting"]
            /\ gateway' = [gateway EXCEPT ![g].ca = TRUE]
  /\ UNCHANGED <<engine, volume, listener, job, backups, undone, upsets>>

RecordPeer(g) ==
  /\ claim[g].at = "trusting"
  /\ gateway' = [gateway EXCEPT ![g].peer = TRUE]
  /\ claim' = [claim EXCEPT ![g].at = "recorded"]
  /\ UNCHANGED <<engine, volume, listener, job, backups, undone, upsets>>

Publish(g) ==
  /\ claim[g].at = "recorded"
  /\ gateway' = [gateway EXCEPT ![g].published = TRUE]
  /\ TurnedAway(g)
  /\ UNCHANGED <<engine, volume, listener, job, backups, undone, upsets>>

(* The connection or the command is lost; the operator repeats it.          *)
LoseClaim(g) ==
  /\ Upset
  /\ claim[g].at # "idle"
  /\ TurnedAway(g)
  /\ listener' = IF listener.busy = g THEN [listener EXCEPT !.busy = None] ELSE listener
  /\ UNCHANGED <<engine, volume, gateway, job, backups, undone>>

(* An upgrade of the gateway writes the published form of a recorded peer.  *)
UpgradeGateway(g) ==
  /\ Upset
  /\ claim[g].at = "idle"
  /\ gateway' = [gateway EXCEPT ![g] = [ca |-> @.peer, peer |-> @.peer,
                                        published |-> @.published \/ @.peer]]
  /\ UNCHANGED <<engine, volume, listener, claim, job, backups, undone>>

----------------------------------------------------------------------------
(* Backups and restores of the engine *)

(* The services are stopped before anything is copied.                      *)
StoppedForBackupNever == UNCHANGED <<listener, claim>>  \* mutant
StoppedForBackup == listener' = Stopped /\ claim' = Severed

BeginBackup ==
  /\ Upset
  /\ job = NoJob
  /\ engine.made = "whole"
  /\ StoppedForBackup
  /\ job' = [NoJob EXCEPT !.at = "copying", !.ran = listener.up, !.state = engine]
  /\ UNCHANGED <<engine, volume, gateway, backups, undone>>

CopyVolume ==
  /\ job.at = "copying"
  /\ job' = [job EXCEPT !.at = "recording", !.volume = volume]
  /\ UNCHANGED <<engine, volume, listener, claim, gateway, backups, undone, upsets>>

(* The record comes last; what ran before is started again.                 *)
RecordBackup ==
  /\ job.at = "recording"
  /\ backups' = backups \cup {[state |-> job.state, volume |-> job.volume]}
  /\ job' = NoJob
  /\ IF job.ran /\ ~listener.up THEN Started(engine) ELSE UNCHANGED <<engine, listener>>
  /\ UNCHANGED <<volume, claim, gateway, undone, upsets>>

SafetyBackup ==
  IF engine.made = "whole" THEN {[state |-> engine, volume |-> volume]} ELSE {}

(* A restore validates the record, stops the services and keeps a backup of *)
(* what it replaces; then the directory is replaced, and then the volumes.  *)
BeginRestore(b) ==
  /\ Upset
  /\ job = NoJob
  /\ StoppedForBackup
  /\ job' = [NoJob EXCEPT !.at = "replacing", !.state = b.state, !.volume = b.volume]
  /\ backups' = backups \cup SafetyBackup
  /\ UNCHANGED <<engine, volume, gateway, undone>>

ReplaceState ==
  /\ job.at = "replacing"
  /\ undone' = undone \cup ({engine.peer} \ {None, job.state.peer})
  /\ engine' = job.state
  /\ job' = [job EXCEPT !.at = "unpacking"]
  /\ UNCHANGED <<volume, listener, claim, gateway, backups, upsets>>

ReplaceVolume ==
  /\ job.at = "unpacking"
  /\ volume' = job.volume
  /\ job' = NoJob
  /\ Started(engine)
  /\ UNCHANGED <<claim, gateway, backups, undone, upsets>>

(* An upgrade keeps a backup and all credentials, and puts the authority of *)
(* the recorded peer in place.                                              *)
Upgrade ==
  /\ Upset
  /\ job = NoJob
  /\ engine.made = "whole"
  /\ backups' = backups \cup SafetyBackup
  /\ Started([engine EXCEPT !.ca = engine.peer])
  /\ claim' = Severed
  /\ UNCHANGED <<volume, gateway, job, undone>>

JobDies ==
  /\ Upset
  /\ job # NoJob
  /\ job' = NoJob
  /\ UNCHANGED <<engine, volume, listener, claim, gateway, backups, undone>>

----------------------------------------------------------------------------
JobStep == FinishInstall \/ CopyVolume \/ RecordBackup \/ ReplaceState \/ ReplaceVolume
ClaimStep(g) ==
  AnswerResult(g) \/ TakePair(g) \/ Pair(g) \/ RefusePair(g) \/ AskPair(g)
    \/ Trust(g) \/ RecordPeer(g) \/ Publish(g)

Next ==
  \/ JobStep \/ Initialize \/ Start \/ Halt \/ Work
  \/ IssueCode \/ CodeExpires \/ WindowPasses
  \/ \E g \in Gateway : ClaimStep(g) \/ LoseClaim(g) \/ UpgradeGateway(g)
  \/ \E g \in Gateway, code \in 0..engine.code : BeginClaim(g, code)
  \/ BeginBackup \/ Upgrade \/ JobDies
  \/ \E b \in backups : BeginRestore(b)

(* Commands that run go on, stopped services are started, and a gateway     *)
(* whose claim was not answered repeats it with the last code.              *)
Fairness ==
  /\ WF_vars(JobStep) /\ WF_vars(Start)
  /\ \A g \in Gateway :
       WF_vars(ClaimStep(g)) /\ WF_vars(~gateway[g].peer /\ BeginClaim(g, engine.code))

Spec == Init /\ [][Next]_vars /\ Fairness

----------------------------------------------------------------------------
(* Properties *)

(* An engine keeps its peer: a second gateway, a repeated code and a crash  *)
(* in the middle of a pairing leave the first one in place; only a restore  *)
(* of the engine's own backup takes it back (engine-pairing.ts:66, 71-72).  *)
PeerStays ==
  [][engine.peer # None /\ engine'.peer # engine.peer => job.at = "replacing"]_vars

(* Two sides that paired trust each other: what a gateway has recorded, the *)
(* engine has, unless a restore took it back; and the services run with the *)
(* trust of the peer on record, also when the process died before it was in *)
(* place (engine-pairing.ts:37-40, 44-45, 72-74).                           *)
TrustIsMutual ==
  /\ \A g \in Gateway : gateway[g].peer => engine.peer = g \/ g \in undone
  /\ listener.up /\ engine.peer # None =>
       engine.ca = engine.peer /\ engine.pin = engine.peer

(* A gateway whose answer was lost is paired by repeating its claim, with   *)
(* whatever code (engine-pairing.ts:52-56, 106-107).                        *)
LostAnswersRecover ==
  \A g \in Gateway : (engine.peer = g) ~> (gateway[g].peer \/ engine.peer # g)

(* Secrets are made once, however often the installation is begun           *)
(* (customer-install.ts:45-46).                                             *)
SecretsStay == engine.secret <= 1

(* A restore that completes runs the directory and the volumes of one       *)
(* backup, and a backup of an engine that is whole is of one moment; what a *)
(* restore left that died half-way is copied as it is (command:60-82,       *)
(* 100-105).                                                                *)
RestoredIsWhole ==
  [][/\ job.at = "unpacking" /\ listener'.up =>
          \E b \in backups : engine'.peer = b.state.peer /\ engine'.mark = b.state.mark /\ volume' = b.volume
     /\ engine.mark = volume => \A b \in backups' \ backups : b.state.mark = b.volume]_vars

(* What a gateway has recorded the console is offered.                      *)
RecordedIsPublished ==
  \A g \in Gateway : gateway[g].peer /\ claim[g].at = "idle" => gateway[g].published
===============================================================================
