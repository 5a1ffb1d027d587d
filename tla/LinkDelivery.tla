----------------------------- MODULE LinkDelivery -----------------------------
(***************************************************************************)
(* The way of a sign-in link to the person: a request passes the limiter   *)
(* (two or three Redis commands), spends the older links and writes the    *)
(* new one together with a mail (one transaction), and hands that mail to  *)
(* the mail service from within a second transaction.  An invitation skips *)
(* the limiter and spends nothing.  Whoever has the mail opens the link,   *)
(* on the device that asked for it or on another one.                      *)
(*                                                                         *)
(* Request r makes link r and mail r.  The link itself is only in the      *)
(* memory of r, so a mail that stays in the outbox is nobody's to send.    *)
(* The limiter's counter of the network address works like this one.       *)
(***************************************************************************)
EXTENDS Naturals, FiniteSets

CONSTANTS
  Ask,      \* requests for a link, and invitations
  Device,   \* browsers
  Limit,    \* requests of an address in a window
  None

VARIABLES
  counter,  \* the address's counter: n, and whether it expires
  request,  \* request -> where it is; the links its transaction saw; how long it is to wait
  link,     \* link -> "none", "live" or "over", and the device it was asked on
  outbox,   \* mail -> "none", "waiting" or "dispatched"
  inbox,    \* mail -> how often it arrived
  prompts,  \* the links that a device was asked to confirm
  entered   \* <<link, device, whether it was confirmed>> of the sessions opened

vars == <<counter, request, link, outbox, inbox, prompts, entered>>
database == <<link, outbox>>
mails == <<inbox, prompts, entered>>

NoCounter == [n |-> 0, expires |-> FALSE]

Init ==
  /\ counter = NoCounter
  /\ request = [r \in Ask |-> [at |-> "idle", sees |-> {}, waits |-> "no"]]
  /\ link \in [Ask -> [state : {"none"}, device : Device]]
  /\ outbox = [r \in Ask |-> "none"] /\ inbox = [r \in Ask |-> 0]
  /\ prompts = {} /\ entered = {}

At(r, place) == request[r].at = place
Goes(r, place) == request' = [request EXCEPT ![r].at = place]
Live == {t \in Ask : link[t].state = "live"}

-------------------------------------------------------------------------------
(* The limiter.                                                            *)

(* INCR; a counter that is new gets its expiry by a command of its own.    *)
Incr(r) ==
  LET c == [counter EXCEPT !.n = @ + 1] IN
  /\ At(r, "idle")
  /\ CASE c.n = 1 -> counter' = c /\ Goes(r, "expiring")
       [] c.n > Limit -> counter' = c /\ Goes(r, "reading")
       [] OTHER -> counter' = c /\ Goes(r, "allowed")
  /\ UNCHANGED <<database, mails>>

(* PEXPIRE of a counter that is gone does nothing.                         *)
Expiring(c) == IF c.n = 0 THEN c ELSE [c EXCEPT !.expires = TRUE]

PExpire(r) ==
  /\ At(r, "expiring") /\ counter' = Expiring(counter) /\ Goes(r, "allowed")
  /\ UNCHANGED <<database, mails>>

Refuses(r, c) ==
  /\ counter' = c
  /\ request' = [request EXCEPT ![r].at = "limited", ![r].waits = IF c.n = 0 \/ c.expires THEN "window" ELSE "forever"]

\* Mutant of PTtl: a counter left without an expiry keeps none.
PTtlOnly(r) == At(r, "reading") /\ Refuses(r, counter) /\ UNCHANGED <<database, mails>>

(* PTTL tells how long to wait; a counter that never ends is given an end. *)
PTtl(r) ==
  /\ At(r, "reading")
  /\ IF counter.n > 0 /\ ~counter.expires THEN Goes(r, "healing") /\ UNCHANGED counter ELSE Refuses(r, counter)
  /\ UNCHANGED <<database, mails>>

Heal(r) == At(r, "healing") /\ Refuses(r, Expiring(counter)) /\ UNCHANGED <<database, mails>>

(* Redis fails or is not there: the request is let through.                *)
StoreFails(r) ==
  /\ request[r].at \in {"idle", "expiring", "reading", "healing"} /\ Goes(r, "allowed")
  /\ UNCHANGED <<counter, database, mails>>

WindowEnds ==
  /\ counter.n > 0 /\ counter.expires /\ counter' = NoCounter
  /\ UNCHANGED <<request, database, mails>>

-------------------------------------------------------------------------------
(* The link.                                                               *)

(* An address that is not known, or that may not sign in by a link, is told*)
(* the same and gets nothing.                                              *)
Ignores(r) == At(r, "allowed") /\ Goes(r, "ignored") /\ UNCHANGED <<counter, database, mails>>

(* The transaction's first statement finds the links that are live.        *)
Issue(r) ==
  /\ At(r, "allowed")
  /\ request' = [request EXCEPT ![r].at = "issuing", ![r].sees = Live]
  /\ UNCHANGED <<counter, database, mails>>

Writes(r, device, spent) ==
  /\ link' = [t \in Ask |-> CASE t = r -> [state |-> "live", device |-> device]
                              [] t \in spent -> [link[t] EXCEPT !.state = "over"]
                              [] OTHER -> link[t]]
  /\ outbox' = [outbox EXCEPT ![r] = "waiting"]
  /\ Goes(r, "issued")

\* Mutant of Commit: the older links stay as they are.
CommitOnly(r) == At(r, "issuing") /\ Writes(r, link[r].device, {}) /\ UNCHANGED <<counter, mails>>

Commit(r) ==
  /\ At(r, "issuing") /\ Writes(r, link[r].device, request[r].sees \intersect Live)
  /\ UNCHANGED <<counter, mails>>

(* An invitation with a link that no device asked for: a transaction of its*)
(* own, past the limiter.                                                  *)
Invite(r) ==
  /\ At(r, "idle") /\ Writes(r, None, {})
  /\ UNCHANGED <<counter, mails>>

LinkExpires(t) ==
  /\ link[t].state = "live" /\ link' = [link EXCEPT ![t].state = "over"]
  /\ UNCHANGED <<counter, request, outbox, mails>>

-------------------------------------------------------------------------------
(* The mail.                                                               *)

(* dispatchOne holds the row's lock while the mail service has the message.*)
(* A service that reports a failure may have delivered it all the same.    *)
Send(r) ==
  /\ At(r, "issued") /\ outbox[r] = "waiting"
  /\ \/ Goes(r, "accepted") /\ inbox' = [inbox EXCEPT ![r] = @ + 1]
     \/ Goes(r, "retained") /\ inbox' \in {inbox, [inbox EXCEPT ![r] = @ + 1]}
  /\ UNCHANGED <<counter, database, prompts, entered>>

(* The row is marked, and the transaction commits or does not.             *)
Record(r) ==
  /\ At(r, "accepted")
  /\ \/ Goes(r, "sent") /\ outbox' = [outbox EXCEPT ![r] = "dispatched"]
     \/ Goes(r, "failed") /\ UNCHANGED outbox
  /\ UNCHANGED <<counter, link, mails>>

\* Mutant of Retain: what was not sent is not reported either.
RetainQuietly(r) ==
  /\ At(r, "retained") /\ Goes(r, "sent")
  /\ UNCHANGED <<counter, database, mails>>

(* A mail that was not sent stays, and the request is answered with a 503. *)
Retain(r) ==
  /\ At(r, "retained") /\ Goes(r, "unavailable")
  /\ UNCHANGED <<counter, database, mails>>

Dies(r) ==
  /\ request[r].at \in {"expiring", "reading", "healing", "allowed", "issuing", "issued", "accepted", "retained"}
  /\ Goes(r, "lost")
  /\ UNCHANGED <<counter, database, mails>>

-------------------------------------------------------------------------------
(* The browser.                                                            *)

\* Mutant of Open: any device may open the link.
OpenAnywhere(d, t) ==
  /\ inbox[t] > 0 /\ t \in Live
  /\ link' = [link EXCEPT ![t].state = "over"]
  /\ entered' = entered \union {<<t, d, FALSE>>} /\ UNCHANGED prompts
  /\ UNCHANGED <<counter, request, outbox, inbox>>

(* callback: on the device that asked, the link opens a session.  On       *)
(* another one it is left alone, and the person is asked.                  *)
Open(d, t) ==
  /\ inbox[t] > 0 /\ t \in Live
  /\ IF link[t].device = d
     THEN /\ link' = [link EXCEPT ![t].state = "over"]
          /\ entered' = entered \union {<<t, d, FALSE>>} /\ UNCHANGED prompts
     ELSE prompts' = prompts \union {<<t, d>>} /\ UNCHANGED <<link, entered>>
  /\ UNCHANGED <<counter, request, outbox, inbox>>

(* confirm: the link is spent by the answer, whichever it is.              *)
Answer(d, t, yes) ==
  /\ <<t, d>> \in prompts /\ prompts' = prompts \ {<<t, d>>}
  /\ link' = [link EXCEPT ![t].state = IF @ = "live" THEN "over" ELSE @]
  /\ entered' = IF yes /\ t \in Live THEN entered \union {<<t, d, TRUE>>} ELSE entered
  /\ UNCHANGED <<counter, request, outbox, inbox>>

Next ==
  \/ WindowEnds
  \/ \E r \in Ask :
       \/ Incr(r) \/ PExpire(r) \/ PTtl(r) \/ Heal(r) \/ StoreFails(r)
       \/ Ignores(r) \/ Issue(r) \/ Commit(r) \/ Invite(r) \/ LinkExpires(r)
       \/ Send(r) \/ Record(r) \/ Retain(r) \/ Dies(r)
  \/ \E d \in Device, t \in Ask : Open(d, t) \/ \E yes \in BOOLEAN : Answer(d, t, yes)

Spec == Init /\ [][Next]_vars

-------------------------------------------------------------------------------
(* RefusalsEnd: whoever is refused is refused for a time only, whatever    *)
(* commands of earlier requests were lost.                                 *)
RefusalsEnd == \A r \in Ask : At(r, "limited") => request[r].waits = "window"

(* AnsweredMeansMailed: whoever is told that the link is on its way finds  *)
(* its mail, and the outbox has it as dispatched.                          *)
AnsweredMeansMailed ==
  \A r \in Ask : /\ At(r, "sent") => inbox[r] > 0 /\ outbox[r] = "dispatched"
                 /\ inbox[r] > 0 => link[r].state # "none"

(* EarlierIsSpent: a new link leaves none of those working that were there *)
(* when it was made; and a session on another device than the one that     *)
(* asked was confirmed there.                                              *)
EarlierIsSpent ==
  /\ \A r \in Ask : link[r].state # "none" => request[r].sees \intersect Live = {}
  /\ \A e \in entered : e[2] # link[e[1]].device => e[3]

(* OneWorkingLink: as B-006 has it ("New link requested while one is       *)
(* outstanding: the earlier link is invalidated"), two requests never      *)
(* leave two links that work.                                              *)
OneWorkingLink == \A r, s \in Live : r # s => request[r].at = "idle"

(* MailIsNotLost: as the documentation has it ("at-least-once is the       *)
(* guarantee"), a mail that was written arrives.                           *)
MailIsNotLost == \A r \in Ask : request[r].at \in {"unavailable", "failed", "lost"} /\ outbox[r] = "waiting" => inbox[r] > 0
===============================================================================
