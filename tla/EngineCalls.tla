----------------------------- MODULE EngineCalls -----------------------------
(* A call of the application to an engine and its handling there: the       *)
(* connector of src/modules/sources (health first, then the operation, each *)
(* a connection of its own that is tried again only before TCP connects),   *)
(* the engine's HTTPS server with its pinned client certificate, and the    *)
(* operation on the source, which for a sample is recorded in a synced      *)
(* audit file before and after.                                             *)
EXTENDS Naturals, FiniteSets

CONSTANTS
  None,
  Call,        \* operations the application asks for
  Client,      \* certificates an application may hold
  Attempts,    \* connections tried for one request (4 in the code)
  MaxChanges   \* bound: replacements of trust, stops and crashes

VARIABLES
  app,       \* application: how far each call has come
  socket,    \* the call's present connection
  handler,   \* engine: how far the request on that connection has come
  reply,     \* what the engine has answered on it
  pin,       \* the certificate the engine accepts
  process,   \* "up", "closing" or "down"
  durable,   \* records synced to the audit file: call and outcome
  asked,     \* how often the call's operation was run on the source
  changes

vars == <<app, socket, handler, reply, pin, process, durable, asked, changes>>

Operations == {"sample", "estimate"}
Outcomes == {"started", "completed", "failed"}
Answers == {"ok", "failed", "refused", "audit_failed", "closing"}
Idle == [at |-> "idle", op |-> "estimate", as |-> None, leg |-> "health",
         attempt |-> 1, result |-> None]
NoHandler == [at |-> "none", aborted |-> FALSE, outcome |-> None]

TypeOK ==
  /\ \A c \in Call :
       /\ app[c].at \in {"idle", "connecting", "tls", "waiting", "done"}
       /\ app[c].attempt \in 1..Attempts
       /\ handler[c].at \in {"none", "arrived", "reading", "invoked",
                             "running", "ending", "answering"}
  /\ socket \in [Call -> {"none", "open", "closed"}]
  /\ reply \in [Call -> Answers \cup {None}]
  /\ pin \in Client
  /\ process \in {"up", "closing", "down"}
  /\ durable \subseteq Call \X Outcomes

Init ==
  /\ app = [c \in Call |-> Idle]
  /\ socket = [c \in Call |-> "none"]
  /\ handler = [c \in Call |-> NoHandler]
  /\ reply = [c \in Call |-> None]
  /\ pin \in Client
  /\ process = "up"
  /\ durable = {}
  /\ asked = [c \in Call |-> 0]
  /\ changes = 0

----------------------------------------------------------------------------
(* The application *)

engine == <<handler, pin, process, durable, asked, changes>>

(* Sampling needs the consent and the settings of the project, read first.  *)
Begin(c) ==
  /\ app[c].at = "idle"
  /\ \E op \in Operations, as \in Client :
       app' = [app EXCEPT ![c] = [Idle EXCEPT !.at = "connecting", !.op = op, !.as = as]]
  /\ UNCHANGED <<socket, reply, engine>>

RefuseUnconsented(c) ==
  /\ app[c].at = "idle"
  /\ app' = [app EXCEPT ![c] = [Idle EXCEPT !.at = "done", !.op = "sample",
                                            !.result = "forbidden"]]
  /\ UNCHANGED <<socket, reply, engine>>

Finish(c, result) == [app EXCEPT ![c].at = "done", ![c].result = result]

Connected(c) ==
  /\ app[c].at = "connecting"
  /\ process = "up"
  /\ app' = [app EXCEPT ![c].at = "tls"]
  /\ socket' = [socket EXCEPT ![c] = "open"]
  /\ UNCHANGED <<reply, engine>>

MayRetryAny(c) == app[c].at \in {"connecting", "tls", "waiting"}  \* mutant

(* Only a connection that TCP has not made in time is tried again.          *)
MayRetry(c) == app[c].at = "connecting"

ConnectExpires(c) ==
  /\ app[c].attempt < Attempts
  /\ MayRetry(c)
  /\ app' = [app EXCEPT ![c].attempt = @ + 1, ![c].at = "connecting"]
  /\ socket' = [socket EXCEPT ![c] = "none"]
  /\ handler' = [handler EXCEPT ![c] = IF @.at = "none" THEN @
                                       ELSE [@ EXCEPT !.aborted = TRUE]]
  /\ UNCHANGED <<reply, pin, process, durable, asked, changes>>

ConnectFails(c) ==
  /\ app[c].at = "connecting"
  /\ app' = Finish(c, "unavailable")
  /\ UNCHANGED <<socket, reply, engine>>

(* The handshake succeeds; the engine drops a certificate that is not its   *)
(* pin, otherwise the request is written and starts to be handled.          *)
Secured(c) ==
  /\ app[c].at = "tls"
  /\ socket[c] = "open"
  /\ handler[c].at = "none"
  /\ app' = [app EXCEPT ![c].at = "waiting"]
  /\ IF app[c].as = pin
       THEN /\ handler' = [handler EXCEPT ![c].at = "arrived"]
            /\ UNCHANGED socket
       ELSE /\ socket' = [socket EXCEPT ![c] = "closed"]
            /\ UNCHANGED handler
  /\ UNCHANGED <<reply, pin, process, durable, asked, changes>>

Lost(c) ==
  /\ app[c].at \in {"tls", "waiting"}
  /\ socket[c] = "closed"
  /\ app' = Finish(c, "unavailable")
  /\ reply' = [reply EXCEPT ![c] = None]
  /\ UNCHANGED <<socket, engine>>

(* An engine that is well (its contract is the application's) is asked for  *)
(* the operation; any other answer ends the call.                           *)
Received(c) ==
  /\ app[c].at = "waiting"
  /\ reply[c] # None
  /\ \E healthy \in BOOLEAN :
       app' = IF app[c].leg = "health" /\ reply[c] = "ok" /\ healthy
                THEN [app EXCEPT ![c].leg = "operation", ![c].at = "connecting",
                                 ![c].attempt = 1]
                ELSE Finish(c, IF app[c].leg = "health" /\ reply[c] = "ok"
                                 THEN "mismatch" ELSE reply[c])
  /\ reply' = [reply EXCEPT ![c] = None]
  /\ socket' = [socket EXCEPT ![c] = "closed"]
  /\ UNCHANGED engine

(* The deadline of the whole call, or its caller.                           *)
GiveUp(c) ==
  /\ app[c].at \in {"connecting", "tls", "waiting"}
  /\ \E result \in {"timeout", "cancelled"} : app' = Finish(c, result)
  /\ socket' = [socket EXCEPT ![c] = "closed"]
  /\ reply' = [reply EXCEPT ![c] = None]
  /\ UNCHANGED engine

----------------------------------------------------------------------------
(* The engine's handler *)

client == <<app, socket, pin, process, changes>>

Ended(c) == [handler EXCEPT ![c] = NoHandler]

(* The peer is gone: the request's signal aborts, or it never arrives.      *)
NoticeClosed(c) ==
  /\ handler[c].at # "none"
  /\ ~handler[c].aborted
  /\ socket[c] # "open"
  /\ handler' = IF handler[c].at = "arrived" THEN Ended(c)
                ELSE [handler EXCEPT ![c].aborted = TRUE]
  /\ UNCHANGED <<reply, durable, asked, client>>

(* A response is dropped when its connection is.                            *)
Send(c, answer) ==
  reply' = [reply EXCEPT ![c] = IF socket[c] = "open" THEN answer ELSE @]

Trusted(c) == app[c].as = pin

Handle(c) ==
  /\ handler[c].at = "arrived"
  /\ socket[c] = "open"
  /\ \/ /\ ~Trusted(c)
        /\ socket' = [socket EXCEPT ![c] = "closed"]
        /\ handler' = Ended(c)
        /\ UNCHANGED reply
     \/ /\ Trusted(c)
        /\ process = "closing"
        /\ Send(c, "closing")
        /\ handler' = Ended(c)
        /\ UNCHANGED socket
     \/ /\ Trusted(c)
        /\ process = "up"
        /\ handler' = [handler EXCEPT ![c].at = "reading"]
        /\ UNCHANGED <<reply, socket>>
  /\ UNCHANGED <<durable, asked, app, pin, process, changes>>

(* The body is read; an aborted request is left, one that is too large or   *)
(* not valid refused, and health answered.                                  *)
ReadBody(c) ==
  /\ handler[c].at = "reading"
  /\ \/ /\ handler[c].aborted
        /\ handler' = Ended(c)
        /\ UNCHANGED reply
     \/ /\ ~handler[c].aborted
        /\ Send(c, "refused")
        /\ handler' = Ended(c)
     \/ /\ ~handler[c].aborted
        /\ app[c].leg = "health"
        /\ Send(c, "ok")
        /\ handler' = Ended(c)
     \/ /\ ~handler[c].aborted
        /\ app[c].leg = "operation"
        /\ handler' = [handler EXCEPT ![c].at = "invoked"]
        /\ UNCHANGED reply
  /\ UNCHANGED <<durable, asked, client>>

(* One record, appended and synced; a write that fails may have arrived.    *)
Record(c, outcome, next) ==
  \/ /\ durable' = durable \cup {<<c, outcome>>}
     /\ handler' = [handler EXCEPT ![c].at = next]
  \/ /\ \E written \in BOOLEAN :
          durable' = IF written THEN durable \cup {<<c, outcome>>} ELSE durable
     /\ handler' = [handler EXCEPT ![c].at = "answering", ![c].outcome = "audit_failed"]

(* A sample is recorded as started before the source is asked.              *)
Invoke(c) ==
  /\ handler[c].at = "invoked"
  /\ IF app[c].op = "sample"
       THEN Record(c, "started", "running")
       ELSE /\ handler' = [handler EXCEPT ![c].at = "running"]
            /\ UNCHANGED durable
  /\ UNCHANGED <<reply, asked, client>>

(* An aborted request does not reach the source.                            *)
AskSource(c) ==
  /\ handler[c].at = "running"
  /\ \/ /\ ~handler[c].aborted
        /\ asked' = [asked EXCEPT ![c] = @ + 1]
        /\ \E outcome \in {"ok", "failed"} :
             handler' = [handler EXCEPT ![c].at = "ending", ![c].outcome = outcome]
     \/ /\ handler[c].aborted
        /\ handler' = [handler EXCEPT ![c].at = "ending", ![c].outcome = "failed"]
        /\ UNCHANGED asked
  /\ UNCHANGED <<reply, durable, client>>

RecordEndedNever(c) ==  \* mutant
  /\ handler[c].at = "ending"
  /\ handler' = [handler EXCEPT ![c].at = "answering"]
  /\ UNCHANGED <<durable, reply, asked, client>>

(* ... and as completed or failed before it is answered.                    *)
RecordEnded(c) ==
  /\ handler[c].at = "ending"
  /\ IF app[c].op = "sample"
       THEN Record(c, IF handler[c].outcome = "ok" THEN "completed" ELSE "failed",
                   "answering")
       ELSE /\ handler' = [handler EXCEPT ![c].at = "answering"]
            /\ UNCHANGED durable
  /\ UNCHANGED <<reply, asked, client>>

Answer(c) ==
  /\ handler[c].at = "answering"
  /\ IF handler[c].aborted THEN UNCHANGED reply ELSE Send(c, handler[c].outcome)
  /\ handler' = Ended(c)
  /\ UNCHANGED <<durable, asked, client>>

----------------------------------------------------------------------------
(* The engine's process *)

Changing == changes < MaxChanges /\ changes' = changes + 1
CloseSockets == [c \in Call |-> IF socket[c] = "open" THEN "closed" ELSE socket[c]]

ReplaceTrustedClientQuietly ==  \* mutant
  /\ Changing
  /\ process = "up"
  /\ \E next \in Client \ {pin} : pin' = next
  /\ UNCHANGED <<app, socket, handler, reply, process, durable, asked>>

(* Another client certificate is trusted: every connection is destroyed.    *)
ReplaceTrustedClient ==
  /\ Changing
  /\ process = "up"
  /\ \E next \in Client \ {pin} : pin' = next
  /\ socket' = CloseSockets
  /\ UNCHANGED <<app, handler, reply, process, durable, asked>>

Stop ==
  /\ Changing
  /\ process = "up"
  /\ process' = "closing"
  /\ handler' = [c \in Call |-> IF handler[c].at \in {"none", "arrived"} THEN handler[c]
                                ELSE [handler[c] EXCEPT !.aborted = TRUE]]
  /\ UNCHANGED <<app, socket, reply, pin, durable, asked>>

Gone ==
  /\ process' = "down"
  /\ socket' = CloseSockets
  /\ handler' = [c \in Call |-> NoHandler]
  /\ UNCHANGED <<app, reply, pin, durable, asked>>

(* The handlers have settled, or the deadline of the process has passed.    *)
StopEnds == process = "closing" /\ Gone /\ UNCHANGED changes
Crash == Changing /\ process = "up" /\ Gone

(* A new process reads the trust its configuration has by then.             *)
Restart ==
  /\ process = "down"
  /\ process' = "up"
  /\ pin' \in Client
  /\ UNCHANGED <<app, socket, handler, reply, durable, asked, changes>>

Next ==
  \/ \E c \in Call :
       \/ Begin(c) \/ RefuseUnconsented(c) \/ Connected(c) \/ ConnectExpires(c)
       \/ ConnectFails(c) \/ Secured(c) \/ Lost(c) \/ Received(c) \/ GiveUp(c)
       \/ NoticeClosed(c) \/ Handle(c) \/ ReadBody(c) \/ Invoke(c)
       \/ AskSource(c) \/ RecordEnded(c) \/ Answer(c)
  \/ ReplaceTrustedClient \/ Stop \/ StopEnds \/ Crash \/ Restart

Spec == Init /\ [][Next]_vars

----------------------------------------------------------------------------
(* Properties *)

(* A sample the application holds was recorded as started and as completed  *)
(* in the synced file, and no sample was taken from the source that is not  *)
(* recorded as started, whatever was retried, stopped or lost in between    *)
(* (sidecar/infrastructure/postgres-connector.ts:90).                       *)
SamplesAreAudited ==
  \A c \in Call : app[c].op = "sample" =>
    /\ app[c].result = "ok" => {<<c, "started">>, <<c, "completed">>} \subseteq durable
    /\ asked[c] > 0 => <<c, "started">> \in durable

(* However its connections fail and are tried again, one call runs its      *)
(* operation on the customer's source at most once                          *)
(* (src/shared/infrastructure/engine-transport.ts:44).                      *)
AskedOnce == \A c \in Call : asked[c] <= 1

(* Nothing is answered to a certificate that is not the trusted one at that *)
(* moment: a request accepted from the former client hears nothing once it  *)
(* has been replaced (sidecar/http/server.ts:149).                          *)
AnswersGoToTheTrusted ==
  [][\A c \in Call : reply[c] = None /\ reply'[c] # None => app[c].as = pin]_vars
==============================================================================
