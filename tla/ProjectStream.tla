--------------------------- MODULE ProjectStream ---------------------------
(***************************************************************************)
(* The live updates of one project: a change is numbered and published     *)
(* through Redis, the hub of an API process subscribes on its own          *)
(* connection, reads the current number and sends a snapshot followed by   *)
(* the changes after it, and the HTTP server writes them to a reader who   *)
(* may be slow or go away.  A reader who is cut off opens the stream again *)
(* and starts from a new snapshot.                                         *)
(***************************************************************************)
EXTENDS Integers, Sequences, SequencesExt, FiniteSetsExt

CONSTANTS MaxChanges,   \* changes published
          MaxOpens,     \* times the reader opens the stream
          MaxPending,   \* changes the hub holds before its snapshot (1024)
          HighWater     \* writes after which the socket says it is full

VARIABLES published,  \* the project's sequence number in Redis
          hub,        \* "none" | "connecting" | "listening" | "ready" | "closed"
          channel,    \* published changes on their way to the hub
          pending,    \* changes the hub holds until it has sent its snapshot
          sampled,    \* the number read for the snapshot, -1 before
          sequence,   \* the last number the hub has passed on
          response,   \* "none" | "open" | "ended" | "gone"
          aborted,    \* the request's abort signal
          socket,     \* what is written and not yet read
          seen,       \* what the reader has read in this stream
          opens
vars == <<published, hub, channel, pending, sampled, sequence, response,
          aborted, socket, seen, opens>>

TypeOK ==
  /\ published \in 0..MaxChanges /\ opens \in 0..MaxOpens
  /\ hub \in {"none", "connecting", "listening", "ready", "closed"}
  /\ response \in {"none", "open", "ended", "gone"} /\ aborted \in BOOLEAN
  /\ sampled \in -1..MaxChanges /\ sequence \in -1..MaxChanges
  /\ \A q \in {channel, pending, socket, seen} : q \in Seq(0..MaxChanges)

Init ==
  /\ published = 0 /\ hub = "none" /\ channel = <<>> /\ pending = <<>>
  /\ sampled = -1 /\ sequence = -1 /\ response = "none" /\ aborted = FALSE
  /\ socket = <<>> /\ seen = <<>> /\ opens = 0

(* One script numbers the change and publishes it; Redis hands it to the    *)
(* connections that are subscribed at that moment.                          *)
Publish ==
  /\ published < MaxChanges
  /\ published' = published + 1
  /\ channel' = IF hub \in {"listening", "ready"}
                THEN Append(channel, published') ELSE channel
  /\ UNCHANGED <<hub, pending, sampled, sequence, response, aborted, socket, seen, opens>>

(* The stream route answers: the server makes its abort signal and the hub  *)
(* begins to connect.                                                       *)
Open ==
  /\ opens < MaxOpens
  /\ response # "open" /\ hub \in {"none", "closed"} /\ socket = <<>>
  /\ opens' = opens + 1 /\ response' = "open" /\ aborted' = FALSE
  /\ hub' = "connecting" /\ seen' = <<>>
  /\ channel' = <<>> /\ pending' = <<>> /\ sampled' = -1 /\ sequence' = -1
  /\ UNCHANGED <<published, socket>>

Listen ==
  /\ hub = "connecting" /\ hub' = "listening"
  /\ UNCHANGED <<published, channel, pending, sampled, sequence, response, aborted, socket, seen, opens>>

(* Mutant: the number is read before the subscription stands.               *)
ReadSequenceEarly ==
  /\ hub \in {"connecting", "listening"} /\ sampled = -1
  /\ sampled' = published
  /\ UNCHANGED <<published, hub, channel, pending, sequence, response, aborted, socket, seen, opens>>

(* The number is read only after the subscription stands.                   *)
ReadSequence ==
  /\ hub = "listening" /\ sampled = -1
  /\ sampled' = published
  /\ UNCHANGED <<published, hub, channel, pending, sequence, response, aborted, socket, seen, opens>>

(* What the server writes of the events it is handed: nothing once the      *)
(* response is over, and nothing after the write that fills the socket.     *)
Writable(events) ==
  IF response = "open" /\ ~aborted
  THEN SubSeq(events, 1, Min({Len(events), Max({1, HighWater - Len(socket)})}))
  ELSE <<>>

(* A slow reader is let go: after the write that the socket did not take    *)
(* the signal is aborted and the response ended, and the abort releases the *)
(* subscription.                                                            *)
Send(events) ==
  LET written == socket \o Writable(events) IN
  /\ socket' = written
  /\ IF response = "open" /\ events # <<>> /\ Len(written) >= HighWater
     THEN response' = "ended" /\ aborted' = TRUE
     ELSE UNCHANGED <<response, aborted>>

(* Mutant: a subscription made for a reader who has gone is kept.           *)
ReadyKeeping ==
  /\ hub = "listening" /\ sampled >= 0
  /\ Send(<<sampled>>) /\ sequence' = sampled /\ hub' = "ready" /\ pending' = <<>>
  /\ UNCHANGED <<published, channel, sampled, seen, opens>>

(* What is held, in the order of its numbers, beyond number n.              *)
Beyond(held, n) == SubSeq(held, 1 + Max({0} \cup {i \in 1..Len(held) : held[i] <= n}), Len(held))

(* The snapshot carries the number read before it; held changes that it     *)
(* already covers are passed over.  A stream that was aborted meanwhile     *)
(* gives its subscription back at once.                                     *)
Ready ==
  /\ hub = "listening" /\ sampled >= 0
  /\ LET news == Beyond(pending, sampled) IN
     /\ Send(<<sampled>> \o news)
     /\ sequence' = IF news = <<>> THEN sampled ELSE Last(news)
  /\ hub' = IF aborted' THEN "closed" ELSE "ready"
  /\ pending' = <<>>
  /\ UNCHANGED <<published, channel, sampled, seen, opens>>

(* A message reaches the hub.                                               *)
Deliver ==
  /\ channel # <<>> /\ channel' = Tail(channel)
  /\ \/ /\ hub = "listening" /\ Len(pending) < MaxPending
        /\ pending' = Append(pending, Head(channel))
        /\ UNCHANGED <<hub, sequence, response, aborted, socket>>
     \/ /\ hub = "listening" /\ Len(pending) >= MaxPending
        /\ hub' = "closed" /\ response' = IF response = "open" THEN "ended" ELSE response
        /\ UNCHANGED <<pending, sequence, aborted, socket>>
     \/ /\ hub = "ready" /\ Head(channel) > sequence
        /\ Send(<<Head(channel)>>) /\ sequence' = Head(channel)
        /\ hub' = IF aborted' THEN "closed" ELSE hub
        /\ UNCHANGED pending
     \/ /\ (hub = "closed" \/ (hub = "ready" /\ Head(channel) <= sequence))
        /\ UNCHANGED <<hub, pending, sequence, response, aborted, socket>>
  /\ UNCHANGED <<published, sampled, seen, opens>>

(* Mutant: the hub closes and the stream is left open.                      *)
LoseQuietly ==
  /\ hub \in {"connecting", "listening", "ready"}
  /\ hub' = "closed" /\ channel' = <<>>
  /\ UNCHANGED <<published, pending, sampled, sequence, response, aborted, socket, seen, opens>>

(* The connection to Redis fails or begins to reconnect: what was on its    *)
(* way is lost, so the stream is closed and never resumed.                  *)
Lose ==
  /\ hub \in {"connecting", "listening", "ready"}
  /\ hub' = "closed" /\ channel' = <<>>
  /\ response' = IF response = "open" THEN "ended" ELSE response
  /\ aborted' = TRUE
  /\ UNCHANGED <<published, pending, sampled, sequence, socket, seen, opens>>

(* Every 15 s a comment line is written; the one that fills the socket ends *)
(* the stream of a reader who has stopped reading.                          *)
Heartbeat ==
  /\ response = "open" /\ ~aborted /\ seen \o socket # <<>>
  /\ Len(socket) + 1 >= HighWater
  /\ response' = "ended" /\ aborted' = TRUE
  /\ hub' = IF hub = "ready" THEN "closed" ELSE hub
  /\ UNCHANGED <<published, channel, pending, sampled, sequence, socket, seen, opens>>

Read ==
  /\ socket # <<>> /\ response # "gone"
  /\ seen' = Append(seen, Head(socket)) /\ socket' = Tail(socket)
  /\ UNCHANGED <<published, hub, channel, pending, sampled, sequence, response, aborted, opens>>

(* The reader goes away.  The abort reaches a subscription that is ready;   *)
(* one still being made is given back when it is made (Ready).              *)
Leave ==
  /\ response = "open"
  /\ response' = "gone" /\ aborted' = TRUE /\ socket' = <<>>
  /\ hub' = IF hub = "ready" THEN "closed" ELSE hub
  /\ UNCHANGED <<published, channel, pending, sampled, sequence, seen, opens>>

Next ==
  \/ Publish \/ Open \/ Listen \/ ReadSequence \/ Ready \/ Deliver
  \/ Lose \/ Heartbeat \/ Read \/ Leave

Fairness ==
  /\ WF_vars(Listen) /\ WF_vars(ReadSequence) /\ WF_vars(Ready)
  /\ WF_vars(Deliver) /\ WF_vars(Read)
Spec == Init /\ [][Next]_vars /\ Fairness

----------------------------------------------------------------------------
(* A reader's stream is a snapshot and then every change after it, in order *)
(* and without a gap, for as long as it lasts: whatever is lost ends the    *)
(* stream instead of leaving a hole the reader cannot notice.               *)
NoGap == \A i \in 1..Len(seen \o socket) - 1 :
           (seen \o socket)[i + 1] = (seen \o socket)[i] + 1

(* A change reaches every open stream, in its snapshot or after it, or the  *)
(* stream ends: nobody keeps an open stream that has stopped telling.       *)
EveryChangeIsTold ==
  \A n \in 1..MaxChanges :
    (published >= n /\ response = "open")
      ~> (response # "open" \/ (seen # <<>> /\ Last(seen) >= n))

(* A stream that is over gives its Redis connection back.                   *)
SubscriptionsAreReleased == (response \in {"ended", "gone"}) ~> (hub = "closed" \/ response = "open")
=============================================================================
