----------------------------- MODULE SessionStore -----------------------------
(***************************************************************************)
(* The sessions of one account in Redis, identity/infrastructure/          *)
(* redis-session-store.ts, and the request that uses one,                  *)
(* identity/application/current-user.ts.                                   *)
(*                                                                         *)
(* A session is a key that expires by itself and a member of the account's *)
(* index.  No operation is one Redis command: every worker (a request in   *)
(* some gateway process) holds the commands its operation has still to     *)
(* send, others' commands fall between them, and the process may die.      *)
(***************************************************************************)
EXTENDS Naturals, Sequences, SequencesExt, FiniteSets

CONSTANTS
  Session, Worker, NoRecord,
  Absolute,   \* sessionAbsoluteTimeoutMs, in ticks
  Idle,       \* the idle limits a policy may give
  Horizon,    \* bound: the last tick
  MaxCalls    \* bound: operations begun

VARIABLES
  now,
  calls,     \* operations begun so far
  key,       \* session -> its record with the tick Redis drops it at, or NoRecord
  index,     \* sessionsForUser
  todo,      \* worker -> the commands it has still to send
  due,       \* worker -> the sessions its answer gives to the browser, and those it revokes
  known,     \* sessions answered to the browser
  revoked,   \* sessions whose revocation has been answered
  raced      \* sessions with a write and a removal under way at one time

vars == <<now, calls, key, index, todo, due, known, revoked, raced>>

Nothing == [gives |-> {}, revokes |-> {}]

Init ==
  /\ now = 0 /\ calls = 0
  /\ key = [s \in Session |-> NoRecord] /\ index = {}
  /\ todo = [w \in Worker |-> << >>] /\ due = [w \in Worker |-> Nothing]
  /\ known = {} /\ revoked = {} /\ raced = {}

Command(do, s, rec) == [do |-> do, s |-> s, rec |-> rec]

(* write, and remove. *)
Write(s, rec) == <<Command("put", s, rec), Command("add", s, NoRecord)>>
Removal(s) == <<Command("del", s, NoRecord), Command("rem", s, NoRecord)>>

Present(s) == key[s] # NoRecord /\ now < key[s].dies
IsExpired(rec) == now - rec.seen >= rec.idle \/ now - rec.created >= Absolute

(* What read leaves to be done, and `then' if the session is there. *)
Read(s, then) ==
  IF ~Present(s) THEN << >> ELSE IF IsExpired(key[s]) THEN Removal(s) ELSE then

Fresh ==
  {s \in Session \ (known \union index \union raced) :
     /\ key[s] = NoRecord
     /\ \A w \in Worker : s \notin due[w].gives /\ \A i \in DOMAIN todo[w] : todo[w][i].s # s}

Pending(t, do) == {s \in Session : \E w \in Worker : \E i \in DOMAIN t[w] :
                                      t[w][i].s = s /\ t[w][i].do \in do}

(* The worker has `rest' to send now.  With nothing left it answers. *)
Goes(w, rest, owed) ==
  /\ todo' = [todo EXCEPT ![w] = rest]
  /\ due' = [due EXCEPT ![w] = IF rest = << >> THEN Nothing ELSE owed]
  /\ raced' = raced \union (Pending(todo', {"put", "add"}) \intersect Pending(todo', {"del", "rem"}))
  /\ known' = IF rest = << >> THEN known \union owed.gives ELSE known
  /\ revoked' = IF rest = << >> THEN revoked \union owed.revokes ELSE revoked

-------------------------------------------------------------------------------
(* The operations: what each sends, after what it reads first. *)

Begin(w, rest, gives, revokes) ==
  /\ todo[w] = << >> /\ calls < MaxCalls /\ calls' = calls + 1
  /\ Goes(w, rest, [gives |-> gives, revokes |-> revokes])
  /\ UNCHANGED <<now, key, index>>

Create(w) ==
  \E s \in Fresh, idle \in Idle :
    Begin(w, Write(s, [created |-> now, seen |-> now, idle |-> idle]), {s}, {})

(* CurrentUserService.read: the record, the account, the check of access,   *)
(* and only then touch or revoke, each of which reads again.                *)
Use(w) ==
  \E s \in known, next \in {"touch", "revoke"} :
    Begin(w, Read(s, <<Command(next, s, NoRecord)>>), {}, IF next = "revoke" /\ Present(s) THEN {s} ELSE {})

Rotate(w) ==
  \E s \in known, r \in Fresh :
    Begin(w, Read(s, Write(r, key[s]) \o Removal(s)),
          IF Present(s) /\ ~IsExpired(key[s]) THEN {r} ELSE {}, IF Present(s) THEN {s} ELSE {})

(* revokeAllFor, with or without the caller's own, and listFor. *)
RevokeAllFor(w) ==
  \E kept \in {{}} \union {{s} : s \in known} : \E order \in SetToSeqs(index \ kept) :
    Begin(w, [i \in DOMAIN order |-> Command("expel", order[i], NoRecord)], {}, known \ kept)

ListFor(w) ==
  \E order \in SetToSeqs(index) :
    Begin(w, [i \in DOMAIN order |-> Command("read", order[i], NoRecord)], {}, {})

-------------------------------------------------------------------------------
(* One command reaches Redis. *)

Next1(w, do) == todo[w] # << >> /\ Head(todo[w]).do = do
Sent(w, more) == Goes(w, more \o Tail(todo[w]), due[w])

(* The life Redis is told, from the clock at the write. *)
Dies(rec) == now + (IF rec.idle < Absolute - (now - rec.created) THEN rec.idle ELSE Absolute - (now - rec.created))

Put(w) ==
  LET c == Head(todo[w]) IN
  /\ Next1(w, "put")
  /\ IF now - c.rec.created >= Absolute
       THEN Goes(w, Removal(c.s) \o Tail(Tail(todo[w])), due[w]) /\ UNCHANGED key
       ELSE /\ key' = [key EXCEPT ![c.s] = [created |-> c.rec.created, seen |-> c.rec.seen,
                                           idle |-> c.rec.idle, dies |-> Dies(c.rec)]]
            /\ Sent(w, << >>)
  /\ UNCHANGED <<now, calls, index>>

Add(w) ==
  /\ Next1(w, "add")
  /\ index' = index \union {Head(todo[w]).s}
  /\ Sent(w, << >>)
  /\ UNCHANGED <<now, calls, key>>

Del(w) ==
  /\ Next1(w, "del")
  /\ key' = [key EXCEPT ![Head(todo[w]).s] = NoRecord]
  /\ Sent(w, << >>)
  /\ UNCHANGED <<now, calls, index>>

Rem(w) ==
  /\ Next1(w, "rem")
  /\ index' = index \ {Head(todo[w]).s}
  /\ Sent(w, << >>)
  /\ UNCHANGED <<now, calls, key>>

\* Mutant of Touch: the session is written without a look whether it is still there.
TouchUnread(w) ==
  LET s == Head(todo[w]).s
      idle == CHOOSE i \in Idle : TRUE
  IN
  /\ Next1(w, "touch")
  /\ Sent(w, Write(s, IF key[s] = NoRecord THEN [created |-> now, seen |-> now, idle |-> idle]
                      ELSE [key[s] EXCEPT !.seen = now]))
  /\ UNCHANGED <<now, calls, key, index>>

Touch(w) ==
  LET s == Head(todo[w]).s IN
  /\ Next1(w, "touch")
  /\ Sent(w, Read(s, Write(s, [key[s] EXCEPT !.seen = now])))
  /\ UNCHANGED <<now, calls, key, index>>

(* revoke, and the body of revokeAllFor's loop.  Of a session that is not   *)
(* there the one deletes the key once more, the other the index's entry.    *)
Revoke(w) ==
  LET s == Head(todo[w]).s
      absent == IF Next1(w, "revoke") THEN Command("del", s, NoRecord) ELSE Command("rem", s, NoRecord)
  IN
  /\ Next1(w, "revoke") \/ Next1(w, "expel")
  /\ Sent(w, IF Present(s) THEN Removal(s) ELSE <<absent>>)
  /\ UNCHANGED <<now, calls, key, index>>

ReadOne(w) ==
  /\ Next1(w, "read")
  /\ Sent(w, Read(Head(todo[w]).s, << >>))
  /\ UNCHANGED <<now, calls, key, index>>

ProcessDies(w) ==
  /\ todo[w] # << >>
  /\ todo' = [todo EXCEPT ![w] = << >>] /\ due' = [due EXCEPT ![w] = Nothing]
  /\ UNCHANGED <<now, calls, key, index, known, revoked, raced>>

Tick ==
  /\ now < Horizon /\ now' = now + 1
  /\ UNCHANGED <<calls, key, index, todo, due, known, revoked, raced>>

Next ==
  \/ Tick
  \/ \E w \in Worker :
       \/ Create(w) \/ Use(w) \/ Rotate(w) \/ RevokeAllFor(w) \/ ListFor(w)
       \/ Put(w) \/ Add(w) \/ Del(w) \/ Rem(w) \/ Touch(w) \/ Revoke(w) \/ ReadOne(w)
       \/ ProcessDies(w)

Spec == Init /\ [][Next]_vars

-------------------------------------------------------------------------------
TypeOK ==
  /\ now \in 0..Horizon
  /\ \A s \in Session : key[s] = NoRecord \/ (key[s].created <= key[s].seen /\ key[s].idle \in Idle)
  /\ index \subseteq Session /\ known \subseteq Session
  /\ revoked \subseteq Session /\ raced \subseteq Session

(* RevokedIsGone: a session the store has said it revoked, by itself, with  *)
(* all the account's others or for its replacement, is not there again.     *)
(* The tests and the test specification say so, and the code breaks it: a   *)
(* touch that has read the session before the removal puts it back after.   *)
RevokedIsGone == \A s \in revoked : ~Present(s)

(* BackOnlyIfCrossed: what the store does keep.  A revoked session is there *)
(* only if a write of it and a removal of it were once under way together;  *)
(* with that apart, every revocation reaches every session it is about,     *)
(* through the index that other operations are changing.                    *)
BackOnlyIfCrossed == \A s \in revoked : Present(s) => s \in raced

(* GoneForGood: once a session that was given out is gone, revoked or       *)
(* expired, and no write of it is on its way, no operation brings it back,  *)
(* also none that was begun while it was there.                             *)
Gone(s) == s \in known /\ ~Present(s) /\ s \notin Pending(todo, {"put"})
GoneForGood == [][\A s \in Session : Gone(s) => Gone(s)']_vars
===============================================================================
