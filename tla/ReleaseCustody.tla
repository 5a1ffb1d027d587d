--------------------------- MODULE ReleaseCustody ---------------------------
(***************************************************************************)
(* Values in custody leave as two shares.  One is escrowed with a custody  *)
(* provider, the other is kept with a grant, redeemed at most once by the  *)
(* credential it was sealed for, until it expires or is revoked.  A grant  *)
(* is touched in one transaction, under its own lock and the project's;    *)
(* the provider is outside and may fail to answer.                         *)
(***************************************************************************)
EXTENDS Integers, FiniteSets

CONSTANTS Grant, Alias,
          Legacy,       \* aliases of key versions older than their credential
          GraceEnds,    \* when the keys of these aliases have retired
          Ttl,          \* custody.grant_ttl
          MaxTime, MaxKeys, MaxSwitches

VARIABLES now, provider,  \* the project's custody provider
          key, until,     \* the signing key; how long a key verifies
          row,            \* release_grant, its release_events included
          escrow,         \* the provider's share: "none" | "held" | "taken" | "gone"
          sealing,        \* "idle" | "escrowed" | "signed" | "abandoned" | "over"
          claims,         \* the alias, expiry, provider and key of a grant
          credential,     \* aliases whose credential is revoked
          retired,        \* legacy aliases that are retired
          left,           \* how often the grant's own share has left
          redeeming       \* grants verified and about to be redeemed
vars == <<now, provider, key, until, row, escrow, sealing, claims, credential,
          retired, left, redeeming>>

NoRow == [state |-> "none", cleaned |-> FALSE, events |-> {}]
Rows == [state : {"none", "granted", "redeemed", "expired", "revoked"},
         cleaned : BOOLEAN,   \* escrow_revoked
         events : SUBSET {"granted", "redeemed", "expired", "revoked", "provider_redeemed"}]
Exists(g) == row[g].state # "none"
Expired(g) == claims[g].exp <= now

TypeOK ==
  /\ now \in 0..MaxTime /\ key \in 1..MaxKeys /\ provider \in 0..MaxSwitches
  /\ row \in [Grant -> Rows] /\ escrow \in [Grant -> {"none", "held", "taken", "gone"}]
  /\ sealing \in [Grant -> {"idle", "escrowed", "signed", "abandoned", "over"}]
  /\ {credential, retired} \subseteq SUBSET Alias /\ left \in [Grant -> 0..2] /\ redeeming \subseteq Grant

Init ==
  /\ now = 0 /\ provider = 0 /\ key = 1 /\ until = [k \in 1..MaxKeys |-> 0]
  /\ row = [g \in Grant |-> NoRow] /\ escrow = [g \in Grant |-> "none"]
  /\ sealing = [g \in Grant |-> "idle"] /\ credential = {} /\ retired = {}
  /\ claims = [g \in Grant |-> [exp |-> 0, key |-> 0, provider |-> 0, alias |-> CHOOSE a \in Alias : TRUE]]
  /\ left = [g \in Grant |-> 0] /\ redeeming = {}

Tick ==
  /\ now < MaxTime /\ now' = now + 1
  /\ UNCHANGED <<provider, key, until, row, escrow, sealing, claims, credential, retired, left, redeeming>>

----------------------------------------------------------------------------
(* The result of a query is sealed: the provider takes its share.           *)
Escrow(g, a) ==
  /\ sealing[g] = "idle" /\ now + Ttl <= MaxTime
  /\ sealing' = [sealing EXCEPT ![g] = "escrowed"] /\ escrow' = [escrow EXCEPT ![g] = "held"]
  /\ claims' = [claims EXCEPT ![g] = [exp |-> now + Ttl, key |-> 0, provider |-> provider, alias |-> a]]
  /\ UNCHANGED <<now, provider, key, until, row, credential, retired, left, redeeming>>

Sign(g) ==
  /\ sealing[g] = "escrowed"
  /\ sealing' = [sealing EXCEPT ![g] = IF Expired(g) THEN "abandoned" ELSE "signed"]
  /\ claims' = [claims EXCEPT ![g].key = key]
  /\ UNCHANGED <<now, provider, key, until, row, escrow, credential, retired, left, redeeming>>

(* Mutant: the credential is not looked at again after the escrow.          *)
CanIssueAlways(a) == TRUE

CanIssue(a) == a \notin credential /\ (a \in Legacy => now < GraceEnds /\ a \notin retired)

(* Saved under the locks: granted; or, the credential revoked meanwhile,    *)
(* without its share, for the provider's to be cleaned up; or refused, the  *)
(* project having another provider.                                         *)
Issue(g) ==
  /\ sealing[g] = "signed"
  /\ \/ /\ ~CanIssue(claims[g].alias)
        /\ row' = [row EXCEPT ![g] = [state |-> "revoked", cleaned |-> FALSE, events |-> {"revoked"}]]
        /\ sealing' = [sealing EXCEPT ![g] = "over"]
     \/ /\ CanIssue(claims[g].alias) /\ claims[g].provider = provider
        /\ row' = [row EXCEPT ![g] = [state |-> "granted", cleaned |-> FALSE, events |-> {"granted"}]]
        /\ sealing' = [sealing EXCEPT ![g] = "over"]
     \/ /\ CanIssue(claims[g].alias) /\ claims[g].provider # provider
        /\ sealing' = [sealing EXCEPT ![g] = "abandoned"] /\ UNCHANGED row
  /\ UNCHANGED <<now, provider, key, until, escrow, claims, credential, retired, left, redeeming>>

(* The transaction fails.                                                   *)
IssueFails(g) ==
  /\ sealing[g] \in {"escrowed", "signed"} /\ sealing' = [sealing EXCEPT ![g] = "abandoned"]
  /\ UNCHANGED <<now, provider, key, until, row, escrow, claims, credential, retired, left, redeeming>>

Gone(g, ack) == IF ack /\ escrow[g] = "held" THEN "gone" ELSE escrow[g]

(* No grant: the escrow is revoked, once, whatever the provider answers.    *)
Abandon(g, ack) ==
  /\ sealing[g] = "abandoned" /\ sealing' = [sealing EXCEPT ![g] = "over"]
  /\ escrow' = [escrow EXCEPT ![g] = Gone(g, ack)]
  /\ UNCHANGED <<now, provider, key, until, row, claims, credential, retired, left, redeeming>>

----------------------------------------------------------------------------
Verifies(k) == k = key \/ until[k] > now

(* A redemption: the signature is verified, then the grant is locked.       *)
BeginRedeem(g) ==
  /\ Exists(g) /\ Verifies(claims[g].key) /\ redeeming' = redeeming \cup {g}
  /\ UNCHANGED <<now, provider, key, until, row, escrow, sealing, claims, credential, retired, left>>

(* Mutant: the share is answered before the transaction that deletes it has *)
(* committed, and that transaction fails.                                   *)
RedeemUncommitted(g) ==
  /\ g \in redeeming /\ redeeming' = redeeming \ {g}
  /\ row[g].state = "granted" /\ ~Expired(g) /\ left[g] < 2
  /\ \/ left' = [left EXCEPT ![g] = @ + 1] /\ UNCHANGED row
     \/ /\ row' = [row EXCEPT ![g].state = "redeemed", ![g].events = @ \cup {"redeemed"}]
        /\ left' = [left EXCEPT ![g] = @ + 1]
  /\ UNCHANGED <<now, provider, key, until, escrow, sealing, claims, credential, retired>>

(* The share and its event are committed before it is answered, which the   *)
(* process may not live to do.                                              *)
Redeem(g) ==
  /\ g \in redeeming /\ redeeming' = redeeming \ {g}
  /\ \/ /\ row[g].state = "granted" /\ ~Expired(g)
        /\ row' = [row EXCEPT ![g].state = "redeemed", ![g].events = @ \cup {"redeemed"}]
        /\ left' \in {left, [left EXCEPT ![g] = @ + 1]}
     \/ /\ row[g].state = "granted" /\ Expired(g) /\ UNCHANGED left
        /\ row' = [row EXCEPT ![g].state = "expired", ![g].events = @ \cup {"expired"}]
     \/ row[g].state # "granted" /\ UNCHANGED <<row, left>>
  /\ UNCHANGED <<now, provider, key, until, escrow, sealing, claims, credential, retired>>

(* The provider's share is redeemed with the provider.                      *)
RedeemEscrow(g) ==
  /\ escrow[g] = "held" /\ Exists(g) /\ ~Expired(g)
  /\ escrow' = [escrow EXCEPT ![g] = "taken"]
  /\ UNCHANGED <<now, provider, key, until, row, sealing, claims, credential, retired, left, redeeming>>

----------------------------------------------------------------------------
Revoked(r, ack) == [state |-> IF r.state = "granted" THEN "revoked" ELSE r.state,
                    cleaned |-> r.cleaned \/ ack, events |-> r.events \cup {"revoked"}]

(* By a person, or because the result was not delivered.                    *)
Revoke(g, ack) ==
  /\ Exists(g) /\ row' = [row EXCEPT ![g] = Revoked(@, ack)]
  /\ escrow' = [escrow EXCEPT ![g] = Gone(g, ack)]
  /\ UNCHANGED <<now, provider, key, until, sealing, claims, credential, retired, left, redeeming>>

(* The provider has answered and the transaction is lost.                   *)
RevokeLost(g) ==
  /\ Exists(g) /\ escrow[g] = "held" /\ escrow' = [escrow EXCEPT ![g] = "gone"]
  /\ UNCHANGED <<now, provider, key, until, row, sealing, claims, credential, retired, left, redeeming>>

Live(g) == row[g].state \in {"granted", "redeemed"} /\ ~Expired(g) /\ "revoked" \notin row[g].events

(* The project takes another provider.  Each live grant is revoked with the *)
(* one it was sealed with; the first that does not answer ends it.          *)
SwitchProvider(done) ==
  /\ done \subseteq {g \in Grant : Live(g)} /\ provider < MaxSwitches
  /\ row' = [g \in Grant |-> IF g \in done
                             THEN [Revoked(row[g], TRUE) EXCEPT !.state = "revoked"] ELSE row[g]]
  /\ escrow' = [g \in Grant |-> Gone(g, g \in done)]
  /\ provider' = IF done = {g \in Grant : Live(g)} THEN provider + 1 ELSE provider
  /\ UNCHANGED <<now, key, until, sealing, claims, credential, retired, left, redeeming>>

(* A credential is revoked with its grants; the provider is left to the     *)
(* sweep.                                                                   *)
RevokeCredential(a) ==
  /\ a \notin credential /\ credential' = credential \cup {a}
  /\ row' = [g \in Grant |->
       IF claims[g].alias = a /\ Exists(g) /\ (row[g].state = "granted" \/ ~row[g].cleaned \/ Live(g))
       THEN Revoked(row[g], FALSE) ELSE row[g]]
  /\ UNCHANGED <<now, provider, key, until, escrow, sealing, claims, retired, left, redeeming>>

(* A legacy alias retires when every escrow of its has been revoked.        *)
RetireAlias(a, acked) ==
  LET due == {g \in Grant : claims[g].alias = a /\ Exists(g) /\ ~row[g].cleaned} IN
  /\ a \in Legacy \ retired /\ (now >= GraceEnds \/ a \in credential) /\ acked \subseteq due
  /\ row' = [g \in Grant |-> IF g \in due THEN Revoked(row[g], g \in acked) ELSE row[g]]
  /\ escrow' = [g \in Grant |-> Gone(g, g \in acked)]
  /\ retired' = IF acked = due THEN retired \cup {a} ELSE retired
  /\ UNCHANGED <<now, provider, key, until, sealing, claims, credential, left, redeeming>>

(* Mutant: a revoked grant is not due, its share being gone.                *)
DueUnrevoked(g) == Exists(g) /\ (~row[g].cleaned \/ row[g].state = "granted") /\ row[g].state # "revoked"

(* pending_release_cleanup                                                  *)
Due(g) == Exists(g) /\ (~row[g].cleaned \/ row[g].state = "granted")

(* The sweep, every second: what has expired, been taken or been revoked is *)
(* cleaned up with the provider.                                            *)
Sweep(g, ack) ==
  /\ Due(g)
  /\ LET over == Expired(g) /\ row[g].state = "granted"
         seen == (IF over THEN {"expired"} ELSE {}) \cup (IF escrow[g] = "taken" THEN {"provider_redeemed"} ELSE {})
         clean == /\ ack /\ ~row[g].cleaned
                  /\ Expired(g) \/ escrow[g] = "taken" \/ row[g].state = "revoked" \/ "revoked" \in row[g].events
     IN /\ row' = [row EXCEPT ![g] = [state |-> IF over THEN "expired" ELSE @.state,
                                      cleaned |-> @.cleaned \/ clean, events |-> @.events \cup seen]]
        /\ escrow' = [escrow EXCEPT ![g] = Gone(g, clean)]
  /\ UNCHANGED <<now, provider, key, until, sealing, claims, credential, retired, left, redeeming>>

(* Mutant: an old key verifies for what it has signed and saved.            *)
VerifyUntilSaved == LET last == {claims[g].exp : g \in {h \in Grant : Exists(h)}} IN
  CHOOSE t \in {now} \cup last : \A u \in {now} \cup last : u <= t

(* An old key verifies for as long as a grant of its may live, one that is  *)
(* signed and not yet saved included.                                       *)
VerifyUntil == LET last == {now + Ttl} \cup {claims[g].exp : g \in {h \in Grant : Exists(h)}} IN
  CHOOSE t \in last : \A u \in last : u <= t

RotateKey ==
  /\ key < MaxKeys /\ key' = key + 1 /\ until' = [until EXCEPT ![key] = VerifyUntil]
  /\ UNCHANGED <<now, provider, row, escrow, sealing, claims, credential, retired, left, redeeming>>

Next ==
  \/ Tick \/ RotateKey
  \/ \E g \in Grant, a \in Alias : Escrow(g, a)
  \/ \E g \in Grant : Sign(g) \/ Issue(g) \/ IssueFails(g) \/ BeginRedeem(g) \/ Redeem(g)
                      \/ RedeemEscrow(g) \/ RevokeLost(g)
  \/ \E g \in Grant, ack \in BOOLEAN : Abandon(g, ack) \/ Revoke(g, ack) \/ Sweep(g, ack)
  \/ \E done \in SUBSET Grant : SwitchProvider(done)
  \/ \E a \in Alias : RevokeCredential(a)
  \/ \E a \in Alias, acked \in SUBSET Grant : RetireAlias(a, acked)

(* The sweep's timer goes on, time passes and the provider answers now and  *)
(* then.                                                                    *)
Fairness == WF_vars(Tick) /\ \A g \in Grant : SF_vars(Sweep(g, TRUE))
Spec == Init /\ [][Next]_vars /\ Fairness

----------------------------------------------------------------------------
(* A share leaves once, and never after its grant was revoked, its          *)
(* credential was or its time was up: whatever redemptions were under way.  *)
ShareLeavesOnce ==
  [][\A g \in Grant : left'[g] # left[g] =>
       /\ left'[g] = 1 /\ "redeemed" \in row'[g].events
       /\ "revoked" \notin row[g].events /\ ~Expired(g) /\ claims[g].alias \notin credential]_vars

(* The provider's share of an issued grant is not held for ever.            *)
EscrowsEnd == \A g \in Grant : Exists(g) /\ escrow[g] = "held" ~> escrow[g] # "held"

(* A grant that can be redeemed has a key that verifies it, however the     *)
(* keys were rotated around its sealing.                                    *)
LiveGrantsVerify == \A g \in Grant : row[g].state = "granted" /\ ~Expired(g) => Verifies(claims[g].key)
=============================================================================
