-------------------------- MODULE IdentityBinding --------------------------
(***************************************************************************)
(* A pool credential is bound to the certificate of the first device that  *)
(* proves who it is: it redeems, with the custody provider, a nonce        *)
(* escrowed for it.  The provider is never asked under a lock, so between  *)
(* the escrow and the transaction that keeps its challenge anything may    *)
(* happen to the credential.                                               *)
(***************************************************************************)
EXTENDS Integers, FiniteSets

CONSTANTS Device, MaxChallenges, MaxResets

VARIABLES bound,      \* the device of the certificate, or none
          status,     \* "unbound" | "pending" | "bound" | "reset"
          challenge,  \* the outstanding challenge's number, 0: none
          revoked, approval,
          made,       \* challenges escrowed, in order: whom for
          escrow,     \* of each: "held" | "expired" | "gone"
          knows,      \* nonces a device has
          told,       \* challenges a device was answered
          attempt,    \* a device's request
          answer,     \* "none" | "in" | "refused"
          tries,      \* how often a challenge was proven, rightly or not
          by,         \* the challenge the binding rests on
          epoch,      \* resets before a challenge was kept
          resets
vars == <<bound, status, challenge, revoked, approval, made, escrow, knows, told,
          attempt, answer, tries, by, epoch, resets>>

Nobody == "none"
Ids == 1..MaxChallenges
Idle == [pc |-> "idle", proof |-> 0, prepared |-> 0]
Made == {i \in Ids : made[i] # Nobody}

TypeOK ==
  /\ bound \in Device \cup {Nobody} /\ status \in {"unbound", "pending", "bound", "reset"}
  /\ challenge \in 0..MaxChallenges /\ made \in [Ids -> Device \cup {Nobody}]
  /\ escrow \in [Ids -> {"held", "expired", "gone"}]
  /\ {knows[d] : d \in Device} \cup {told[d] : d \in Device} \subseteq SUBSET Ids
  /\ answer \in [Device -> {"none", "in", "refused"}] /\ tries \in [Ids -> 0..2]

Init ==
  /\ bound = Nobody /\ status = "unbound" /\ challenge = 0 /\ revoked = FALSE /\ approval \in BOOLEAN
  /\ made = [i \in Ids |-> Nobody] /\ escrow = [i \in Ids |-> "gone"]
  /\ knows = [d \in Device |-> {}] /\ told = [d \in Device |-> {}]
  /\ attempt = [d \in Device |-> Idle] /\ answer = [d \in Device |-> "none"]
  /\ tries = [i \in Ids |-> 0] /\ by = 0 /\ epoch = [i \in Ids |-> 0] /\ resets = 0

End(d, said) == attempt' = [attempt EXCEPT ![d] = Idle] /\ answer' = [answer EXCEPT ![d] = said]
Verdict(d) == IF bound = d /\ status = "bound" THEN "in" ELSE "refused"
Outstanding == challenge # 0 /\ escrow[challenge] # "expired"

(* A request.  An established credential is answered from its own row; any  *)
(* other takes the longer way, with a proof or without.                     *)
Authenticate(d) ==
  /\ attempt[d] = Idle
  /\ \/ /\ revoked \/ bound # Nobody
        /\ End(d, IF revoked THEN "refused" ELSE Verdict(d))
     \/ /\ ~revoked /\ bound = Nobody /\ UNCHANGED answer
        /\ \E proof \in knows[d] \cup {0} :
             attempt' = [attempt EXCEPT ![d] = [Idle EXCEPT !.pc = IF proof = 0 THEN "preview" ELSE "commit",
                                                            !.proof = proof]]
  /\ UNCHANGED <<bound, status, challenge, revoked, approval, made, escrow, knows, told, tries, by, epoch, resets>>

(* Outside any lock: a nonce for the device, or none when the credential    *)
(* looks taken, another challenge is outstanding or the provider fails.     *)
Escrow(d) ==
  /\ attempt[d].pc = "preview"
  /\ \/ /\ ~revoked /\ bound = Nobody /\ ~Outstanding
        /\ \E i \in Ids : /\ i = Cardinality(Made) + 1
                          /\ made' = [made EXCEPT ![i] = d] /\ escrow' = [escrow EXCEPT ![i] = "held"]
                          /\ attempt' = [attempt EXCEPT ![d].pc = "commit", ![d].prepared = i]
     \/ attempt' = [attempt EXCEPT ![d].pc = "commit"] /\ UNCHANGED <<made, escrow>>
  /\ UNCHANGED <<bound, status, challenge, revoked, approval, knows, told, answer, tries, by, epoch, resets>>

Unneeded(d) == IF attempt[d].prepared = 0 THEN {escrow}
               ELSE {escrow, [escrow EXCEPT ![attempt[d].prepared] = "gone"]}

(* Under the pool's and the credential's lock: no longer to be bound.  The  *)
(* escrow made in vain is revoked, if the provider answers.                 *)
TooLate(d) ==
  /\ attempt[d].pc = "commit" /\ (revoked \/ bound # Nobody)
  /\ End(d, IF revoked THEN "refused" ELSE Verdict(d)) /\ escrow' \in Unneeded(d)
  /\ UNCHANGED <<bound, status, challenge, revoked, approval, made, knows, told, tries, by, epoch, resets>>

(* No proof: the challenge is kept, unless one is outstanding.  The answer  *)
(* that tells of it may be lost.                                            *)
Challenge(d) ==
  /\ attempt[d].pc = "commit" /\ attempt[d].proof = 0 /\ ~revoked /\ bound = Nobody /\ End(d, "refused")
  /\ LET i == attempt[d].prepared IN
     \/ /\ i # 0 /\ ~Outstanding /\ challenge' = i /\ epoch' = [epoch EXCEPT ![i] = resets]
        /\ told' \in {told, [told EXCEPT ![d] = @ \cup {i}]} /\ UNCHANGED escrow
     \/ /\ (i = 0 \/ Outstanding) /\ escrow' \in Unneeded(d) /\ UNCHANGED <<challenge, epoch, told>>
  /\ UNCHANGED <<bound, status, revoked, approval, made, knows, tries, by, resets>>

(* Mutant: a nonce is enough, whoever brings it.                            *)
ValidFromAnyone(d) == challenge = attempt[d].proof /\ escrow[challenge] # "expired"

Valid(d) == challenge = attempt[d].proof /\ made[challenge] = d /\ escrow[challenge] # "expired"

(* Mutant: only a proof that holds uses the challenge up.                   *)
ConsumedIfValid(d) == IF Valid(d) THEN 0 ELSE challenge

Consumed(d) == 0

(* A proof uses the challenge up, and binds if it holds.                    *)
Prove(d) ==
  /\ attempt[d].pc = "commit" /\ attempt[d].proof # 0 /\ ~revoked /\ bound = Nobody
  /\ challenge' = Consumed(d)
  /\ tries' = IF challenge # 0 THEN [tries EXCEPT ![challenge] = IF @ < 2 THEN @ + 1 ELSE 2] ELSE tries
  /\ IF Valid(d)
     THEN /\ bound' = d /\ by' = challenge /\ status' = IF approval THEN "pending" ELSE "bound"
          /\ End(d, IF approval THEN "refused" ELSE "in")
     ELSE End(d, "refused") /\ UNCHANGED <<bound, by, status>>
  /\ UNCHANGED <<revoked, approval, made, escrow, knows, told, epoch, resets>>

(* The device redeems its nonce with the provider; it may hand it on.       *)
RedeemNonce(d, i) ==
  /\ i \in told[d] /\ escrow[i] = "held" /\ made[i] = d
  /\ escrow' = [escrow EXCEPT ![i] = "gone"] /\ knows' = [knows EXCEPT ![d] = @ \cup {i}]
  /\ UNCHANGED <<bound, status, challenge, revoked, approval, made, told, attempt, answer, tries, by, epoch, resets>>
HandOn(d, e, i) ==
  /\ i \in knows[d] \ knows[e] /\ knows' = [knows EXCEPT ![e] = @ \cup {i}]
  /\ UNCHANGED <<bound, status, challenge, revoked, approval, made, escrow, told, attempt, answer, tries, by, epoch, resets>>

Expire(i) ==
  /\ i \in Made /\ escrow[i] # "expired" /\ escrow' = [escrow EXCEPT ![i] = "expired"]
  /\ UNCHANGED <<bound, status, challenge, revoked, approval, made, knows, told, attempt, answer, tries, by, epoch, resets>>

----------------------------------------------------------------------------
Approve ==
  /\ ~revoked /\ status = "pending" /\ status' = "bound"
  /\ UNCHANGED <<bound, challenge, revoked, approval, made, escrow, knows, told, attempt, answer, tries, by, epoch, resets>>

(* Mutant: the outstanding challenge is left.                               *)
ResetKeeping ==
  /\ ~revoked /\ resets < MaxResets /\ resets' = resets + 1
  /\ status' = "reset" /\ bound' = Nobody /\ by' = 0
  /\ UNCHANGED <<challenge, revoked, approval, made, escrow, knows, told, attempt, answer, tries, epoch>>

Reset ==
  /\ ~revoked /\ resets < MaxResets /\ resets' = resets + 1
  /\ status' = "reset" /\ bound' = Nobody /\ challenge' = 0 /\ by' = 0
  /\ UNCHANGED <<revoked, approval, made, escrow, knows, told, attempt, answer, tries, epoch>>

RevokeCredential ==
  /\ ~revoked /\ revoked' = TRUE
  /\ UNCHANGED <<bound, status, challenge, approval, made, escrow, knows, told, attempt, answer, tries, by, epoch, resets>>

Next ==
  \/ \E d \in Device : Authenticate(d) \/ Escrow(d) \/ TooLate(d) \/ Challenge(d) \/ Prove(d)
  \/ \E d \in Device, i \in Ids : RedeemNonce(d, i) \/ \E e \in Device : HandOn(d, e, i)
  \/ \E i \in Ids : Expire(i)
  \/ Approve \/ Reset \/ RevokeCredential
Spec == Init /\ [][Next]_vars

----------------------------------------------------------------------------
(* A binding is earned: it rests on a challenge that was made for the       *)
(* device it names, kept after the last reset, and tried once.              *)
BindingIsEarned ==
  /\ bound # Nobody => by # 0 /\ made[by] = bound /\ epoch[by] = resets
  /\ \A i \in Ids : tries[i] <= 1
=============================================================================
