------------------------------ MODULE Membership ------------------------------
(***************************************************************************)
(* Who belongs to one project: its creator, whoever accepts an invitation  *)
(* (tenancy/infrastructure/invitation-repository.ts), and nobody who has   *)
(* been removed (tenancy/infrastructure/remove-member.ts).                 *)
(*                                                                         *)
(* A membership is a row of project_member and a grant in SpiceDB.  Both   *)
(* operations write the grant inside the transaction of the row, before    *)
(* its commit; the creator's grant is a row of the relationship outbox     *)
(* that some dispatcher writes after it.  Removing and inviting lock the   *)
(* project's row, which an insert of a member waits for.                   *)
(***************************************************************************)
EXTENDS Naturals, Sequences, FiniteSets

CONSTANTS Person, Worker, Invite, None

VARIABLES
  role,      \* person -> project_member.role, or "none"
  inCompany, \* persons with a row in company_member
  invitation,\* invite -> to whom, as what, and whether "pending", "accepted" or "none"
  grant,     \* <<person, role>> in SpiceDB
  pending,   \* the creator's unwritten outbox row: <<creator, "admin">>, or <<>>
  tx,        \* worker -> its transaction
  torn,      \* persons of whom a commit failed after a write to SpiceDB
  gaveUp     \* bound: a commit has failed

vars == <<role, inCompany, invitation, grant, pending, tx, torn, gaveUp>>

Tx(does, p, as, left) == [does |-> does, p |-> p, as |-> as, invite |-> None, left |-> left]
NoTx == Tx("nothing", None, "none", 0)

Init ==
  \E creator \in Person :
    /\ role = [p \in Person |-> IF p = creator THEN "admin" ELSE "none"]
    /\ inCompany \in SUBSET Person
    /\ invitation = [i \in Invite |-> [to |-> None, as |-> "none", state |-> "none"]]
    /\ grant = {} /\ pending = <<creator, "admin">>
    /\ tx = [w \in Worker |-> NoTx] /\ torn = {} /\ gaveUp = FALSE

Busy(kinds) == \E w \in Worker : tx[w].does \in kinds
Idle(w) == tx[w].does = "nothing"
Ends(w) == tx' = [tx EXCEPT ![w] = NoTx]

-------------------------------------------------------------------------------
(* create and revoke.  The project's row is locked, nothing else is open.   *)
Create(i, p, as) ==
  /\ invitation[i].state = "none" /\ ~Busy({"removing", "accepting"})
  /\ role[p] = "none"
  /\ invitation' = [invitation EXCEPT ![i] = [to |-> p, as |-> as, state |-> "pending"]]
  /\ UNCHANGED <<role, inCompany, grant, pending, tx, torn, gaveUp>>

Revoke(i) ==
  /\ invitation[i].state = "pending" /\ \A w \in Worker : tx[w].invite # i
  /\ invitation' = [invitation EXCEPT ![i].state = "revoked"]
  /\ UNCHANGED <<role, inCompany, grant, pending, tx, torn, gaveUp>>

\* Mutant of AcceptBegins: an accepted invitation is as good as a pending one.
AcceptAgain(w, i) ==
  /\ Idle(w) /\ \A v \in Worker : tx[v].invite # i
  /\ ~Busy({"removing"}) /\ invitation[i].state \in {"pending", "accepted"} /\ role[invitation[i].to] = "none"
  /\ \A v \in Worker : tx[v].p # invitation[i].to
  /\ tx' = [tx EXCEPT ![w] = [does |-> "accepting", p |-> invitation[i].to, as |-> invitation[i].as,
                              invite |-> i, left |-> 1]]
  /\ UNCHANGED <<role, inCompany, invitation, grant, pending, torn, gaveUp>>

(* accept: the invitation is locked and pending, and the member's row is    *)
(* inserted, which two at once for one person cannot.                       *)
AcceptBegins(w, i) ==
  /\ Idle(w) /\ \A v \in Worker : tx[v].invite # i
  /\ ~Busy({"removing"}) /\ invitation[i].state = "pending" /\ role[invitation[i].to] = "none"
  /\ \A v \in Worker : tx[v].does = "accepting" => tx[v].p # invitation[i].to
  /\ tx' = [tx EXCEPT ![w] = [does |-> "accepting", p |-> invitation[i].to, as |-> invitation[i].as,
                              invite |-> i, left |-> 1]]
  /\ UNCHANGED <<role, inCompany, invitation, grant, pending, torn, gaveUp>>

Accepted(w) ==
  LET t == tx[w] IN
  /\ t.does = "accepting" /\ t.left = 0
  /\ role' = [role EXCEPT ![t.p] = t.as]
  /\ invitation' = [invitation EXCEPT ![t.invite].state = "accepted"]
  /\ Ends(w)
  /\ UNCHANGED <<inCompany, grant, pending, torn, gaveUp>>

-------------------------------------------------------------------------------
(* remove *)

\* Mutant of Alone: removals do not wait for each other.
AloneWithinPerson(p) == \A w \in Worker : tx[w].p # p

(* The lock of the project's row: no other removal, no insert of a member.  *)
Alone(p) == ~Busy({"removing", "accepting"})

LastAdmin(p) == {q \in Person : role[q] = "admin"} = {p}

\* Mutant of RemoveBegins: the creator's outbox row is left to its dispatcher.
RemoveWithoutReplay(w, p) ==
  /\ Idle(w) /\ Alone(p) /\ role[p] # "none"
  /\ LastAdmin(p) => p \in inCompany
  /\ tx' = [tx EXCEPT ![w] = Tx("removing", p, role[p], 1)]
  /\ UNCHANGED <<role, inCompany, invitation, grant, pending, torn, gaveUp>>

(* The person's unwritten row, which a dispatcher may not be holding, is    *)
(* replayed before the deletion.                                            *)
RemoveBegins(w, p) ==
  LET own == pending = <<p, role[p]>> IN
  /\ Idle(w) /\ Alone(p) /\ role[p] # "none"
  /\ own => ~Busy({"dispatching"})
  /\ LastAdmin(p) => p \in inCompany
  /\ tx' = [tx EXCEPT ![w] = Tx("removing", p, role[p], IF own THEN 2 ELSE 1)]
  /\ UNCHANGED <<role, inCompany, invitation, grant, pending, torn, gaveUp>>

Removed(w) ==
  LET t == tx[w] IN
  /\ t.does = "removing" /\ t.left = 0
  /\ role' = [role EXCEPT ![t.p] = "none"]
  /\ pending' = IF pending = <<t.p, t.as>> THEN << >> ELSE pending
  /\ Ends(w)
  /\ UNCHANGED <<inCompany, invitation, grant, torn, gaveUp>>

-------------------------------------------------------------------------------
(* dispatchOne, of the creator's row; SKIP LOCKED passes a held one over.   *)
DispatchBegins(w) ==
  /\ Idle(w) /\ pending # << >> /\ ~Busy({"dispatching"})
  /\ \A v \in Worker : tx[v].does = "removing" => <<tx[v].p, tx[v].as>> # pending
  /\ tx' = [tx EXCEPT ![w] = Tx("dispatching", pending[1], pending[2], 1)]
  /\ UNCHANGED <<role, inCompany, invitation, grant, pending, torn, gaveUp>>

Dispatched(w) ==
  /\ tx[w].does = "dispatching" /\ tx[w].left = 0
  /\ pending' = << >> /\ Ends(w)
  /\ UNCHANGED <<role, inCompany, invitation, grant, torn, gaveUp>>

(* A transaction writes to SpiceDB: touches, and last a removal's deletion. *)
Writes(w) ==
  LET t == tx[w] IN
  /\ t.left > 0
  /\ tx' = [tx EXCEPT ![w].left = @ - 1]
  /\ grant' = IF t.does = "removing" /\ t.left = 1 THEN grant \ {<<t.p, t.as>>}
              ELSE grant \union {<<t.p, t.as>>}
  /\ UNCHANGED <<role, inCompany, invitation, pending, torn, gaveUp>>

(* SpiceDB does not answer, or the connection is lost: everything is rolled *)
(* back but what SpiceDB has already taken.                                 *)
Fails(w) ==
  /\ ~Idle(w) /\ ~gaveUp /\ gaveUp' = TRUE
  /\ torn' = IF tx[w].does = "dispatching" THEN torn ELSE torn \union {tx[w].p}
  /\ Ends(w)
  /\ UNCHANGED <<role, inCompany, invitation, grant, pending>>

Next ==
  \/ \E i \in Invite, p \in Person, as \in {"admin", "viewer"} : Create(i, p, as)
  \/ \E i \in Invite : Revoke(i)
  \/ \E w \in Worker :
       \/ \E i \in Invite : AcceptBegins(w, i)
       \/ \E p \in Person : RemoveBegins(w, p)
       \/ Accepted(w) \/ Removed(w) \/ DispatchBegins(w) \/ Dispatched(w)
       \/ Writes(w) \/ Fails(w)

Spec == Init /\ [][Next]_vars

-------------------------------------------------------------------------------
TypeOK ==
  /\ role \in [Person -> {"none", "admin", "viewer"}]
  /\ inCompany \subseteq Person /\ torn \subseteq Person
  /\ grant \subseteq Person \X {"admin", "viewer"}

Quiet(p) == p \notin torn /\ (pending = << >> \/ pending[1] # p) /\ \A w \in Worker : tx[w].p # p

(* RowsAndGrantsAgree: when nothing is under way about a person, SpiceDB    *)
(* grants exactly what the row says: a removed member does not come back    *)
(* through a grant that was written late, nor through an old invitation.    *)
RowsAndGrantsAgree ==
  \A p \in Person : Quiet(p) =>
    {as \in {"admin", "viewer"} : <<p, as>> \in grant} = {role[p]} \ {"none"}

(* AdministratorRemains: removals, also at once, leave the project somebody *)
(* who administers it directly or has access through the company.           *)
AdministratorRemains == \E p \in Person : role[p] = "admin" \/ p \in inCompany

(* ReinvitedOnly: a membership that has ended comes back only through an    *)
(* invitation that was still pending.                                       *)
ReinvitedOnly ==
  [][ \A p \in Person : role[p] = "none" /\ role'[p] # "none"
        => \E i \in Invite : invitation[i].to = p /\ invitation[i].state = "pending" ]_vars

(* GrantsNothingUntilAccepted: docs/implementation-plan.md:115, "An         *)
(* invitation grants nothing until accepted".                               *)
GrantsNothingUntilAccepted ==
  \A i \in Invite, as \in {"admin", "viewer"} :
    invitation[i].state = "pending" /\ (\A w \in Worker : tx[w].p # invitation[i].to) /\ role[invitation[i].to] = "none"
      => <<invitation[i].to, as>> \notin grant
===============================================================================
