--------------------------- MODULE AdmissionProofs ---------------------------
(***************************************************************************)
(* Proofs about who gets in, for any number of persons, workers,           *)
(* invitations, requests, sessions and devices.  Each of the six modules   *)
(* that MCAdmission composes has an invariant of its own here; a step of   *)
(* the composition is a step of one of them and leaves the others alone.   *)
(***************************************************************************)
EXTENDS MCAdmission, FiniteSetTheorems, SequenceTheorems, TLAPS

-----------------------------------------------------------------------------
(* Membership.  What is granted to a person follows from the row, the       *)
(* creator's unwritten outbox row and the transaction that is about it.     *)

Given == {"admin", "viewer"}

InvitationShape ==
  /\ invitation \in [Invitation -> [to : Person \cup {None}, as : {"none"} \cup Given,
                                    state : {"none", "pending", "accepted", "revoked"}]]
  /\ \A i \in Invitation : invitation[i].state = "pending" => invitation[i].to \in Person /\ invitation[i].as \in Given

MembershipShape ==
  /\ role \in [Person -> {"none"} \cup Given]
  /\ InvitationShape
  /\ tx \in [Worker -> [does : {"nothing", "removing", "accepting", "dispatching"}, p : Person \cup {None},
                        as : {"none"} \cup Given, invite : Invitation \cup {None}, left : 0..2]]
  /\ pending = << >> \/ \E p \in Person : pending = <<p, "admin">> /\ role[p] = "admin"

(* A removal is about a member, an acceptance about somebody who is none,   *)
(* a dispatcher about the unwritten row.                                    *)
TransactionsStand ==
  \A w \in Worker :
    LET t == tx[w] IN
    /\ t.does = "nothing" => t.left = 0
    /\ t.does # "nothing" => t.p \in Person /\ t.as \in Given
    /\ t.does = "accepting" => role[t.p] = "none" /\ t.left <= 1
    /\ t.does = "removing" => role[t.p] = t.as
    /\ t.does = "removing" /\ t.left = 2 => pending = <<t.p, t.as>>
    /\ t.does = "dispatching" => pending = <<t.p, t.as>> /\ t.left <= 1

(* The lock of the project's row, of the member's row and of the outbox row. *)
LocksHold ==
  \A v, w \in Worker : v # w =>
    /\ tx[v].does = "removing" => tx[w].does \notin {"removing", "accepting"}
    /\ tx[v].does = "accepting" /\ tx[w].does = "accepting" => tx[v].p # tx[w].p
    /\ tx[v].does = "dispatching" => tx[w].does # "dispatching"
    /\ tx[v].does = "dispatching" /\ tx[w].does = "removing" => tx[v].p # tx[w].p

Undisturbed(p) == \A w \in Worker : tx[w].does \in {"removing", "accepting"} => tx[w].p # p

GrantFollows(p, as) ==
    /\ Undisturbed(p) /\ pending # <<p, "admin">> => (<<p, as>> \in grant <=> role[p] = as)
    /\ pending = <<p, "admin">> /\ as = "viewer" => <<p, as>> \notin grant
    /\ \A w \in Worker : tx[w].p = p =>
         /\ tx[w].does = "accepting" => (<<p, as>> \in grant <=> tx[w].left = 0 /\ tx[w].as = as)
         /\ tx[w].does = "removing" => (<<p, as>> \in grant => tx[w].left # 0 /\ tx[w].as = as)
         /\ tx[w].does = "removing" /\ tx[w].left = 1 /\ tx[w].as = as => <<p, as>> \in grant
         /\ tx[w].does = "dispatching" /\ tx[w].left = 0 /\ tx[w].as = as => <<p, as>> \in grant

GrantsFollow == \A p \in Person \ torn, as \in Given : GrantFollows(p, as)

(* Nobody removes the last who can administer the project.                  *)
SomebodyIsLeft ==
  /\ Members!AdministratorRemains
  /\ \A w \in Worker : tx[w].does = "removing" /\ Members!LastAdmin(tx[w].p) => tx[w].p \in inCompany

MembershipInv ==
  /\ MembershipShape /\ TransactionsStand /\ LocksHold /\ GrantsFollow /\ SomebodyIsLeft

LEMMA MembershipInitially == Members!Init => MembershipInv
<1> SUFFICES ASSUME Members!Init PROVE MembershipInv
  OBVIOUS
<1>1. PICK creator \in Person :
        /\ role = [p \in Person |-> IF p = creator THEN "admin" ELSE "none"]
        /\ pending = <<creator, "admin">>
  BY DEF Members!Init
<1>2. /\ inCompany \in SUBSET Person /\ grant = {} /\ torn = {}
      /\ invitation = [i \in Invitation |-> [to |-> None, as |-> "none", state |-> "none"]]
      /\ tx = [w \in Worker |-> [does |-> "nothing", p |-> None, as |-> "none", invite |-> None, left |-> 0]]
  BY DEF Members!Init, Members!NoTx, Members!Tx
<1>3. MembershipShape
  BY <1>1, <1>2 DEF MembershipShape, InvitationShape, Given
<1>4. TransactionsStand /\ LocksHold
  BY <1>2 DEF TransactionsStand, LocksHold
<1>5. GrantsFollow
  <2> SUFFICES ASSUME NEW p \in Person, NEW as \in Given PROVE GrantFollows(p, as)
    BY DEF GrantsFollow
  <2>1. p # creator => role[p] = "none"
    BY <1>1
  <2>2. p = creator => pending = <<p, "admin">>
    BY <1>1
  <2>3. as # "none" /\ <<p, as>> \notin grant
    BY <1>2 DEF Given
  <2>4. \A w \in Worker : tx[w].does = "nothing"
    BY <1>2
  <2>5. QED
    BY <2>1, <2>2, <2>3, <2>4 DEF GrantFollows
<1>6. SomebodyIsLeft
  BY <1>1, <1>2 DEF SomebodyIsLeft, Members!AdministratorRemains
<1>7. QED
  BY <1>3, <1>4, <1>5, <1>6 DEF MembershipInv

(* The unwritten row is an administrator's, and so is its dispatcher's.      *)
LEMMA UnwrittenIsAnAdmins ==
  ASSUME MembershipInv
  PROVE  /\ \A q, a : pending = <<q, a>> => q \in Person /\ a = "admin" /\ role[q] = "admin"
         /\ \A w \in Worker : tx[w].does = "dispatching" =>
              /\ pending = <<tx[w].p, "admin">> /\ tx[w].as = "admin" /\ role[tx[w].p] = "admin"
<1>1. ASSUME NEW q, NEW a, pending = <<q, a>>
      PROVE  q \in Person /\ a = "admin" /\ role[q] = "admin"
  <2>1. pending # << >>
    BY <1>1
  <2>2. PICK p \in Person : pending = <<p, "admin">> /\ role[p] = "admin"
    BY <2>1 DEF MembershipInv, MembershipShape
  <2>3. pending[1] = p /\ pending[1] = q /\ pending[2] = "admin" /\ pending[2] = a
    BY <2>2, <1>1
  <2>4. QED
    BY <2>2, <2>3
<1>2. ASSUME NEW w \in Worker, tx[w].does = "dispatching"
      PROVE  pending = <<tx[w].p, "admin">> /\ tx[w].as = "admin" /\ role[tx[w].p] = "admin"
  <2>1. pending = <<tx[w].p, tx[w].as>>
    BY <1>2 DEF MembershipInv, TransactionsStand
  <2>2. QED
    BY <2>1, <1>1
<1>3. QED
  BY <1>1, <1>2

(* The creation and the end of an invitation touch nobody's grant.          *)
LEMMA InvitationsAside ==
  ASSUME MembershipInv, InvitationShape', UNCHANGED <<role, inCompany, grant, pending, tx, torn>>
  PROVE  MembershipInv'
  BY DEF MembershipInv, MembershipShape, TransactionsStand, LocksHold, GrantsFollow, GrantFollows, Undisturbed,
         SomebodyIsLeft, Members!AdministratorRemains, Members!LastAdmin

LEMMA InvitationBegins ==
  ASSUME MembershipInv, NEW i \in Invitation, NEW p \in Person, NEW as \in Given, Members!Create(i, p, as)
  PROVE  MembershipInv'
<1>1. /\ invitation' = [invitation EXCEPT ![i] = [to |-> p, as |-> as, state |-> "pending"]]
      /\ UNCHANGED <<role, inCompany, grant, pending, tx, torn>>
  BY DEF Members!Create
<1>2. InvitationShape'
  BY <1>1 DEF MembershipInv, MembershipShape, InvitationShape
<1>3. QED
  BY <1>1, <1>2, InvitationsAside

LEMMA InvitationEnds ==
  ASSUME MembershipInv, NEW i \in Invitation, Members!Revoke(i)
  PROVE  MembershipInv'
<1>1. /\ invitation' = [invitation EXCEPT ![i].state = "revoked"]
      /\ UNCHANGED <<role, inCompany, grant, pending, tx, torn>>
  BY DEF Members!Revoke
<1>2. InvitationShape'
  BY <1>1 DEF MembershipInv, MembershipShape, InvitationShape
<1>3. QED
  BY <1>1, <1>2, InvitationsAside

(* A person accepts.                                                        *)
LEMMA AcceptanceBegins ==
  ASSUME MembershipInv, NEW w \in Worker, NEW i \in Invitation, Members!AcceptBegins(w, i)
  PROVE  MembershipInv'
<1> DEFINE p == invitation[i].to  as == invitation[i].as
           t == [does |-> "accepting", p |-> p, as |-> as, invite |-> i, left |-> 1]
<1>1. /\ p \in Person /\ as \in Given /\ role[p] = "none" /\ tx[w].does = "nothing"
      /\ \A v \in Worker : tx[v].does # "removing" /\ (tx[v].does = "accepting" => tx[v].p # p)
      /\ tx' = [tx EXCEPT ![w] = t]
      /\ UNCHANGED <<role, inCompany, invitation, grant, pending, torn>>
  BY DEF MembershipInv, MembershipShape, InvitationShape, Members!AcceptBegins, Members!Idle, Members!Busy
<1>2. MembershipShape'
  BY <1>1 DEF MembershipInv, MembershipShape, InvitationShape, Given
<1>3. tx'[w] = t /\ \A v \in Worker \ {w} : tx'[v] = tx[v]
  BY <1>1 DEF MembershipInv, MembershipShape
<1>4. TransactionsStand'
  BY <1>1, <1>3 DEF MembershipInv, TransactionsStand
<1>5. LocksHold'
  BY <1>1, <1>3 DEF MembershipInv, LocksHold
<1>6. GrantsFollow'
  <2> SUFFICES ASSUME NEW q \in Person \ torn, NEW a \in Given PROVE GrantFollows(q, a)'
    BY <1>1 DEF GrantsFollow
  <2>1. GrantFollows(q, a)
    BY DEF MembershipInv, GrantsFollow
  <2>2. CASE q = p
    <3>1. pending # <<q, "admin">>
      BY <2>2, <1>1, UnwrittenIsAnAdmins
    <3>2. <<q, a>> \notin grant
      BY <3>1, <2>1, <2>2, <1>1 DEF GrantFollows, Undisturbed, Given
    <3>3. \A v \in Worker \ {w} : tx[v].does \notin {"nothing"} => tx[v].p # q
      BY <2>2, <1>1, UnwrittenIsAnAdmins DEF MembershipInv, MembershipShape
    <3>4. ~ Undisturbed(q)'
      BY <2>2, <1>1, <1>3 DEF Undisturbed
    <3>5. \A v \in Worker : tx'[v].p = q /\ tx'[v].does # "nothing" => tx'[v] = t
      BY <3>3, <1>3
    <3>6. QED
      BY <3>1, <3>2, <3>4, <3>5, <1>1 DEF GrantFollows
  <2>3. CASE q # p
    BY <2>1, <2>3, <1>1, <1>3 DEF GrantFollows, Undisturbed
  <2>4. QED
    BY <2>2, <2>3
<1>7. SomebodyIsLeft'
  BY <1>1, <1>3 DEF MembershipInv, SomebodyIsLeft, Members!AdministratorRemains, Members!LastAdmin
<1>8. QED
  BY <1>2, <1>4, <1>5, <1>6, <1>7 DEF MembershipInv

LEMMA AcceptanceEnds ==
  ASSUME MembershipInv, NEW w \in Worker, Members!Accepted(w)
  PROVE  MembershipInv'
<1> DEFINE t == tx[w]
<1>1. /\ t.does = "accepting" /\ t.left = 0 /\ t.p \in Person /\ t.as \in Given /\ role[t.p] = "none"
      /\ role' = [role EXCEPT ![t.p] = t.as]
      /\ tx' = [tx EXCEPT ![w] = Members!NoTx]
      /\ invitation' = [invitation EXCEPT ![t.invite].state = "accepted"]
      /\ UNCHANGED <<inCompany, grant, pending, torn>>
  BY DEF MembershipInv, TransactionsStand, Members!Accepted, Members!Ends
<1>2. MembershipShape'
  <2>1. InvitationShape'
    <3>1. CASE t.invite \in Invitation
      BY <3>1, <1>1 DEF MembershipInv, MembershipShape, InvitationShape
    <3>2. CASE t.invite \notin Invitation
      <4>1. invitation' = invitation
        BY <3>2, <1>1 DEF MembershipInv, MembershipShape, InvitationShape
      <4>2. QED
        BY <4>1 DEF MembershipInv, MembershipShape, InvitationShape
    <3>3. QED
      BY <3>1, <3>2
  <2>2. role' \in [Person -> {"none"} \cup Given]
    BY <1>1 DEF MembershipInv, MembershipShape
  <2>3. pending' = << >> \/ \E p \in Person : pending' = <<p, "admin">> /\ role'[p] = "admin"
    BY <1>1 DEF MembershipInv, MembershipShape
  <2>4. tx' \in [Worker -> [does : {"nothing", "removing", "accepting", "dispatching"}, p : Person \cup {None},
                            as : {"none"} \cup Given, invite : Invitation \cup {None}, left : 0..2]]
    BY <1>1 DEF MembershipInv, MembershipShape, Members!NoTx, Members!Tx
  <2>5. QED
    BY <2>1, <2>2, <2>3, <2>4 DEF MembershipShape
<1>3. tx'[w] = Members!NoTx /\ \A v \in Worker \ {w} : tx'[v] = tx[v]
  BY <1>1 DEF MembershipInv, MembershipShape
<1>4. /\ role'[t.p] = t.as /\ \A q \in Person \ {t.p} : role'[q] = role[q]
  BY <1>1 DEF MembershipInv, MembershipShape
<1>5. TransactionsStand'
  BY <1>1, <1>3, <1>4 DEF MembershipInv, MembershipShape, TransactionsStand, LocksHold, Members!NoTx, Members!Tx
<1>6. LocksHold'
  BY <1>3 DEF MembershipInv, LocksHold, Members!NoTx, Members!Tx
<1>7. GrantsFollow'
  <2> SUFFICES ASSUME NEW q \in Person \ torn, NEW a \in Given PROVE GrantFollows(q, a)'
    BY <1>1 DEF GrantsFollow
  <2>1. GrantFollows(q, a)
    BY DEF MembershipInv, GrantsFollow
  <2>2. CASE q = t.p
    <3>1. pending # <<q, "admin">>
      BY <2>2, <1>1, UnwrittenIsAnAdmins
    <3>2. <<q, a>> \in grant <=> t.as = a
      BY <2>1, <2>2, <1>1 DEF GrantFollows
    <3>3. \A v \in Worker : tx'[v].does # "nothing" => tx'[v].p # q
      BY <2>2, <1>1, <1>3, UnwrittenIsAnAdmins DEF MembershipInv, MembershipShape, LocksHold, Members!NoTx, Members!Tx
    <3>4. QED
      BY <3>1, <3>2, <3>3, <2>2, <1>1, <1>4 DEF GrantFollows, Undisturbed
  <2>3. CASE q # t.p
    BY <2>1, <2>3, <1>1, <1>3, <1>4 DEF GrantFollows, Undisturbed, Members!NoTx, Members!Tx
  <2>4. QED
    BY <2>2, <2>3
<1>8. SomebodyIsLeft'
  BY <1>1, <1>3, <1>4 DEF MembershipInv, MembershipShape, TransactionsStand, LocksHold, SomebodyIsLeft,
                           Members!AdministratorRemains, Members!NoTx, Members!Tx
<1>9. QED
  BY <1>2, <1>5, <1>6, <1>7, <1>8 DEF MembershipInv

(* A removal begins.  A row that is the person's own is replayed first.     *)
LEMMA RemovalBegins ==
  ASSUME MembershipInv, NEW w \in Worker, NEW p \in Person, Members!RemoveBegins(w, p)
  PROVE  MembershipInv'
<1> DEFINE own == pending = <<p, role[p]>>
           t == [does |-> "removing", p |-> p, as |-> role[p], invite |-> None, left |-> IF own THEN 2 ELSE 1]
<1>1. /\ role[p] \in Given /\ tx[w].does = "nothing"
      /\ \A v \in Worker : tx[v].does \notin {"removing", "accepting"}
      /\ own => \A v \in Worker : tx[v].does # "dispatching"
      /\ Members!LastAdmin(p) => p \in inCompany
      /\ tx' = [tx EXCEPT ![w] = t]
      /\ UNCHANGED <<role, inCompany, invitation, grant, pending, torn>>
  <2>1. role[p] \in Given
    BY DEF MembershipInv, MembershipShape, Members!RemoveBegins
  <2>2. QED
    BY <2>1 DEF Members!RemoveBegins, Members!Alone, Members!Idle, Members!Busy, Members!Tx
<1>2. tx'[w] = t /\ \A v \in Worker \ {w} : tx'[v] = tx[v]
  BY <1>1 DEF MembershipInv, MembershipShape
<1>3. \A v \in Worker : tx[v].does # "nothing" => tx[v].p # p
  BY <1>1, UnwrittenIsAnAdmins DEF MembershipInv, MembershipShape
<1>4. MembershipShape'
  BY <1>1 DEF MembershipInv, MembershipShape, InvitationShape, Given
<1>5. TransactionsStand'
  BY <1>1, <1>2 DEF MembershipInv, TransactionsStand
<1>6. LocksHold'
  BY <1>1, <1>2, <1>3 DEF MembershipInv, LocksHold
<1>7. GrantsFollow'
  <2> SUFFICES ASSUME NEW q \in Person \ torn, NEW a \in Given PROVE GrantFollows(q, a)'
    BY <1>1 DEF GrantsFollow
  <2>1. GrantFollows(q, a)
    BY DEF MembershipInv, GrantsFollow
  <2>2. CASE q = p
    <3>1. Undisturbed(q)
      BY <1>1 DEF Undisturbed
    <3>2. own <=> pending = <<q, "admin">>
      BY <2>2, UnwrittenIsAnAdmins
    <3>3. <<q, a>> \in grant => role[q] = a
      BY <3>1, <3>2, <2>1, <2>2, UnwrittenIsAnAdmins DEF GrantFollows, Given
    <3>4. ~own /\ role[q] = a => <<q, a>> \in grant
      BY <3>1, <3>2, <2>1 DEF GrantFollows
    <3>5. ~Undisturbed(q)'
      BY <2>2, <1>2 DEF Undisturbed
    <3>6. \A v \in Worker : tx'[v].p = q /\ tx'[v].does # "nothing" => tx'[v] = t
      BY <2>2, <1>2, <1>3
    <3>7. QED
      BY <3>3, <3>4, <3>5, <3>6, <2>1, <2>2, <1>1 DEF GrantFollows
  <2>3. CASE q # p
    BY <2>1, <2>3, <1>1, <1>2 DEF GrantFollows, Undisturbed
  <2>4. QED
    BY <2>2, <2>3
<1>8. SomebodyIsLeft'
  BY <1>1, <1>2 DEF MembershipInv, SomebodyIsLeft, Members!AdministratorRemains, Members!LastAdmin
<1>9. QED
  BY <1>4, <1>5, <1>6, <1>7, <1>8 DEF MembershipInv

(* It commits: the row is gone, and the person's unwritten row with it.     *)
LEMMA RemovalEnds ==
  ASSUME MembershipInv, NEW w \in Worker, Members!Removed(w)
  PROVE  MembershipInv'
<1> DEFINE t == tx[w]
<1>1. /\ t.does = "removing" /\ t.left = 0 /\ t.p \in Person /\ t.as \in Given /\ role[t.p] = t.as
      /\ role' = [role EXCEPT ![t.p] = "none"]
      /\ pending' = IF pending = <<t.p, t.as>> THEN << >> ELSE pending
      /\ tx' = [tx EXCEPT ![w] = Members!NoTx]
      /\ UNCHANGED <<inCompany, invitation, grant, torn>>
  BY DEF MembershipInv, TransactionsStand, Members!Removed, Members!Ends
<1>2. tx'[w] = Members!NoTx /\ \A v \in Worker \ {w} : tx'[v] = tx[v]
  BY <1>1 DEF MembershipInv, MembershipShape
<1>3. /\ role'[t.p] = "none" /\ \A q \in Person \ {t.p} : role'[q] = role[q]
      /\ role' \in [Person -> {"none"} \cup Given]
  BY <1>1 DEF MembershipInv, MembershipShape
<1>4. /\ \A q, a : pending' = <<q, a>> <=> pending = <<q, a>> /\ q # t.p
      /\ pending' # << >> => pending' = pending
  <2>1. CASE pending = <<t.p, t.as>>
    <3>1. \A q, a : pending = <<q, a>> => q = t.p
      <4> TAKE q, a
      <4> HAVE pending = <<q, a>>
      <4>1. pending[1] = q /\ pending[1] = t.p
        BY <2>1
      <4>2. QED
        BY <4>1
    <3>2. QED
      BY <3>1, <2>1, <1>1
  <2>2. CASE pending # <<t.p, t.as>>
    <3>1. pending' = pending
      BY <2>2, <1>1
    <3>2. ASSUME NEW q, NEW a, pending = <<q, a>> PROVE q # t.p
      BY <3>2, <2>2, <1>1, UnwrittenIsAnAdmins
    <3>3. QED
      BY <3>1, <3>2
  <2>3. QED
    BY <2>1, <2>2
<1>5. \A v \in Worker \ {w} : tx[v].does \in {"nothing", "dispatching"} /\ (tx[v].does = "dispatching" => tx[v].p # t.p)
  BY <1>1 DEF MembershipInv, MembershipShape, LocksHold
<1>6. MembershipShape'
  <2>1. InvitationShape'
    BY <1>1 DEF MembershipInv, MembershipShape, InvitationShape
  <2>2. pending' = << >> \/ \E q \in Person : pending' = <<q, "admin">> /\ role'[q] = "admin"
    BY <1>3, <1>4 DEF MembershipInv, MembershipShape
  <2>3. tx' \in [Worker -> [does : {"nothing", "removing", "accepting", "dispatching"}, p : Person \cup {None},
                            as : {"none"} \cup Given, invite : Invitation \cup {None}, left : 0..2]]
    BY <1>1 DEF MembershipInv, MembershipShape, Members!NoTx, Members!Tx
  <2>4. QED
    BY <2>1, <2>2, <2>3, <1>3 DEF MembershipShape
<1>7. TransactionsStand'
  <2>1. \A v \in Worker : tx'[v].does = "dispatching" => v # w /\ pending' = <<tx[v].p, tx[v].as>>
    <3> SUFFICES ASSUME NEW v \in Worker, tx'[v].does = "dispatching"
                 PROVE  v # w /\ pending' = <<tx[v].p, tx[v].as>>
      OBVIOUS
    <3>1. v # w /\ tx[v].does = "dispatching"
      BY <1>2 DEF Members!NoTx, Members!Tx
    <3>2. pending = <<tx[v].p, tx[v].as>> /\ tx[v].p # t.p
      BY <3>1, <1>5 DEF MembershipInv, TransactionsStand
    <3>3. QED
      BY <3>1, <3>2, <1>4
  <2>2. QED
    BY <2>1, <1>2, <1>5 DEF MembershipInv, TransactionsStand, Members!NoTx, Members!Tx
<1>8. LocksHold'
  BY <1>2 DEF MembershipInv, LocksHold, Members!NoTx, Members!Tx
<1>9. GrantsFollow'
  <2> SUFFICES ASSUME NEW q \in Person \ torn, NEW a \in Given PROVE GrantFollows(q, a)'
    BY <1>1 DEF GrantsFollow
  <2>1. GrantFollows(q, a)
    BY DEF MembershipInv, GrantsFollow
  <2>2. CASE q = t.p
    <3>1. <<q, a>> \notin grant
      BY <2>1, <2>2, <1>1 DEF GrantFollows
    <3>2. \A v \in Worker : tx'[v].does # "nothing" => tx'[v].p # q
      BY <2>2, <1>2, <1>5 DEF Members!NoTx, Members!Tx
    <3>3. pending' # <<q, "admin">>
      BY <2>2, <1>4
    <3>4. QED
      BY <3>1, <3>2, <3>3, <2>2, <1>1, <1>3 DEF GrantFollows, Given
  <2>3. CASE q # t.p
    BY <2>1, <2>3, <1>1, <1>2, <1>3, <1>4 DEF GrantFollows, Undisturbed, Members!NoTx, Members!Tx
  <2>4. QED
    BY <2>2, <2>3
<1>10. SomebodyIsLeft'
  <2>1. CASE Members!LastAdmin(t.p)
    BY <2>1, <1>1, <1>2, <1>5 DEF MembershipInv, SomebodyIsLeft, Members!AdministratorRemains, Members!NoTx, Members!Tx
  <2>2. CASE ~Members!LastAdmin(t.p)
    BY <2>2, <1>1, <1>2, <1>3, <1>5 DEF MembershipInv, SomebodyIsLeft, Members!AdministratorRemains,
                                        Members!LastAdmin, Members!NoTx, Members!Tx
  <2>3. QED
    BY <2>1, <2>2
<1>11. QED
  BY <1>6, <1>7, <1>8, <1>9, <1>10 DEF MembershipInv

(* The unwritten row is taken up, written and marked.                       *)
LEMMA DispatchBegins ==
  ASSUME MembershipInv, NEW w \in Worker, Members!DispatchBegins(w)
  PROVE  MembershipInv'
<1>1. PICK p \in Person : pending = <<p, "admin">> /\ role[p] = "admin"
  BY DEF MembershipInv, MembershipShape, Members!DispatchBegins
<1> DEFINE t == [does |-> "dispatching", p |-> p, as |-> "admin", invite |-> None, left |-> 1]
<1>2. /\ tx[w].does = "nothing"
      /\ \A v \in Worker : tx[v].does # "dispatching" /\ (tx[v].does = "removing" => <<tx[v].p, tx[v].as>> # pending)
      /\ tx' = [tx EXCEPT ![w] = t]
      /\ UNCHANGED <<role, inCompany, invitation, grant, pending, torn>>
  <2>1. pending[1] = p /\ pending[2] = "admin"
    BY <1>1
  <2>2. QED
    BY <2>1 DEF Members!DispatchBegins, Members!Idle, Members!Busy, Members!Tx
<1>3. tx'[w] = t /\ \A v \in Worker \ {w} : tx'[v] = tx[v]
  BY <1>2 DEF MembershipInv, MembershipShape
<1>4. \A v \in Worker : tx[v].does # "nothing" => tx[v].p # p
  BY <1>1, <1>2 DEF MembershipInv, MembershipShape, TransactionsStand
<1>5. MembershipShape'
  BY <1>1, <1>2 DEF MembershipInv, MembershipShape, InvitationShape, Given
<1>6. TransactionsStand'
  BY <1>1, <1>2, <1>3 DEF MembershipInv, TransactionsStand, Given
<1>7. LocksHold'
  BY <1>2, <1>3, <1>4 DEF MembershipInv, LocksHold
<1>8. GrantsFollow'
  <2> SUFFICES ASSUME NEW q \in Person \ torn, NEW a \in Given PROVE GrantFollows(q, a)'
    BY <1>2 DEF GrantsFollow
  <2>1. GrantFollows(q, a)
    BY DEF MembershipInv, GrantsFollow
  <2>2. QED
    BY <2>1, <1>2, <1>3 DEF GrantFollows, Undisturbed
<1>9. SomebodyIsLeft'
  BY <1>2, <1>3 DEF MembershipInv, SomebodyIsLeft, Members!AdministratorRemains, Members!LastAdmin
<1>10. QED
  BY <1>5, <1>6, <1>7, <1>8, <1>9 DEF MembershipInv

LEMMA DispatchEnds ==
  ASSUME MembershipInv, NEW w \in Worker, Members!Dispatched(w)
  PROVE  MembershipInv'
<1> DEFINE t == tx[w]
<1>1. /\ t.does = "dispatching" /\ t.left = 0 /\ pending = <<t.p, "admin">> /\ t.as = "admin" /\ role[t.p] = "admin"
      /\ t.p \in Person
      /\ pending' = << >>
      /\ tx' = [tx EXCEPT ![w] = Members!NoTx]
      /\ UNCHANGED <<role, inCompany, invitation, grant, torn>>
  BY UnwrittenIsAnAdmins DEF Members!Dispatched, Members!Ends
<1>2. tx'[w] = Members!NoTx /\ \A v \in Worker \ {w} : tx'[v] = tx[v]
  BY <1>1 DEF MembershipInv, MembershipShape
<1>3. \A q, a : pending = <<q, a>> => q = t.p
  <2> TAKE q, a
  <2> HAVE pending = <<q, a>>
  <2>1. pending[1] = q /\ pending[1] = t.p
    BY <1>1
  <2>2. QED
    BY <2>1
<1>4. \A v \in Worker \ {w} : tx[v].does # "nothing" => tx[v].p # t.p /\ tx[v].does # "dispatching"
  BY <1>1 DEF MembershipInv, MembershipShape, TransactionsStand, LocksHold
<1>5. MembershipShape'
  BY <1>1 DEF MembershipInv, MembershipShape, InvitationShape, Members!NoTx, Members!Tx
<1>6. TransactionsStand'
  BY <1>1, <1>2, <1>3, <1>4 DEF MembershipInv, TransactionsStand, Members!NoTx, Members!Tx
<1>7. LocksHold'
  BY <1>2 DEF MembershipInv, LocksHold, Members!NoTx, Members!Tx
<1>8. GrantsFollow'
  <2> SUFFICES ASSUME NEW q \in Person \ torn, NEW a \in Given PROVE GrantFollows(q, a)'
    BY <1>1 DEF GrantsFollow
  <2>1. GrantFollows(q, a)
    BY DEF MembershipInv, GrantsFollow
  <2>2. CASE q = t.p
    <3>1. <<q, a>> \in grant <=> a = "admin"
      BY <2>1, <2>2, <1>1 DEF GrantFollows, Given
    <3>2. \A v \in Worker : tx'[v].does # "nothing" => tx'[v].p # q
      BY <2>2, <1>2, <1>4 DEF Members!NoTx, Members!Tx
    <3>3. QED
      BY <3>1, <3>2, <2>2, <1>1 DEF GrantFollows, Given
  <2>3. CASE q # t.p
    BY <2>1, <2>3, <1>1, <1>2, <1>3 DEF GrantFollows, Undisturbed, Members!NoTx, Members!Tx
  <2>4. QED
    BY <2>2, <2>3
<1>9. SomebodyIsLeft'
  BY <1>1, <1>2 DEF MembershipInv, SomebodyIsLeft, Members!AdministratorRemains, Members!LastAdmin, Members!NoTx, Members!Tx
<1>10. QED
  BY <1>5, <1>6, <1>7, <1>8, <1>9 DEF MembershipInv

(* A transaction writes to SpiceDB.                                         *)
LEMMA WriteReachesSpiceDB ==
  ASSUME MembershipInv, NEW w \in Worker, Members!Writes(w)
  PROVE  MembershipInv'
<1> DEFINE t == tx[w]  deletes == t.does = "removing" /\ t.left = 1
<1>1. /\ t.does \in {"removing", "accepting", "dispatching"} /\ t.left \in {1, 2} /\ t.p \in Person /\ t.as \in Given
      /\ tx' = [tx EXCEPT ![w].left = @ - 1]
      /\ \A q \in Person, a \in Given : <<q, a>> \in grant' <=>
           IF q = t.p /\ a = t.as THEN ~deletes ELSE <<q, a>> \in grant
      /\ UNCHANGED <<role, inCompany, invitation, pending, torn>>
  BY DEF MembershipInv, MembershipShape, TransactionsStand, Members!Writes
<1>2. /\ tx'[w].left = t.left - 1 /\ tx'[w].does = t.does /\ tx'[w].p = t.p /\ tx'[w].as = t.as
      /\ \A v \in Worker \ {w} : tx'[v] = tx[v]
  BY <1>1 DEF MembershipInv, MembershipShape
<1>3. MembershipShape'
  <2>1. tx' \in [Worker -> [does : {"nothing", "removing", "accepting", "dispatching"}, p : Person \cup {None},
                            as : {"none"} \cup Given, invite : Invitation \cup {None}, left : 0..2]]
    BY <1>1 DEF MembershipInv, MembershipShape
  <2>2. QED
    BY <2>1, <1>1 DEF MembershipInv, MembershipShape, InvitationShape
<1>4. TransactionsStand'
  BY <1>1, <1>2 DEF MembershipInv, TransactionsStand
<1>5. LocksHold'
  <2>1. \A v \in Worker : tx'[v].does = tx[v].does /\ tx'[v].p = tx[v].p
    BY <1>2
  <2>2. QED
    BY <2>1 DEF MembershipInv, LocksHold
<1>6. GrantsFollow'
  <2> SUFFICES ASSUME NEW q \in Person \ torn, NEW a \in Given PROVE GrantFollows(q, a)'
    BY <1>1 DEF GrantsFollow
  <2>1. GrantFollows(q, a)
    BY DEF MembershipInv, GrantsFollow
  <2>2. Undisturbed(q)' <=> Undisturbed(q)
    BY <1>2 DEF Undisturbed
  <2>3. CASE q = t.p
    <3>1. \A v \in Worker \ {w} : tx[v].does # "nothing" => tx[v].p # q
      BY <2>3, <1>1, UnwrittenIsAnAdmins DEF MembershipInv, MembershipShape, TransactionsStand, LocksHold
    <3>2. CASE t.does = "dispatching"
      BY <3>1, <3>2, <2>1, <2>2, <2>3, <1>1, <1>2, UnwrittenIsAnAdmins
      DEF GrantFollows, MembershipInv, TransactionsStand
    <3>3. CASE t.does = "accepting"
      <4>1. pending # <<q, "admin">> /\ ~Undisturbed(q)
        BY <3>3, <2>3, <1>1, UnwrittenIsAnAdmins DEF MembershipInv, TransactionsStand, Undisturbed
      <4>2. t.left = 1
        BY <3>3, <1>1 DEF MembershipInv, TransactionsStand
      <4>3. QED
        BY <4>1, <4>2, <3>1, <3>3, <2>1, <2>2, <2>3, <1>1, <1>2 DEF GrantFollows
    <3>4. CASE t.does = "removing"
      <4>1. ~Undisturbed(q)
        BY <3>4, <2>3 DEF Undisturbed
      <4>2. pending = <<q, "admin">> => t.as = "admin"
        BY <3>4, <2>3, UnwrittenIsAnAdmins DEF MembershipInv, TransactionsStand
      <4>3. QED
        BY <4>1, <4>2, <3>1, <3>4, <2>1, <2>2, <2>3, <1>1, <1>2 DEF GrantFollows
    <3>5. QED
      BY <3>2, <3>3, <3>4, <1>1
  <2>4. CASE q # t.p
    BY <2>1, <2>2, <2>4, <1>1, <1>2 DEF GrantFollows
  <2>5. QED
    BY <2>3, <2>4
<1>7. SomebodyIsLeft'
  BY <1>1, <1>2 DEF MembershipInv, SomebodyIsLeft, Members!AdministratorRemains, Members!LastAdmin
<1>8. QED
  BY <1>3, <1>4, <1>5, <1>6, <1>7 DEF MembershipInv

(* It is rolled back: whoever it was about is torn, if it was no dispatch.  *)
LEMMA TransactionFails ==
  ASSUME MembershipInv, NEW w \in Worker, Members!Fails(w)
  PROVE  MembershipInv'
<1> DEFINE t == tx[w]
<1>1. /\ torn \subseteq torn'
      /\ t.does # "dispatching" => t.p \in torn'
      /\ tx' = [tx EXCEPT ![w] = Members!NoTx]
      /\ UNCHANGED <<role, inCompany, invitation, grant, pending>>
  BY DEF Members!Fails, Members!Ends
<1>2. tx'[w] = Members!NoTx /\ \A v \in Worker \ {w} : tx'[v] = tx[v]
  BY <1>1 DEF MembershipInv, MembershipShape
<1>3. MembershipShape'
  <2>1. tx' \in [Worker -> [does : {"nothing", "removing", "accepting", "dispatching"}, p : Person \cup {None},
                            as : {"none"} \cup Given, invite : Invitation \cup {None}, left : 0..2]]
    BY <1>1 DEF MembershipInv, MembershipShape, Members!NoTx, Members!Tx
  <2>2. QED
    BY <2>1, <1>1 DEF MembershipInv, MembershipShape, InvitationShape
<1>4. TransactionsStand'
  BY <1>1, <1>2 DEF MembershipInv, TransactionsStand, Members!NoTx, Members!Tx
<1>5. LocksHold'
  BY <1>2 DEF MembershipInv, LocksHold, Members!NoTx, Members!Tx
<1>6. GrantsFollow'
  <2> SUFFICES ASSUME NEW q \in Person \ torn', NEW a \in Given PROVE GrantFollows(q, a)'
    BY DEF GrantsFollow
  <2>1. q \in Person \ torn /\ (q = t.p => t.does = "dispatching")
    BY <1>1
  <2>2. GrantFollows(q, a)
    BY <2>1 DEF MembershipInv, GrantsFollow
  <2>3. Undisturbed(q)' <=> Undisturbed(q)
    BY <2>1, <1>2 DEF Undisturbed, Members!NoTx, Members!Tx
  <2>4. QED
    BY <2>2, <2>3, <1>1, <1>2 DEF GrantFollows, Members!NoTx, Members!Tx
<1>7. SomebodyIsLeft'
  BY <1>1, <1>2 DEF MembershipInv, SomebodyIsLeft, Members!AdministratorRemains, Members!LastAdmin,
                    Members!NoTx, Members!Tx
<1>8. QED
  BY <1>3, <1>4, <1>5, <1>6, <1>7 DEF MembershipInv

LEMMA MembershipStep == MembershipInv /\ Members!Next => MembershipInv'
<1> SUFFICES ASSUME MembershipInv, Members!Next PROVE MembershipInv'
  OBVIOUS
<1>1. CASE \E i \in Invitation, p \in Person, as \in {"admin", "viewer"} : Members!Create(i, p, as)
  BY <1>1, InvitationBegins DEF Given
<1>2. CASE \E i \in Invitation : Members!Revoke(i)
  BY <1>2, InvitationEnds
<1>3. ASSUME NEW w \in Worker, NEW i \in Invitation, Members!AcceptBegins(w, i) PROVE MembershipInv'
  BY <1>3, AcceptanceBegins
<1>4. ASSUME NEW w \in Worker, NEW p \in Person, Members!RemoveBegins(w, p) PROVE MembershipInv'
  BY <1>4, RemovalBegins
<1>5. ASSUME NEW w \in Worker, \/ Members!Accepted(w) \/ Members!Removed(w) \/ Members!DispatchBegins(w)
                               \/ Members!Dispatched(w) \/ Members!Writes(w) \/ Members!Fails(w)
      PROVE MembershipInv'
  BY <1>5, AcceptanceEnds, RemovalEnds, DispatchBegins, DispatchEnds, WriteReachesSpiceDB, TransactionFails
<1>6. QED
  BY <1>1, <1>2, <1>3, <1>4, <1>5 DEF Members!Next

LEMMA MembershipAgrees == MembershipInv => RowsAndGrantsAgree
<1> SUFFICES ASSUME MembershipInv PROVE Members!RowsAndGrantsAgree
  BY DEF MembershipInv, SomebodyIsLeft, RowsAndGrantsAgree
<1> SUFFICES ASSUME NEW p \in Person, Members!Quiet(p)
             PROVE  {as \in {"admin", "viewer"} : <<p, as>> \in grant} = {role[p]} \ {"none"}
  BY DEF Members!RowsAndGrantsAgree
<1>1. p \notin torn /\ Undisturbed(p)
  BY DEF Members!Quiet, Undisturbed
<1>2. pending # <<p, "admin">>
  <2>1. pending = <<p, "admin">> => pending # << >> /\ pending[1] = p
    OBVIOUS
  <2>2. QED
    BY <2>1 DEF Members!Quiet
<1>3. \A as \in Given : <<p, as>> \in grant <=> role[p] = as
  BY <1>1, <1>2 DEF MembershipInv, GrantsFollow, GrantFollows
<1>4. role[p] \in {"none"} \cup Given
  BY DEF MembershipInv, MembershipShape
<1>5. QED
  BY <1>3, <1>4 DEF Given

LEMMA MembershipAside == MembershipInv /\ UNCHANGED ofMembers => MembershipInv'
  BY DEF ofMembers, MembershipInv, MembershipShape, InvitationShape, TransactionsStand, LocksHold, GrantsFollow,
         GrantFollows, Undisturbed, SomebodyIsLeft, Members!AdministratorRemains, Members!LastAdmin

(* MembersAreGranted: for any persons, workers and invitations, a person    *)
(* about whom nothing is under way is granted in SpiceDB exactly what the   *)
(* row of project_member says, and somebody who can administer the project  *)
(* remains, however removals, acceptances and dispatchers interleave.       *)
THEOREM MembersAreGranted == Spec => []RowsAndGrantsAgree
<1>1. Init => MembershipInv
  BY MembershipInitially DEF Init
<1>2. MembershipInv /\ [Next]_vars => MembershipInv'
  BY MembershipStep, MembershipAside DEF Next, vars
<1>3. QED
  BY <1>1, <1>2, MembershipAgrees, PTL DEF Spec

-----------------------------------------------------------------------------
(* Links.  What a request has come to tells whether its link and its mail    *)
(* are there; a link that is there leaves none of those it has seen working. *)

Before == {"idle", "expiring", "reading", "healing", "allowed"}
Places == Before \cup {"issuing", "issued", "accepted", "retained", "sent", "failed", "unavailable",
                       "ignored", "limited", "lost"}

AskShape == asked \in [Ask -> [at : Places, sees : SUBSET Ask, waits : {"no", "window", "forever"}]]
LinkShape == link \in [Ask -> [state : {"none", "live", "over"}, device : Device \cup {None}]]
MailShape ==
  /\ counter \in [n : Nat, expires : BOOLEAN]
  /\ outbox \in [Ask -> {"none", "waiting", "dispatched"}] /\ inbox \in [Ask -> Nat]
  /\ prompts \subseteq Ask \X Device /\ entered \subseteq Ask \X Device \X BOOLEAN

RequestStands(r) ==
  LET q == asked[r] IN
  /\ q.at \in Before => q.sees = {}
  /\ q.at \in Before \cup {"issuing"} => link[r].state = "none"
  /\ q.at \in {"issued", "accepted", "retained"} => link[r].state # "none"
  /\ q.at = "accepted" => inbox[r] > 0
  /\ q.at = "sent" => inbox[r] > 0 /\ outbox[r] = "dispatched"
  /\ q.at = "limited" => q.waits = "window"
  /\ inbox[r] > 0 => link[r].state # "none"
  /\ \A t \in q.sees : link[t].state # "none"
  /\ link[r].state # "none" => \A t \in q.sees : link[t].state # "live"

SessionsStand == \A e \in entered : link[e[1]].state # "none" /\ (e[2] # link[e[1]].device => e[3])

LinksInv ==
  /\ AskShape /\ LinkShape /\ MailShape
  /\ \A r \in Ask : RequestStands(r)
  /\ SessionsStand

(* Where a step leaves a request, and all the others as they were.          *)
Now(r, at, sees, waits) ==
  /\ AskShape'
  /\ asked'[r].at = at /\ asked'[r].sees = sees /\ asked'[r].waits = waits
  /\ \A s \in Ask \ {r} : asked'[s] = asked[s]

LEMMA Going ==
  ASSUME AskShape, NEW r \in Ask, NEW p \in Places, Links!Goes(r, p)
  PROVE  Now(r, p, asked[r].sees, asked[r].waits)
  BY DEF AskShape, Now, Links!Goes

LEMMA LinksInitially == Links!Init => LinksInv
<1> SUFFICES ASSUME Links!Init PROVE LinksInv
  OBVIOUS
<1>1. AskShape /\ LinkShape /\ MailShape
  BY DEF Links!Init, Links!NoCounter, AskShape, LinkShape, MailShape, Places, Before
<1>2. \A r \in Ask : RequestStands(r)
  BY DEF Links!Init, RequestStands, Before
<1>3. QED
  BY <1>1, <1>2 DEF LinksInv, Links!Init, SessionsStand

(* A step of one request that touches neither links nor mails.              *)
LEMMA RequestMoves ==
  ASSUME LinksInv, NEW r \in Ask, NEW at, NEW sees, NEW waits, Now(r, at, sees, waits),
         counter' \in [n : Nat, expires : BOOLEAN],
         UNCHANGED <<link, outbox, inbox, prompts, entered>>,
         RequestStands(r)'
  PROVE  LinksInv'
<1>1. AskShape' /\ LinkShape' /\ MailShape'
  BY DEF LinksInv, LinkShape, MailShape, Now
<1>2. ASSUME NEW s \in Ask, s # r PROVE RequestStands(s)'
  BY <1>2 DEF LinksInv, RequestStands, Now
<1>3. SessionsStand'
  BY DEF LinksInv, SessionsStand
<1>4. QED
  BY <1>1, <1>2, <1>3 DEF LinksInv

(* The limiter's commands.                                                  *)
LEMMA CounterCounts ==
  ASSUME LinksInv
  PROVE  /\ [counter EXCEPT !.n = @ + 1] \in [n : Nat, expires : BOOLEAN]
         /\ Links!Expiring(counter) \in [n : Nat, expires : BOOLEAN]
         /\ counter \in [n : Nat, expires : BOOLEAN]
         /\ Links!Expiring(counter).n = 0 \/ Links!Expiring(counter).expires
         /\ ~(counter.n > 0 /\ ~counter.expires) => counter.n = 0 \/ counter.expires
<1>1. counter \in [n : Nat, expires : BOOLEAN]
  BY DEF LinksInv, MailShape
<1>2. [counter EXCEPT !.n = @ + 1] \in [n : Nat, expires : BOOLEAN]
  BY <1>1
<1>3. [counter EXCEPT !.expires = TRUE] \in [n : Nat, expires : BOOLEAN] /\ [counter EXCEPT !.expires = TRUE].expires
  BY <1>1
<1>4. QED
  BY <1>1, <1>2, <1>3 DEF Links!Expiring

LEMMA LimiterMoves ==
  ASSUME LinksInv, NEW r \in Ask, NEW p \in Before,
         asked[r].at \in Before, Links!Goes(r, p),
         counter' \in [n : Nat, expires : BOOLEAN],
         UNCHANGED <<link, outbox, inbox, prompts, entered>>
  PROVE  LinksInv'
<1>1. Now(r, p, asked[r].sees, asked[r].waits)
  BY Going DEF LinksInv, Places
<1>2. RequestStands(r)'
  BY <1>1 DEF LinksInv, RequestStands, Now, Before
<1>3. QED
  BY <1>1, <1>2, RequestMoves

LEMMA LimiterRefuses ==
  ASSUME LinksInv, NEW r \in Ask, NEW c \in [n : Nat, expires : BOOLEAN], c.n = 0 \/ c.expires,
         asked[r].at \in Before, Links!Refuses(r, c),
         UNCHANGED <<link, outbox, inbox, prompts, entered>>
  PROVE  LinksInv'
<1>1. asked' = [asked EXCEPT ![r].at = "limited", ![r].waits = "window"] /\ counter' = c
  BY DEF Links!Refuses
<1>2. Now(r, "limited", asked[r].sees, "window")
  <2>1. AskShape /\ "limited" \in Places
    BY DEF LinksInv, Places
  <2>2. AskShape'
    BY <1>1, <2>1 DEF AskShape
  <2>3. QED
    BY <1>1, <2>1, <2>2 DEF AskShape, Now
<1>3. RequestStands(r)'
  BY <1>2 DEF LinksInv, RequestStands, Now, Before
<1>4. QED
  BY <1>1, <1>2, <1>3, RequestMoves

LEMMA LimiterSteps ==
  ASSUME LinksInv, NEW r \in Ask,
         \/ Links!Incr(r) \/ Links!PExpire(r) \/ Links!PTtl(r) \/ Links!Heal(r) \/ Links!StoreFails(r)
  PROVE  LinksInv'
<1> USE DEF Links!database, Links!mails, Links!At
<1>1. CASE Links!Incr(r)
  <2>1. /\ asked[r].at = "idle" /\ counter' = [counter EXCEPT !.n = @ + 1]
        /\ \E p \in Before : Links!Goes(r, p)
        /\ UNCHANGED <<link, outbox, inbox, prompts, entered>>
    BY <1>1 DEF Links!Incr, Before
  <2>2. QED
    BY <2>1, CounterCounts, LimiterMoves DEF Before
<1>2. CASE Links!PExpire(r)
  BY <1>2, CounterCounts, LimiterMoves DEF Links!PExpire, Before
<1>3. CASE Links!PTtl(r)
  <2>1. CASE counter.n > 0 /\ ~counter.expires
    BY <1>3, <2>1, CounterCounts, LimiterMoves DEF Links!PTtl, Before
  <2>2. CASE ~(counter.n > 0 /\ ~counter.expires)
    BY <1>3, <2>2, CounterCounts, LimiterRefuses DEF Links!PTtl, Before
  <2>3. QED
    BY <2>1, <2>2
<1>4. CASE Links!Heal(r)
  BY <1>4, CounterCounts, LimiterRefuses DEF Links!Heal, Before
<1>5. CASE Links!StoreFails(r)
  BY <1>5, CounterCounts, LimiterMoves DEF Links!StoreFails, Before
<1>6. QED
  BY <1>1, <1>2, <1>3, <1>4, <1>5

(* A request ends, or its transaction looks what links there are.           *)
LEMMA RequestSteps ==
  ASSUME LinksInv, NEW r \in Ask, Links!Ignores(r) \/ Links!Issue(r) \/ Links!Retain(r) \/ Links!Dies(r)
  PROVE  LinksInv'
<1> USE DEF Links!database, Links!mails, Links!At
<1>1. ASSUME NEW p \in {"ignored", "unavailable", "lost"}, Links!Goes(r, p),
             UNCHANGED <<counter, link, outbox, inbox, prompts, entered>>
      PROVE  LinksInv'
  <2>1. Now(r, p, asked[r].sees, asked[r].waits)
    BY <1>1, Going DEF LinksInv, Places
  <2>2. RequestStands(r)'
    BY <1>1, <2>1 DEF LinksInv, RequestStands, Now, Before
  <2>3. QED
    BY <1>1, <2>1, <2>2, RequestMoves DEF LinksInv, MailShape
<1>2. CASE Links!Issue(r)
  <2>1. asked[r].at = "allowed" /\ asked' = [asked EXCEPT ![r].at = "issuing", ![r].sees = Links!Live]
    BY <1>2 DEF Links!Issue
  <2>2. Links!Live \in SUBSET Ask
    BY DEF Links!Live
  <2>3. Now(r, "issuing", Links!Live, asked[r].waits)
    BY <2>1, <2>2 DEF LinksInv, AskShape, Now, Places
  <2>4. RequestStands(r)'
    BY <1>2, <2>1, <2>3 DEF LinksInv, RequestStands, Now, Before, Links!Live, Links!Issue
  <2>5. QED
    BY <1>2, <2>3, <2>4, RequestMoves DEF LinksInv, MailShape, Links!Issue
<1>3. QED
  BY <1>1, <1>2 DEF Links!Ignores, Links!Retain, Links!Dies

(* A link that was not there begins to work, and others may be over.        *)
LEMMA LinkBegins ==
  ASSUME LinksInv, NEW r \in Ask, link[r].state = "none",
         LinkShape', link'[r].state = "live",
         \A t \in Ask \ {r} : /\ link'[t].device = link[t].device
                              /\ link'[t].state = "none" <=> link[t].state = "none"
                              /\ link'[t].state = "live" => link[t].state = "live",
         \A t \in asked[r].sees : link'[t].state # "live",
         outbox' = [outbox EXCEPT ![r] = "waiting"], Links!Goes(r, "issued"),
         UNCHANGED <<counter, inbox, prompts, entered>>
  PROVE  LinksInv'
<1>1. Now(r, "issued", asked[r].sees, asked[r].waits)
  BY Going DEF LinksInv, Places
<1>2. AskShape' /\ MailShape'
  BY <1>1 DEF LinksInv, MailShape, Now
<1>3. \A s \in Ask : asked[s].sees \subseteq Ask \ {r}
  BY DEF LinksInv, AskShape, RequestStands
<1>4. ASSUME NEW s \in Ask, s # r PROVE RequestStands(s)'
  <2>1. asked'[s] = asked[s] /\ outbox'[s] = outbox[s] /\ inbox'[s] = inbox[s]
    BY <1>1, <1>4 DEF Now, LinksInv, MailShape
  <2>2. RequestStands(s)
    BY DEF LinksInv
  <2>3. QED
    BY <2>1, <2>2, <1>3, <1>4 DEF RequestStands
<1>5. RequestStands(r)'
  <2>1. RequestStands(r)
    BY DEF LinksInv
  <2>2. QED
    BY <2>1, <1>1, <1>3 DEF RequestStands, Now, Before
<1>6. SessionsStand'
  BY DEF LinksInv, SessionsStand, MailShape
<1>7. QED
  BY <1>2, <1>4, <1>5, <1>6 DEF LinksInv

LEMMA LinkSteps ==
  ASSUME LinksInv, NEW r \in Ask, Links!Commit(r) \/ Links!Invite(r)
  PROVE  LinksInv'
<1> USE DEF Links!database, Links!mails, Links!At
<1>1. ASSUME NEW device \in Device \cup {None}, NEW spent \in SUBSET Ask, link[r].state = "none",
             \A t \in spent : link[t].state = "live", Links!Writes(r, device, spent)
      PROVE  /\ LinkShape' /\ link'[r].state = "live"
             /\ \A t \in Ask \ {r} : /\ link'[t].device = link[t].device
                                     /\ link'[t].state = "none" <=> link[t].state = "none"
                                     /\ link'[t].state = "live" => link[t].state = "live"
             /\ \A t \in spent : link'[t].state = "over"
  <2>1. LinkShape /\ r \notin spent
    BY <1>1 DEF LinksInv
  <2>2. link' = [t \in Ask |-> IF t = r THEN [state |-> "live", device |-> device]
                               ELSE IF t \in spent THEN [link[t] EXCEPT !.state = "over"] ELSE link[t]]
    BY <1>1, <2>1 DEF Links!Writes
  <2>3. \A t \in Ask : [link[t] EXCEPT !.state = "over"] \in [state : {"none", "live", "over"}, device : Device \cup {None}]
    BY <2>1 DEF LinkShape
  <2>4. LinkShape'
    BY <2>1, <2>2, <2>3 DEF LinkShape
  <2>5. QED
    BY <1>1, <2>1, <2>2, <2>4 DEF LinkShape
<1>2. CASE Links!Commit(r)
  <2> DEFINE spent == asked[r].sees \intersect Links!Live
  <2>1. /\ asked[r].at = "issuing" /\ link[r].state = "none" /\ Links!Writes(r, link[r].device, spent)
        /\ UNCHANGED <<counter, inbox, prompts, entered>>
    BY <1>2 DEF Links!Commit, LinksInv, RequestStands
  <2>2. link[r].device \in Device \cup {None} /\ spent \in SUBSET Ask /\ (\A t \in spent : link[t].state = "live")
    BY DEF LinksInv, LinkShape, Links!Live
  <2>3. \A t \in asked[r].sees : t \in Ask /\ t # r /\ (t \in spent \/ link[t].state # "live")
    BY <2>1 DEF LinksInv, AskShape, RequestStands, Links!Live
  <2>4. outbox' = [outbox EXCEPT ![r] = "waiting"] /\ Links!Goes(r, "issued")
    BY <2>1 DEF Links!Writes
  <2>5. /\ LinkShape' /\ link'[r].state = "live"
        /\ \A t \in Ask \ {r} : /\ link'[t].device = link[t].device
                                /\ link'[t].state = "none" <=> link[t].state = "none"
                                /\ link'[t].state = "live" => link[t].state = "live"
        /\ \A t \in spent : link'[t].state = "over"
    BY <2>1, <2>2, <1>1
  <2> HIDE DEF spent
  <2>6. \A t \in asked[r].sees : link'[t].state # "live"
    BY <2>3, <2>5
  <2>7. QED
    BY <2>1, <2>4, <2>5, <2>6, LinkBegins
<1>3. CASE Links!Invite(r)
  <2>1. /\ asked[r].sees = {} /\ link[r].state = "none" /\ Links!Writes(r, None, {})
        /\ UNCHANGED <<counter, inbox, prompts, entered>>
    BY <1>3 DEF Links!Invite, LinksInv, RequestStands, Before
  <2>2. outbox' = [outbox EXCEPT ![r] = "waiting"] /\ Links!Goes(r, "issued")
    BY <2>1 DEF Links!Writes
  <2>3. /\ LinkShape' /\ link'[r].state = "live"
        /\ \A t \in Ask \ {r} : /\ link'[t].device = link[t].device
                                /\ link'[t].state = "none" <=> link[t].state = "none"
                                /\ link'[t].state = "live" => link[t].state = "live"
    BY <2>1, <1>1
  <2>4. QED
    BY <2>1, <2>2, <2>3, LinkBegins
<1>4. QED
  BY <1>2, <1>3

(* A link is over, if it works: it has expired or has been used.            *)
LEMMA LinkEnds ==
  ASSUME LinksInv, NEW t \in Ask,
         link' = [link EXCEPT ![t].state = IF @ = "live" THEN "over" ELSE @]
  PROVE  /\ LinkShape'
         /\ \A s \in Ask : /\ link'[s].device = link[s].device
                           /\ link'[s].state = "none" <=> link[s].state = "none"
                           /\ link'[s].state = "live" => link[s].state = "live"
<1>1. LinkShape
  BY DEF LinksInv
<1>2. [link[t] EXCEPT !.state = "over"] \in [state : {"none", "live", "over"}, device : Device \cup {None}]
  BY <1>1 DEF LinkShape
<1>3. LinkShape'
  BY <1>1, <1>2 DEF LinkShape
<1>4. QED
  BY <1>1, <1>3 DEF LinkShape

LEMMA LinksOver ==
  ASSUME LinksInv, MailShape', LinkShape',
         \A s \in Ask : /\ link'[s].device = link[s].device
                        /\ link'[s].state = "none" <=> link[s].state = "none"
                        /\ link'[s].state = "live" => link[s].state = "live",
         UNCHANGED <<counter, asked, outbox, inbox>>,
         \A e \in entered' : e \in entered \/ (link[e[1]].state = "live" /\ (e[2] = link[e[1]].device \/ e[3]))
  PROVE  LinksInv'
<1>1. ASSUME NEW s \in Ask PROVE RequestStands(s)'
  <2>1. RequestStands(s) /\ asked[s].sees \subseteq Ask
    BY DEF LinksInv, AskShape
  <2>2. QED
    BY <2>1 DEF RequestStands
<1>2. SessionsStand'
  BY DEF LinksInv, SessionsStand, MailShape
<1>3. AskShape'
  BY DEF LinksInv, AskShape
<1>4. QED
  BY <1>1, <1>2, <1>3 DEF LinksInv

LEMMA Entering ==
  ASSUME LinksInv, NEW t \in Ask, NEW d \in Device, NEW confirmed \in BOOLEAN,
         entered' \in {entered, entered \cup {<<t, d, confirmed>>}},
         entered' # entered => link[t].state = "live" /\ (d = link[t].device \/ confirmed)
  PROVE  /\ entered' \subseteq Ask \X Device \X BOOLEAN
         /\ \A e \in entered' : e \in entered \/ (link[e[1]].state = "live" /\ (e[2] = link[e[1]].device \/ e[3]))
<1> DEFINE x == <<t, d, confirmed>>
<1>1. x \in Ask \X Device \X BOOLEAN /\ x[1] = t /\ x[2] = d /\ x[3] = confirmed
  OBVIOUS
<1>2. entered \subseteq Ask \X Device \X BOOLEAN
  BY DEF LinksInv, MailShape
<1> HIDE DEF x
<1>3. entered' = entered \/ entered' = entered \cup {x}
  BY DEF x
<1>4. QED
  BY <1>1, <1>2, <1>3

LEMMA BrowserSteps ==
  ASSUME LinksInv,
         \/ \E t \in Ask : Links!LinkExpires(t)
         \/ \E d \in Device, t \in Ask : Links!Open(d, t) \/ \E yes \in BOOLEAN : Links!Answer(d, t, yes)
  PROVE  LinksInv'
<1>1. ASSUME NEW t \in Ask, Links!LinkExpires(t) PROVE LinksInv'
  <2>1. link' = [link EXCEPT ![t].state = IF @ = "live" THEN "over" ELSE @]
    BY <1>1 DEF Links!LinkExpires
  <2>2. UNCHANGED <<counter, asked, outbox, inbox, prompts, entered>> /\ MailShape'
    BY <1>1 DEF Links!LinkExpires, Links!mails, LinksInv, MailShape
  <2>3. QED
    BY <2>1, <2>2, LinkEnds, LinksOver
<1>2. ASSUME NEW d \in Device, NEW t \in Ask, Links!Open(d, t) PROVE LinksInv'
  <2>1. link[t].state = "live" /\ UNCHANGED <<counter, asked, outbox, inbox>>
    BY <1>2 DEF Links!Open, Links!Live
  <2>2. CASE link[t].device = d
    <3>1. link' = [link EXCEPT ![t].state = IF @ = "live" THEN "over" ELSE @]
      BY <1>2, <2>1, <2>2 DEF Links!Open
    <3>2. entered' = entered \cup {<<t, d, FALSE>>} /\ UNCHANGED prompts
      BY <1>2, <2>2 DEF Links!Open
    <3>3. /\ entered' \subseteq Ask \X Device \X BOOLEAN
          /\ \A e \in entered' : e \in entered \/ (link[e[1]].state = "live" /\ (e[2] = link[e[1]].device \/ e[3]))
      BY <2>1, <2>2, <3>2, Entering
    <3>4. MailShape'
      BY <2>1, <3>2, <3>3 DEF LinksInv, MailShape
    <3>5. QED
      BY <2>1, <3>1, <3>3, <3>4, LinkEnds, LinksOver
  <2>3. CASE link[t].device # d
    <3>1. UNCHANGED <<link, entered>> /\ prompts' = prompts \cup {<<t, d>>}
      BY <1>2, <2>3 DEF Links!Open
    <3>2. MailShape' /\ LinkShape'
      BY <2>1, <3>1 DEF LinksInv, MailShape, LinkShape
    <3>3. QED
      BY <2>1, <3>1, <3>2, LinksOver
  <2>4. QED
    BY <2>2, <2>3
<1>3. ASSUME NEW d \in Device, NEW t \in Ask, NEW yes \in BOOLEAN, Links!Answer(d, t, yes) PROVE LinksInv'
  <2>1. /\ link' = [link EXCEPT ![t].state = IF @ = "live" THEN "over" ELSE @]
        /\ prompts' = prompts \ {<<t, d>>}
        /\ entered' \in {entered, entered \cup {<<t, d, TRUE>>}}
        /\ entered' # entered => link[t].state = "live"
        /\ UNCHANGED <<counter, asked, outbox, inbox>>
    BY <1>3 DEF Links!Answer, Links!Live
  <2>2. /\ entered' \subseteq Ask \X Device \X BOOLEAN
        /\ \A e \in entered' : e \in entered \/ (link[e[1]].state = "live" /\ (e[2] = link[e[1]].device \/ e[3]))
    BY <2>1, Entering
  <2>3. MailShape'
    BY <2>1, <2>2 DEF LinksInv, MailShape
  <2>4. QED
    BY <2>1, <2>2, <2>3, LinkEnds, LinksOver
<1>4. QED
  BY <1>1, <1>2, <1>3

(* The mail is handed over, and the row marked.                             *)
LEMMA MailSteps ==
  ASSUME LinksInv, NEW r \in Ask, Links!Send(r) \/ Links!Record(r)
  PROVE  LinksInv'
<1>1. ASSUME NEW p \in Places \ (Before \cup {"issuing", "limited"}),
             asked[r].at \in {"issued", "accepted"}, Links!Goes(r, p),
             p \in {"accepted", "sent"} => inbox'[r] > 0, p = "sent" => outbox'[r] = "dispatched",
             outbox' \in [Ask -> {"none", "waiting", "dispatched"}], inbox' \in [Ask -> Nat],
             \A s \in Ask \ {r} : outbox'[s] = outbox[s] /\ inbox'[s] = inbox[s],
             UNCHANGED <<counter, link, prompts, entered>>
      PROVE  LinksInv'
  <2>1. Now(r, p, asked[r].sees, asked[r].waits)
    BY <1>1, Going DEF LinksInv
  <2>2. AskShape' /\ LinkShape' /\ MailShape'
    BY <1>1, <2>1 DEF LinksInv, LinkShape, MailShape, Now
  <2>3. ASSUME NEW s \in Ask, s # r PROVE RequestStands(s)'
    BY <1>1, <2>1, <2>3 DEF LinksInv, RequestStands, Now
  <2>4. RequestStands(r)'
    BY <1>1, <2>1 DEF LinksInv, RequestStands, Now, Before
  <2>5. SessionsStand'
    BY <1>1 DEF LinksInv, SessionsStand
  <2>6. QED
    BY <2>2, <2>3, <2>4, <2>5 DEF LinksInv
<1>2. outbox \in [Ask -> {"none", "waiting", "dispatched"}] /\ inbox \in [Ask -> Nat] /\ inbox[r] \in Nat
  BY DEF LinksInv, MailShape
<1>3. CASE Links!Send(r)
  <2>1. /\ asked[r].at = "issued" /\ UNCHANGED <<counter, link, outbox, prompts, entered>>
        /\ \/ Links!Goes(r, "accepted") /\ inbox' = [inbox EXCEPT ![r] = @ + 1]
           \/ Links!Goes(r, "retained") /\ inbox' \in {inbox, [inbox EXCEPT ![r] = @ + 1]}
    BY <1>3 DEF Links!Send, Links!At, Links!database
  <2>2. inbox' \in [Ask -> Nat] /\ \A s \in Ask \ {r} : inbox'[s] = inbox[s]
    BY <1>2, <2>1
  <2>3. \/ Links!Goes(r, "accepted") /\ inbox'[r] > 0
        \/ Links!Goes(r, "retained")
    BY <1>2, <2>1
  <2>4. QED
    BY <1>1, <1>2, <2>1, <2>2, <2>3 DEF Places, Before
<1>4. CASE Links!Record(r)
  <2>1. /\ asked[r].at = "accepted" /\ UNCHANGED <<counter, link, inbox, prompts, entered>>
        /\ \/ Links!Goes(r, "sent") /\ outbox' = [outbox EXCEPT ![r] = "dispatched"]
           \/ Links!Goes(r, "failed") /\ UNCHANGED outbox
    BY <1>4 DEF Links!Record, Links!At, Links!mails
  <2>2. inbox[r] > 0
    BY <2>1 DEF LinksInv, RequestStands
  <2>3. QED
    BY <1>1, <1>2, <2>1, <2>2 DEF Places, Before
<1>5. QED
  BY <1>3, <1>4

LEMMA LinksStep == LinksInv /\ Links!Next => LinksInv'
<1> SUFFICES ASSUME LinksInv, Links!Next PROVE LinksInv'
  OBVIOUS
<1>1. CASE Links!WindowEnds
  <2>1. counter' = Links!NoCounter /\ UNCHANGED <<asked, link, outbox, inbox, prompts, entered>>
    BY <1>1 DEF Links!WindowEnds, Links!database, Links!mails
  <2>2. MailShape' /\ AskShape' /\ LinkShape'
    BY <2>1 DEF LinksInv, MailShape, AskShape, LinkShape, Links!NoCounter
  <2>3. QED
    BY <2>1, <2>2 DEF LinksInv, RequestStands, SessionsStand
<1>2. ASSUME NEW r \in Ask,
             \/ Links!Incr(r) \/ Links!PExpire(r) \/ Links!PTtl(r) \/ Links!Heal(r) \/ Links!StoreFails(r)
             \/ Links!Ignores(r) \/ Links!Issue(r) \/ Links!Commit(r) \/ Links!Invite(r) \/ Links!LinkExpires(r)
             \/ Links!Send(r) \/ Links!Record(r) \/ Links!Retain(r) \/ Links!Dies(r)
      PROVE  LinksInv'
  BY <1>2, LimiterSteps, RequestSteps, LinkSteps, BrowserSteps, MailSteps
<1>3. QED
  BY <1>1, <1>2, BrowserSteps DEF Links!Next

LEMMA LinksAside == LinksInv /\ UNCHANGED ofLinks => LinksInv'
  BY DEF ofLinks, LinksInv, AskShape, LinkShape, MailShape, RequestStands, SessionsStand

LEMMA LinksPromise == LinksInv => Links!EarlierIsSpent /\ Links!AnsweredMeansMailed /\ Links!RefusalsEnd
  BY DEF LinksInv, RequestStands, SessionsStand, AskShape,
         Links!EarlierIsSpent, Links!AnsweredMeansMailed, Links!RefusalsEnd, Links!Live, Links!At

-----------------------------------------------------------------------------
(* Companies.  A key has made a company for each answer that was kept for    *)
(* it, and whoever is creating one under it holds its lock and found none.   *)

Stages == {"idle", "creating", "conflict", "saved", "dispatched", "unsure", "answered", "unavailable"}

RequestShape == request \in [Request -> [key : Key, body : Body, at : Stages, company : Company \cup {None}]]
CompanyShape ==
  /\ made \in [Company -> Key \cup Claim \cup {None}]
  /\ prior \in [Key -> [company : Company \cup {None}, body : Body \cup {None}]]
  /\ lapsed \in [Key -> Nat]

Creating(r) == request[r].at = "creating"
KeysHeld ==
  \A r \in Request : Creating(r) =>
    /\ prior[request[r].key].company = None
    /\ \A q \in Request : Creating(q) /\ q # r => request[q].key # request[r].key

MadeFor(k) == {c \in Company : made[c] = k}
Kept(k) == IF prior[k].company = None THEN 0 ELSE 1
CompaniesCounted == \A k \in Key : Cardinality(MadeFor(k)) = lapsed[k] + Kept(k)

InstallationInv ==
  /\ RequestShape /\ CompanyShape /\ KeysHeld /\ CompaniesCounted
  /\ Claims!AnsweredMeansGranted

(* Where a step leaves a request, and all the others as they were.          *)
RequestNow(r, at, company_of) ==
  /\ RequestShape'
  /\ request'[r].at = at /\ request'[r].company = company_of
  /\ \A s \in Request : /\ request'[s].key = request[s].key
                        /\ s # r => request'[s] = request[s]

LEMMA RequestGoes ==
  ASSUME RequestShape, NEW r \in Request, NEW p \in Stages
  PROVE  /\ Claims!Moves(r, p) => RequestNow(r, p, request[r].company)
         /\ \A c \in Company \cup {None} :
              request' = [request EXCEPT ![r].at = p, ![r].company = c] => RequestNow(r, p, c)
<1>1. Claims!Moves(r, p) => RequestNow(r, p, request[r].company)
  BY DEF RequestShape, RequestNow, Claims!Moves
<1>2. ASSUME NEW c \in Company \cup {None}, request' = [request EXCEPT ![r].at = p, ![r].company = c]
      PROVE  RequestNow(r, p, c)
  <2>1. RequestShape'
    BY <1>2 DEF RequestShape
  <2>2. QED
    BY <1>2, <2>1 DEF RequestShape, RequestNow
<1>3. QED
  BY <1>1, <1>2

LEMMA InstallationInitially == Claims!Init => InstallationInv
<1> SUFFICES ASSUME Claims!Init PROVE InstallationInv
  OBVIOUS
<1>1. RequestShape /\ \A r \in Request : request[r].at = "idle"
  BY DEF Claims!Init, RequestShape, Stages
<1>2. CompanyShape
  BY DEF Claims!Init, Claims!NoAnswer, CompanyShape
<1>3. ASSUME NEW k \in Key PROVE MadeFor(k) = {} /\ lapsed[k] = 0 /\ Kept(k) = 0
  BY AdmissionAssumption DEF Claims!Init, Claims!NoAnswer, MadeFor, Kept
<1>4. CompaniesCounted
  BY <1>3, FS_EmptySet DEF CompaniesCounted
<1>5. QED
  BY <1>1, <1>2, <1>4 DEF InstallationInv, KeysHeld, Creating, Claims!AnsweredMeansGranted

(* A step of one request that makes no company and ends no answer.          *)
LEMMA InstallationMoves ==
  ASSUME InstallationInv, NEW r \in Request, NEW p \in Stages \ {"creating"}, NEW c,
         RequestNow(r, p, c), granted \subseteq granted', p = "answered" => c \in granted',
         UNCHANGED <<made, prior, lapsed>>
  PROVE  InstallationInv'
<1>1. RequestShape' /\ CompanyShape'
  BY DEF InstallationInv, CompanyShape, RequestNow
<1>2. \A s \in Request : Creating(s)' => Creating(s)
  BY DEF Creating, RequestNow
<1>3. KeysHeld'
  BY <1>2 DEF InstallationInv, KeysHeld, RequestNow
<1>4. CompaniesCounted'
  BY DEF InstallationInv, CompaniesCounted, MadeFor, Kept
<1>5. Claims!AnsweredMeansGranted'
  BY DEF InstallationInv, Claims!AnsweredMeansGranted, RequestNow
<1>6. QED
  BY <1>1, <1>3, <1>4, <1>5 DEF InstallationInv

LEMMA RequestLooks ==
  ASSUME InstallationInv, NEW r \in Request, Claims!Look(r)
  PROVE  InstallationInv'
<1> DEFINE k == request[r].key
<1>1. k \in Key /\ UNCHANGED <<made, prior, lapsed, granted>>
  BY DEF InstallationInv, RequestShape, Claims!Look
<1>2. CASE prior[k].company = None
  <2>1. RequestNow(r, "creating", request[r].company) /\ Claims!KeyFree(k)
    BY <1>2, RequestGoes DEF Claims!Look, InstallationInv, Stages
  <2>2. KeysHeld'
    BY <2>1, <1>1, <1>2 DEF InstallationInv, KeysHeld, Creating, RequestNow, Claims!KeyFree
  <2>3. Claims!AnsweredMeansGranted'
    BY <2>1, <1>1 DEF InstallationInv, Claims!AnsweredMeansGranted, RequestNow
  <2>4. RequestShape' /\ CompanyShape' /\ CompaniesCounted'
    BY <2>1, <1>1 DEF InstallationInv, RequestNow, CompanyShape, CompaniesCounted, MadeFor, Kept
  <2>5. QED
    BY <2>2, <2>3, <2>4 DEF InstallationInv
<1>3. CASE prior[k].company # None
  <2>1. prior[k].company \in Company \cup {None}
    BY <1>1 DEF InstallationInv, CompanyShape
  <2>2. RequestNow(r, "conflict", request[r].company) \/ RequestNow(r, "saved", prior[k].company)
    BY <1>3, <2>1, RequestGoes DEF Claims!Look, InstallationInv, Stages
  <2>3. QED
    BY <2>2, <1>1, InstallationMoves DEF Stages
<1>4. QED
  BY <1>2, <1>3

(* One more company is made for a key, or for a claim.                      *)
LEMMA CompanyMade ==
  ASSUME InstallationInv, NEW c, NEW x, ~Claims!Full, c = Claims!NewCompany, x # None,
         made' = [made EXCEPT ![c] = x]
  PROVE  /\ c \in Company /\ made[c] = None
         /\ \A k \in Key : Cardinality(MadeFor(k)') = Cardinality(MadeFor(k)) + IF k = x THEN 1 ELSE 0
<1>1. \E d \in Company : made[d] = None
  BY DEF Claims!Full, Claims!Companies
<1>2. c \in Company /\ made[c] = None
  BY <1>1 DEF Claims!NewCompany
<1>3. ASSUME NEW k \in Key
      PROVE  Cardinality(MadeFor(k)') = Cardinality(MadeFor(k)) + IF k = x THEN 1 ELSE 0
  <2>1. IsFiniteSet(MadeFor(k)) /\ c \notin MadeFor(k) /\ Cardinality(MadeFor(k)) \in Nat
    BY <1>2, AdmissionAssumption, FS_Subset, FS_CardinalityType DEF MadeFor
  <2>2. \A d \in Company : made'[d] = IF d = c THEN x ELSE made[d]
    BY <1>2 DEF InstallationInv, CompanyShape
  <2>3. CASE k = x
    <3>1. MadeFor(k)' = MadeFor(k) \cup {c}
      BY <1>2, <2>2, <2>3 DEF MadeFor
    <3>2. QED
      BY <2>1, <2>3, <3>1, FS_AddElement
  <2>4. CASE k # x
    <3>1. MadeFor(k)' = MadeFor(k)
      BY <1>2, <2>2, <2>4, AdmissionAssumption DEF MadeFor
    <3>2. QED
      BY <2>1, <2>4, <3>1
  <2>5. QED
    BY <2>3, <2>4
<1>4. QED
  BY <1>2, <1>3

LEMMA RequestInserts ==
  ASSUME InstallationInv, NEW r \in Request, Claims!Insert(r)
  PROVE  InstallationInv'
<1> DEFINE k == request[r].key  c == Claims!NewCompany
<1>1. /\ Creating(r) /\ ~Claims!Full
      /\ made' = [made EXCEPT ![c] = k]
      /\ prior' = [prior EXCEPT ![k] = [company |-> c, body |-> request[r].body]]
      /\ request' = [request EXCEPT ![r].at = "saved", ![r].company = c]
      /\ UNCHANGED <<lapsed, granted>>
  BY DEF Claims!Insert, Creating
<1>2. k \in Key /\ k # None /\ request[r].body \in Body
  BY AdmissionAssumption DEF InstallationInv, RequestShape
<1> HIDE DEF c, k
<1>3. /\ c \in Company /\ made[c] = None
      /\ \A j \in Key : Cardinality(MadeFor(j)') = Cardinality(MadeFor(j)) + IF j = k THEN 1 ELSE 0
  BY <1>1, <1>2, CompanyMade DEF c
<1>4. RequestNow(r, "saved", c)
  BY <1>1, <1>3, RequestGoes DEF InstallationInv, Stages
<1>5. CompanyShape'
  BY <1>1, <1>2, <1>3 DEF InstallationInv, CompanyShape
<1>6. /\ prior[k].company = None /\ prior'[k].company = c /\ c # None
      /\ \A j \in Key \ {k} : prior'[j] = prior[j]
  BY <1>1, <1>2, <1>3, AdmissionAssumption DEF InstallationInv, KeysHeld, CompanyShape, k
<1>7. KeysHeld'
  <2>1. \A q \in Request : Creating(q)' => Creating(q) /\ q # r /\ request[q].key \in Key \ {k}
    BY <1>1, <1>4 DEF InstallationInv, KeysHeld, Creating, RequestNow, RequestShape, k
  <2>2. QED
    BY <2>1, <1>4, <1>6 DEF InstallationInv, KeysHeld, RequestNow
<1>8. CompaniesCounted'
  <2> SUFFICES ASSUME NEW j \in Key PROVE Cardinality(MadeFor(j)') = lapsed'[j] + Kept(j)'
    BY DEF CompaniesCounted
  <2>1. lapsed[j] \in Nat /\ lapsed' = lapsed /\ Cardinality(MadeFor(j)) = lapsed[j] + Kept(j)
    BY <1>1 DEF InstallationInv, CompanyShape, CompaniesCounted
  <2>2. Kept(j)' = Kept(j) + IF j = k THEN 1 ELSE 0
    BY <1>6 DEF Kept
  <2>3. Kept(j) \in Nat
    BY DEF Kept
  <2>4. QED
    BY <2>1, <2>2, <2>3, <1>3
<1>9. Claims!AnsweredMeansGranted'
  <2>1. granted' = granted /\ request'[r].at = "saved" /\ \A s \in Request \ {r} : request'[s] = request[s]
    BY <1>1, <1>4 DEF RequestNow
  <2>2. QED
    BY <2>1 DEF InstallationInv, Claims!AnsweredMeansGranted
<1>10. QED
  BY <1>4, <1>5, <1>7, <1>8, <1>9 DEF InstallationInv, RequestNow

LEMMA KeyEnds ==
  ASSUME InstallationInv, NEW k \in Key, Claims!KeyExpires(k)
  PROVE  InstallationInv'
<1>1. /\ prior[k].company # None /\ \A r \in Request : request[r].key = k => ~Creating(r)
      /\ prior' = [prior EXCEPT ![k] = Claims!NoAnswer] /\ lapsed' = [lapsed EXCEPT ![k] = @ + 1]
      /\ UNCHANGED <<request, made, granted>>
  BY DEF Claims!KeyExpires, Creating
<1>2. RequestShape' /\ CompanyShape'
  BY <1>1 DEF InstallationInv, RequestShape, CompanyShape, Claims!NoAnswer
<1>3. /\ prior'[k].company = None /\ lapsed'[k] = lapsed[k] + 1 /\ lapsed[k] \in Nat
      /\ \A j \in Key \ {k} : prior'[j] = prior[j] /\ lapsed'[j] = lapsed[j]
  BY <1>1 DEF InstallationInv, CompanyShape, Claims!NoAnswer
<1>4. KeysHeld'
  <2>1. \A r \in Request : Creating(r)' <=> Creating(r)
    BY <1>1 DEF Creating
  <2>2. QED
    BY <2>1, <1>1, <1>3 DEF InstallationInv, KeysHeld, RequestShape
<1>5. CompaniesCounted'
  <2>1. \A j \in Key : MadeFor(j)' = MadeFor(j)
    BY <1>1 DEF MadeFor
  <2>2. QED
    BY <2>1, <1>1, <1>3 DEF InstallationInv, CompaniesCounted, Kept
<1>6. Claims!AnsweredMeansGranted'
  BY <1>1 DEF InstallationInv, Claims!AnsweredMeansGranted
<1>7. QED
  BY <1>2, <1>4, <1>5, <1>6 DEF InstallationInv

LEMMA RequestContinues ==
  ASSUME InstallationInv, NEW r \in Request,
         Claims!Fail(r) \/ Claims!Dispatch(r) \/ Claims!Written(r) \/ Claims!Dispatched(r) \/ Claims!Retry(r)
  PROVE  InstallationInv'
<1>1. UNCHANGED <<made, prior, lapsed>> /\ granted \subseteq granted' /\ RequestShape
  BY DEF InstallationInv, Claims!Fail, Claims!Dispatch, Claims!Written, Claims!Dispatched, Claims!Retry
<1>2. CASE Claims!Fail(r) \/ Claims!Retry(r)
  <2>1. RequestNow(r, "idle", None)
    BY <1>1, <1>2, RequestGoes DEF Claims!Fail, Claims!Retry, Stages
  <2>2. QED
    BY <1>1, <2>1, InstallationMoves DEF Stages
<1>3. CASE Claims!Dispatch(r)
  <2>1. RequestNow(r, "unsure", request[r].company) \/ RequestNow(r, "dispatched", request[r].company)
    BY <1>1, <1>3, RequestGoes DEF Claims!Dispatch, Stages
  <2>2. QED
    BY <1>1, <2>1, InstallationMoves DEF Stages
<1>4. CASE Claims!Written(r) \/ Claims!Dispatched(r)
  <2>1. \/ RequestNow(r, "answered", request[r].company) /\ request[r].company \in granted'
        \/ RequestNow(r, "unavailable", request[r].company)
    BY <1>1, <1>4, RequestGoes DEF Claims!Written, Claims!Dispatched, Stages
  <2>2. QED
    BY <1>1, <2>1, InstallationMoves DEF Stages
<1>5. QED
  BY <1>2, <1>3, <1>4

(* The owner claim's company is made for no key.                            *)
LEMMA ClaimSteps ==
  ASSUME InstallationInv,
         \/ \E m \in Claim : \/ Claims!WriteClaim(m) \/ Claims!ClaimExpires(m) \/ Claims!Prepare(m)
                             \/ Claims!Redeem(m) \/ Claims!Redeemed(m)
         \/ \E c \in Company : Claims!Reconcile(c)
  PROVE  InstallationInv'
<1>1. ASSUME UNCHANGED <<request, prior, lapsed>>, granted \subseteq granted', CompanyShape',
             \A k \in Key : Cardinality(MadeFor(k)') = Cardinality(MadeFor(k))
      PROVE  InstallationInv'
  <2>1. RequestShape' /\ KeysHeld'
    BY <1>1 DEF InstallationInv, RequestShape, KeysHeld, Creating
  <2>2. CompaniesCounted'
    BY <1>1 DEF InstallationInv, CompaniesCounted, Kept
  <2>3. Claims!AnsweredMeansGranted'
    BY <1>1 DEF InstallationInv, Claims!AnsweredMeansGranted
  <2>4. QED
    BY <1>1, <2>1, <2>2, <2>3 DEF InstallationInv
<1>2. ASSUME UNCHANGED <<request, made, prior, lapsed>>, granted \subseteq granted' PROVE InstallationInv'
  <2>1. CompanyShape' /\ \A k \in Key : MadeFor(k)' = MadeFor(k)
    BY <1>2 DEF InstallationInv, CompanyShape, MadeFor
  <2>2. QED
    BY <1>1, <1>2, <2>1
<1>3. ASSUME NEW m \in Claim, Claims!WriteClaim(m) \/ Claims!ClaimExpires(m) \/ Claims!Prepare(m) \/ Claims!Redeem(m)
      PROVE  InstallationInv'
  BY <1>2, <1>3 DEF Claims!WriteClaim, Claims!ClaimExpires, Claims!Prepare, Claims!Redeem
<1>4. ASSUME NEW c \in Company, Claims!Reconcile(c) PROVE InstallationInv'
  BY <1>2, <1>4 DEF Claims!Reconcile
<1>5. ASSUME NEW m \in Claim, Claims!Redeemed(m) PROVE InstallationInv'
  <2> DEFINE c == Claims!NewCompany
  <2>1. UNCHANGED <<request, prior, lapsed, granted>> /\ ~Claims!Full /\ m # None /\ m \notin Key
    BY <1>5, AdmissionAssumption DEF Claims!Redeemed
  <2>2. CASE UNCHANGED made
    BY <1>2, <2>1, <2>2
  <2>3. CASE made' = [made EXCEPT ![c] = m]
    <3>1. \A k \in Key : Cardinality(MadeFor(k)') = Cardinality(MadeFor(k)) + 0
      BY <2>1, <2>3, CompanyMade
    <3>2. \A k \in Key : Cardinality(MadeFor(k)) \in Nat
      BY AdmissionAssumption, FS_Subset, FS_CardinalityType DEF MadeFor
    <3>3. CompanyShape'
      BY <2>1, <2>3 DEF InstallationInv, CompanyShape
    <3>4. QED
      BY <1>1, <2>1, <3>1, <3>2, <3>3
  <2>4. QED
    BY <1>5, <2>2, <2>3 DEF Claims!Redeemed
<1>6. QED
  BY <1>3, <1>4, <1>5

LEMMA InstallationStep == InstallationInv /\ Claims!Next => InstallationInv'
<1> SUFFICES ASSUME InstallationInv, Claims!Next PROVE InstallationInv'
  OBVIOUS
<1>1. ASSUME NEW r \in Request,
             \/ Claims!Look(r) \/ Claims!Insert(r) \/ Claims!Fail(r) \/ Claims!Dispatch(r) \/ Claims!Written(r)
             \/ Claims!Dispatched(r) \/ Claims!Retry(r)
      PROVE  InstallationInv'
  BY <1>1, RequestLooks, RequestInserts, RequestContinues
<1>2. QED
  BY <1>1, KeyEnds, ClaimSteps DEF Claims!Next

LEMMA InstallationAside == InstallationInv /\ UNCHANGED ofClaims => InstallationInv'
  BY DEF ofClaims, InstallationInv, RequestShape, CompanyShape, KeysHeld, Creating, CompaniesCounted, MadeFor, Kept,
         Claims!AnsweredMeansGranted

LEMMA InstallationPromises == InstallationInv => Claims!AnsweredMeansGranted /\ Claims!RepeatedCreatesOnce
<1>1. ASSUME InstallationInv, NEW k \in Key
      PROVE  Cardinality({c \in Company : made[c] = k}) <= 1 + lapsed[k]
  <2>1. Cardinality(MadeFor(k)) = lapsed[k] + Kept(k) /\ lapsed[k] \in Nat
    BY <1>1 DEF InstallationInv, CompaniesCounted, CompanyShape
  <2>2. QED
    BY <2>1 DEF MadeFor, Kept
<1>2. \A S : Claims!Cardinality(S) = Cardinality(S)
  BY Zenon DEF Claims!Cardinality, Cardinality
<1>3. InstallationInv => Claims!RepeatedCreatesOnce
  BY <1>1, <1>2 DEF Claims!RepeatedCreatesOnce
<1>4. QED
  BY <1>3 DEF InstallationInv

(* AnsweredAreGranted: for any requests, keys, claims, companies, devices   *)
(* and links: whoever is told that a company is there can administer it,    *)
(* one key makes no more companies than answers to it have expired, and one *)
(* more; whoever is told that a link is on its way has its mail; and nobody *)
(* is refused for ever.                                                     *)
THEOREM AnsweredAreGranted == Spec => []AnsweredMeansGranted
<1>1. Init => InstallationInv /\ LinksInv
  BY InstallationInitially, LinksInitially DEF Init
<1>2. InstallationInv /\ [Next]_vars => InstallationInv'
  BY InstallationStep, InstallationAside DEF Next, vars
<1>3. LinksInv /\ [Next]_vars => LinksInv'
  BY LinksStep, LinksAside DEF Next, vars
<1>4. InstallationInv /\ LinksInv => AnsweredMeansGranted
  BY InstallationPromises, LinksPromise DEF AnsweredMeansGranted
<1>5. QED
  BY <1>1, <1>2, <1>3, <1>4, PTL DEF Spec

-----------------------------------------------------------------------------
(* Sign-ins.  A sign-in remembers the link it spent, whatever became of it;  *)
(* and a session that is there is still being confirmed, or was kept.        *)

FlowFields == {"at", "via", "token", "invite", "version"}
FlowShape == DOMAIN flow = Attempt /\ \A a \in Attempt : DOMAIN flow[a] = FlowFields
TokenShape == token \in [Token -> [state : {"none", "live", "spent"}, invite : Invited \cup {None}]]

LinkSpent(a) == flow[a].token # None => flow[a].token \in Token /\ token[flow[a].token].state = "spent"
LinksApart == \A a, b \in Attempt : a # b /\ flow[a].token # None => flow[a].token # flow[b].token
SessionsKept == \A a \in sessions : flow[a].at \in {"confirming", "accepting", "undoing", "lost", "in"}

SignInInv ==
  /\ FlowShape /\ TokenShape
  /\ (\A a \in Attempt : LinkSpent(a)) /\ LinksApart
  /\ sessions \subseteq Attempt /\ opened \subseteq Attempt /\ SessionsKept

(* Where a step leaves a sign-in.  Another one may have lost its cookie.    *)
FlowNow(a, at, spent) ==
  /\ FlowShape'
  /\ flow'[a].at = at /\ flow'[a].token = spent
  /\ \A b \in Attempt \ {a} : /\ flow'[b].token = flow[b].token
                              /\ flow'[b].at # flow[b].at => flow[b].at = "away"

LEMMA FlowGoes ==
  ASSUME FlowShape, NEW a \in Attempt, NEW p, SignIns!Goes(a, p)
  PROVE  FlowNow(a, p, flow[a].token)
<1>1. CASE p \in {"refused", "lost", "in"}
  <2>1. flow' = [flow EXCEPT ![a] = [SignIns!NoFlow EXCEPT !.at = p, !.token = flow[a].token]]
    BY <1>1 DEF SignIns!Goes
  <2>2. /\ DOMAIN [SignIns!NoFlow EXCEPT !.at = p, !.token = flow[a].token] = FlowFields
        /\ [SignIns!NoFlow EXCEPT !.at = p, !.token = flow[a].token].at = p
        /\ [SignIns!NoFlow EXCEPT !.at = p, !.token = flow[a].token].token = flow[a].token
    BY DEF SignIns!NoFlow, FlowFields
  <2>3. QED
    BY <2>1, <2>2 DEF FlowShape, FlowNow
<1>2. CASE p \notin {"refused", "lost", "in"}
  <2>1. flow' = [flow EXCEPT ![a] = [flow[a] EXCEPT !.at = p]]
    BY <1>2 DEF SignIns!Goes
  <2>2. DOMAIN flow[a] = FlowFields
    BY DEF FlowShape
  <2>3. /\ DOMAIN [flow[a] EXCEPT !.at = p] = FlowFields
        /\ [flow[a] EXCEPT !.at = p].at = p
        /\ [flow[a] EXCEPT !.at = p].token = flow[a].token
    BY <2>2 DEF FlowFields
  <2>4. QED
    BY <2>1, <2>3 DEF FlowShape, FlowNow
<1>3. QED
  BY <1>1, <1>2

LEMMA SignInInitially == SignIns!Init => SignInInv
<1> SUFFICES ASSUME SignIns!Init PROVE SignInInv
  OBVIOUS
<1>1. flow = [a \in Attempt |-> [at |-> "idle", via |-> "link", token |-> None, invite |-> None, version |-> 0]]
  BY DEF SignIns!Init, SignIns!NoFlow
<1>2. FlowShape /\ \A a \in Attempt : flow[a].token = None
  BY <1>1 DEF FlowShape, FlowFields
<1>3. QED
  BY <1>2 DEF SignIns!Init, SignInInv, TokenShape, LinkSpent, LinksApart, SessionsKept

(* A sign-in goes on, ends, or begins without a link.                       *)
LEMMA SignInMoves ==
  ASSUME SignInInv, NEW a \in Attempt, NEW p, NEW spent \in {flow[a].token, None}, FlowNow(a, p, spent),
         UNCHANGED token, sessions' \subseteq Attempt, opened' \subseteq Attempt,
         \A b \in sessions' : b \in sessions \/ b = a,
         a \in sessions' => p \in {"confirming", "accepting", "undoing", "lost", "in"}
  PROVE  SignInInv'
<1>1. FlowShape' /\ TokenShape'
  BY DEF FlowNow, SignInInv, TokenShape
<1>2. \A b \in Attempt : flow'[b].token \in {flow[b].token, None}
  BY DEF FlowNow
<1>3. \A b \in Attempt : LinkSpent(b)'
  BY <1>2 DEF SignInInv, LinkSpent
<1>4. LinksApart'
  BY <1>2 DEF SignInInv, LinksApart
<1>5. SessionsKept'
  BY DEF SignInInv, SessionsKept, FlowNow
<1>6. QED
  BY <1>1, <1>3, <1>4, <1>5 DEF SignInInv

(* The rows of invitations and links change; a spent link stays spent.      *)
LEMMA LinksKept ==
  ASSUME SignInInv, TokenShape', UNCHANGED <<flow, sessions, opened>>,
         \A t \in Token : token[t].state = "spent" => token'[t].state = "spent"
  PROVE  SignInInv'
  BY DEF SignInInv, FlowShape, LinkSpent, LinksApart, SessionsKept

LEMMA TokenBecomes ==
  ASSUME SignInInv, NEW t \in Token
  PROVE  /\ \A i \in Invited \cup {None} : [token[t] EXCEPT !.invite = i] \in [state : {"none", "live", "spent"}, invite : Invited \cup {None}]
         /\ \A i \in Invited \cup {None} : [token[t] EXCEPT !.invite = i].state = token[t].state
         /\ [token[t] EXCEPT !.state = "spent"] \in [state : {"none", "live", "spent"}, invite : Invited \cup {None}]
         /\ [token[t] EXCEPT !.state = "spent"].state = "spent"
         /\ token[t] \in [state : {"none", "live", "spent"}, invite : Invited \cup {None}]
<1>1. token[t] \in [state : {"none", "live", "spent"}, invite : Invited \cup {None}]
  BY DEF SignInInv, TokenShape
<1>2. QED
  BY <1>1

LEMMA AdministratorSteps ==
  ASSUME SignInInv,
         \/ SignIns!Enforce \/ SignIns!ChangeProvider
         \/ \E i \in Invited : SignIns!Invites(i) \/ SignIns!Withdraw(i) \/ SignIns!InviteExpires(i)
         \/ \E t \in Token : SignIns!RequestLink(t)
  PROVE  SignInInv'
<1>1. ASSUME UNCHANGED <<token, flow, sessions, opened>> PROVE SignInInv'
  BY <1>1 DEF SignInInv, FlowShape, TokenShape, LinkSpent, LinksApart, SessionsKept
<1>2. ASSUME NEW i \in Invited, SignIns!Invites(i) PROVE SignInInv'
  <2>1. UNCHANGED <<flow, sessions, opened>>
    BY <1>2 DEF SignIns!Invites
  <2>2. CASE UNCHANGED token
    BY <1>1, <2>1, <2>2
  <2>3. ASSUME NEW t \in Token, token[t].state = "none",
               token' = [token EXCEPT ![t] = [state |-> "live", invite |-> i]]
        PROVE  SignInInv'
    <3>1. TokenShape'
      BY <2>3 DEF SignInInv, TokenShape
    <3>2. \A u \in Token : token[u].state = "spent" => token'[u].state = "spent"
      BY <2>3 DEF SignInInv, TokenShape
    <3>3. QED
      BY <2>1, <3>1, <3>2, LinksKept
  <2>4. QED
    BY <1>2, <2>2, <2>3 DEF SignIns!Invites
<1>3. ASSUME NEW i \in Invited, SignIns!Withdraw(i) PROVE SignInInv'
  <2>1. /\ token' = [t \in Token |-> IF token[t].invite = i THEN [token[t] EXCEPT !.invite = None] ELSE token[t]]
        /\ UNCHANGED <<flow, sessions, opened>>
    BY <1>3 DEF SignIns!Withdraw
  <2>2. TokenShape' /\ \A u \in Token : token'[u].state = token[u].state
    BY <2>1, TokenBecomes DEF TokenShape
  <2>3. QED
    BY <2>1, <2>2, LinksKept
<1>4. ASSUME NEW t \in Token, SignIns!RequestLink(t) PROVE SignInInv'
  <2>1. PICK i \in Invited \cup {None} :
          token' = [u \in Token |->
                      IF u = t THEN [state |-> "live", invite |-> i]
                      ELSE IF u \in SignIns!Live THEN [token[u] EXCEPT !.state = "spent"] ELSE token[u]]
    BY <1>4 DEF SignIns!RequestLink, SignIns!Pending
  <2>2. token[t].state = "none" /\ UNCHANGED <<flow, sessions, opened>>
    BY <1>4 DEF SignIns!RequestLink
  <2>3. TokenShape'
    BY <2>1, TokenBecomes DEF TokenShape
  <2>4. \A u \in Token : token[u].state = "spent" => token'[u].state = "spent"
    BY <2>1, <2>2, TokenBecomes
  <2>5. QED
    BY <2>2, <2>3, <2>4, LinksKept
<1>5. QED
  BY <1>1, <1>2, <1>3, <1>4 DEF SignIns!Enforce, SignIns!ChangeProvider, SignIns!InviteExpires

(* One UPDATE spends the link: no other sign-in has it.                     *)
LEMMA LinkConsumed ==
  ASSUME SignInInv, NEW a \in Attempt, NEW t \in Token, SignIns!Consume(a, t)
  PROVE  SignInInv'
<1> DEFINE new == [SignIns!NoFlow EXCEPT !.at = "checking", !.token = t, !.invite = token[t].invite]
<1>1. /\ flow[a].at = "idle" /\ token[t].state = "live"
      /\ token' = [token EXCEPT ![t].state = "spent"]
      /\ flow' = [flow EXCEPT ![a] = new]
      /\ UNCHANGED <<sessions, opened>>
  BY DEF SignIns!Consume, SignIns!At
<1>2. DOMAIN new = FlowFields /\ new.at = "checking" /\ new.token = t
  BY DEF SignIns!NoFlow, FlowFields
<1> HIDE DEF new
<1>3. FlowNow(a, "checking", t)
  BY <1>1, <1>2 DEF SignInInv, FlowShape, FlowNow
<1>4. TokenShape' /\ token'[t].state = "spent" /\ \A u \in Token \ {t} : token'[u] = token[u]
  BY <1>1, TokenBecomes DEF SignInInv, TokenShape
<1>5. \A b \in Attempt : flow[b].token # None => flow[b].token # t
  BY <1>1 DEF SignInInv, LinkSpent
<1>6. \A b \in Attempt : LinkSpent(b)'
  BY <1>3, <1>4, <1>5 DEF SignInInv, LinkSpent, FlowNow
<1>7. LinksApart'
  BY <1>3, <1>5 DEF SignInInv, LinksApart, FlowNow
<1>8. a \notin sessions
  BY <1>1 DEF SignInInv, SessionsKept
<1>9. SessionsKept'
  BY <1>1, <1>3, <1>8 DEF SignInInv, SessionsKept, FlowNow
<1>10. QED
  BY <1>1, <1>3, <1>4, <1>6, <1>7, <1>9 DEF SignInInv, FlowNow

LEMMA ProviderSteps ==
  ASSUME SignInInv, NEW a \in Attempt,
         (\E via \in {"company", "platform"} : SignIns!BeginOidc(a, via)) \/ SignIns!Returns(a) \/ SignIns!Identify(a)
  PROVE  SignInInv'
<1>1. ASSUME NEW via \in {"company", "platform"}, SignIns!BeginOidc(a, via) PROVE SignInInv'
  <2> DEFINE new == [SignIns!NoFlow EXCEPT !.at = "away", !.via = via, !.version = company.version]
  <2>1. flow[a].at = "idle" /\ flow' = [SignIns!CookieTaken EXCEPT ![a] = new] /\ UNCHANGED <<token, sessions, opened>>
    BY <1>1 DEF SignIns!BeginOidc, SignIns!At
  <2>2. DOMAIN new = FlowFields /\ new.at = "away" /\ new.token = None
    BY DEF SignIns!NoFlow, FlowFields
  <2>3. ASSUME NEW b \in Attempt
        PROVE  /\ DOMAIN [flow[b] EXCEPT !.at = "stray"] = FlowFields
               /\ [flow[b] EXCEPT !.at = "stray"].token = flow[b].token
    BY DEF SignInInv, FlowShape, FlowFields
  <2>4. /\ DOMAIN SignIns!CookieTaken = Attempt
        /\ \A b \in Attempt : /\ DOMAIN SignIns!CookieTaken[b] = FlowFields
                              /\ SignIns!CookieTaken[b].token = flow[b].token
                              /\ flow[b].at # "away" => SignIns!CookieTaken[b] = flow[b]
    BY <2>3 DEF SignIns!CookieTaken, SignIns!At, SignInInv, FlowShape
  <2> HIDE DEF new
  <2>5. FlowNow(a, "away", None)
    BY <2>1, <2>2, <2>4 DEF FlowNow, FlowShape
  <2>6. a \notin sessions
    BY <2>1 DEF SignInInv, SessionsKept
  <2>7. QED
    BY <2>1, <2>5, <2>6, SignInMoves DEF SignInInv
<1>2. CASE SignIns!Returns(a)
  <2>1. /\ flow[a].at \in {"stray", "away"} /\ UNCHANGED <<token, sessions, opened>>
        /\ SignIns!Goes(a, "refused") \/ SignIns!Goes(a, "exchanging")
    BY <1>2 DEF SignIns!Returns, SignIns!At, SignIns!Consumed
  <2>2. a \notin sessions
    BY <2>1 DEF SignInInv, SessionsKept
  <2>3. FlowNow(a, "refused", flow[a].token) \/ FlowNow(a, "exchanging", flow[a].token)
    BY <2>1, FlowGoes DEF SignInInv
  <2>4. QED
    BY <2>1, <2>2, <2>3, SignInMoves DEF SignInInv
<1>3. CASE SignIns!Identify(a)
  <2>1. flow[a].at = "exchanging" /\ UNCHANGED <<token, sessions, opened>>
    BY <1>3 DEF SignIns!Identify, SignIns!At
  <2>2. a \notin sessions
    BY <2>1 DEF SignInInv, SessionsKept
  <2>3. CASE SignIns!Goes(a, "refused")
    BY <2>1, <2>2, <2>3, FlowGoes, SignInMoves DEF SignInInv
  <2>4. ASSUME NEW i, flow' = [flow EXCEPT ![a].at = "opening", ![a].invite = i] PROVE SignInInv'
    <3>1. FlowNow(a, "opening", flow[a].token)
      BY <2>4 DEF SignInInv, FlowShape, FlowFields, FlowNow
    <3>2. QED
      BY <2>1, <2>2, <3>1, SignInMoves DEF SignInInv
  <2>5. QED
    BY <1>3, <2>3, <2>4 DEF SignIns!Identify
<1>4. QED
  BY <1>1, <1>2, <1>3

LEMMA SessionSteps ==
  ASSUME SignInInv, NEW a \in Attempt,
         \/ SignIns!Check(a) \/ SignIns!Open(a) \/ SignIns!Confirm(a) \/ SignIns!Accept(a) \/ SignIns!Undo(a)
         \/ SignIns!ProcessDies(a)
  PROVE  SignInInv'
<1> USE DEF SignIns!At
<1>1. CASE SignIns!Check(a)
  <2>1. flow[a].at = "checking" /\ UNCHANGED <<token, sessions, opened>>
    BY <1>1 DEF SignIns!Check, SignIns!Refuses
  <2>2. a \notin sessions
    BY <2>1 DEF SignInInv, SessionsKept
  <2>3. CASE SignIns!Goes(a, "refused")
    BY <2>1, <2>2, <2>3, FlowGoes, SignInMoves DEF SignInInv
  <2>4. ASSUME NEW i, flow' = [flow EXCEPT ![a].at = "opening", ![a].invite = i] PROVE SignInInv'
    <3>1. FlowNow(a, "opening", flow[a].token)
      BY <2>4 DEF SignInInv, FlowShape, FlowFields, FlowNow
    <3>2. QED
      BY <2>1, <2>2, <3>1, SignInMoves DEF SignInInv
  <2>5. SignIns!Goes(a, "refused") \/ \E i : flow' = [flow EXCEPT ![a].at = "opening", ![a].invite = i]
    BY <1>1 DEF SignIns!Check, SignIns!Refuses
  <2>6. QED
    BY <2>3, <2>4, <2>5
<1>2. CASE SignIns!Open(a)
  BY <1>2, FlowGoes, SignInMoves DEF SignIns!Open, SignInInv
<1>3. CASE SignIns!Confirm(a)
  <2>1. \E p \in {"undoing", "accepting"} : SignIns!Goes(a, p)
    BY <1>3 DEF SignIns!Confirm
  <2>2. QED
    BY <1>3, <2>1, FlowGoes, SignInMoves DEF SignIns!Confirm, SignInInv
<1>4. CASE SignIns!Accept(a)
  <2>1. /\ UNCHANGED <<token, sessions, opened>>
        /\ \E p \in {"undoing", "in"} : SignIns!Goes(a, p)
    BY <1>4 DEF SignIns!Accept
  <2>2. QED
    BY <2>1, FlowGoes, SignInMoves DEF SignInInv
<1>5. CASE SignIns!Undo(a)
  BY <1>5, FlowGoes, SignInMoves DEF SignIns!Undo, SignInInv
<1>6. CASE SignIns!ProcessDies(a)
  BY <1>6, FlowGoes, SignInMoves DEF SignIns!ProcessDies, SignInInv
<1>7. QED
  BY <1>1, <1>2, <1>3, <1>4, <1>5, <1>6

LEMMA SignInStep == SignInInv /\ SignIns!Next => SignInInv'
  BY AdministratorSteps, LinkConsumed, ProviderSteps, SessionSteps DEF SignIns!Next

LEMMA SignInAside == SignInInv /\ UNCHANGED ofSignIns => SignInInv'
  BY DEF ofSignIns, SignInInv, FlowShape, TokenShape, LinkSpent, LinksApart, SessionsKept

LEMMA SignInPromises == SignInInv => SignIns!OneSessionPerLink /\ SignIns!RefusedKeepsNoSession
  BY DEF SignInInv, LinksApart, SessionsKept, SignIns!OneSessionPerLink, SignIns!RefusedKeepsNoSession, SignIns!At

-----------------------------------------------------------------------------
(* Device credentials.  A challenge that is outstanding, or escrowed and not *)
(* kept yet, has not been tried, and belongs to one request.                 *)

Ids == 1..MaxChallenges
Escrowed == {i \in Ids : escrowed[i] # "none"}
AttemptShape == DOMAIN attempt = Machine /\ \A d \in Machine : DOMAIN attempt[d] = {"pc", "proof", "prepared"}

BindingShape ==
  /\ AttemptShape
  /\ escrowed \in [Ids -> Machine \cup {"none"}] /\ tries \in [Ids -> 0..1] /\ epoch \in [Ids -> Nat]
  /\ resets \in Nat

EscrowedInOrder == \E n \in 0..MaxChallenges : Escrowed = 1..n

PreparedStands(d) ==
  LET i == attempt[d].prepared IN
  i # 0 => /\ i \in Escrowed /\ tries[i] = 0 /\ challenge # i
           /\ \A e \in Machine \ {d} : attempt[e].prepared # i

ChallengeStands == challenge # 0 => challenge \in Escrowed /\ tries[challenge] = 0 /\ epoch[challenge] = resets

BindingInv ==
  /\ BindingShape /\ EscrowedInOrder
  /\ (\A d \in Machine : PreparedStands(d)) /\ ChallengeStands
  /\ \A i \in Ids \ Escrowed : tries[i] = 0
  /\ bound # "none" => by \in Ids /\ escrowed[by] = bound /\ epoch[by] = resets

AttemptNow(d, prepared) ==
  /\ AttemptShape'
  /\ attempt'[d].prepared = prepared
  /\ \A e \in Machine \ {d} : attempt'[e] = attempt[e]

LEMMA AttemptEnds ==
  ASSUME AttemptShape, NEW d \in Machine, NEW said, Bindings!End(d, said)
  PROVE  AttemptNow(d, 0)
<1>1. attempt' = [attempt EXCEPT ![d] = [pc |-> "idle", proof |-> 0, prepared |-> 0]]
  BY DEF Bindings!End, Bindings!Idle
<1>2. QED
  BY <1>1 DEF AttemptShape, AttemptNow

LEMMA BindingInitially == Bindings!Init => BindingInv
<1> SUFFICES ASSUME Bindings!Init PROVE BindingInv
  OBVIOUS
<1>1. AttemptShape /\ \A d \in Machine : attempt[d].prepared = 0
  BY DEF Bindings!Init, Bindings!Idle, AttemptShape
<1>2. BindingShape
  BY <1>1 DEF Bindings!Init, Bindings!Nobody, Bindings!Ids, BindingShape, Ids
<1>3. Escrowed = {} /\ \A i \in Ids : tries[i] = 0
  BY DEF Bindings!Init, Bindings!Nobody, Bindings!Ids, Escrowed, Ids
<1>4. EscrowedInOrder
  BY <1>3, AdmissionAssumption DEF EscrowedInOrder
<1>5. QED
  BY <1>1, <1>2, <1>3, <1>4 DEF BindingInv, PreparedStands, ChallengeStands, Bindings!Init, Bindings!Nobody

(* A step that leaves the challenges and the binding as they are, and drops  *)
(* at most the challenge that a request has prepared.                        *)
LEMMA BindingMoves ==
  ASSUME BindingInv, AttemptShape',
         \A d \in Machine : attempt'[d].prepared \in {attempt[d].prepared, 0},
         UNCHANGED <<bound, challenge, escrowed, tries, by, epoch, resets>>
  PROVE  BindingInv'
<1>1. BindingShape' /\ EscrowedInOrder' /\ Escrowed' = Escrowed
  BY DEF BindingInv, BindingShape, EscrowedInOrder, Escrowed
<1>2. \A d \in Machine : PreparedStands(d)'
  BY <1>1 DEF BindingInv, PreparedStands
<1>3. ChallengeStands'
  BY <1>1 DEF BindingInv, ChallengeStands
<1>4. QED
  BY <1>1, <1>2, <1>3 DEF BindingInv

LEMMA BindingSame ==
  ASSUME BindingInv, UNCHANGED <<bound, challenge, escrowed, attempt, tries, by, epoch, resets>>
  PROVE  BindingInv'
<1>1. AttemptShape' /\ \A d \in Machine : attempt'[d].prepared \in {attempt[d].prepared, 0}
  BY DEF BindingInv, BindingShape, AttemptShape
<1>2. QED
  BY <1>1, BindingMoves

LEMMA RequestDone ==
  ASSUME BindingInv, NEW d \in Machine, AttemptNow(d, 0) \/ AttemptNow(d, attempt[d].prepared),
         UNCHANGED <<bound, challenge, escrowed, tries, by, epoch, resets>>
  PROVE  BindingInv'
  BY BindingMoves DEF AttemptNow

LEMMA AuthenticationSteps ==
  ASSUME BindingInv, NEW d \in Machine, Bindings!Authenticate(d) \/ Bindings!TooLate(d)
  PROVE  BindingInv'
<1>1. UNCHANGED <<bound, challenge, escrowed, tries, by, epoch, resets>>
  BY DEF Bindings!Authenticate, Bindings!TooLate
<1>2. ASSUME NEW said, Bindings!End(d, said) PROVE BindingInv'
  BY <1>1, <1>2, AttemptEnds, RequestDone DEF BindingInv, BindingShape
<1>3. ASSUME NEW proof, NEW pc, attempt' = [attempt EXCEPT ![d] = [Bindings!Idle EXCEPT !.pc = pc, !.proof = proof]]
      PROVE  BindingInv'
  <2>1. /\ DOMAIN [Bindings!Idle EXCEPT !.pc = pc, !.proof = proof] = {"pc", "proof", "prepared"}
        /\ [Bindings!Idle EXCEPT !.pc = pc, !.proof = proof].prepared = 0
    BY DEF Bindings!Idle
  <2>2. AttemptNow(d, 0)
    BY <1>3, <2>1 DEF BindingInv, BindingShape, AttemptShape, AttemptNow
  <2>3. QED
    BY <1>1, <2>2, RequestDone
<1>4. \/ \E said : Bindings!End(d, said)
      \/ \E proof, pc : attempt' = [attempt EXCEPT ![d] = [Bindings!Idle EXCEPT !.pc = pc, !.proof = proof]]
  BY DEF Bindings!Authenticate, Bindings!TooLate
<1>5. QED
  BY <1>2, <1>3, <1>4

(* A new challenge is one that no request has.                              *)
LEMMA NewChallenge ==
  ASSUME BindingInv, NEW i \in Ids, i = Bindings!Cardinality(Bindings!Made) + 1
  PROVE  /\ i \notin Escrowed /\ i # 0
         /\ \A d \in Machine : escrowed' = [escrowed EXCEPT ![i] = d]
              => EscrowedInOrder' /\ Escrowed' = Escrowed \cup {i}
<1>1. PICK n \in 0..MaxChallenges : Escrowed = 1..n
  BY DEF BindingInv, EscrowedInOrder
<1>2. \A S : Bindings!Cardinality(S) = Cardinality(S)
  BY Zenon DEF Bindings!Cardinality, Cardinality
<1>3. Bindings!Made = Escrowed
  BY DEF Bindings!Made, Bindings!Nobody, Bindings!Ids, Escrowed, Ids
<1>4. Cardinality(1..n) = n
  BY <1>1, AdmissionAssumption, FS_Interval
<1>5. i = n + 1 /\ n \in Nat /\ MaxChallenges \in Nat
  BY <1>1, <1>2, <1>3, <1>4, AdmissionAssumption
<1>6. i \notin Escrowed /\ i # 0
  BY <1>1, <1>5
<1>7. ASSUME NEW d \in Machine, escrowed' = [escrowed EXCEPT ![i] = d]
      PROVE  EscrowedInOrder' /\ Escrowed' = Escrowed \cup {i}
  <2>1. d # "none" /\ \A j \in Ids : escrowed'[j] = IF j = i THEN d ELSE escrowed[j]
    BY <1>7, AdmissionAssumption DEF BindingInv, BindingShape
  <2>2. Escrowed' = Escrowed \cup {i}
    BY <2>1 DEF Escrowed
  <2>3. Escrowed' = 1..(n + 1)
    BY <2>2, <1>1, <1>5
  <2>4. n + 1 \in 0..MaxChallenges
    BY <1>5 DEF Ids
  <2>5. QED
    BY <2>2, <2>3, <2>4 DEF EscrowedInOrder
<1>8. QED
  BY <1>6, <1>7

LEMMA EscrowStep ==
  ASSUME BindingInv, NEW d \in Machine, Bindings!Escrow(d)
  PROVE  BindingInv'
<1>1. UNCHANGED <<bound, challenge, tries, by, epoch, resets>>
  BY DEF Bindings!Escrow
<1>2. ASSUME attempt' = [attempt EXCEPT ![d].pc = "commit"], UNCHANGED escrowed PROVE BindingInv'
  <2>1. AttemptNow(d, attempt[d].prepared)
    BY <1>2 DEF BindingInv, BindingShape, AttemptShape, AttemptNow
  <2>2. QED
    BY <1>1, <1>2, <2>1, RequestDone
<1>3. ASSUME bound = "none", NEW i \in Ids, i = Bindings!Cardinality(Bindings!Made) + 1,
             escrowed' = [escrowed EXCEPT ![i] = d],
             attempt' = [attempt EXCEPT ![d].pc = "commit", ![d].prepared = i]
      PROVE  BindingInv'
  <2>1. AttemptNow(d, i)
    BY <1>3 DEF BindingInv, BindingShape, AttemptShape, AttemptNow
  <2>2. i \notin Escrowed /\ i # 0 /\ EscrowedInOrder' /\ Escrowed' = Escrowed \cup {i} /\ tries[i] = 0
    BY <1>3, NewChallenge DEF BindingInv
  <2>3. BindingShape'
    BY <1>1, <1>3, <2>1 DEF BindingInv, BindingShape, AttemptNow
  <2>4. challenge # i /\ \A e \in Machine : attempt[e].prepared # i
    BY <2>2 DEF BindingInv, ChallengeStands, PreparedStands
  <2>5. ASSUME NEW e \in Machine PROVE PreparedStands(e)'
    <3>1. CASE e = d
      BY <3>1, <1>1, <2>1, <2>2, <2>4 DEF PreparedStands, AttemptNow
    <3>2. CASE e # d
      <4>1. attempt'[e] = attempt[e] /\ PreparedStands(e) /\ attempt'[d].prepared = i
        BY <3>2, <2>1 DEF AttemptNow, BindingInv
      <4>2. \A f \in Machine \ {e} : attempt[e].prepared # 0 => attempt'[f].prepared # attempt[e].prepared
        BY <4>1, <2>1, <2>4 DEF PreparedStands, AttemptNow
      <4>3. QED
        BY <4>1, <4>2, <1>1, <2>2 DEF PreparedStands
    <3>3. QED
      BY <3>1, <3>2
  <2>6. ChallengeStands'
    BY <1>1, <2>2 DEF BindingInv, ChallengeStands
  <2>7. QED
    BY <1>1, <1>3, <2>2, <2>3, <2>5, <2>6 DEF BindingInv
<1>4. QED
  BY <1>2, <1>3 DEF Bindings!Escrow, Bindings!Nobody, Bindings!Ids, Ids

LEMMA ChallengeStep ==
  ASSUME BindingInv, NEW d \in Machine, Bindings!Challenge(d)
  PROVE  BindingInv'
<1> DEFINE i == attempt[d].prepared
<1>1. AttemptNow(d, 0) /\ bound = "none" /\ UNCHANGED <<bound, escrowed, tries, by, resets>>
  BY AttemptEnds DEF Bindings!Challenge, Bindings!Nobody, BindingInv, BindingShape
<1>2. CASE UNCHANGED <<challenge, epoch>>
  BY <1>1, <1>2, RequestDone
<1>3. CASE i # 0 /\ challenge' = i /\ epoch' = [epoch EXCEPT ![i] = resets]
  <2>1. i \in Escrowed /\ tries[i] = 0 /\ \A e \in Machine \ {d} : attempt[e].prepared # i
    BY <1>3 DEF BindingInv, PreparedStands
  <2>2. BindingShape' /\ Escrowed' = Escrowed /\ epoch'[i] = resets
    BY <1>1, <1>3, <2>1 DEF BindingInv, BindingShape, AttemptNow, Escrowed
  <2>3. EscrowedInOrder'
    BY <2>2 DEF BindingInv, EscrowedInOrder
  <2>4. \A e \in Machine : PreparedStands(e)'
    BY <1>1, <1>3, <2>1, <2>2 DEF BindingInv, PreparedStands, AttemptNow
  <2>5. ChallengeStands'
    BY <1>1, <1>3, <2>1, <2>2 DEF ChallengeStands
  <2>6. QED
    BY <1>1, <2>2, <2>3, <2>4, <2>5 DEF BindingInv
<1>4. QED
  BY <1>2, <1>3 DEF Bindings!Challenge

LEMMA ProofStep ==
  ASSUME BindingInv, NEW d \in Machine, Bindings!Prove(d)
  PROVE  BindingInv'
<1>1. /\ AttemptNow(d, 0) /\ bound = "none" /\ challenge' = 0 /\ UNCHANGED <<escrowed, epoch, resets>>
      /\ attempt[d].proof # 0
  BY AttemptEnds DEF Bindings!Prove, Bindings!Nobody, Bindings!Consumed, BindingInv, BindingShape
<1>2. /\ tries' \in [Ids -> 0..1]
      /\ \A i \in Ids : tries'[i] # tries[i] => i = challenge /\ challenge # 0
  <2>1. CASE challenge = 0
    BY <2>1 DEF Bindings!Prove, BindingInv, BindingShape
  <2>2. CASE challenge # 0
    <3>1. challenge \in Ids /\ tries[challenge] = 0
      BY <2>2 DEF BindingInv, ChallengeStands, Escrowed
    <3>2. tries' = [tries EXCEPT ![challenge] = 1]
      BY <2>2, <3>1 DEF Bindings!Prove
    <3>3. QED
      BY <2>2, <3>1, <3>2 DEF BindingInv, BindingShape
  <2>3. QED
    BY <2>1, <2>2
<1>3. BindingShape' /\ Escrowed' = Escrowed
  BY <1>1, <1>2 DEF BindingInv, BindingShape, AttemptNow, Escrowed
<1>4. EscrowedInOrder'
  BY <1>3 DEF BindingInv, EscrowedInOrder
<1>5. \A e \in Machine : PreparedStands(e)'
  <2> SUFFICES ASSUME NEW e \in Machine, attempt'[e].prepared # 0 PROVE PreparedStands(e)'
    BY DEF PreparedStands
  <2>1. e # d /\ attempt'[e] = attempt[e] /\ PreparedStands(e)
    BY <1>1 DEF AttemptNow, BindingInv
  <2>2. attempt[e].prepared \in Escrowed /\ attempt[e].prepared # challenge /\ attempt[e].prepared \in Ids
    BY <2>1 DEF PreparedStands, Escrowed
  <2>3. \A f \in Machine \ {e} : attempt'[f].prepared # attempt[e].prepared
    BY <1>1, <2>1 DEF AttemptNow, PreparedStands
  <2>4. tries'[attempt[e].prepared] = 0
    BY <1>2, <2>1, <2>2 DEF PreparedStands
  <2>5. QED
    BY <1>1, <1>3, <2>1, <2>2, <2>3, <2>4 DEF PreparedStands
<1>6. \A i \in Ids \ Escrowed' : tries'[i] = 0
  BY <1>2, <1>3 DEF BindingInv, ChallengeStands
<1>7. bound' # "none" => by' \in Ids /\ escrowed'[by'] = bound' /\ epoch'[by'] = resets'
  <2>1. CASE Bindings!Valid(d)
    <3>1. bound' = d /\ by' = challenge /\ challenge # 0 /\ escrowed[challenge] = d
      BY <1>1, <2>1 DEF Bindings!Prove, Bindings!Valid
    <3>2. challenge \in Ids /\ epoch[challenge] = resets
      BY <3>1 DEF BindingInv, ChallengeStands, Escrowed
    <3>3. QED
      BY <1>1, <3>1, <3>2
  <2>2. CASE ~Bindings!Valid(d)
    BY <1>1, <2>2 DEF Bindings!Prove
  <2>3. QED
    BY <2>1, <2>2
<1>8. QED
  BY <1>1, <1>3, <1>4, <1>5, <1>6, <1>7 DEF BindingInv, ChallengeStands

LEMMA ResetStep == ASSUME BindingInv, Bindings!Reset PROVE BindingInv'
<1>1. /\ bound' = "none" /\ challenge' = 0 /\ resets' = resets + 1
      /\ UNCHANGED <<escrowed, attempt, tries, epoch>>
  BY DEF Bindings!Reset, Bindings!Nobody
<1>2. BindingShape' /\ EscrowedInOrder' /\ Escrowed' = Escrowed
  BY <1>1 DEF BindingInv, BindingShape, AttemptShape, EscrowedInOrder, Escrowed
<1>3. \A d \in Machine : PreparedStands(d)'
  BY <1>1, <1>2 DEF BindingInv, PreparedStands
<1>4. QED
  BY <1>1, <1>2, <1>3 DEF BindingInv, ChallengeStands

LEMMA BindingStep == BindingInv /\ Bindings!Next => BindingInv'
<1> SUFFICES ASSUME BindingInv, Bindings!Next PROVE BindingInv'
  OBVIOUS
<1>1. ASSUME NEW d \in Machine, \/ Bindings!Authenticate(d) \/ Bindings!Escrow(d) \/ Bindings!TooLate(d)
                                \/ Bindings!Challenge(d) \/ Bindings!Prove(d)
      PROVE  BindingInv'
  BY <1>1, AuthenticationSteps, EscrowStep, ChallengeStep, ProofStep
<1>2. CASE \/ \E d \in Machine, i \in Bindings!Ids :
                Bindings!RedeemNonce(d, i) \/ \E e \in Machine : Bindings!HandOn(d, e, i)
           \/ \E i \in Bindings!Ids : Bindings!Expire(i)
           \/ Bindings!Approve \/ Bindings!RevokeCredential
  BY <1>2, BindingSame
  DEF Bindings!RedeemNonce, Bindings!HandOn, Bindings!Expire, Bindings!Approve, Bindings!RevokeCredential
<1>3. CASE Bindings!Reset
  BY <1>3, ResetStep
<1>4. QED
  BY <1>1, <1>2, <1>3 DEF Bindings!Next

LEMMA BindingAside == BindingInv /\ UNCHANGED ofBindings => BindingInv'
  BY BindingSame DEF ofBindings

LEMMA BindingPromises == BindingInv => Bindings!BindingIsEarned
<1> SUFFICES ASSUME BindingInv PROVE Bindings!BindingIsEarned
  OBVIOUS
<1>1. \A i \in Ids : tries[i] <= 1
  BY DEF BindingInv, BindingShape
<1>2. bound # "none" => by # 0 /\ escrowed[by] = bound /\ epoch[by] = resets
  BY DEF BindingInv, Ids
<1>3. QED
  BY <1>1, <1>2 DEF Bindings!BindingIsEarned, Bindings!Nobody, Bindings!Ids, Ids

(* EntriesAreEarned: for any sign-ins, links and devices: a link opens one  *)
(* session however often and from however many browsers it is used, a       *)
(* refused sign-in leaves none; and a credential's binding rests on a       *)
(* challenge that was escrowed for the bound device, kept after the last    *)
(* reset and tried once.                                                    *)
THEOREM EntriesAreEarned == Spec => []EntryIsEarned
<1>1. Init => SignInInv /\ BindingInv
  BY SignInInitially, BindingInitially DEF Init
<1>2. SignInInv /\ [Next]_vars => SignInInv'
  BY SignInStep, SignInAside DEF Next, vars
<1>3. BindingInv /\ [Next]_vars => BindingInv'
  BY BindingStep, BindingAside DEF Next, vars
<1>4. SignInInv /\ BindingInv => EntryIsEarned
  BY SignInPromises, BindingPromises DEF EntryIsEarned
<1>5. QED
  BY <1>1, <1>2, <1>3, <1>4, PTL DEF Spec

-----------------------------------------------------------------------------
(* Sessions.  A session is settled if it is gone and nobody is about to     *)
(* write it, or if it was written and removed at one time.                  *)

Dated == [created : Int, seen : Int, idle : Int, dies : Int]
Records == [created : Int, seen : Int, idle : Int] \cup Dated
Kinds == {"put", "add", "del", "rem", "touch", "revoke", "expel", "read"}
Commands == [do : Kinds, s : Session, rec : {NoRecord} \cup Records]

Debts == [gives : SUBSET Session, revokes : SUBSET Session]

SessionShape ==
  /\ now \in Int
  /\ key \in [Session -> {NoRecord} \cup Dated]
  /\ index \subseteq Session /\ IsFiniteSet(index)
  /\ todo \in [Worker -> Seq(Commands)] /\ due \in [Worker -> Debts]
  /\ known \subseteq Session /\ revoked \subseteq known

Ahead(q, s, ks) == \E i \in DOMAIN q : q[i].s = s /\ q[i].do \in ks
Sending(s, ks) == \E w \in Worker : Ahead(todo[w], s, ks)

Gone(s) == ~Sessions!Present(s) /\ ~Sending(s, {"put"})
Settled(s) == s \in raced \/ Gone(s)

(* Who writes a key adds it to the index next; who takes it out of the      *)
(* index has deleted the key just before, or found it absent.               *)
Paired(q) ==
  \A i \in DOMAIN q :
    /\ q[i].do = "put" => /\ i + 1 \in DOMAIN q /\ q[i + 1].do = "add" /\ q[i + 1].s = q[i].s
                          /\ q[i].rec \in Records
    /\ q[i].do = "rem" /\ i # 1 => q[i - 1].do = "del" /\ q[i - 1].s = q[i].s

WorkerStands(w) ==
  /\ Paired(todo[w])
  /\ todo[w] # << >> /\ todo[w][1].do = "rem" => Settled(todo[w][1].s)
  /\ \A s \in due[w].revokes : s \in known /\ (Settled(s) \/ Ahead(todo[w], s, {"del", "revoke", "expel"}))
  /\ \A s \in due[w].gives : s \in index \/ Settled(s) \/ Ahead(todo[w], s, {"add", "del"})

SessionInv ==
  /\ SessionShape
  /\ \A w \in Worker : WorkerStands(w)
  /\ \A s \in Session : Sending(s, {"put", "add"}) /\ Sending(s, {"del", "rem"}) => s \in raced
  /\ \A s \in known \ index : Settled(s)
  /\ \A s \in revoked : Settled(s)

LEMMA SessionsInitially == Sessions!Init => SessionInv
<1> SUFFICES ASSUME Sessions!Init PROVE SessionInv
  OBVIOUS
<1>1. /\ now = 0 /\ key = [s \in Session |-> NoRecord] /\ index = {}
      /\ todo = [w \in Worker |-> << >>] /\ due = [w \in Worker |-> [gives |-> {}, revokes |-> {}]]
      /\ known = {} /\ revoked = {} /\ raced = {}
  BY DEF Sessions!Init, Sessions!Nothing
<1>2. << >> \in Seq(Commands) /\ DOMAIN << >> = {}
  OBVIOUS
<1>3. SessionShape
  BY <1>1, <1>2, FS_EmptySet DEF SessionShape, Debts
<1>4. \A w \in Worker : WorkerStands(w)
  BY <1>1, <1>2 DEF WorkerStands, Paired
<1>5. \A s \in Session : \A ks : ~Sending(s, ks)
  BY <1>1, <1>2 DEF Sending, Ahead
<1>6. QED
  BY <1>1, <1>3, <1>4, <1>5 DEF SessionInv

(* What an operation or a command must leave of its worker's own.           *)
RestStands(w, rest, owed) ==
  /\ rest \in Seq(Commands) /\ owed \in Debts /\ Paired(rest)
  /\ \A s : rest # << >> /\ rest[1].do = "rem" /\ rest[1].s = s => Settled(s)'
  /\ \A s \in owed.revokes : s \in known /\ (Settled(s)' \/ Ahead(rest, s, {"del", "revoke", "expel"}))
  /\ \A s \in owed.gives : s \in index' \/ Settled(s)' \/ Ahead(rest, s, {"add", "del"})

(* A session becomes present through a write, and a write is begun of a     *)
(* session that is present or new.                                          *)
OnlyPutRevives == \A s \in Session : Sessions!Present(s)' => Sessions!Present(s) \/ Sending(s, {"put"})
NoOtherWrites(rest) ==
  \A s \in Session : Ahead(rest, s, {"put"}) => Sending(s, {"put"}) \/ Sessions!Present(s) \/ s \in Sessions!Fresh

(* A session that is known, listed, owed or the object of a command is not  *)
(* new, and once settled it stays so.                                       *)
LEMMA NotNew ==
  ASSUME NEW s, s \in known \/ s \in index \/ \E v \in Worker : s \in due[v].gives \/ \E i \in DOMAIN todo[v] : todo[v][i].s = s
  PROVE  s \notin Sessions!Fresh
  BY DEF Sessions!Fresh

LEMMA StillSettled ==
  ASSUME SessionShape, NEW w \in Worker, NEW rest, NEW owed, Sessions!Goes(w, rest, owed),
         OnlyPutRevives, NoOtherWrites(rest), NEW s \in Session, s \notin Sessions!Fresh, Settled(s)
  PROVE  Settled(s)'
<1>1. todo' = [todo EXCEPT ![w] = rest] /\ raced \subseteq raced'
  BY DEF Sessions!Goes
<1>2. todo'[w] = rest /\ \A v \in Worker \ {w} : todo'[v] = todo[v]
  BY <1>1 DEF SessionShape
<1>3. CASE s \in raced
  BY <1>1, <1>3 DEF Settled
<1>4. CASE Gone(s)
  <2>1. ~Sessions!Present(s)'
    BY <1>4 DEF Gone, OnlyPutRevives
  <2>2. ~Ahead(rest, s, {"put"})
    BY <1>4 DEF Gone, NoOtherWrites
  <2>3. \A v \in Worker : ~Ahead(todo'[v], s, {"put"})
    BY <1>4, <2>2, <1>2 DEF Gone, Sending
  <2>4. QED
    BY <2>1, <2>3 DEF Settled, Gone, Sending
<1>5. QED
  BY <1>3, <1>4 DEF Settled

(* A step keeps the invariant, and brings back nothing that is gone.        *)
SessionsGoOn == SessionInv' /\ \A s \in known : s \in known' /\ (Gone(s) => Gone(s)')

LEMMA StaysGone ==
  ASSUME SessionShape, NEW w \in Worker, NEW rest, NEW owed, Sessions!Goes(w, rest, owed),
         OnlyPutRevives, NoOtherWrites(rest), NEW s \in known, Gone(s)
  PROVE  Gone(s)'
<1>1. todo' = [todo EXCEPT ![w] = rest]
  BY DEF Sessions!Goes
<1>2. todo'[w] = rest /\ \A v \in Worker \ {w} : todo'[v] = todo[v]
  BY <1>1 DEF SessionShape
<1>3. s \in Session /\ s \notin Sessions!Fresh
  BY NotNew DEF SessionShape
<1>4. ~Sessions!Present(s)'
  BY <1>3 DEF Gone, OnlyPutRevives
<1>5. ~Ahead(rest, s, {"put"})
  BY <1>3 DEF Gone, NoOtherWrites
<1>6. \A v \in Worker : ~Ahead(todo'[v], s, {"put"})
  BY <1>2, <1>5 DEF Gone, Sending
<1>7. QED
  BY <1>4, <1>6 DEF Gone, Sending

LEMMA Onward ==
  ASSUME SessionInv, NEW w \in Worker, NEW rest, NEW owed, Sessions!Goes(w, rest, owed), now' = now,
         key' \in [Session -> {NoRecord} \cup Dated], index' \subseteq Session, IsFiniteSet(index'),
         OnlyPutRevives, NoOtherWrites(rest), \A s \in index \ index' : Settled(s)', RestStands(w, rest, owed)
  PROVE  SessionsGoOn
<1>1. /\ todo' = [todo EXCEPT ![w] = rest]
      /\ due' = [due EXCEPT ![w] = IF rest = << >> THEN Sessions!Nothing ELSE owed]
      /\ raced' = raced \cup (Sessions!Pending(todo', {"put", "add"}) \cap Sessions!Pending(todo', {"del", "rem"}))
      /\ known' = IF rest = << >> THEN known \cup owed.gives ELSE known
      /\ revoked' = IF rest = << >> THEN revoked \cup owed.revokes ELSE revoked
  BY DEF Sessions!Goes
<1>2. rest \in Seq(Commands) /\ owed \in Debts /\ owed.revokes \subseteq known
  BY DEF RestStands
<1>s. SessionShape
  BY DEF SessionInv
<1>3. todo'[w] = rest /\ \A v \in Worker \ {w} : todo'[v] = todo[v] /\ due'[v] = due[v]
  BY <1>1, <1>s DEF SessionShape
<1>4. due'[w] = IF rest = << >> THEN [gives |-> {}, revokes |-> {}] ELSE owed
  BY <1>1, <1>s DEF SessionShape, Sessions!Nothing
<1>5. SessionShape'
  <2>1. owed.gives \subseteq Session
    BY <1>2 DEF Debts
  <2>2. [gives |-> {}, revokes |-> {}] \in Debts
    BY DEF Debts
  <2>3. due' \in [Worker -> Debts]
    BY <1>1, <1>2, <1>s, <2>2 DEF SessionShape, Sessions!Nothing
  <2>4. todo' \in [Worker -> Seq(Commands)]
    BY <1>1, <1>2, <1>s DEF SessionShape
  <2>5. known' \subseteq Session /\ revoked' \subseteq known'
    BY <1>1, <1>2, <1>s, <2>1 DEF SessionShape
  <2>6. QED
    BY <1>s, <2>3, <2>4, <2>5 DEF SessionShape
<1>6. ASSUME NEW s \in Session, s \notin Sessions!Fresh, Settled(s)
      PROVE  Settled(s)'
  BY <1>6, <1>s, StillSettled
<1>8. ASSUME NEW v \in Worker \ {w} PROVE WorkerStands(v)'
  <2>1. WorkerStands(v)
    BY DEF SessionInv
  <2>2. Paired(todo'[v])
    BY <2>1, <1>3 DEF WorkerStands
  <2>3. \A s : todo'[v] # << >> /\ todo'[v][1].do = "rem" /\ todo'[v][1].s = s => Settled(s)'
    <3>1. SUFFICES ASSUME NEW s, todo[v] # << >>, todo[v][1].do = "rem", todo[v][1].s = s PROVE Settled(s)'
      BY <1>3
    <3>2. todo[v] \in Seq(Commands)
      BY <1>s DEF SessionShape
    <3>3. 1 \in DOMAIN todo[v] /\ todo[v][1] \in Commands
      BY <3>1, <3>2
    <3>4. s \in Session
      BY <3>1, <3>3 DEF Commands
    <3>5. Settled(s)
      BY <2>1, <3>1 DEF WorkerStands
    <3>6. s \notin Sessions!Fresh
      BY <3>1, <3>3, <3>4, NotNew
    <3>7. QED
      BY <3>4, <3>5, <3>6, <1>6
  <2>4. \A s \in due'[v].revokes : s \in known' /\ (Settled(s)' \/ Ahead(todo'[v], s, {"del", "revoke", "expel"}))
    <3>1. SUFFICES ASSUME NEW s \in due[v].revokes
                   PROVE  s \in known' /\ (Settled(s)' \/ Ahead(todo[v], s, {"del", "revoke", "expel"}))
      BY <1>3
    <3>2. s \in known /\ (Settled(s) \/ Ahead(todo[v], s, {"del", "revoke", "expel"}))
      BY <2>1 DEF WorkerStands
    <3>3. s \in Session
      BY <3>2, <1>s DEF SessionShape
    <3>4. s \in known'
      BY <3>2, <1>1
    <3>5. QED
      BY <3>2, <3>3, <3>4, <1>6, NotNew
  <2>5. \A s \in due'[v].gives : s \in index' \/ Settled(s)' \/ Ahead(todo'[v], s, {"add", "del"})
    <3>1. SUFFICES ASSUME NEW s \in due[v].gives
                   PROVE  s \in index' \/ Settled(s)' \/ Ahead(todo[v], s, {"add", "del"})
      BY <1>3
    <3>2. s \in index \/ Settled(s) \/ Ahead(todo[v], s, {"add", "del"})
      BY <2>1 DEF WorkerStands
    <3>3. s \in Session
      BY <1>s DEF SessionShape, Debts
    <3>4. QED
      BY <3>2, <3>3, <1>6, NotNew
  <2>6. QED
    BY <2>2, <2>3, <2>4, <2>5 DEF WorkerStands
<1>9. WorkerStands(w)'
  <2>1. known \subseteq known'
    BY <1>1
  <2>2. CASE rest = << >>
    BY <2>2, <1>3, <1>4 DEF WorkerStands, RestStands
  <2>3. CASE rest # << >>
    BY <2>1, <2>3, <1>3, <1>4 DEF WorkerStands, RestStands
  <2>4. QED
    BY <2>2, <2>3
<1>10. ASSUME NEW s \in Session, Sending(s, {"put", "add"})', Sending(s, {"del", "rem"})'
       PROVE  s \in raced'
  <2>1. s \in Sessions!Pending(todo', {"put", "add"}) /\ s \in Sessions!Pending(todo', {"del", "rem"})
    BY <1>10 DEF Sending, Ahead, Sessions!Pending
  <2>2. QED
    BY <2>1, <1>1
<1>11. ~\E s, ks : Ahead(<< >>, s, ks)
  BY DEF Ahead
<1>12. ASSUME NEW s \in known' \ index' PROVE Settled(s)'
  <2>1. CASE s \in known /\ s \in index
    BY <2>1
  <2>2. CASE s \in known /\ s \notin index
    <3>1. Settled(s)
      BY <2>2 DEF SessionInv
    <3>2. QED
      BY <2>2, <3>1, <1>6, NotNew, <1>s DEF SessionShape
  <2>3. CASE s \notin known
    BY <2>3, <1>1, <1>11 DEF RestStands
  <2>4. QED
    BY <2>1, <2>2, <2>3
<1>13. ASSUME NEW s \in revoked' PROVE Settled(s)'
  <2>1. CASE s \in revoked
    <3>1. Settled(s) /\ s \in known /\ s \in Session
      BY <2>1, <1>s DEF SessionInv, SessionShape
    <3>2. QED
      BY <3>1, <1>6, NotNew
  <2>2. CASE s \notin revoked
    <3>1. rest = << >> /\ s \in owed.revokes
      BY <2>2, <1>1
    <3>2. QED
      BY <3>1, <1>11 DEF RestStands
  <2>3. QED
    BY <2>1, <2>2
<1>14. SessionInv'
  BY <1>5, <1>8, <1>9, <1>10, <1>12, <1>13 DEF SessionInv
<1>15. \A s \in known : s \in known' /\ (Gone(s) => Gone(s)')
  BY <1>1, <1>s, StaysGone
<1>16. QED
  BY <1>14, <1>15 DEF SessionsGoOn

(* Sequences of commands, put together and taken apart.                     *)
LEMMA Joined ==
  ASSUME NEW p \in Seq(Commands), NEW q \in Seq(Commands), Paired(p), Paired(q), p # << >>,
         q # << >> => q[1].do # "rem"
  PROVE  /\ p \o q \in Seq(Commands) /\ Paired(p \o q) /\ p \o q # << >> /\ (p \o q)[1] = p[1]
         /\ \A s, ks : Ahead(p \o q, s, ks) <=> Ahead(p, s, ks) \/ Ahead(q, s, ks)
<1>1. PICK r : r = p \o q
  OBVIOUS
<1>2. PICK m \in Nat : m = Len(p) /\ m # 0 /\ DOMAIN p = 1..m
  BY LenProperties, EmptySeq
<1>3. PICK n \in Nat : n = Len(q) /\ DOMAIN q = 1..n
  BY LenProperties
<1>4. /\ r \in Seq(Commands) /\ DOMAIN r = 1..(m + n)
      /\ \A i \in 1..m : r[i] = p[i]
      /\ \A j \in 1..n : r[m + j] = q[j]
  BY <1>1, <1>2, <1>3
<1>5. \A i \in DOMAIN r : i \in 1..m \/ \E j \in 1..n : i = m + j
  <2> SUFFICES ASSUME NEW i \in DOMAIN r, i \notin 1..m PROVE \E j \in 1..n : i = m + j
    OBVIOUS
  <2>1. i - m \in 1..n /\ i = m + (i - m)
    BY <1>2, <1>3, <1>4
  <2>2. QED
    BY <2>1
<1>6. Paired(r)
  <2> SUFFICES ASSUME NEW i \in DOMAIN r
               PROVE  /\ r[i].do = "put" => /\ i + 1 \in DOMAIN r /\ r[i + 1].do = "add" /\ r[i + 1].s = r[i].s
                                            /\ r[i].rec \in Records
                      /\ r[i].do = "rem" /\ i # 1 => r[i - 1].do = "del" /\ r[i - 1].s = r[i].s
    BY DEF Paired
  <2>1. CASE i \in 1..m
    <3>1. r[i] = p[i] /\ i \in DOMAIN p
      BY <2>1, <1>2, <1>4
    <3>2. ASSUME r[i].do = "put"
          PROVE  i + 1 \in DOMAIN r /\ r[i + 1].do = "add" /\ r[i + 1].s = r[i].s /\ r[i].rec \in Records
      <4>1. PICK k \in 1..m : k = i + 1 /\ p[k].do = "add" /\ p[k].s = p[i].s /\ p[i].rec \in Records
        BY <3>1, <3>2, <1>2 DEF Paired
      <4>2. r[k] = p[k] /\ k \in DOMAIN r
        BY <4>1, <1>2, <1>3, <1>4
      <4>3. QED
        BY <3>1, <4>1, <4>2
    <3>3. ASSUME r[i].do = "rem", i # 1 PROVE r[i - 1].do = "del" /\ r[i - 1].s = r[i].s
      <4>1. PICK k \in 1..m : k = i - 1
        BY <2>1, <3>3, <1>2
      <4>2. p[k].do = "del" /\ p[k].s = p[i].s
        BY <3>1, <3>3, <4>1 DEF Paired
      <4>3. r[k] = p[k]
        BY <4>1, <1>4
      <4>4. QED
        BY <3>1, <4>1, <4>2, <4>3
    <3>4. QED
      BY <3>2, <3>3
  <2>2. CASE \E j \in 1..n : i = m + j
    <3>1. PICK j \in 1..n : i = m + j
      BY <2>2
    <3>2. r[i] = q[j]
      BY <3>1, <1>4
    <3>3. r[i].do = "put" => /\ i + 1 \in DOMAIN r /\ r[i + 1].do = "add" /\ r[i + 1].s = r[i].s
                             /\ r[i].rec \in Records
      <4> HAVE r[i].do = "put"
      <4>1. PICK k \in Int : k = j + 1
        OBVIOUS
      <4>2. k \in 1..n /\ q[k].do = "add" /\ q[k].s = q[j].s /\ q[j].rec \in Records
        BY <3>1, <3>2, <1>3, <4>1 DEF Paired
      <4>3. r[m + k] = q[k] /\ m + k = i + 1 /\ i + 1 \in DOMAIN r
        BY <4>1, <4>2, <3>1, <1>2, <1>3, <1>4
      <4>4. QED
        BY <4>2, <4>3, <3>2
    <3>4. r[i].do = "rem" /\ i # 1 => r[i - 1].do = "del" /\ r[i - 1].s = r[i].s
      <4> HAVE r[i].do = "rem"
      <4>1. PICK k \in Int : k = j - 1
        OBVIOUS
      <4>2. j # 1
        <5> SUFFICES ASSUME j = 1 PROVE FALSE
          OBVIOUS
        <5>1. q # << >>
          BY <1>3, <3>1
        <5>2. QED
          BY <5>1, <3>2
      <4>3. k \in 1..n /\ q[k].do = "del" /\ q[k].s = q[j].s
        BY <3>1, <3>2, <1>3, <4>1, <4>2 DEF Paired
      <4>4. r[m + k] = q[k] /\ m + k = i - 1
        BY <4>1, <4>3, <3>1, <1>2, <1>3, <1>4
      <4>5. QED
        BY <4>3, <4>4, <3>2
    <3>5. QED
      BY <3>3, <3>4
  <2>3. QED
    BY <2>1, <2>2, <1>5
<1>7. r # << >> /\ r[1] = p[1]
  BY <1>2, <1>3, <1>4
<1>8. ASSUME NEW s, NEW ks PROVE Ahead(r, s, ks) <=> Ahead(p, s, ks) \/ Ahead(q, s, ks)
  <2>1. Ahead(r, s, ks) => Ahead(p, s, ks) \/ Ahead(q, s, ks)
    <3> SUFFICES ASSUME NEW i \in DOMAIN r, r[i].s = s, r[i].do \in ks PROVE Ahead(p, s, ks) \/ Ahead(q, s, ks)
      BY DEF Ahead
    <3>1. CASE i \in 1..m
      BY <3>1, <1>2, <1>4 DEF Ahead
    <3>2. CASE \E j \in 1..n : i = m + j
      <4>1. PICK j \in 1..n : i = m + j
        BY <3>2
      <4>2. r[i] = q[j] /\ j \in DOMAIN q
        BY <4>1, <1>3, <1>4
      <4>3. QED
        BY <4>2 DEF Ahead
    <3>3. QED
      BY <3>1, <3>2, <1>5
  <2>2. Ahead(p, s, ks) => Ahead(r, s, ks)
    BY <1>2, <1>3, <1>4 DEF Ahead
  <2>3. ASSUME Ahead(q, s, ks) PROVE Ahead(r, s, ks)
    <3>1. PICK j \in 1..n : q[j].s = s /\ q[j].do \in ks
      BY <2>3, <1>3 DEF Ahead
    <3>2. m + j \in DOMAIN r /\ r[m + j] = q[j]
      BY <3>1, <1>2, <1>3, <1>4
    <3>3. QED
      BY <3>1, <3>2 DEF Ahead
  <2>4. QED
    BY <2>1, <2>2, <2>3
<1>9. QED
  BY <1>1, <1>4, <1>6, <1>7, <1>8

(* What is sent after the command at the head, and then what followed it.   *)
Follows(q, more, rest) ==
  /\ rest \in Seq(Commands) /\ Paired(rest)
  /\ \A s, ks : Ahead(rest, s, ks) => Ahead(more, s, ks) \/ Ahead(q, s, ks)
  /\ \A s, ks : Ahead(more, s, ks) => Ahead(rest, s, ks)
  /\ \A s, ks : Ahead(q, s, ks) => (q[1].s = s /\ q[1].do \in ks) \/ Ahead(rest, s, ks)
  /\ rest # << >> /\ rest[1].do = "rem" =>
       IF more = << >> THEN q[1].do = "del" /\ q[1].s = rest[1].s ELSE more[1] = rest[1]

LEMMA Shortening ==
  ASSUME NEW q \in Seq(Commands), q # << >>, Paired(q)
  PROVE  LET t == Tail(q) IN
         /\ t \in Seq(Commands) /\ Paired(t)
         /\ \A s, ks : Ahead(t, s, ks) => Ahead(q, s, ks)
         /\ \A s, ks : Ahead(q, s, ks) => (q[1].s = s /\ q[1].do \in ks) \/ Ahead(t, s, ks)
         /\ t # << >> /\ t[1].do = "rem" => q[1].do = "del" /\ q[1].s = t[1].s
<1>1. PICK t : t = Tail(q)
  OBVIOUS
<1>2. PICK n \in Nat : DOMAIN q = 1..(n + 1) /\ Len(q) = n + 1
  <2>1. Len(q) \in Nat /\ Len(q) # 0 /\ DOMAIN q = 1..Len(q)
    BY EmptySeq, LenProperties
  <2>2. Len(q) - 1 \in Nat /\ Len(q) = (Len(q) - 1) + 1
    BY <2>1
  <2>3. QED
    BY <2>1, <2>2
<1>3. t \in Seq(Commands) /\ DOMAIN t = 1..n /\ (t # << >> => 1 \in 1..n)
  BY <1>1, <1>2
<1>4. \A i \in 1..n : t[i] = q[i + 1]
  BY <1>1, <1>2
<1>5. Paired(t)
  <2> SUFFICES ASSUME NEW i \in 1..n
               PROVE  /\ t[i].do = "put" => /\ i + 1 \in 1..n /\ t[i + 1].do = "add" /\ t[i + 1].s = t[i].s
                                            /\ t[i].rec \in Records
                      /\ t[i].do = "rem" /\ i # 1 => t[i - 1].do = "del" /\ t[i - 1].s = t[i].s
    BY <1>3 DEF Paired
  <2>1. PICK j \in 1..(n + 1) : j = i + 1 /\ t[i] = q[j] /\ j # 1
    BY <1>4
  <2>2. ASSUME t[i].do = "put"
        PROVE  i + 1 \in 1..n /\ t[i + 1].do = "add" /\ t[i + 1].s = t[i].s /\ t[i].rec \in Records
    <3>1. PICK k \in 1..(n + 1) : k = j + 1 /\ q[k].do = "add" /\ q[k].s = q[j].s /\ q[j].rec \in Records
      BY <2>1, <2>2, <1>2 DEF Paired
    <3>2. i + 1 \in 1..n /\ k = (i + 1) + 1
      BY <2>1, <3>1
    <3>3. t[i + 1] = q[k]
      BY <3>2, <1>4
    <3>4. QED
      BY <2>1, <3>1, <3>2, <3>3
  <2>3. ASSUME t[i].do = "rem", i # 1 PROVE t[i - 1].do = "del" /\ t[i - 1].s = t[i].s
    <3>1. PICK k \in 1..(n + 1) : k = j - 1 /\ q[k].do = "del" /\ q[k].s = q[j].s
      BY <2>1, <2>3, <1>2 DEF Paired
    <3>2. i - 1 \in 1..n /\ k = (i - 1) + 1
      BY <2>1, <2>3, <3>1
    <3>3. t[i - 1] = q[k]
      BY <3>2, <1>4
    <3>4. QED
      BY <2>1, <3>1, <3>3
  <2>4. QED
    BY <2>2, <2>3
<1>6. ASSUME NEW s, NEW ks, Ahead(t, s, ks) PROVE Ahead(q, s, ks)
  <2>1. PICK i \in 1..n : t[i].s = s /\ t[i].do \in ks
    BY <1>3, <1>6 DEF Ahead
  <2>2. PICK j \in 1..(n + 1) : j = i + 1 /\ t[i] = q[j]
    BY <1>4
  <2>3. QED
    BY <2>1, <2>2, <1>2 DEF Ahead
<1>7. ASSUME NEW s, NEW ks, Ahead(q, s, ks) PROVE (q[1].s = s /\ q[1].do \in ks) \/ Ahead(t, s, ks)
  <2>1. PICK j \in 1..(n + 1) : q[j].s = s /\ q[j].do \in ks
    BY <1>2, <1>7 DEF Ahead
  <2>2. CASE j = 1
    BY <2>1, <2>2
  <2>3. CASE j # 1
    <3>1. PICK i \in 1..n : j = i + 1
      <4>1. j - 1 \in 1..n /\ j = (j - 1) + 1
        BY <2>3
      <4>2. QED
        BY <4>1
    <3>2. t[i] = q[j]
      BY <3>1, <1>4
    <3>3. QED
      BY <2>1, <3>2, <1>3 DEF Ahead
  <2>4. QED
    BY <2>2, <2>3
<1>8. ASSUME t # << >>, t[1].do = "rem" PROVE q[1].do = "del" /\ q[1].s = t[1].s
  <2>1. 2 \in DOMAIN q /\ t[1] = q[2]
    BY <1>2, <1>3, <1>4, <1>8
  <2>2. QED
    BY <2>1, <1>8 DEF Paired
<1>9. QED
  BY <1>1, <1>3, <1>5, <1>6, <1>7, <1>8

LEMMA Followed ==
  ASSUME NEW q \in Seq(Commands), q # << >>, Paired(q), NEW more \in Seq(Commands), Paired(more),
         more = << >> \/ q[1].do # "del", NEW rest, rest = more \o Tail(q)
  PROVE  Follows(q, more, rest)
<1>1. PICK t : t = Tail(q)
  OBVIOUS
<1>2. /\ t \in Seq(Commands) /\ Paired(t)
      /\ \A s, ks : Ahead(t, s, ks) => Ahead(q, s, ks)
      /\ \A s, ks : Ahead(q, s, ks) => (q[1].s = s /\ q[1].do \in ks) \/ Ahead(t, s, ks)
      /\ t # << >> /\ t[1].do = "rem" => q[1].do = "del" /\ q[1].s = t[1].s
  BY <1>1, Shortening
<1>3. CASE more = << >>
  <2>1. rest = t
    BY <1>1, <1>2, <1>3, ConcatEmptySeq
  <2>2. \A s, ks : ~Ahead(more, s, ks)
    BY <1>3 DEF Ahead
  <2>3. QED
    BY <1>2, <1>3, <2>1, <2>2 DEF Follows
<1>4. CASE more # << >>
  <2>1. t # << >> => t[1].do # "rem"
    BY <1>2, <1>4
  <2>2. /\ rest \in Seq(Commands) /\ Paired(rest) /\ rest # << >> /\ rest[1] = more[1]
        /\ \A s, ks : Ahead(rest, s, ks) <=> Ahead(more, s, ks) \/ Ahead(t, s, ks)
    BY <1>1, <1>2, <1>4, <2>1, Joined
  <2>3. QED
    BY <1>2, <1>4, <2>2 DEF Follows
<1>5. QED
  BY <1>3, <1>4

LEMMA RemovalIs ==
  ASSUME NEW s \in Session
  PROVE  LET more == Sessions!Removal(s) IN
         /\ more \in Seq(Commands) /\ Paired(more) /\ more # << >>
         /\ more[1].do = "del" /\ more[1].s = s
         /\ \A t, ks : Ahead(more, t, ks) <=> t = s /\ ("del" \in ks \/ "rem" \in ks)
<1> DEFINE a == [do |-> "del", s |-> s, rec |-> NoRecord]
           b == [do |-> "rem", s |-> s, rec |-> NoRecord]
<1>1. Sessions!Removal(s) = <<a, b>>
  BY DEF Sessions!Removal, Sessions!Command
<1>2. /\ a \in Commands /\ a.do = "del" /\ a.s = s
      /\ b \in Commands /\ b.do = "rem" /\ b.s = s
  BY DEF Commands, Kinds
<1> HIDE DEF a, b
<1>3. PICK q : q = <<a, b>>
  OBVIOUS
<1>4. q \in Seq(Commands) /\ DOMAIN q = {1, 2} /\ q[1] = a /\ q[2] = b /\ q # << >>
  BY <1>2, <1>3
<1>5. Paired(q)
  BY <1>2, <1>4 DEF Paired
<1>6. \A t, ks : Ahead(q, t, ks) <=> t = s /\ ("del" \in ks \/ "rem" \in ks)
  BY <1>2, <1>4 DEF Ahead
<1>7. QED
  BY <1>1, <1>2, <1>3, <1>4, <1>5, <1>6

LEMMA WriteIs ==
  ASSUME NEW s \in Session,
         NEW rec \in Records
  PROVE  LET more == Sessions!Write(s, rec) IN
         /\ more \in Seq(Commands) /\ Paired(more) /\ more # << >> /\ more[1].do = "put"
         /\ \A t, ks : Ahead(more, t, ks) <=> t = s /\ ("put" \in ks \/ "add" \in ks)
<1> DEFINE a == [do |-> "put", s |-> s, rec |-> rec]
           b == [do |-> "add", s |-> s, rec |-> NoRecord]
<1>1. Sessions!Write(s, rec) = <<a, b>>
  BY DEF Sessions!Write, Sessions!Command
<1>2. /\ a \in Commands /\ a.do = "put" /\ a.s = s /\ a.rec \in Records
      /\ b \in Commands /\ b.do = "add" /\ b.s = s
  BY DEF Commands, Kinds
<1> HIDE DEF a, b
<1>3. PICK q : q = <<a, b>>
  OBVIOUS
<1>4. q \in Seq(Commands) /\ DOMAIN q = {1, 2} /\ q[1] = a /\ q[2] = b /\ q # << >>
  BY <1>2, <1>3
<1>5. Paired(q)
  BY <1>2, <1>4 DEF Paired
<1>6. \A t, ks : Ahead(q, t, ks) <=> t = s /\ ("put" \in ks \/ "add" \in ks)
  BY <1>2, <1>4 DEF Ahead
<1>7. QED
  BY <1>1, <1>2, <1>3, <1>4, <1>5, <1>6

LEMMA OneIs ==
  ASSUME NEW s \in Session, NEW do \in Kinds, do # "put"
  PROVE  LET more == <<Sessions!Command(do, s, NoRecord)>> IN
         /\ more \in Seq(Commands) /\ Paired(more) /\ more # << >> /\ more[1].do = do /\ more[1].s = s
         /\ \A t, ks : Ahead(more, t, ks) <=> t = s /\ do \in ks
<1> DEFINE a == [do |-> do, s |-> s, rec |-> NoRecord]
<1>1. <<Sessions!Command(do, s, NoRecord)>> = <<a>>
  BY DEF Sessions!Command
<1>2. a \in Commands /\ a.do = do /\ a.s = s
  BY DEF Commands
<1> HIDE DEF a
<1>3. PICK q : q = <<a>>
  OBVIOUS
<1>4. q \in Seq(Commands) /\ DOMAIN q = {1} /\ q[1] = a /\ q # << >>
  BY <1>2, <1>3
<1>5. Paired(q)
  BY <1>2, <1>4 DEF Paired
<1>6. \A t, ks : Ahead(q, t, ks) <=> t = s /\ do \in ks
  BY <1>2, <1>4 DEF Ahead
<1>7. QED
  BY <1>1, <1>2, <1>3, <1>4, <1>5, <1>6

LEMMA NoneIs ==
  /\ << >> \in Seq(Commands) /\ Paired(<< >>) /\ \A t, ks : ~Ahead(<< >>, t, ks)
  BY DEF Paired, Ahead

(* What the worker owes, for all it has to send.                            *)
Promises(w, q) ==
  /\ q \in Seq(Commands) /\ Paired(q)
  /\ \A s : Ahead(q, s, {"put"}) => Sending(s, {"put"})
  /\ \A s \in due[w].revokes : s \in known /\ (Settled(s) \/ Ahead(q, s, {"del", "revoke", "expel"}))
  /\ \A s \in due[w].gives : s \in index \/ Settled(s) \/ Ahead(q, s, {"add", "del"})

LEMMA OwnPromises ==
  ASSUME SessionInv, NEW w \in Worker PROVE Promises(w, todo[w])
<1>1. todo[w] \in Seq(Commands)
  BY DEF SessionInv, SessionShape
<1>2. QED
  BY <1>1 DEF SessionInv, WorkerStands, Promises, Sending

(* A command reaches Redis; `more` is what is to be sent for it now.         *)
LEMMA CommandSent ==
  ASSUME SessionInv, NEW w \in Worker, NEW q, Promises(w, q), q # << >>, NEW more \in Seq(Commands), Paired(more),
         more = << >> \/ q[1].do # "del", Sessions!Goes(w, more \o Tail(q), due[w]),
         now' = now, key' \in [Session -> {NoRecord} \cup Dated], index' \subseteq Session, IsFiniteSet(index'),
         OnlyPutRevives, \A s \in Session : Ahead(more, s, {"put"}) => Sessions!Present(s),
         \A s \in index \ index' : Settled(s)',
         \A s : more # << >> /\ more[1].do = "rem" /\ more[1].s = s => Settled(s)',
         q[1].do \in {"del", "revoke", "expel"} =>
           \A s : s = q[1].s => Settled(s)' \/ Ahead(more, s, {"del"}),
         q[1].do = "add" => q[1].s \in index' \/ Ahead(more, q[1].s, {"del"})
  PROVE  SessionsGoOn
<1>1. SessionShape
  BY DEF SessionInv
<1>2. q \in Seq(Commands) /\ Paired(q) /\ due[w] \in Debts
  BY <1>1 DEF SessionShape, Promises
<1>3. PICK rest : rest = more \o Tail(q)
  OBVIOUS
<1>4. Follows(q, more, rest)
  BY <1>2, <1>3, Followed
<1>5. PICK owed : owed = due[w]
  OBVIOUS
<1>6. NoOtherWrites(rest)
  <2> SUFFICES ASSUME NEW s \in Session, Ahead(rest, s, {"put"}) PROVE Sending(s, {"put"}) \/ Sessions!Present(s)
    BY DEF NoOtherWrites
  <2>1. Ahead(more, s, {"put"}) \/ Ahead(q, s, {"put"})
    BY <1>4 DEF Follows
  <2>2. QED
    BY <2>1 DEF Promises
<1>7. \A s : rest # << >> /\ rest[1].do = "rem" /\ rest[1].s = s => Settled(s)'
  <2> SUFFICES ASSUME NEW s, rest # << >>, rest[1].do = "rem", rest[1].s = s PROVE Settled(s)'
    OBVIOUS
  <2>1. IF more = << >> THEN q[1].do = "del" /\ q[1].s = s ELSE more[1] = rest[1]
    BY <1>4 DEF Follows
  <2>2. CASE more = << >>
    BY <2>1, <2>2, NoneIs
  <2>3. CASE more # << >>
    BY <2>1, <2>3
  <2>4. QED
    BY <2>2, <2>3
<1>8. ASSUME NEW s \in Session, s \in known \/ s \in owed.gives, Settled(s) PROVE Settled(s)'
  <2>1. s \notin Sessions!Fresh
    BY <1>8, <1>5, NotNew
  <2>2. Sessions!Goes(w, rest, owed)
    BY <1>3, <1>5
  <2>3. QED
    BY <1>1, <1>6, <1>8, <2>1, <2>2, StillSettled
<1>9. ASSUME NEW s \in owed.revokes
      PROVE  s \in known /\ (Settled(s)' \/ Ahead(rest, s, {"del", "revoke", "expel"}))
  <2>1. s \in known /\ (Settled(s) \/ Ahead(q, s, {"del", "revoke", "expel"}))
    BY <1>5 DEF Promises
  <2>2. s \in Session
    BY <2>1, <1>1 DEF SessionShape
  <2>3. CASE Settled(s)
    BY <2>1, <2>2, <2>3, <1>8
  <2>4. CASE q[1].s = s /\ q[1].do \in {"del", "revoke", "expel"}
    <3>1. Settled(s)' \/ Ahead(more, s, {"del"})
      BY <2>4
    <3>2. Ahead(more, s, {"del"}) => Ahead(rest, s, {"del"})
      BY <1>4 DEF Follows
    <3>3. Ahead(rest, s, {"del"}) => Ahead(rest, s, {"del", "revoke", "expel"})
      BY DEF Ahead
    <3>4. QED
      BY <2>1, <3>1, <3>2, <3>3
  <2>5. CASE Ahead(q, s, {"del", "revoke", "expel"}) /\ ~(q[1].s = s /\ q[1].do \in {"del", "revoke", "expel"})
    BY <2>1, <2>5, <1>4 DEF Follows
  <2>6. QED
    BY <2>1, <2>3, <2>4, <2>5
<1>10. ASSUME NEW s \in owed.gives PROVE s \in index' \/ Settled(s)' \/ Ahead(rest, s, {"add", "del"})
  <2>1. s \in index \/ Settled(s) \/ Ahead(q, s, {"add", "del"})
    BY <1>5 DEF Promises
  <2>2. s \in Session
    BY <1>2, <1>5 DEF Debts
  <2>3. CASE s \in index
    BY <2>3
  <2>4. CASE Settled(s)
    BY <2>2, <2>4, <1>8
  <2>5. CASE q[1].s = s /\ q[1].do \in {"add", "del"}
    <3>1. s \in index' \/ Settled(s)' \/ Ahead(more, s, {"del"})
      BY <2>5
    <3>2. Ahead(more, s, {"del"}) => Ahead(rest, s, {"del"})
      BY <1>4 DEF Follows
    <3>3. Ahead(rest, s, {"del"}) => Ahead(rest, s, {"add", "del"})
      BY DEF Ahead
    <3>4. QED
      BY <3>1, <3>2, <3>3
  <2>7. CASE Ahead(q, s, {"add", "del"}) /\ ~(q[1].s = s /\ q[1].do \in {"add", "del"})
    BY <2>7, <1>4 DEF Follows
  <2>8. QED
    BY <2>1, <2>3, <2>4, <2>5, <2>7
<1>11. RestStands(w, rest, owed)
  BY <1>2, <1>4, <1>5, <1>7, <1>9, <1>10 DEF RestStands, Follows
<1>12. Sessions!Goes(w, rest, owed)
  BY <1>3, <1>5
<1>13. QED
  BY <1>6, <1>11, <1>12, Onward

-----------------------------------------------------------------------------
(* What reads find.                                                         *)
LEMMA ReadIs ==
  ASSUME SessionShape, NEW s \in Session, NEW then \in Seq(Commands), Paired(then),
         then # << >> => then[1].do # "rem"
  PROVE  LET more == Sessions!Read(s, then) IN
         /\ more \in Seq(Commands) /\ Paired(more)
         /\ ~Sessions!Present(s) => more = << >>
         /\ Sessions!Present(s) => more = then \/ more = Sessions!Removal(s)
         /\ more # << >> => more[1].do # "rem"
         /\ \A t, ks : Ahead(more, t, ks) => Sessions!Present(s) /\ (Ahead(then, t, ks) \/ (t = s /\ ("del" \in ks \/ "rem" \in ks)))
<1>1. PICK more : more = Sessions!Read(s, then)
  OBVIOUS
<1>2. IF ~Sessions!Present(s) THEN more = << >>
      ELSE IF Sessions!IsExpired(key[s]) THEN more = Sessions!Removal(s) ELSE more = then
  BY <1>1 DEF Sessions!Read
<1>3. more = << >> => /\ more \in Seq(Commands) /\ Paired(more) /\ \A t, ks : ~Ahead(more, t, ks)
  BY NoneIs
<1>4. more = Sessions!Removal(s) =>
        /\ more \in Seq(Commands) /\ Paired(more) /\ more[1].do = "del"
        /\ \A t, ks : Ahead(more, t, ks) => t = s /\ ("del" \in ks \/ "rem" \in ks)
  BY RemovalIs
<1>5. /\ more \in Seq(Commands) /\ Paired(more)
      /\ ~Sessions!Present(s) => more = << >>
      /\ Sessions!Present(s) => more = then \/ more = Sessions!Removal(s)
      /\ more # << >> => more[1].do # "rem"
  BY <1>2, <1>3, <1>4
<1>6. \A t, ks : Ahead(more, t, ks) => Sessions!Present(s) /\ (Ahead(then, t, ks) \/ (t = s /\ ("del" \in ks \/ "rem" \in ks)))
  BY <1>2, <1>3, <1>4
<1>7. QED
  BY <1>1, <1>5, <1>6

(* The record a session had is one to be written.                           *)
LEMMA Rewritten ==
  ASSUME SessionShape, NEW s \in Session, Sessions!Present(s)
  PROVE  key[s] \in Records /\ [key[s] EXCEPT !.seen = now] \in Records
<1>1. key[s] \in Dated /\ now \in Int
  BY DEF SessionShape, Sessions!Present
<1>2. [key[s] EXCEPT !.seen = now] \in Dated
  BY <1>1 DEF Dated
<1>3. QED
  BY <1>1, <1>2 DEF Records

(* The operations.                                                          *)
LEMMA OperationBegins ==
  ASSUME SessionInv, NEW w \in Worker, NEW rest, NEW gives, NEW revokes, Sessions!Begin(w, rest, gives, revokes),
         rest \in Seq(Commands), Paired(rest), NoOtherWrites(rest),
         rest # << >> => rest[1].do # "rem",
         gives \in SUBSET Session, revokes \in SUBSET known,
         \A s \in gives : Ahead(rest, s, {"add"}),
         \A s \in revokes : Settled(s) \/ Ahead(rest, s, {"del", "revoke", "expel"})
  PROVE  SessionsGoOn
<1>1. /\ Sessions!Goes(w, rest, [gives |-> gives, revokes |-> revokes])
      /\ UNCHANGED <<now, key, index>>
  BY DEF Sessions!Begin
<1>2. SessionShape
  BY DEF SessionInv
<1>3. PICK owed : owed = [gives |-> gives, revokes |-> revokes]
  OBVIOUS
<1>4. owed \in Debts /\ owed.gives = gives /\ owed.revokes = revokes
  BY <1>2, <1>3 DEF Debts, SessionShape
<1>5. OnlyPutRevives
  BY <1>1 DEF OnlyPutRevives, Sessions!Present
<1>6. \A s \in known : Settled(s) => Settled(s)'
  <2> SUFFICES ASSUME NEW s \in known, Settled(s) PROVE Settled(s)'
    OBVIOUS
  <2>1. s \in Session /\ s \notin Sessions!Fresh
    BY <1>2, NotNew DEF SessionShape
  <2>2. Sessions!Goes(w, rest, owed)
    BY <1>1, <1>3
  <2>3. QED
    BY <1>2, <1>5, <2>1, <2>2, StillSettled
<1>7. \A s : Ahead(rest, s, {"add"}) => Ahead(rest, s, {"add", "del"})
  BY DEF Ahead
<1>8. RestStands(w, rest, owed)
  BY <1>4, <1>6, <1>7 DEF RestStands
<1>9. Sessions!Goes(w, rest, owed)
  BY <1>1, <1>3
<1>10. key' \in [Session -> {NoRecord} \cup Dated] /\ index' \subseteq Session /\ IsFiniteSet(index') /\ index \ index' = {}
  BY <1>1, <1>2 DEF SessionShape
<1>11. QED
  BY <1>1, <1>5, <1>8, <1>9, <1>10, Onward

LEMMA UseBegins ==
  ASSUME SessionInv, NEW w \in Worker, Sessions!Use(w) PROVE SessionsGoOn
<1>1. PICK s \in known, next \in {"touch", "revoke"} :
        Sessions!Begin(w, Sessions!Read(s, <<Sessions!Command(next, s, NoRecord)>>), {},
                       IF next = "revoke" /\ Sessions!Present(s) THEN {s} ELSE {})
  BY DEF Sessions!Use
<1>2. SessionShape /\ s \in Session
  BY DEF SessionInv, SessionShape
<1>3. PICK then : then = <<Sessions!Command(next, s, NoRecord)>>
  OBVIOUS
<1>4. /\ then \in Seq(Commands) /\ Paired(then) /\ then # << >> /\ then[1].do = next
      /\ \A t, ks : Ahead(then, t, ks) <=> t = s /\ next \in ks
  <2>1. next \in Kinds /\ next # "put"
    BY DEF Kinds
  <2>2. LET more == <<Sessions!Command(next, s, NoRecord)>> IN
         /\ more \in Seq(Commands) /\ Paired(more) /\ more # << >> /\ more[1].do = next /\ more[1].s = s
         /\ \A t, ks : Ahead(more, t, ks) <=> t = s /\ next \in ks
    BY <1>2, <2>1, OneIs
  <2>3. QED
    BY <1>3, <2>2
<1>5. PICK rest : rest = Sessions!Read(s, then)
  OBVIOUS
<1>6. /\ rest \in Seq(Commands) /\ Paired(rest)
      /\ Sessions!Present(s) => rest = then \/ rest = Sessions!Removal(s)
      /\ rest # << >> => rest[1].do # "rem"
      /\ \A t, ks : Ahead(rest, t, ks) => Ahead(then, t, ks) \/ (t = s /\ ("del" \in ks \/ "rem" \in ks))
  BY <1>2, <1>4, <1>5, ReadIs
<1>7. PICK revokes : revokes = IF next = "revoke" /\ Sessions!Present(s) THEN {s} ELSE {}
  OBVIOUS
<1>8. Sessions!Begin(w, rest, {}, revokes)
  BY <1>1, <1>3, <1>5, <1>7
<1>9. NoOtherWrites(rest)
  BY <1>4, <1>6 DEF NoOtherWrites
<1>10. \A t, ks : Ahead(Sessions!Removal(s), t, ks) <=> t = s /\ ("del" \in ks \/ "rem" \in ks)
  BY <1>2, RemovalIs
<1>11. \A t \in revokes : Ahead(rest, t, {"del", "revoke", "expel"})
  BY <1>4, <1>6, <1>7, <1>10
<1>12. revokes \in SUBSET known
  BY <1>7
<1>13. QED
  BY <1>6, <1>8, <1>9, <1>11, <1>12, OperationBegins

LEMMA CreateBegins ==
  ASSUME SessionInv, NEW w \in Worker, Sessions!Create(w) PROVE SessionsGoOn
<1>1. PICK s \in Sessions!Fresh, idle \in IdleTime :
        Sessions!Begin(w, Sessions!Write(s, [created |-> now, seen |-> now, idle |-> idle]), {s}, {})
  BY DEF Sessions!Create
<1>2. now \in Int /\ s \in Session /\ idle \in Int
  BY AdmissionAssumption DEF SessionInv, SessionShape, Sessions!Fresh
<1>3. PICK rec : rec = [created |-> now, seen |-> now, idle |-> idle]
  OBVIOUS
<1>4. rec \in Records
  BY <1>2, <1>3 DEF Records
<1>5. PICK rest : rest = Sessions!Write(s, rec)
  OBVIOUS
<1>6. /\ rest \in Seq(Commands) /\ Paired(rest) /\ rest # << >> /\ rest[1].do = "put"
      /\ \A t, ks : Ahead(rest, t, ks) <=> t = s /\ ("put" \in ks \/ "add" \in ks)
  BY <1>2, <1>4, <1>5, WriteIs
<1>7. NoOtherWrites(rest)
  BY <1>6 DEF NoOtherWrites
<1>8. \A t \in {s} : Ahead(rest, t, {"add"})
  BY <1>6
<1>9. Sessions!Begin(w, rest, {s}, {})
  BY <1>1, <1>3, <1>5
<1>10. QED
  BY <1>2, <1>6, <1>7, <1>8, <1>9, OperationBegins

LEMMA RotateBegins ==
  ASSUME SessionInv, NEW w \in Worker, Sessions!Rotate(w) PROVE SessionsGoOn
<1>1. PICK s \in known, r \in Sessions!Fresh :
        Sessions!Begin(w, Sessions!Read(s, Sessions!Write(r, key[s]) \o Sessions!Removal(s)),
          IF Sessions!Present(s) /\ ~Sessions!IsExpired(key[s]) THEN {r} ELSE {},
          IF Sessions!Present(s) THEN {s} ELSE {})
  BY DEF Sessions!Rotate
<1>2. SessionShape /\ s \in Session /\ r \in Session /\ r # s
  BY DEF SessionInv, SessionShape, Sessions!Fresh
<1>3. PICK rest, gives, revokes :
        /\ rest = Sessions!Read(s, Sessions!Write(r, key[s]) \o Sessions!Removal(s))
        /\ gives = IF Sessions!Present(s) /\ ~Sessions!IsExpired(key[s]) THEN {r} ELSE {}
        /\ revokes = IF Sessions!Present(s) THEN {s} ELSE {}
  OBVIOUS
<1>4. Sessions!Begin(w, rest, gives, revokes)
  BY <1>1, <1>3
<1>r. /\ Sessions!Removal(s) \in Seq(Commands) /\ Paired(Sessions!Removal(s)) /\ Sessions!Removal(s) # << >>
      /\ Sessions!Removal(s)[1].do = "del"
      /\ \A t, ks : Ahead(Sessions!Removal(s), t, ks) <=> t = s /\ ("del" \in ks \/ "rem" \in ks)
  BY <1>2, RemovalIs
<1>5. CASE ~Sessions!Present(s)
  <2>1. rest = << >> /\ gives = {} /\ revokes = {}
    BY <1>3, <1>5 DEF Sessions!Read
  <2>2. NoOtherWrites(rest)
    BY <2>1, NoneIs DEF NoOtherWrites
  <2>3. rest \in Seq(Commands) /\ Paired(rest) /\ (rest # << >> => rest[1].do # "rem")
    BY <2>1, NoneIs
  <2>4. /\ gives \in SUBSET Session /\ revokes \in SUBSET known
        /\ \A t \in gives : Ahead(rest, t, {"add"})
        /\ \A t \in revokes : Settled(t) \/ Ahead(rest, t, {"del", "revoke", "expel"})
    BY <2>1
  <2>5. QED
    BY <2>2, <2>3, <2>4, <1>4, OperationBegins
<1>6. CASE Sessions!Present(s) /\ Sessions!IsExpired(key[s])
  <2>1. rest = Sessions!Removal(s) /\ gives = {} /\ revokes = {s}
    BY <1>3, <1>6 DEF Sessions!Read
  <2>2. NoOtherWrites(rest)
    BY <2>1, <1>r DEF NoOtherWrites
  <2>3. Ahead(rest, s, {"del", "revoke", "expel"})
    BY <2>1, <1>r
  <2>4. rest \in Seq(Commands) /\ Paired(rest) /\ rest[1].do # "rem" /\ gives \in SUBSET Session /\ revokes \in SUBSET known
    BY <2>1, <1>r
  <2>5. QED
    BY <2>1, <2>2, <2>3, <2>4, <1>4, OperationBegins
<1>7. CASE Sessions!Present(s) /\ ~Sessions!IsExpired(key[s])
  <2>1. rest = Sessions!Write(r, key[s]) \o Sessions!Removal(s) /\ gives = {r} /\ revokes = {s}
    BY <1>3, <1>7 DEF Sessions!Read
  <2>2. key[s] \in Records
    BY <1>2, <1>7, Rewritten
  <2>3. PICK put : put = Sessions!Write(r, key[s])
    OBVIOUS
  <2>4. /\ put \in Seq(Commands) /\ Paired(put) /\ put # << >> /\ put[1].do = "put"
        /\ \A t, ks : Ahead(put, t, ks) <=> t = r /\ ("put" \in ks \/ "add" \in ks)
    BY <1>2, <2>2, <2>3, WriteIs
  <2>5. /\ rest \in Seq(Commands) /\ Paired(rest) /\ rest # << >> /\ rest[1].do = "put"
        /\ \A t, ks : Ahead(rest, t, ks) <=> Ahead(put, t, ks) \/ Ahead(Sessions!Removal(s), t, ks)
    BY <2>1, <2>3, <2>4, <1>r, Joined
  <2>6. NoOtherWrites(rest)
    BY <2>4, <2>5, <1>r DEF NoOtherWrites
  <2>7. Ahead(rest, s, {"del", "revoke", "expel"}) /\ Ahead(rest, r, {"add"})
    BY <2>4, <2>5, <1>r
  <2>8. /\ gives \in SUBSET Session /\ revokes \in SUBSET known
        /\ \A t \in gives : Ahead(rest, t, {"add"})
        /\ \A t \in revokes : Settled(t) \/ Ahead(rest, t, {"del", "revoke", "expel"})
    BY <2>1, <2>7, <1>2
  <2>9. rest # << >> => rest[1].do # "rem"
    BY <2>5
  <2>10. QED
    BY <2>5, <2>6, <2>8, <2>9, <1>4, OperationBegins
<1>8. QED
  BY <1>5, <1>6, <1>7

LEMMA ListingIs ==
  ASSUME NEW S \in SUBSET Session, IsFiniteSet(S), NEW order \in Sessions!SetToSeqs(S), NEW do \in Kinds, do \notin {"put", "rem"},
         NEW rest, rest = [i \in DOMAIN order |-> Sessions!Command(do, order[i], NoRecord)]
  PROVE  /\ rest \in Seq(Commands) /\ Paired(rest) /\ (rest # << >> => rest[1].do # "rem")
         /\ \A t \in S : \A ks : do \in ks => Ahead(rest, t, ks)
         /\ \A t, ks : Ahead(rest, t, ks) => do \in ks
<1>1. \A T : Sessions!Cardinality(T) = Cardinality(T)
  BY Zenon DEF Sessions!Cardinality, Cardinality
<1>2. PICK n \in Nat : n = Cardinality(S)
  BY FS_CardinalityType
<1>3. order \in [1..n -> S] /\ \A i, j \in 1..n : i # j => order[i] # order[j]
  BY <1>1, <1>2 DEF Sessions!SetToSeqs
<1>4. IsFiniteSet(1..n) /\ Cardinality(1..n) = n
  BY FS_Interval
<1>5. order \in Injection(1..n, S)
  BY <1>3 DEF Injection, IsInjective
<1>6. order \in Surjection(1..n, S)
  BY <1>2, <1>4, <1>5, FS_Injection
<1>7. \A t \in S : \E i \in 1..n : order[i] = t
  BY <1>6 DEF Surjection
<1>8. \A i \in 1..n : /\ rest[i] \in Commands /\ rest[i].do = do /\ rest[i].s = order[i]
  BY <1>3 DEF Sessions!Command, Commands
<1>9. rest \in Seq(Commands) /\ DOMAIN rest = 1..n
  <2>1. DOMAIN rest = 1..n /\ rest = [i \in 1..n |-> rest[i]]
    BY <1>3
  <2>2. rest \in [1..n -> Commands]
    BY <2>1, <1>8
  <2>3. QED
    BY <2>1, <2>2
<1>10. Paired(rest)
  BY <1>8, <1>9 DEF Paired
<1>11. rest # << >> => rest[1].do # "rem"
  BY <1>8, <1>9, EmptySeq, LenProperties
<1>12. QED
  BY <1>7, <1>8, <1>9, <1>10, <1>11 DEF Ahead

LEMMA RevokeAllBegins ==
  ASSUME SessionInv, NEW w \in Worker, Sessions!RevokeAllFor(w) PROVE SessionsGoOn
<1>0. PICK kept \in {{}} \cup {{s} : s \in known} : \E order \in Sessions!SetToSeqs(index \ kept) :
        Sessions!Begin(w, [i \in DOMAIN order |-> Sessions!Command("expel", order[i], NoRecord)], {}, known \ kept)
  BY DEF Sessions!RevokeAllFor
<1>1. PICK order \in Sessions!SetToSeqs(index \ kept) :
        Sessions!Begin(w, [i \in DOMAIN order |-> Sessions!Command("expel", order[i], NoRecord)], {}, known \ kept)
  BY <1>0
<1>2. SessionShape /\ index \ kept \in SUBSET Session /\ IsFiniteSet(index \ kept)
  BY FS_Subset DEF SessionInv, SessionShape
<1>3. PICK rest : rest = [i \in DOMAIN order |-> Sessions!Command("expel", order[i], NoRecord)]
  OBVIOUS
<1>4. PICK do \in Kinds : do = "expel"
  BY DEF Kinds
<1>5. /\ rest \in Seq(Commands) /\ Paired(rest) /\ (rest # << >> => rest[1].do # "rem")
      /\ \A t \in index \ kept : \A ks : do \in ks => Ahead(rest, t, ks)
      /\ \A t, ks : Ahead(rest, t, ks) => do \in ks
  BY <1>2, <1>3, <1>4, ListingIs
<1>6. PICK revokes : revokes = known \ kept
  OBVIOUS
<1>7. NoOtherWrites(rest)
  BY <1>4, <1>5 DEF NoOtherWrites
<1>8. \A t \in revokes : Settled(t) \/ Ahead(rest, t, {"del", "revoke", "expel"})
  BY <1>4, <1>5, <1>6 DEF SessionInv
<1>9. Sessions!Begin(w, rest, {}, revokes) /\ revokes \in SUBSET known
  BY <1>1, <1>3, <1>6
<1>10. QED
  BY <1>5, <1>7, <1>8, <1>9, OperationBegins

LEMMA ListBegins ==
  ASSUME SessionInv, NEW w \in Worker, Sessions!ListFor(w) PROVE SessionsGoOn
<1>1. PICK order \in Sessions!SetToSeqs(index) :
        Sessions!Begin(w, [i \in DOMAIN order |-> Sessions!Command("read", order[i], NoRecord)], {}, {})
  BY DEF Sessions!ListFor
<1>2. SessionShape /\ index \in SUBSET Session /\ IsFiniteSet(index)
  BY DEF SessionInv, SessionShape
<1>3. PICK rest : rest = [i \in DOMAIN order |-> Sessions!Command("read", order[i], NoRecord)]
  OBVIOUS
<1>4. PICK do \in Kinds : do = "read"
  BY DEF Kinds
<1>5. /\ rest \in Seq(Commands) /\ Paired(rest) /\ (rest # << >> => rest[1].do # "rem")
      /\ \A t, ks : Ahead(rest, t, ks) => do \in ks
  BY <1>2, <1>3, <1>4, ListingIs
<1>6. NoOtherWrites(rest)
  BY <1>4, <1>5 DEF NoOtherWrites
<1>7. Sessions!Begin(w, rest, {}, {})
  BY <1>1, <1>3
<1>8. QED
  BY <1>5, <1>6, <1>7, OperationBegins

-----------------------------------------------------------------------------
(* The commands.                                                            *)
LEMMA HeadIs ==
  ASSUME SessionInv, NEW w \in Worker, NEW do, Sessions!Next1(w, do)
  PROVE  /\ todo[w] \in Seq(Commands) /\ todo[w] # << >> /\ Head(todo[w]) = todo[w][1] /\ 1 \in DOMAIN todo[w]
         /\ todo[w][1] \in Commands /\ todo[w][1].s \in Session /\ todo[w][1].do = do
<1>1. todo[w] \in Seq(Commands) /\ todo[w] # << >> /\ Head(todo[w]).do = do
  BY DEF SessionInv, SessionShape, Sessions!Next1
<1>2. Head(todo[w]) = todo[w][1] /\ 1 \in DOMAIN todo[w] /\ todo[w][1] \in Commands
  BY <1>1
<1>3. todo[w][1].s \in Session
  BY <1>2 DEF Commands
<1>4. QED
  BY <1>1, <1>2, <1>3

LEMMA AddSent ==
  ASSUME SessionInv, NEW w \in Worker, Sessions!Add(w) PROVE SessionsGoOn
<1>1. /\ Sessions!Next1(w, "add") /\ index' = index \cup {Head(todo[w]).s}
      /\ Sessions!Goes(w, << >> \o Tail(todo[w]), due[w]) /\ UNCHANGED <<now, key>>
  BY DEF Sessions!Add, Sessions!Sent
<1>2. /\ todo[w] # << >> /\ Head(todo[w]) = todo[w][1] /\ todo[w][1].s \in Session /\ todo[w][1].do = "add"
  BY <1>1, HeadIs
<1>3. Promises(w, todo[w])
  BY OwnPromises
<1>4. SessionShape
  BY DEF SessionInv
<1>5. index' \subseteq Session /\ IsFiniteSet(index') /\ key' \in [Session -> {NoRecord} \cup Dated] /\ index \ index' = {}
  BY <1>1, <1>2, <1>4, FS_AddElement DEF SessionShape
<1>6. OnlyPutRevives
  BY <1>1 DEF OnlyPutRevives, Sessions!Present
<1>7. PICK q : q = todo[w]
  OBVIOUS
<1>8. Promises(w, q) /\ q # << >> /\ q[1].do = "add" /\ q[1].s \in index' /\ Sessions!Goes(w, << >> \o Tail(q), due[w])
  BY <1>1, <1>2, <1>3, <1>7
<1>9. QED
  BY <1>1, <1>5, <1>6, <1>8, NoneIs, CommandSent

LEMMA DelSent ==
  ASSUME SessionInv, NEW w \in Worker, Sessions!Del(w) PROVE SessionsGoOn
<1>1. /\ Sessions!Next1(w, "del") /\ key' = [key EXCEPT ![Head(todo[w]).s] = NoRecord]
      /\ Sessions!Goes(w, << >> \o Tail(todo[w]), due[w]) /\ UNCHANGED <<now, index>>
  BY DEF Sessions!Del, Sessions!Sent
<1>2. /\ todo[w] # << >> /\ Head(todo[w]) = todo[w][1] /\ todo[w][1].s \in Session /\ todo[w][1].do = "del"
      /\ 1 \in DOMAIN todo[w] /\ todo[w] \in Seq(Commands)
  BY <1>1, HeadIs
<1>3. PICK q, t : q = todo[w] /\ t = q[1].s
  OBVIOUS
<1>4. Promises(w, q) /\ SessionShape /\ Paired(q)
  BY <1>3, OwnPromises DEF SessionInv, Promises
<1>5. key' = [key EXCEPT ![t] = NoRecord] /\ t \in Session
  BY <1>1, <1>2, <1>3
<1>6. key' \in [Session -> {NoRecord} \cup Dated] /\ index' \subseteq Session /\ IsFiniteSet(index') /\ index \ index' = {}
  <2>1. key' \in [Session -> {NoRecord} \cup Dated]
    BY <1>4, <1>5 DEF SessionShape
  <2>2. index' \subseteq Session /\ IsFiniteSet(index') /\ index \ index' = {}
    BY <1>1, <1>4 DEF SessionShape
  <2>3. QED
    BY <2>1, <2>2
<1>7. OnlyPutRevives /\ ~Sessions!Present(t)'
  BY <1>1, <1>4, <1>5 DEF OnlyPutRevives, Sessions!Present, SessionShape
<1>8. Settled(t)'
  <2>1. Sending(t, {"del", "rem"})
    BY <1>2, <1>3 DEF Sending, Ahead
  <2>2. CASE t \in raced
    BY <2>2, <1>1 DEF Settled, Sessions!Goes
  <2>3. CASE t \notin raced
    <3>1. ~Sending(t, {"put", "add"})
      BY <2>1, <2>3, <1>5 DEF SessionInv
    <3>2. \A v \in Worker : ~Ahead(todo[v], t, {"put"})
      BY <3>1 DEF Sending, Ahead
    <3>3. PICK rest : rest = << >> \o Tail(q)
      OBVIOUS
    <3>4. \A s, ks : Ahead(rest, s, ks) => Ahead(<< >>, s, ks) \/ Ahead(q, s, ks)
      BY <1>2, <1>3, <1>4, <3>3, NoneIs, Followed DEF Follows
    <3>5. ~Ahead(rest, t, {"put"})
      BY <1>3, <3>2, <3>4, NoneIs
    <3>6. todo' = [todo EXCEPT ![w] = rest]
      BY <1>1, <1>3, <3>3 DEF Sessions!Goes
    <3>7. \A v \in Worker : ~Ahead(todo'[v], t, {"put"})
      BY <3>2, <3>5, <3>6, <1>4 DEF SessionShape
    <3>8. QED
      BY <3>7, <1>7 DEF Settled, Gone, Sending
  <2>4. QED
    BY <2>2, <2>3
<1>9. q # << >> /\ q[1].do = "del" /\ q[1].s = t /\ Sessions!Goes(w, << >> \o Tail(q), due[w])
  BY <1>1, <1>2, <1>3
<1>10. QED
  BY <1>1, <1>4, <1>6, <1>7, <1>8, <1>9, NoneIs, CommandSent

LEMMA RemSent ==
  ASSUME SessionInv, NEW w \in Worker, Sessions!Rem(w) PROVE SessionsGoOn
<1>1. /\ Sessions!Next1(w, "rem") /\ index' = index \ {Head(todo[w]).s}
      /\ Sessions!Goes(w, << >> \o Tail(todo[w]), due[w]) /\ UNCHANGED <<now, key>>
  BY DEF Sessions!Rem, Sessions!Sent
<1>2. /\ todo[w] # << >> /\ Head(todo[w]) = todo[w][1] /\ todo[w][1].s \in Session /\ todo[w][1].do = "rem"
      /\ 1 \in DOMAIN todo[w] /\ todo[w] \in Seq(Commands)
  BY <1>1, HeadIs
<1>3. PICK q, t, owed : q = todo[w] /\ t = q[1].s /\ owed = due[w]
  OBVIOUS
<1>4. Promises(w, q) /\ SessionShape /\ Paired(q) /\ WorkerStands(w)
  BY <1>3, OwnPromises DEF SessionInv, Promises
<1>5. index' = index \ {t} /\ t \in Session
  BY <1>1, <1>2, <1>3
<1>6. key' \in [Session -> {NoRecord} \cup Dated] /\ index' \subseteq Session /\ IsFiniteSet(index') /\ index \ index' \subseteq {t}
  <2>1. IsFiniteSet(index) /\ index \subseteq Session
    BY <1>4 DEF SessionShape
  <2>2. IsFiniteSet(index \ {t})
    BY <2>1, FS_RemoveElement
  <2>3. key' \in [Session -> {NoRecord} \cup Dated]
    BY <1>1, <1>4 DEF SessionShape
  <2>4. QED
    BY <1>5, <2>1, <2>2, <2>3
<1>7. OnlyPutRevives
  BY <1>1 DEF OnlyPutRevives, Sessions!Present
<1>8. Settled(t)'
  <2>1. Settled(t) /\ t \notin Sessions!Fresh
    BY <1>2, <1>3, <1>4, NotNew DEF WorkerStands
  <2>2. PICK rest : rest = << >> \o Tail(q)
    OBVIOUS
  <2>3. \A s, ks : Ahead(rest, s, ks) => Ahead(<< >>, s, ks) \/ Ahead(q, s, ks)
    BY <1>2, <1>3, <1>4, <2>2, NoneIs, Followed DEF Follows
  <2>4. NoOtherWrites(rest)
    BY <2>3, <1>4, NoneIs DEF NoOtherWrites, Promises
  <2>5. Sessions!Goes(w, rest, owed)
    BY <1>1, <1>3, <2>2
  <2>6. QED
    BY <1>4, <1>5, <1>7, <2>1, <2>4, <2>5, StillSettled
<1>9. q # << >> /\ q[1].do = "rem" /\ q[1].s = t /\ Sessions!Goes(w, << >> \o Tail(q), due[w])
  BY <1>1, <1>2, <1>3
<1>10. QED
  BY <1>1, <1>4, <1>6, <1>7, <1>8, <1>9, NoneIs, CommandSent

(* A command that only reads, and makes the worker send more.               *)
LEMMA ReadSent ==
  ASSUME SessionInv, NEW w \in Worker, NEW do, Sessions!Next1(w, do), do \notin {"add", "del"},
         NEW more \in Seq(Commands), Paired(more), Sessions!Goes(w, more \o Tail(todo[w]), due[w]),
         UNCHANGED <<now, key, index>>,
         \A s \in Session : Ahead(more, s, {"put"}) => Sessions!Present(s),
         \A s : more # << >> /\ more[1].do = "rem" /\ more[1].s = s => Settled(s)',
         do \in {"revoke", "expel"} => \A s : s = todo[w][1].s => Settled(s)' \/ Ahead(more, s, {"del"})
  PROVE  SessionsGoOn
<1>1. todo[w] # << >> /\ todo[w][1].do = do
  BY HeadIs
<1>2. PICK q : q = todo[w]
  OBVIOUS
<1>3. Promises(w, q) /\ SessionShape
  BY <1>2, OwnPromises DEF SessionInv
<1>4. key' \in [Session -> {NoRecord} \cup Dated] /\ index' \subseteq Session /\ IsFiniteSet(index') /\ index \ index' = {}
  BY <1>3 DEF SessionShape
<1>5. OnlyPutRevives
  BY DEF OnlyPutRevives, Sessions!Present
<1>6. /\ q # << >> /\ q[1].do = do /\ Sessions!Goes(w, more \o Tail(q), due[w])
      /\ do \in {"revoke", "expel"} => \A s : s = q[1].s => Settled(s)' \/ Ahead(more, s, {"del"})
  BY <1>1, <1>2
<1>7. q[1].do \in {"del", "revoke", "expel"} => \A s : s = q[1].s => Settled(s)' \/ Ahead(more, s, {"del"})
  BY <1>6
<1>8. q[1].do # "add" /\ q[1].do # "del"
  BY <1>6
<1>9. QED
  BY <1>3, <1>4, <1>5, <1>6, <1>7, <1>8, CommandSent

LEMMA TouchSent ==
  ASSUME SessionInv, NEW w \in Worker, Sessions!Touch(w) PROVE SessionsGoOn
<1>1. PICK s : s = Head(todo[w]).s
  OBVIOUS
<1>2. /\ Sessions!Next1(w, "touch") /\ UNCHANGED <<now, key, index>>
      /\ Sessions!Goes(w, Sessions!Read(s, Sessions!Write(s, [key[s] EXCEPT !.seen = now])) \o Tail(todo[w]), due[w])
  BY <1>1 DEF Sessions!Touch, Sessions!Sent
<1>3. s \in Session /\ SessionShape
  BY <1>1, <1>2, HeadIs DEF SessionInv
<1>4. PICK more : more = Sessions!Read(s, Sessions!Write(s, [key[s] EXCEPT !.seen = now]))
  OBVIOUS
<1>5. /\ more \in Seq(Commands) /\ Paired(more) /\ (more # << >> => more[1].do # "rem")
      /\ \A t, ks : Ahead(more, t, ks) => t = s /\ Sessions!Present(s)
  <2>1. CASE ~Sessions!Present(s)
    <3>1. more = << >>
      BY <2>1, <1>4 DEF Sessions!Read
    <3>2. QED
      BY <3>1, NoneIs
  <2>2. CASE Sessions!Present(s)
    <3>1. PICK rec \in Records : rec = [key[s] EXCEPT !.seen = now]
      BY <1>3, <2>2, Rewritten
    <3>2. PICK then : then = Sessions!Write(s, rec)
      OBVIOUS
    <3>3. /\ then \in Seq(Commands) /\ Paired(then) /\ then # << >> /\ then[1].do = "put"
          /\ \A t, ks : Ahead(then, t, ks) => t = s
      BY <1>3, <3>2, WriteIs
    <3>4. more = Sessions!Read(s, then)
      BY <1>4, <3>1, <3>2
    <3>5. /\ more \in Seq(Commands) /\ Paired(more) /\ (more # << >> => more[1].do # "rem")
          /\ \A t, ks : Ahead(more, t, ks) => Ahead(then, t, ks) \/ t = s
      BY <1>3, <3>3, <3>4, ReadIs
    <3>6. QED
      BY <2>2, <3>3, <3>5
  <2>3. QED
    BY <2>1, <2>2
<1>6. Sessions!Goes(w, more \o Tail(todo[w]), due[w])
  BY <1>2, <1>4
<1>7. QED
  BY <1>2, <1>5, <1>6, ReadSent

LEMMA ReadOneSent ==
  ASSUME SessionInv, NEW w \in Worker, Sessions!ReadOne(w) PROVE SessionsGoOn
<1>1. PICK s : s = Head(todo[w]).s
  OBVIOUS
<1>2. /\ Sessions!Next1(w, "read") /\ UNCHANGED <<now, key, index>>
      /\ Sessions!Goes(w, Sessions!Read(s, << >>) \o Tail(todo[w]), due[w])
  BY <1>1 DEF Sessions!ReadOne, Sessions!Sent
<1>3. s \in Session /\ SessionShape
  BY <1>1, <1>2, HeadIs DEF SessionInv
<1>4. PICK more : more = Sessions!Read(s, << >>)
  OBVIOUS
<1>5. /\ more \in Seq(Commands) /\ Paired(more) /\ (more # << >> => more[1].do # "rem")
      /\ \A t, ks : Ahead(more, t, ks) => t = s /\ Sessions!Present(s)
  BY <1>3, <1>4, NoneIs, ReadIs
<1>6. Sessions!Goes(w, more \o Tail(todo[w]), due[w])
  BY <1>2, <1>4
<1>7. QED
  BY <1>2, <1>5, <1>6, ReadSent

LEMMA RevokeSent ==
  ASSUME SessionInv, NEW w \in Worker, Sessions!Revoke(w) PROVE SessionsGoOn
<1>1. PICK s : s = Head(todo[w]).s
  OBVIOUS
<1>2. PICK do \in {"revoke", "expel"} : Sessions!Next1(w, do)
  BY DEF Sessions!Revoke
<1>3. /\ s \in Session /\ todo[w][1].s = s /\ todo[w] \in Seq(Commands) /\ todo[w] # << >> /\ SessionShape
  BY <1>1, <1>2, HeadIs DEF SessionInv
<1>4. PICK absent : /\ absent = IF Sessions!Next1(w, "revoke") THEN Sessions!Command("del", s, NoRecord)
                                 ELSE Sessions!Command("rem", s, NoRecord)
  OBVIOUS
<1>5. PICK more : more = IF Sessions!Present(s) THEN Sessions!Removal(s) ELSE <<absent>>
  OBVIOUS
<1>6. /\ Sessions!Goes(w, more \o Tail(todo[w]), due[w]) /\ UNCHANGED <<now, key, index>>
  BY <1>1, <1>4, <1>5 DEF Sessions!Revoke, Sessions!Sent
<1>7. PICK kind \in Kinds : kind \in {"del", "rem"} /\ absent = Sessions!Command(kind, s, NoRecord)
  BY <1>4 DEF Kinds
<1>8. /\ more \in Seq(Commands) /\ Paired(more)
      /\ \A t, ks : Ahead(more, t, ks) => t = s /\ ("del" \in ks \/ "rem" \in ks)
      /\ Ahead(more, s, {"del"}) \/ (~Sessions!Present(s) /\ Ahead(more, s, {"rem"}))
      /\ more # << >> /\ more[1].s = s /\ (more[1].do = "rem" => ~Sessions!Present(s) /\ Ahead(more, s, {"rem"}))
  <2>1. CASE Sessions!Present(s)
    <3>1. more = Sessions!Removal(s)
      BY <2>1, <1>5
    <3>2. QED
      BY <3>1, <1>3, RemovalIs
  <2>2. CASE ~Sessions!Present(s)
    <3>1. more = <<Sessions!Command(kind, s, NoRecord)>>
      BY <2>2, <1>5, <1>7
    <3>2. /\ more \in Seq(Commands) /\ Paired(more) /\ more # << >> /\ more[1].do = kind /\ more[1].s = s
          /\ \A t, ks : Ahead(more, t, ks) <=> t = s /\ kind \in ks
      BY <3>1, <1>3, <1>7, OneIs
    <3>3. QED
      BY <2>2, <3>2, <1>7
  <2>3. QED
    BY <2>1, <2>2
<1>9. ASSUME ~Sessions!Present(s), Ahead(more, s, {"rem"}) PROVE Settled(s)'
  <2>1. ~Sessions!Present(s)'
    BY <1>6, <1>9 DEF Sessions!Present
  <2>2. PICK q, rest : q = todo[w] /\ rest = more \o Tail(q)
    OBVIOUS
  <2>3. Paired(q) /\ q[1].do = do
    BY <2>2, <1>2, HeadIs, OwnPromises DEF Promises
  <2>4. Ahead(rest, s, {"rem"})
    BY <1>3, <1>8, <1>9, <2>2, <2>3, Followed DEF Follows
  <2>5. todo' = [todo EXCEPT ![w] = rest] /\ raced' = raced \cup (Sessions!Pending(todo', {"put", "add"}) \cap Sessions!Pending(todo', {"del", "rem"}))
    BY <1>6, <2>2 DEF Sessions!Goes
  <2>6. todo'[w] = rest
    BY <2>5, <1>3 DEF SessionShape
  <2>7. s \in Sessions!Pending(todo', {"del", "rem"})
    BY <2>4, <2>6, <1>3 DEF Sessions!Pending, Ahead
  <2>8. Sending(s, {"put"})' => s \in Sessions!Pending(todo', {"put", "add"})
    BY <1>3 DEF Sessions!Pending, Sending, Ahead
  <2>9. QED
    BY <2>1, <2>5, <2>7, <2>8 DEF Settled, Gone
<1>10. QED
  BY <1>2, <1>3, <1>6, <1>8, <1>9, ReadSent

LEMMA PutSent ==
  ASSUME SessionInv, NEW w \in Worker, Sessions!Put(w) PROVE SessionsGoOn
<1>1. PICK q, c : q = todo[w] /\ c = Head(q)
  OBVIOUS
<1>2. /\ Sessions!Next1(w, "put") /\ UNCHANGED <<now, calls, index>>
      /\ IF now - c.rec.created >= Absolute
           THEN Sessions!Goes(w, Sessions!Removal(c.s) \o Tail(Tail(q)), due[w]) /\ UNCHANGED key
           ELSE /\ key' = [key EXCEPT ![c.s] = [created |-> c.rec.created, seen |-> c.rec.seen,
                                                idle |-> c.rec.idle, dies |-> Sessions!Dies(c.rec)]]
                /\ Sessions!Goes(w, << >> \o Tail(q), due[w])
  BY <1>1 DEF Sessions!Put, Sessions!Sent
<1>3. /\ q \in Seq(Commands) /\ q # << >> /\ c = q[1] /\ 1 \in DOMAIN q /\ c \in Commands /\ c.s \in Session /\ c.do = "put"
  BY <1>1, <1>2, HeadIs
<1>4. Promises(w, q) /\ SessionShape
  BY <1>1, OwnPromises DEF SessionInv
<1>5. c.rec \in Records /\ 2 \in DOMAIN q /\ q[2].do = "add" /\ q[2].s = c.s
  <2>1. q[1].rec \in Records /\ 1 + 1 \in DOMAIN q /\ q[1 + 1].do = "add" /\ q[1 + 1].s = q[1].s
    BY <1>3, <1>4 DEF Promises, Paired
  <2>2. QED
    BY <2>1, <1>3
<1>6. Sending(c.s, {"put"})
  BY <1>1, <1>3 DEF Sending, Ahead
<1>7. CASE now - c.rec.created >= Absolute
  <2>1. PICK p : p = << >> \o Tail(q)
    OBVIOUS
  <2>2. p = Tail(q) /\ p # << >> /\ p[1] = q[2]
    BY <1>3, <1>5, <2>1
  <2>3. Follows(q, << >>, p)
    BY <1>3, <1>4, <2>1, NoneIs, Followed DEF Promises
  <2>4. Promises(w, p)
    <3>1. \A s, ks : "put" \notin ks /\ Ahead(q, s, ks) => Ahead(p, s, ks)
      BY <2>3, <1>3 DEF Follows
    <3>2. \A s, ks : Ahead(p, s, ks) => Ahead(q, s, ks)
      BY <2>3, NoneIs DEF Follows
    <3>3. "put" \notin {"del", "revoke", "expel"} /\ "put" \notin {"add", "del"}
      OBVIOUS
    <3>4. QED
      BY <1>4, <2>3, <3>1, <3>2, <3>3 DEF Promises, Follows
  <2>5. PICK more : more = Sessions!Removal(c.s)
    OBVIOUS
  <2>6. /\ more \in Seq(Commands) /\ Paired(more) /\ more # << >> /\ more[1].do = "del"
        /\ \A t, ks : Ahead(more, t, ks) <=> t = c.s /\ ("del" \in ks \/ "rem" \in ks)
    BY <1>3, <2>5, RemovalIs
  <2>7. Sessions!Goes(w, more \o Tail(p), due[w]) /\ UNCHANGED <<now, key, index>>
    BY <1>2, <1>7, <2>2, <2>5
  <2>8. p[1].do = "add" /\ Ahead(more, p[1].s, {"del"})
    BY <2>2, <2>6, <1>5
  <2>9. OnlyPutRevives
    BY <2>7 DEF OnlyPutRevives, Sessions!Present
  <2>10. key' \in [Session -> {NoRecord} \cup Dated] /\ index' \subseteq Session /\ IsFiniteSet(index') /\ index \ index' = {}
    BY <2>7, <1>4 DEF SessionShape
  <2>11. \A s \in Session : ~Ahead(more, s, {"put"})
    BY <2>6
  <2>12. QED
    BY <2>2, <2>4, <2>6, <2>7, <2>8, <2>9, <2>10, <2>11, CommandSent
<1>8. CASE ~(now - c.rec.created >= Absolute)
  <2>1. PICK rec : rec = [created |-> c.rec.created, seen |-> c.rec.seen, idle |-> c.rec.idle, dies |-> Sessions!Dies(c.rec)]
    OBVIOUS
  <2>2. key' = [key EXCEPT ![c.s] = rec] /\ Sessions!Goes(w, << >> \o Tail(q), due[w])
    BY <1>2, <1>8, <2>1
  <2>3. c.rec.created \in Int /\ c.rec.seen \in Int /\ c.rec.idle \in Int
    BY <1>5 DEF Records, Dated
  <2>4. Sessions!Dies(c.rec) \in Int
    BY <2>3, <1>4, AdmissionAssumption DEF Sessions!Dies, SessionShape
  <2>5. rec \in Dated
    BY <2>1, <2>3, <2>4 DEF Dated
  <2>6. key' \in [Session -> {NoRecord} \cup Dated]
    BY <2>2, <2>5, <1>3, <1>4 DEF SessionShape
  <2>7. index' \subseteq Session /\ IsFiniteSet(index') /\ index \ index' = {}
    BY <1>2, <1>4 DEF SessionShape
  <2>8. OnlyPutRevives
    <3> SUFFICES ASSUME NEW s \in Session, Sessions!Present(s)' PROVE Sessions!Present(s) \/ Sending(s, {"put"})
      BY DEF OnlyPutRevives
    <3>1. CASE s = c.s
      BY <3>1, <1>6
    <3>2. CASE s # c.s
      BY <3>2, <2>2, <1>2, <1>4 DEF Sessions!Present, SessionShape
    <3>3. QED
      BY <3>1, <3>2
  <2>9. q[1].do = "put"
    BY <1>3
  <2>10. QED
    BY <1>2, <1>3, <1>4, <2>2, <2>6, <2>7, <2>8, <2>9, NoneIs, CommandSent
<1>9. QED
  BY <1>7, <1>8

-----------------------------------------------------------------------------
LEMMA WorkerDies ==
  ASSUME SessionInv, NEW w \in Worker, Sessions!ProcessDies(w) PROVE SessionsGoOn
<1>1. /\ todo' = [todo EXCEPT ![w] = << >>] /\ due' = [due EXCEPT ![w] = [gives |-> {}, revokes |-> {}]]
      /\ UNCHANGED <<now, calls, key, index, known, revoked, raced>>
  BY DEF Sessions!ProcessDies, Sessions!Nothing
<1>2. SessionShape
  BY DEF SessionInv
<1>3. \A v \in Worker : IF v = w THEN todo'[v] = << >> /\ due'[v] = [gives |-> {}, revokes |-> {}]
                                 ELSE todo'[v] = todo[v] /\ due'[v] = due[v]
  BY <1>1, <1>2 DEF SessionShape
<1>4. SessionShape'
  <2>1. [gives |-> {}, revokes |-> {}] \in Debts
    BY DEF Debts
  <2>2. todo' \in [Worker -> Seq(Commands)] /\ due' \in [Worker -> Debts]
    BY <1>1, <1>2, <2>1, NoneIs DEF SessionShape
  <2>3. QED
    BY <1>1, <1>2, <2>2 DEF SessionShape
<1>5. \A s, ks : Sending(s, ks)' => Sending(s, ks)
  <2> SUFFICES ASSUME NEW s, NEW ks, NEW v \in Worker, Ahead(todo'[v], s, ks) PROVE Sending(s, ks)
    BY DEF Sending, Ahead
  <2>1. v # w
    BY <1>3, NoneIs
  <2>2. QED
    BY <2>1, <1>3 DEF Sending
<1>6. \A s : Settled(s) => Settled(s)'
  BY <1>1, <1>5 DEF Settled, Gone, Sessions!Present
<1>7. \A s : Gone(s) => Gone(s)'
  BY <1>1, <1>5 DEF Gone, Sessions!Present
<1>8. ASSUME NEW v \in Worker PROVE WorkerStands(v)'
  <2>1. CASE v = w
    <3>1. todo'[v] = << >> /\ due'[v].gives = {} /\ due'[v].revokes = {}
      BY <2>1, <1>3
    <3>2. QED
      BY <3>1, NoneIs DEF WorkerStands
  <2>2. CASE v # w
    <3>1. WorkerStands(v) /\ todo'[v] = todo[v] /\ due'[v] = due[v]
      BY <2>2, <1>3 DEF SessionInv
    <3>2. \A s : todo[v] # << >> /\ todo[v][1].do = "rem" /\ todo[v][1].s = s => Settled(s)'
      BY <3>1, <1>6 DEF WorkerStands
    <3>3. QED
      BY <3>1, <3>2, <1>1, <1>6 DEF WorkerStands
  <2>3. QED
    BY <2>1, <2>2
<1>9. QED
  BY <1>1, <1>4, <1>5, <1>6, <1>7, <1>8 DEF SessionsGoOn, SessionInv

LEMMA TimePasses ==
  ASSUME SessionInv, Sessions!Tick PROVE SessionsGoOn
<1>1. now' = now + 1 /\ UNCHANGED <<calls, key, index, todo, due, known, revoked, raced>>
  BY DEF Sessions!Tick
<1>2. SessionShape /\ SessionShape'
  BY <1>1 DEF SessionInv, SessionShape
<1>3. \A s \in Session : Sessions!Present(s)' => Sessions!Present(s)
  <2> SUFFICES ASSUME NEW s \in Session, key[s] # NoRecord, now + 1 < key[s].dies PROVE now < key[s].dies
    BY <1>1 DEF Sessions!Present
  <2>1. key[s] \in Dated /\ now \in Int
    BY <1>2 DEF SessionShape
  <2>2. QED
    BY <2>1 DEF Dated
<1>4. \A s \in Session : (Settled(s) => Settled(s)') /\ (Gone(s) => Gone(s)')
  BY <1>1, <1>3 DEF Settled, Gone, Sending
<1>5. ASSUME NEW v \in Worker PROVE WorkerStands(v)'
  <2>1. WorkerStands(v) /\ todo'[v] = todo[v] /\ due'[v] = due[v] /\ todo[v] \in Seq(Commands) /\ due[v] \in Debts
    BY <1>1, <1>2 DEF SessionInv, SessionShape
  <2>2. \A s : todo[v] # << >> /\ todo[v][1].do = "rem" /\ todo[v][1].s = s => Settled(s)'
    <3> SUFFICES ASSUME NEW s, todo[v] # << >>, todo[v][1].do = "rem", todo[v][1].s = s PROVE Settled(s)'
      OBVIOUS
    <3>1. todo[v][1] \in Commands
      BY <2>1
    <3>2. s \in Session
      BY <3>1 DEF Commands
    <3>3. QED
      BY <2>1, <3>2, <1>4 DEF WorkerStands
  <2>3. due[v].gives \subseteq Session /\ due[v].revokes \subseteq Session
    BY <2>1 DEF Debts
  <2>4. QED
    BY <1>1, <1>4, <2>1, <2>2, <2>3 DEF WorkerStands
<1>6. QED
  BY <1>1, <1>2, <1>4, <1>5 DEF SessionsGoOn, SessionInv, SessionShape, Sending

LEMMA SessionStep == SessionInv /\ Sessions!Next => SessionsGoOn
  BY TimePasses, CreateBegins, UseBegins, RotateBegins, RevokeAllBegins, ListBegins, PutSent, AddSent, DelSent,
     RemSent, TouchSent, RevokeSent, ReadOneSent, WorkerDies DEF Sessions!Next

LEMMA SessionAside == SessionInv /\ UNCHANGED ofSessions => SessionInv'
  BY DEF ofSessions, SessionInv, SessionShape, WorkerStands, Sending, Settled, Gone, Sessions!Present

LEMMA SessionPromises == SessionInv => Sessions!BackOnlyIfCrossed
  BY DEF SessionInv, SessionShape, Settled, Gone, Sessions!BackOnlyIfCrossed

LEMMA NoSessionReturns ==
  SessionsGoOn => \A s \in Session : Sessions!Gone(s) => Sessions!Gone(s)'
<1> SUFFICES ASSUME SessionsGoOn, NEW s \in Session, Sessions!Gone(s) PROVE Sessions!Gone(s)'
  OBVIOUS
<1>1. s \in known /\ Gone(s)
  BY DEF Sessions!Gone, Sessions!Pending, Gone, Sending, Ahead
<1>2. s \in known' /\ Gone(s)'
  BY <1>1 DEF SessionsGoOn
<1>3. QED
  BY <1>2 DEF Sessions!Gone, Sessions!Pending, Gone, Sending, Ahead

(* SessionsStayGone: for any sessions, workers, lifetimes and operations,   *)
(* sent command by command in any order and broken off anywhere, a session  *)
(* that is gone while no write of it is on its way never returns, and one   *)
(* whose revocation was answered is there only if a write of it crossed a   *)
(* removal (as the code lets happen: RevokedIsGone fails); and a new link   *)
(* leaves none of those working that were there when it was made.           *)
THEOREM SessionsStayGone == Spec => GoneStaysGone
<1>1. Init => SessionInv /\ LinksInv
  BY SessionsInitially, LinksInitially DEF Init
<1>2. SessionInv /\ [Next]_vars => SessionInv'
  BY SessionStep, SessionAside DEF Next, vars, SessionsGoOn
<1>3. LinksInv /\ [Next]_vars => LinksInv'
  BY LinksStep, LinksAside DEF Next, vars
<1>4. SessionInv /\ LinksInv => Sessions!BackOnlyIfCrossed /\ Links!EarlierIsSpent
  BY SessionPromises, LinksPromise
<1>5. SessionInv /\ [Next]_vars => [\A s \in Session : Sessions!Gone(s) => Sessions!Gone(s)']_Sessions!vars
  <2>1. CASE Sessions!Next
    BY <2>1, SessionStep, NoSessionReturns
  <2>2. CASE UNCHANGED ofSessions
    BY <2>2 DEF ofSessions, Sessions!vars
  <2>3. QED
    BY <2>1, <2>2 DEF Next, vars
<1>6. QED
  BY <1>1, <1>2, <1>3, <1>4, <1>5, PTL DEF Spec, GoneStaysGone, Sessions!GoneForGood
===============================================================================
