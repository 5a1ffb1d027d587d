-------------------------------- MODULE SignIn --------------------------------
(***************************************************************************)
(* One person signs in, by a link in a mail (identity/application/         *)
(* magic-link.ts) or through an OpenID provider (identity/application/     *)
(* oidc.ts), while administrators invite the person, withdraw invitations, *)
(* change the company's provider and enforce single sign-on.               *)
(*                                                                         *)
(* A sign-in is a chain of separate statements: the link is consumed, the  *)
(* restrictions are read, a session is opened, the restrictions are read   *)
(* again, the invitation is accepted, and the browser is answered.  Every  *)
(* statement is a step; the process may die between any two.               *)
(***************************************************************************)
EXTENDS Naturals, FiniteSets

CONSTANTS
  Attempt,     \* sign-ins
  Token,       \* magic_link_token rows
  Invite,      \* pending_invite rows
  None,
  MaxVersion   \* bound: changes of the company's provider

VARIABLES
  company,   \* sso_enforced, and the configuration_version of its one provider
  person,    \* account, admin (of the company), member, and domain (one of the company's)
  invite,    \* invite -> "none", "pending", "expired", "accepted", "withdrawn"
  token,     \* token -> its state and the invitation it carries
  flow,      \* attempt -> where it is and what it holds
  sessions,  \* attempts whose session is in the store
  opened     \* attempts that ever opened a session

vars == <<company, person, invite, token, flow, sessions, opened>>

NoFlow == [at |-> "idle", via |-> "link", token |-> None, invite |-> None, version |-> 0]

Init ==
  /\ company = [enforced |-> FALSE, version |-> 0]
  /\ person \in [account : BOOLEAN, admin : BOOLEAN, member : {FALSE}, domain : BOOLEAN]
  /\ person.admin => person.account
  /\ invite = [i \in Invite |-> "none"]
  /\ token = [t \in Token |-> [state |-> "none", invite |-> None]]
  /\ flow = [a \in Attempt |-> NoFlow]
  /\ sessions = {} /\ opened = {}

Pending == {i \in Invite : invite[i] = "pending"}
Live == {t \in Token : token[t].state = "live"}

(* check: the company's domains, a membership and a pending invitation each *)
(* restrict the address; only an existing administrator passes all the same.*)
Access ==
  \/ ~company.enforced
  \/ ~(person.domain \/ person.member \/ person.admin \/ Pending # {})
  \/ person.account /\ person.admin

-------------------------------------------------------------------------------
(* The administrators, the clock, and a new link. *)

Invites(i) ==
  /\ invite[i] = "none" /\ ~person.member /\ ~person.admin
  /\ invite' = [invite EXCEPT ![i] = "pending"]
  /\ IF company.enforced THEN UNCHANGED token
     ELSE \E t \in Token : /\ token[t].state = "none"
                           /\ token' = [token EXCEPT ![t] = [state |-> "live", invite |-> i]]
  /\ UNCHANGED <<company, person, flow, sessions, opened>>

(* The row goes, and with it its number in the links that carried it. *)
Withdraw(i) ==
  /\ invite[i] \in {"pending", "expired"}
  /\ invite' = [invite EXCEPT ![i] = "withdrawn"]
  /\ token' = [t \in Token |-> IF token[t].invite = i THEN [token[t] EXCEPT !.invite = None] ELSE token[t]]
  /\ UNCHANGED <<company, person, flow, sessions, opened>>

InviteExpires(i) ==
  /\ invite[i] = "pending" /\ invite' = [invite EXCEPT ![i] = "expired"]
  /\ UNCHANGED <<company, person, token, flow, sessions, opened>>

(* Whoever enforces it has come through the provider as it is configured    *)
(* now: a colleague.                                                        *)
Enforce ==
  /\ company' = [company EXCEPT !.enforced = ~@]
  /\ UNCHANGED <<person, invite, token, flow, sessions, opened>>

ChangeProvider ==
  /\ company.version < MaxVersion
  /\ company' = [company EXCEPT !.version = @ + 1]
  /\ UNCHANGED <<person, invite, token, flow, sessions, opened>>

(* requestLink: the person's older links are spent. *)
RequestLink(t) ==
  /\ token[t].state = "none" /\ Access
  /\ person.account \/ Pending # {}
  /\ \E i \in IF Pending = {} THEN {None} ELSE Pending :
       token' = [u \in Token |->
                   IF u = t THEN [state |-> "live", invite |-> i]
                   ELSE IF u \in Live THEN [token[u] EXCEPT !.state = "spent"] ELSE token[u]]
  /\ UNCHANGED <<company, person, invite, flow, sessions, opened>>

-------------------------------------------------------------------------------
(* One sign-in. *)

At(a, p) == flow[a].at = p
Goes(a, p) ==   \* what is over is remembered by the link it spent
  flow' = [flow EXCEPT ![a] = IF p \in {"refused", "lost", "in"} THEN [NoFlow EXCEPT !.at = p, !.token = flow[a].token]
                              ELSE [@ EXCEPT !.at = p]]
Refuses(a) == Goes(a, "refused") /\ UNCHANGED <<sessions, opened>>

\* Mutant of Consume: whether the link is spent is looked up before.
ConsumeLoosely(a, t) ==
  /\ At(a, "idle") /\ token[t].state \in {"live", "spent"}
  /\ token' = [token EXCEPT ![t].state = "spent"]
  /\ flow' = [flow EXCEPT ![a] = [NoFlow EXCEPT !.at = "checking", !.token = t, !.invite = token[t].invite]]
  /\ UNCHANGED <<company, person, invite, sessions, opened>>

(* callback and confirm: one UPDATE spends the link. *)
Consume(a, t) ==
  /\ At(a, "idle") /\ token[t].state = "live"
  /\ token' = [token EXCEPT ![t].state = "spent"]
  /\ flow' = [flow EXCEPT ![a] = [NoFlow EXCEPT !.at = "checking", !.token = t, !.invite = token[t].invite]]
  /\ UNCHANGED <<company, person, invite, sessions, opened>>

(* The browser has one cookie for the flow it is in: a second sign-in takes *)
(* it from the first, which is then refused when it returns.                *)
CookieTaken == [a \in Attempt |-> IF At(a, "away") THEN [flow[a] EXCEPT !.at = "stray"] ELSE flow[a]]

(* The other way: begin stores the provider's configuration as it is now.   *)
BeginOidc(a, via) ==
  /\ At(a, "idle")
  /\ flow' = [CookieTaken EXCEPT ![a] = [NoFlow EXCEPT !.at = "away", !.via = via, !.version = company.version]]
  /\ UNCHANGED <<company, person, invite, token, sessions, opened>>

(* The provider sends the browser back.  The flow is taken out of the store *)
(* if it is still there (ten minutes), and the configuration must not have  *)
(* changed.                                                                 *)
Consumed(a) ==
  \/ Goes(a, "refused")
  \/ /\ flow[a].via = "company" => flow[a].version = company.version
     /\ Goes(a, "exchanging")

Returns(a) ==
  /\ \/ At(a, "stray") /\ Goes(a, "refused")
     \/ At(a, "away") /\ Consumed(a)
  /\ UNCHANGED <<company, person, invite, token, sessions, opened>>

(* The code for an identity: the provider vouches for an address - with the *)
(* issuer, client, redirect, nonce and verifier of this flow - or does not. *)
Exchanged == {"nothing", "unverified address", "verified address"}

(* An unknown person needs an invitation as it is now.                      *)
Identify(a) ==
  /\ At(a, "exchanging")
  /\ \E answer \in Exchanged :
       \/ /\ answer = "verified address" => ~person.account /\ Pending = {}
          /\ Goes(a, "refused")
       \/ /\ answer = "verified address"
          /\ \E i \in Pending \union (IF person.account THEN {None} ELSE {}) :
               flow' = [flow EXCEPT ![a].at = "opening", ![a].invite = i]
  /\ UNCHANGED <<company, person, invite, token, sessions, opened>>

(* complete's first check, and the invitation it carries as it is now. *)
Check(a) ==
  /\ At(a, "checking")
  /\ IF ~Access \/ (flow[a].invite # None /\ invite[flow[a].invite] = "expired") THEN Refuses(a)
     ELSE /\ flow' = [flow EXCEPT ![a].at = "opening",
                        ![a].invite = IF @ # None /\ invite[@] = "pending" THEN @ ELSE None]
          /\ UNCHANGED <<sessions, opened>>
  /\ UNCHANGED <<company, person, invite, token>>

(* The account, its identity, its last login, and the session. *)
Open(a) ==
  /\ At(a, "opening")
  /\ person' = [person EXCEPT !.account = TRUE]
  /\ Goes(a, "confirming")
  /\ sessions' = sessions \union {a} /\ opened' = opened \union {a}
  /\ UNCHANGED <<company, invite, token>>

\* Mutant of Confirm: restrictions are not read again.
ConfirmBlindly(a) ==
  /\ At(a, "confirming") /\ Goes(a, "accepting")
  /\ UNCHANGED <<company, person, invite, token, sessions, opened>>

(* After the session is there: a link reads the restrictions again, and a   *)
(* sign-in through the company is recorded if its provider is unchanged.    *)
Confirm(a) ==
  /\ At(a, "confirming")
  /\ Goes(a, IF \/ flow[a].via = "link" /\ ~Access
                \/ flow[a].via = "company" /\ flow[a].version # company.version
             THEN "undoing" ELSE "accepting")
  /\ UNCHANGED <<company, person, invite, token, sessions, opened>>

(* accept: one transaction.  A withdrawn invitation is no obstacle. *)
MayAccept(a) ==
  LET via == flow[a].via IN
  IF via = "company" THEN flow[a].version = company.version
  ELSE ~company.enforced \/ (via = "link" /\ person.admin)

\* Mutant of Accept: the invitation read at the start is as good as pending.
AcceptAsRead(a) ==
  /\ At(a, "accepting")
  /\ IF flow[a].invite = None THEN Goes(a, "in") /\ UNCHANGED <<person, invite>>
     ELSE /\ Goes(a, "in")
          /\ invite' = [invite EXCEPT ![flow[a].invite] = "accepted"]
          /\ person' = [person EXCEPT !.member = TRUE]
  /\ UNCHANGED <<company, token, sessions, opened>>

Accept(a) ==
  LET i == flow[a].invite
      is == IF i = None THEN "withdrawn" ELSE invite[i]
      done == is = "withdrawn" \/ (is = "accepted" /\ MayAccept(a))
      open == is = "pending" /\ ~person.member /\ MayAccept(a)
  IN
  /\ At(a, "accepting")
  /\ \/ done /\ Goes(a, "in") /\ UNCHANGED <<person, invite>>
     \/ /\ open /\ Goes(a, "in")
        /\ invite' = [invite EXCEPT ![i] = "accepted"]
        /\ person' = [person EXCEPT !.member = TRUE]
     \/ ~done /\ Goes(a, "undoing") /\ UNCHANGED <<person, invite>>   \* or SpiceDB cannot be written
  /\ UNCHANGED <<company, token, sessions, opened>>

\* Mutant of Undo: the failure is passed on and the session forgotten.
UndoNothing(a) ==
  /\ At(a, "undoing") /\ Goes(a, "refused")
  /\ UNCHANGED <<company, person, invite, token, sessions, opened>>

Undo(a) ==
  /\ At(a, "undoing") /\ Goes(a, "refused")
  /\ sessions' = sessions \ {a}
  /\ UNCHANGED <<company, person, invite, token, opened>>

ProcessDies(a) ==
  /\ flow[a].at \in {"exchanging", "checking", "opening", "confirming", "accepting", "undoing"}
  /\ Goes(a, "lost")
  /\ UNCHANGED <<company, person, invite, token, sessions, opened>>

Next ==
  \/ Enforce \/ ChangeProvider
  \/ \E i \in Invite : Invites(i) \/ Withdraw(i) \/ InviteExpires(i)
  \/ \E t \in Token : RequestLink(t) \/ \E a \in Attempt : Consume(a, t)
  \/ \E a \in Attempt :
       \/ \E via \in {"company", "platform"} : BeginOidc(a, via)
       \/ Returns(a) \/ Identify(a) \/ Check(a) \/ Open(a) \/ Confirm(a) \/ Accept(a) \/ Undo(a)
       \/ ProcessDies(a)

Spec == Init /\ [][Next]_vars

TypeOK ==
  /\ company \in [enforced : BOOLEAN, version : 0..MaxVersion]
  /\ person \in [account : BOOLEAN, admin : BOOLEAN, member : BOOLEAN, domain : BOOLEAN]
  /\ sessions \subseteq opened /\ opened \subseteq Attempt

(* OneSessionPerLink: a link opens one session, however often and from      *)
(* however many browsers it is used at once.                                *)
OneSessionPerLink ==
  \A a, b \in opened : a # b /\ flow[a].token # None => flow[a].token # flow[b].token

(* RefusedKeepsNoSession: a sign-in that is answered with a refusal, at     *)
(* whichever of its statements, leaves no session that works.               *)
RefusedKeepsNoSession == \A a \in sessions : ~At(a, "refused")

(* OnlyPendingAdmits: a sign-in makes a member only through an invitation   *)
(* that is pending at that moment, though it was read long before.          *)
OnlyPendingAdmits ==
  [][ person'.member # person.member
        => \E i \in Pending : invite' = [invite EXCEPT ![i] = "accepted"] ]_vars

(* MembersAreLetIn: as E-014 has it ("rejects invitations to an existing    *)
(* project member"), an invitation is never what a member's sign-in fails   *)
(* on.                                                                      *)
MembersAreLetIn ==
  [][ \A a \in Attempt :
        At(a, "accepting") /\ person.member /\ ~company.enforced => flow'[a].at # "undoing" ]_vars
===============================================================================
