------------------------------ MODULE MCAdmission ------------------------------
(* The six modules about who gets in.  They share no state: a behaviour is  *)
(* one of one of them, chosen as it begins, while the variables of the      *)
(* others keep an initial value.                                            *)
EXTENDS Naturals, Sequences, FiniteSets, TLC

CONSTANTS
  None, Worker, Invitation,
  Session, NoRecord, Absolute, IdleTime, Horizon, MaxCalls,
  Attempt, Token, Invited, MaxVersion,
  Request, Key, Body, Claim, Company,
  Person,
  Ask, Device, Limit,
  Machine, MaxChallenges, MaxResets

(* Lifetimes are numbers.  A company is a row, its number never NULL; a key *)
(* is not a claim; a device's certificate is not the absence of one.        *)
ASSUME AdmissionAssumption ==
  /\ Absolute \in Nat /\ IdleTime \subseteq Nat
  /\ IsFiniteSet(Company)
  /\ None \notin Company \cup Key \cup Claim /\ Key \intersect Claim = {}
  /\ "none" \notin Machine /\ MaxChallenges \in Nat

VARIABLES
  part,
  now, calls, key, index, todo, due, known, revoked, raced,
  company, person, invite, token, flow, sessions, opened,
  request, made, prior, lapsed, claim, login, table, granted, writing,
  role, inCompany, invitation, grant, pending, tx, torn, gaveUp,
  counter, asked, link, outbox, inbox, prompts, entered,
  bound, status, challenge, credential_revoked, approval, escrowed, escrow, knows, told,
  attempt, device_answer, tries, by, epoch, resets

Sessions == INSTANCE SessionStore WITH Idle <- IdleTime
SignIns == INSTANCE SignIn WITH Invite <- Invited
Claims == INSTANCE Installation
Members == INSTANCE Membership WITH Invite <- Invitation
Links == INSTANCE LinkDelivery WITH request <- asked
Bindings == INSTANCE IdentityBinding WITH
  Device <- Machine, revoked <- credential_revoked, made <- escrowed, answer <- device_answer

ofSessions == <<now, calls, key, index, todo, due, known, revoked, raced>>
ofSignIns == <<company, person, invite, token, flow, sessions, opened>>
ofClaims == <<request, made, prior, lapsed, claim, login, table, granted, writing>>
ofMembers == <<role, inCompany, invitation, grant, pending, tx, torn, gaveUp>>
ofLinks == <<counter, asked, link, outbox, inbox, prompts, entered>>
ofBindings == <<bound, status, challenge, credential_revoked, approval, escrowed, escrow, knows, told,
                attempt, device_answer, tries, by, epoch, resets>>
vars == <<part, ofSessions, ofSignIns, ofClaims, ofMembers, ofLinks, ofBindings>>

Init ==
  /\ part \in {"sessions", "sign-in", "installation", "membership", "links", "binding"}
  /\ Sessions!Init /\ SignIns!Init /\ Claims!Init /\ Members!Init /\ Links!Init /\ Bindings!Init
  /\ part # "sign-in" => person = [account |-> FALSE, admin |-> FALSE, member |-> FALSE, domain |-> FALSE]
  /\ part # "installation" => \A r \in Request : request[r].body = CHOOSE b \in Body : TRUE
  /\ part # "membership" => inCompany = {} /\ role[CHOOSE p \in Person : TRUE] = "admin"
  /\ part # "links" => \A r \in Ask : link[r].device = CHOOSE d \in Device : TRUE
  /\ part # "binding" => approval = FALSE

Next ==
  \/ part = "sessions" /\ Sessions!Next /\ UNCHANGED <<part, ofSignIns, ofClaims, ofMembers, ofLinks, ofBindings>>
  \/ part = "sign-in" /\ SignIns!Next /\ UNCHANGED <<part, ofSessions, ofClaims, ofMembers, ofLinks, ofBindings>>
  \/ part = "installation" /\ Claims!Next /\ UNCHANGED <<part, ofSessions, ofSignIns, ofMembers, ofLinks, ofBindings>>
  \/ part = "membership" /\ Members!Next /\ UNCHANGED <<part, ofSessions, ofSignIns, ofClaims, ofLinks, ofBindings>>
  \/ part = "links" /\ Links!Next /\ UNCHANGED <<part, ofSessions, ofSignIns, ofClaims, ofMembers, ofBindings>>
  \/ part = "binding" /\ Bindings!Next /\ UNCHANGED <<part, ofSessions, ofSignIns, ofClaims, ofMembers, ofLinks>>

Spec == Init /\ [][Next]_vars

Symmetry == Permutations(Attempt) \cup Permutations(Machine)

(* GoneStaysGone: a session that is gone and not being written never comes  *)
(* back, and a revoked one is there only if a write of it crossed a removal *)
(* (SessionStore); a spent link is spent, and one opened elsewhere is       *)
(* confirmed (LinkDelivery).                                                *)
GoneStaysGone ==
  /\ Sessions!GoneForGood
  /\ [](Sessions!BackOnlyIfCrossed /\ Links!EarlierIsSpent)

(* EntryIsEarned: a link opens one session, and a sign-in that is refused   *)
(* leaves none (SignIn); a credential is bound to the device that proved    *)
(* itself for it (IdentityBinding).                                         *)
EntryIsEarned ==
  /\ SignIns!OneSessionPerLink /\ SignIns!RefusedKeepsNoSession
  /\ Bindings!BindingIsEarned

(* AnsweredMeansGranted: whoever is told that a company is there can        *)
(* administer it, and repeated requests made one (Installation); who is     *)
(* told that a link is on its way gets it, and who is refused one is        *)
(* refused for a time only (LinkDelivery).                                  *)
AnsweredMeansGranted ==
  /\ Claims!AnsweredMeansGranted /\ Claims!RepeatedCreatesOnce
  /\ Links!AnsweredMeansMailed /\ Links!RefusalsEnd

(* RowsAndGrantsAgree: a project's members are those it is granted to, and  *)
(* an administrator remains (Membership).                                   *)
RowsAndGrantsAgree == Members!RowsAndGrantsAgree /\ Members!AdministratorRemains
===============================================================================
