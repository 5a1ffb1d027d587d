----------------------------- MODULE Installation -----------------------------
(***************************************************************************)
(* How an installation gets its companies: the operator's owner claim      *)
(* (installation-claim-writer.ts), redeemed by the first sign-in of the    *)
(* person it names (installation-claim-repository.ts, installation-        *)
(* claim.ts), and requests to create a company, repeated under one      *)
(* Idempotency-Key until they succeed (create-company.ts, company-         *)
(* creation-repository.ts).                                                *)
(*                                                                         *)
(* A transaction is two steps here, what it looks up and what it commits,  *)
(* with the locks it holds between them.  The creator's grant is a row of  *)
(* the relationship outbox that is written to SpiceDB after the commit.    *)
(***************************************************************************)
EXTENDS Naturals, FiniteSets

CONSTANTS
  Request,   \* attempts at creating a company, by one administrator
  Key,       \* Idempotency-Keys
  Body,      \* what may be asked for
  Claim,     \* installation_owner_claim rows
  Company,   \* company rows
  None

VARIABLES
  request,    \* request -> its key and body, where it is, and the company it found or made
  made,       \* company -> whom it was created for: a key, a claim or None
  prior,      \* key -> the unexpired answer kept for it
  lapsed,     \* key -> the kept answers that have expired
  claim,      \* claim -> "none", "active", "expired", "redeemed"
  login,      \* claim -> where the sign-in that redeems it is
  table,      \* who holds LOCK TABLE company: claims writing or redeeming
  granted,    \* companies whose outbox row is written
  writing     \* companies whose outbox row some dispatcher holds locked

vars == <<request, made, prior, lapsed, claim, login, table, granted, writing>>

NoAnswer == [company |-> None, body |-> None]

Init ==
  /\ request \in [Request -> [key : Key, body : Body, at : {"idle"}, company : {None}]]
  /\ made = [c \in Company |-> None]
  /\ prior = [k \in Key |-> NoAnswer] /\ lapsed = [k \in Key |-> 0]
  /\ claim = [m \in Claim |-> "none"] /\ login = [m \in Claim |-> "idle"]
  /\ table = {} /\ granted = {} /\ writing = {}

Companies == {c \in Company : made[c] # None}
NewCompany == CHOOSE c \in Company : made[c] = None
Full == Companies = Company

Moves(r, p) == request' = [request EXCEPT ![r].at = p]

-------------------------------------------------------------------------------
(* create: under the advisory lock of its key it looks for an earlier       *)
(* answer, and inserts the company when nobody holds the table's lock.   *)

\* Mutant of KeyFree: no advisory lock.
KeyFreeAlways(k) == TRUE

KeyFree(k) == \A r \in Request : request[r].key = k => request[r].at # "creating"

Look(r) ==
  LET k == request[r].key IN
  /\ request[r].at = "idle" /\ KeyFree(k)
  /\ IF prior[k].company = None THEN Moves(r, "creating")
     ELSE IF prior[k].body # request[r].body THEN Moves(r, "conflict")
     ELSE request' = [request EXCEPT ![r].at = "saved", ![r].company = prior[k].company]
  /\ UNCHANGED <<made, prior, lapsed, claim, login, table, granted, writing>>

Insert(r) ==
  LET c == NewCompany IN
  /\ request[r].at = "creating" /\ table = {} /\ ~Full
  /\ made' = [made EXCEPT ![c] = request[r].key]
  /\ prior' = [prior EXCEPT ![request[r].key] = [company |-> c, body |-> request[r].body]]
  /\ request' = [request EXCEPT ![r].at = "saved", ![r].company = c]
  /\ UNCHANGED <<lapsed, claim, login, table, granted, writing>>

(* The commit is lost, or the process; the caller may repeat the request.   *)
Fail(r) ==
  /\ request[r].at \in {"creating", "saved", "dispatched", "unsure"}
  /\ request' = [request EXCEPT ![r].at = "idle", ![r].company = None]
  /\ writing' = IF request[r].at = "dispatched" THEN writing \ {request[r].company} ELSE writing
  /\ UNCHANGED <<made, prior, lapsed, claim, login, table, granted>>

KeyExpires(k) ==
  /\ prior[k].company # None
  /\ \A r \in Request : request[r].key = k => request[r].at # "creating"
  /\ prior' = [prior EXCEPT ![k] = NoAnswer] /\ lapsed' = [lapsed EXCEPT ![k] = @ + 1]
  /\ UNCHANGED <<request, made, claim, login, table, granted, writing>>

(* dispatchOne: an unwritten row nobody holds is locked, or there is none.  *)
Dispatch(r) ==
  LET c == request[r].company IN
  /\ request[r].at = "saved"
  /\ IF c \in granted \union writing THEN Moves(r, "unsure") /\ UNCHANGED writing
     ELSE Moves(r, "dispatched") /\ writing' = writing \union {c}
  /\ UNCHANGED <<made, prior, lapsed, claim, login, table, granted>>

Written(r) ==
  LET c == request[r].company IN
  /\ request[r].at = "dispatched"
  /\ writing' = writing \ {c}
  /\ \/ Moves(r, "answered") /\ granted' = granted \union {c}
     \/ Moves(r, "unavailable") /\ UNCHANGED granted
  /\ UNCHANGED <<made, prior, lapsed, claim, login, table>>

\* Mutant of Dispatched: somebody else is writing the row, or has.
DispatchedHopefully(r) ==
  /\ request[r].at = "unsure" /\ Moves(r, "answered")
  /\ UNCHANGED <<made, prior, lapsed, claim, login, table, granted, writing>>

(* dispatched: waits for whoever holds the row, then looks.                 *)
Dispatched(r) ==
  LET c == request[r].company IN
  /\ request[r].at = "unsure" /\ c \notin writing
  /\ Moves(r, IF c \in granted THEN "answered" ELSE "unavailable")
  /\ UNCHANGED <<made, prior, lapsed, claim, login, table, granted, writing>>

Retry(r) ==
  /\ request[r].at = "unavailable"
  /\ request' = [request EXCEPT ![r].at = "idle", ![r].company = None]
  /\ UNCHANGED <<made, prior, lapsed, claim, login, table, granted, writing>>

-------------------------------------------------------------------------------
(* The owner claim. *)

WriteClaim(m) ==
  /\ claim[m] = "none" /\ table = {}
  /\ Companies = {} /\ \A n \in Claim : claim[n] \notin {"active", "redeemed"}
  /\ claim' = [claim EXCEPT ![m] = "active"]
  /\ UNCHANGED <<request, made, prior, lapsed, login, table, granted, writing>>

ClaimExpires(m) ==
  /\ claim[m] = "active"
  /\ claim' = [claim EXCEPT ![m] = "expired"]
  /\ UNCHANGED <<request, made, prior, lapsed, login, table, granted, writing>>

(* find, when the link is asked for, and prepare, when it has been opened.  *)
Prepare(m) ==
  /\ login[m] = "idle" /\ claim[m] = "active" /\ Companies = {}
  /\ login' = [login EXCEPT ![m] = "prepared"]
  /\ UNCHANGED <<request, made, prior, lapsed, claim, table, granted, writing>>

\* Mutant of Redeem: what prepare has found still holds; no table lock.
RedeemPrepared(m) ==
  /\ login[m] = "prepared" /\ claim[m] = "active"
  /\ login' = [login EXCEPT ![m] = "redeeming"]
  /\ UNCHANGED <<request, made, prior, lapsed, claim, table, granted, writing>>

(* redeem: everything is looked at again under the lock of the table.       *)
Redeem(m) ==
  /\ login[m] = "prepared" /\ table = {}
  /\ IF claim[m] = "active" /\ Companies = {}
       THEN login' = [login EXCEPT ![m] = "redeeming"] /\ table' = {m}
       ELSE login' = [login EXCEPT ![m] = "refused"] /\ UNCHANGED table
  /\ UNCHANGED <<request, made, prior, lapsed, claim, granted, writing>>

(* The last statement looks at the clock once more; all of it or nothing.   *)
Redeemed(m) ==
  LET c == NewCompany IN
  /\ login[m] = "redeeming" /\ ~Full
  /\ table' = table \ {m}
  /\ \/ /\ claim[m] = "active"
        /\ login' = [login EXCEPT ![m] = "owner"]
        /\ claim' = [claim EXCEPT ![m] = "redeemed"]
        /\ made' = [made EXCEPT ![c] = m]
     \/ login' = [login EXCEPT ![m] = "refused"] /\ UNCHANGED <<claim, made>>
  /\ UNCHANGED <<request, prior, lapsed, granted, writing>>

(* The grant of a redeemed claim: after the commit, and again by reconcile. *)
Reconcile(c) ==
  /\ made[c] \in Claim /\ c \notin granted
  /\ granted' = granted \union {c}
  /\ UNCHANGED <<request, made, prior, lapsed, claim, login, table, writing>>

Next ==
  \/ \E r \in Request :
       \/ Look(r) \/ Insert(r) \/ Fail(r) \/ Dispatch(r) \/ Written(r)
       \/ Dispatched(r) \/ Retry(r)
  \/ \E k \in Key : KeyExpires(k)
  \/ \E m \in Claim : WriteClaim(m) \/ ClaimExpires(m) \/ Prepare(m) \/ Redeem(m) \/ Redeemed(m)
  \/ \E c \in Company : Reconcile(c)

Spec == Init /\ [][Next]_vars

-------------------------------------------------------------------------------
TypeOK ==
  /\ made \in [Company -> Key \union Claim \union {None}]
  /\ claim \in [Claim -> {"none", "active", "expired", "redeemed"}]
  /\ table = {m \in Claim : login[m] = "redeeming"} /\ Cardinality(table) <= 1
  /\ granted \subseteq Companies /\ writing \subseteq Companies

(* OwnerComesFirst: a claim makes its owner's company the first of the   *)
(* installation, whoever else is creating one at the time.                  *)
OwnerComesFirst ==
  [][ \A m \in Claim : claim[m] # "redeemed" /\ claim'[m] = "redeemed" => Companies = {} ]_vars

(* RepeatedCreatesOnce: as long as the answer to a key is kept, requests    *)
(* under it, at once or after failures, create one company between them. *)
RepeatedCreatesOnce ==
  \A k \in Key : Cardinality({c \in Company : made[c] = k}) <= 1 + lapsed[k]

(* AnsweredMeansGranted: whoever is told that the company is there can   *)
(* administer it, also when another request was writing the grant.          *)
AnsweredMeansGranted ==
  \A r \in Request : request[r].at = "answered" => request[r].company \in granted
===============================================================================
