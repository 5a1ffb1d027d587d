---------------------------- MODULE HttpRequest ----------------------------
(***************************************************************************)
(* One request through the API's HTTP server, from its headers to the      *)
(* answer: the identity the ingress vouches for, the route, the schemas,   *)
(* the session, the permission and the handler, with the session and the   *)
(* permissions changing while the request is on its way.  Downloads and    *)
(* streams leave this path once their handler has answered                 *)
(* (EvidenceExport, ProjectStream).                                        *)
(***************************************************************************)
EXTENDS Naturals, FiniteSets

CONSTANT MaxChanges     \* changes of session and permissions in a request

Permissions == {"view", "act"}
Routes == [permission : {"public", "authenticated", "view", "act"},
           answer : {"body", "artifact"}]

VARIABLES request,   \* what the client sent
          pc,        \* the step the server is about to take
          session,   \* the observer's cookie or, without one, the session's names a user
          held,      \* the permissions the user holds on the object now
          actor,     \* the server has resolved the user
          viewed,    \* the user could see the object when asked
          allowed,   \* the user held the route's permission when asked
          handled,   \* the handler was called
          status,    \* the answer, 0 until there is one
          changes
vars == <<request, pc, session, held, actor, viewed, allowed, handled, status, changes>>

Requests == [ingress : {"none", "proved", "forged"}, path : {"known", "method", "unknown"},
             valid : BOOLEAN, json : BOOLEAN, route : Routes, observer : BOOLEAN]

TypeOK ==
  /\ request \in Requests /\ session \in BOOLEAN /\ held \subseteq Permissions
  /\ pc \in {"ingress", "route", "body", "actor", "view", "permission", "handle", "done"}
  /\ {actor, viewed, allowed, handled} \subseteq BOOLEAN /\ changes \in 0..MaxChanges

Init ==
  /\ request \in Requests /\ pc = "ingress"
  /\ session \in BOOLEAN /\ held \in SUBSET Permissions
  /\ actor = FALSE /\ viewed = FALSE /\ allowed = FALSE /\ handled = FALSE
  /\ status = 0 /\ changes = 0

(* A session is signed out, an observation ends or a role is changed by     *)
(* someone else.                                                            *)
Change ==
  /\ changes < MaxChanges /\ changes' = changes + 1
  /\ \/ session' = ~session /\ UNCHANGED held
     \/ UNCHANGED session /\ held' \in SUBSET Permissions \ {held}
  /\ UNCHANGED <<request, pc, actor, viewed, allowed, handled, status>>

Answer(code) == status' = code /\ pc' = "done"
Goto(step) == pc' = step /\ UNCHANGED status
Keep == UNCHANGED <<request, session, held, changes>>

(* Client certificate headers count only with the ingress's proof.          *)
AcceptIngress ==
  /\ pc = "ingress"
  /\ IF request.ingress = "forged" THEN Answer(403) ELSE Goto("route")
  /\ Keep /\ UNCHANGED <<actor, viewed, allowed, handled>>

RouteMatch ==
  /\ pc = "route"
  /\ CASE request.path = "unknown" -> Answer(404)
       [] request.path = "method" -> Answer(405)
       [] OTHER -> Goto("body")
  /\ Keep /\ UNCHANGED <<actor, viewed, allowed, handled>>

ReadBody ==
  /\ pc = "body"
  /\ IF request.json /\ request.valid
     THEN Goto(IF request.route.permission = "public" THEN "handle" ELSE "actor")
     ELSE Answer(400)
  /\ Keep /\ UNCHANGED <<actor, viewed, allowed, handled>>

(* The user behind the operator's observer cookie, good for looking alone,  *)
(* if the request has one; if not, the user behind the session cookie.  The *)
(* one is not asked for in place of the other.                              *)
Known == session /\ (request.observer => request.route.permission = "view")

Authenticate ==
  /\ pc = "actor"
  /\ IF Known
     THEN actor' = TRUE /\ Goto(IF request.route.permission = "authenticated" THEN "handle" ELSE "view")
     ELSE actor' = FALSE /\ Answer(401)
  /\ Keep /\ UNCHANGED <<viewed, allowed, handled>>

(* Mutant: the route's own permission is asked first.                       *)
CheckActFirst ==
  /\ pc = "view"
  /\ viewed' = ("view" \in held) /\ allowed' = ("act" \in held)
  /\ IF request.route.permission = "act" /\ ~allowed' THEN Answer(403)
     ELSE IF viewed' THEN Goto("handle") ELSE Answer(404)
  /\ Keep /\ UNCHANGED <<actor, handled>>

(* Who may not see the object is told that there is none.                   *)
CheckView ==
  /\ pc = "view"
  /\ viewed' = ("view" \in held)
  /\ allowed' = (viewed' /\ request.route.permission = "view")
  /\ IF ~viewed' THEN Answer(404)
     ELSE Goto(IF request.route.permission = "view" THEN "handle" ELSE "permission")
  /\ Keep /\ UNCHANGED <<actor, handled>>

CheckPermission ==
  /\ pc = "permission"
  /\ allowed' = ("act" \in held)
  /\ IF allowed' THEN Goto("handle") ELSE Answer(403)
  /\ Keep /\ UNCHANGED <<actor, viewed, handled>>

(* SpiceDB does not answer: an error that is not of the domain.             *)
CheckFails ==
  /\ pc \in {"view", "permission"} /\ Answer(500)
  /\ Keep /\ UNCHANGED <<actor, viewed, allowed, handled>>

(* The codes a handler's DomainError is answered with.                      *)
DomainStatus == {400, 401, 403, 404, 409, 429, 503, 500}

(* The handler's body is sent only if it passes the route's schema.         *)
Handle ==
  /\ pc = "handle" /\ handled' = TRUE
  /\ \/ Answer(200)
     \/ \E code \in DomainStatus : Answer(code)
  /\ Keep /\ UNCHANGED <<actor, viewed, allowed>>

Next ==
  \/ Change \/ AcceptIngress \/ RouteMatch \/ ReadBody \/ Authenticate
  \/ CheckView \/ CheckPermission \/ CheckFails \/ Handle
Spec == Init /\ [][Next]_vars

----------------------------------------------------------------------------
(* An answer about an object that lets on that it exists is given only to   *)
(* a user who could see it during the request, and the handler of a guarded *)
(* route runs only for a user who held its permission, whatever changes in  *)
(* between.                                                                 *)
OnlyTheEntitledLearn ==
  LET guarded == request.route.permission \in Permissions IN
  /\ (guarded /\ request.ingress # "forged" /\ status \notin {0, 400, 401, 404, 405, 500})
       => actor /\ viewed
  /\ (guarded /\ handled) => viewed /\ allowed
  /\ handled => request.route.permission = "public" \/ actor
=============================================================================
