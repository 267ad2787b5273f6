------------------------------ MODULE Credentials ------------------------------
(***************************************************************************)
(* Logins, passwords, API tokens and group memberships:                    *)
(* identity/authentication.py and the routes in identity/api that change   *)
(* these tables.                                                           *)
(***************************************************************************)
EXTENDS IdentityStore

CONSTANTS
  Sessions,     \* requests in flight at once
  Uses,         \* the kinds of request, of Use below
  Groups,       \* ids of groups
  MaxPassword   \* bound: the number of passwords a user ever has

ASSUME SessionsAssumption == Sessions \subseteq Transactions
ASSUME MaxPasswordAssumption == MaxPassword \in Nat

VARIABLES
  ses,     \* per session: the handler's position and local variables
  groups,  \* table groups: "none", "active" or "archived"
  members  \* table group_memberships

memberships == <<groups, members>>

(* The requests of one statement and its audit event, and the two that     *)
(* read before they write.                                                 *)
SelfService == {"change password", "create token", "revoke token"}
Administrative == {"reset password", "create service token", "revoke service token",
                   "create group", "archive group", "remove member"}
Use == SelfService \cup Administrative \cup {"login", "add member"}

IdleSession == [at |-> "idle", use |-> "login", actor |-> NULL, target |-> NULL,
                object |-> NULL, presented |-> 0, current |-> 0, hash |-> 0]

EndSession(t) == ses' = [ses EXCEPT ![t] = IdleSession] /\ Unlock(t)

(* `current' is what a property compares with: the password of the moment. *)
Arrive(t, use, actor, target, object, presented) ==
  /\ ses[t].at = "idle"
  /\ use \in {"login", "create token", "create service token"} =>
       Len(tokens) + Cardinality({s \in Sessions : ses[s].at # "idle"}) < MaxTokens
  /\ ses' = [ses EXCEPT ![t] = [at |-> IF use \in {"login", "add member"} THEN "read" ELSE "write",
                                use |-> use, actor |-> actor, target |-> target,
                                object |-> object, presented |-> presented,
                                current |-> IF target \in Users THEN passwords[target] ELSE 0,
                                hash |-> 0]]
  /\ UNCHANGED <<identity, memberships, held>>

(* A login presents a password that is, or once was, the user's; the other *)
(* requests a token.                                                       *)
ArriveAny(t) ==
  \/ \E u \in Users : \E v \in 1..passwords[u] :
       "login" \in Uses /\ Arrive(t, "login", u, u, NULL, v)
  \/ \E use \in Uses \cap SelfService, p \in Names :
       /\ Authenticated(p)
       /\ use = "change password" => p \in Users
       /\ \E i \in IF use = "revoke token" THEN DOMAIN tokens ELSE {NULL} :
            Arrive(t, use, p, p, i, 0)
  \/ \E use \in Uses \cap (Administrative \cup {"add member"}), a \in Names, p \in Names :
       /\ Administrator(a)
       /\ use \in {"create service token", "revoke service token"} <=> p \in Services
       /\ \E o \in CASE use = "revoke service token" -> DOMAIN tokens
                     [] use \in {"reset password", "create service token"} -> {NULL}
                     [] OTHER -> Groups :
            Arrive(t, use, a, p, o, 0)

Writes(t, use) == ses[t].at = "write" /\ ses[t].use = use

(* COMMIT, after the statement and the audit event; their foreign keys     *)
(* refer to the actor and, for a row that is inserted, to the owner.       *)
Commit(t, refers) ==
  /\ \A p \in refers \cup {ses[t].actor} : CanLock(t, p, "KEY SHARE")
  /\ EndSession(t)

-------------------------------------------------------------------------------
(* POST /v1/auth/login *)

(* The statement's snapshot: an active user with a password.  It waits for *)
(* the row's lock with the hash of that snapshot.                          *)
ReadCredential(t) ==
  LET u == ses[t].target
  IN  /\ ses[t].at = "read" /\ ses[t].use = "login"
      /\ passwords[u] > 0 /\ ~principals[u].archived
      /\ ses' = [ses EXCEPT ![t] = [ses[t] EXCEPT !.at = "lock", !.hash = passwords[u]]]
      /\ UNCHANGED <<identity, memberships, held>>

(* Mutant: the principal is read and not locked. *)
LoginUnlocked(t) ==
  /\ ses[t].at = "lock"
  /\ ~principals[ses[t].target].archived
  /\ ses' = [ses EXCEPT ![t].at = "verify"]
  /\ UNCHANGED <<identity, memberships, held>>

(* FOR UPDATE OF Principal: archived_at is looked at again. *)
LockLogin(t) ==
  /\ ses[t].at = "lock"
  /\ ~principals[ses[t].target].archived
  /\ Lock(t, ses[t].target, "FOR UPDATE")
  /\ ses' = [ses EXCEPT ![t].at = "verify"]
  /\ UNCHANGED <<identity, memberships>>

(* Mutant: the answer of verify_password is not looked at. *)
AnyPassword(t) == TRUE

(* verify_password *)
PasswordValid(t) == ses[t].presented = ses[t].hash

(* 401, whatever the reason. *)
RefuseLogin(t) ==
  /\ ses[t].use = "login"
  /\ \/ /\ ses[t].at \in {"read", "lock"}
        /\ passwords[ses[t].target] = 0 \/ principals[ses[t].target].archived
     \/ ses[t].at = "verify" /\ ~PasswordValid(t)
  /\ EndSession(t)
  /\ UNCHANGED <<identity, memberships>>

CommitLogin(t) ==
  /\ ses[t].at = "verify"
  /\ PasswordValid(t)
  /\ IssueToken(ses[t].target, "login")
  /\ Commit(t, {ses[t].target})
  /\ UNCHANGED <<principals, passwords, memberships>>

-------------------------------------------------------------------------------
(* Passwords and tokens *)

(* PUT /v1/me/password and PUT /v1/users/{id}/password; without the row    *)
(* the first changes nothing, the second is a 404.                         *)
CommitPassword(t) ==
  LET u == ses[t].target
  IN  /\ Writes(t, "change password") \/ Writes(t, "reset password")
      /\ passwords[u] \in 1..(MaxPassword - 1)
      /\ passwords' = [passwords EXCEPT ![u] = @ + 1]
      /\ Commit(t, {})
      /\ UNCHANGED <<principals, tokens, memberships>>

(* POST /v1/me/api-tokens and /v1/service-identities/{id}/api-tokens; an   *)
(* archived service identity is not refused.                               *)
CommitToken(t) ==
  /\ Writes(t, "create token") \/ Writes(t, "create service token")
  /\ Exists(ses[t].target)
  /\ IssueToken(ses[t].target, "api")
  /\ Commit(t, {ses[t].target})
  /\ UNCHANGED <<principals, passwords, memberships>>

(* Mutant: the principal is left out of the UPDATE's conditions. *)
RevokeAny(t) ==
  LET i == ses[t].object
  IN  /\ Writes(t, "revoke token") \/ Writes(t, "revoke service token")
      /\ tokens' = [tokens EXCEPT ![i].state = "revoked"]
      /\ Commit(t, {})
      /\ UNCHANGED <<principals, passwords, memberships>>

(* DELETE of a token of the principal's own, or of the service's. *)
CommitRevoke(t) ==
  LET i == ses[t].object
  IN  /\ Writes(t, "revoke token") \/ Writes(t, "revoke service token")
      /\ tokens[i].owner = ses[t].target
      /\ tokens' = [tokens EXCEPT ![i].state = "revoked"]
      /\ Commit(t, {})
      /\ UNCHANGED <<principals, passwords, memberships>>

-------------------------------------------------------------------------------
(* Groups *)

(* fetch_principal, then a 409 for an archived user; no lock is taken. *)
CheckJoiner(t) ==
  /\ ses[t].at = "read" /\ ses[t].use = "add member"
  /\ Exists(ses[t].target) /\ ~principals[ses[t].target].archived
  /\ ses' = [ses EXCEPT ![t].at = "write"]
  /\ UNCHANGED <<identity, memberships, held>>

(* Mutant: the two columns are swapped. *)
CommitMemberSwapped(t) ==
  /\ Writes(t, "add member")
  /\ groups[ses[t].object] # "none"
  /\ members' = members \cup {<<ses[t].target, ses[t].object>>}
  /\ Commit(t, {ses[t].target})
  /\ UNCHANGED <<identity, groups>>

(* INSERT ... ON CONFLICT DO NOTHING; a group that is missing is a 404. *)
CommitMember(t) ==
  /\ Writes(t, "add member")
  /\ groups[ses[t].object] # "none"
  /\ members' = members \cup {<<ses[t].object, ses[t].target>>}
  /\ Commit(t, {ses[t].target})
  /\ UNCHANGED <<identity, groups>>

CommitGroup(t) ==
  LET g == ses[t].object
  IN  /\ \/ /\ Writes(t, "create group") /\ groups[g] = "none"
            /\ groups' = [groups EXCEPT ![g] = "active"]
            /\ UNCHANGED members
         \/ /\ Writes(t, "archive group") /\ groups[g] # "none"
            /\ groups' = [groups EXCEPT ![g] = "archived"]
            /\ UNCHANGED members
         \/ /\ Writes(t, "remove member")
            /\ members' = members \ {<<g, ses[t].target>>}
            /\ UNCHANGED groups
      /\ Commit(t, {})
      /\ UNCHANGED identity

-------------------------------------------------------------------------------

(* A 404 or 409 that the guards above leave, a lost connection, a deadlock *)
(* that PostgreSQL ends, or a token that expires before it is inserted.    *)
AbortSession(t) ==
  /\ ses[t].at # "idle"
  /\ EndSession(t)
  /\ UNCHANGED <<identity, memberships>>

SessionStep(t) ==
  \/ ReadCredential(t) \/ LockLogin(t) \/ RefuseLogin(t) \/ CommitLogin(t)
  \/ CommitPassword(t) \/ CommitToken(t) \/ CommitRevoke(t)
  \/ CheckJoiner(t) \/ CommitMember(t) \/ CommitGroup(t)

SessionNext == \E t \in Sessions : ArriveAny(t) \/ SessionStep(t) \/ AbortSession(t)

SessionLocals ==
  [at : {"idle", "read", "lock", "verify", "write"}, use : Use,
   actor : Names \cup {NULL}, target : Names \cup {NULL},
   object : Nat \cup Groups \cup {NULL}, presented : Nat, current : Nat,
   hash : Nat]

SessionTypeOK == /\ ses \in [Sessions -> SessionLocals]
                 /\ groups \in [Groups -> {"none", "active", "archived"}]
                 /\ members \subseteq Groups \X Users
===============================================================================
