----------------------------- MODULE IdentityStore -----------------------------
(***************************************************************************)
(* The identity tables, the locks of PostgreSQL on their rows, and the     *)
(* check every request passes before its handler runs.                     *)
(*                                                                         *)
(* As in LeaseStore, a table holds committed rows only.  Row locks have    *)
(* modes here: FOR UPDATE is taken by the statements that must see a       *)
(* principal stay as it is, UPDATE takes a weaker lock, and a foreign key  *)
(* (the actor of an audit event, the owner of a token) the weakest.        *)
(***************************************************************************)
EXTENDS Integers, Sequences, FiniteSets

CONSTANTS
  Users,         \* names of human principals; a name stands for the id too
  Services,      \* names of service identities
  Transactions,  \* requests and commands that can be in a transaction
  NULL,          \* SQL NULL
  MaxTokens      \* bound: the number of tokens ever issued

Names == Users \cup Services

ASSUME KindsAssumption == Users \cap Services = {}
ASSUME NullAssumption == NULL \notin Names /\ NULL \notin {"Admin", "User"}
ASSUME MaxTokensAssumption == MaxTokens \in Nat

VARIABLES
  principals,  \* table principals; a role of NULL: there is no such row
  passwords,   \* table password_credentials: a version per user, 0: no row
  tokens,      \* table api_tokens in insertion order
  held         \* the locks each transaction holds: <<what, mode>>

identity == <<principals, passwords, tokens>>

Roles == {"Admin", "User"}
PrincipalRow == [role : Roles \cup {NULL}, archived : BOOLEAN]
NoPrincipal == [role |-> NULL, archived |-> FALSE]

(* Expiration is an event that may come at any time; a login's token and   *)
(* one a principal asked for differ in their name only.                    *)
TokenRow == [owner : Names, name : {"login", "api"},
             state : {"valid", "revoked", "expired"}]

Exists(p) == principals[p].role # NULL

(* The administrators that can still log in (identity/persistence.py).     *)
ActiveAdministrator(u) == /\ principals[u].role = "Admin"
                          /\ ~principals[u].archived
                          /\ passwords[u] > 0

-------------------------------------------------------------------------------
(* Locks *)

Administration == "ADMINISTRATION_LOCK_ID"
Modes == {"FOR UPDATE", "UPDATE", "KEY SHARE"}

(* The conflicts of PostgreSQL's row locks, for the modes used here. *)
Conflict(m, n) == \/ "FOR UPDATE" \in {m, n}
                  \/ m = "UPDATE" /\ n = "UPDATE"

CanLock(t, what, mode) ==
  \A u \in Transactions \ {t} : \A l \in held[u] : l[1] = what => ~Conflict(l[2], mode)

Lock(t, what, mode) ==
  /\ CanLock(t, what, mode)
  /\ held' = [held EXCEPT ![t] = @ \cup {<<what, mode>>}]

Unlock(t) == held' = [held EXCEPT ![t] = {}]

-------------------------------------------------------------------------------

(* authenticate_token, a transaction of its own before the handler's: what *)
(* it has seen may have changed when the handler acts on it.               *)
Authenticated(p) ==
  /\ \E i \in DOMAIN tokens : tokens[i].owner = p /\ tokens[i].state = "valid"
  /\ ~principals[p].archived

(* IdentityDependencies.administrator *)
Administrator(p) == Authenticated(p) /\ principals[p].role = "Admin"

(* issue_token *)
IssueToken(p, name) ==
  tokens' = Append(tokens, [owner |-> p, name |-> name, state |-> "valid"])

(* expires_at passes. *)
ExpireToken(i) ==
  /\ tokens[i].state = "valid"
  /\ tokens' = [tokens EXCEPT ![i].state = "expired"]
  /\ UNCHANGED <<principals, passwords, held>>

(* Types of the shared state. *)
IdentityTypeOK ==
  /\ principals \in [Names -> PrincipalRow]
  /\ passwords \in [Users -> Nat]
  /\ tokens \in Seq(TokenRow)
  /\ held \in [Transactions -> SUBSET ((Names \cup {Administration}) \X Modes)]
===============================================================================
