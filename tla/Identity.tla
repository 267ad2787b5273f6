-------------------------------- MODULE Identity --------------------------------
(***************************************************************************)
(* The identity feature: administrators and the bootstrap command change   *)
(* principals while these log in, change passwords, use tokens and join    *)
(* groups.                                                                 *)
(***************************************************************************)
EXTENDS Administration, Credentials

CONSTANT Installations  \* databases to begin with

ASSUME InstallationsAssumption ==
  Installations \subseteq [principals : [Names -> PrincipalRow], passwords : [Users -> Nat],
                           owners : Seq(Names)]

(* Before the first bootstrap a database is empty; after it, somebody who  *)
(* has a password administers the system.                                  *)
ASSUME AdministeredAssumption ==
  \A i \in Installations :
    \/ /\ \A p \in Names : i.principals[p].role = NULL
       /\ i.owners = <<>>
    \/ \E u \in Users : /\ i.principals[u].role = "Admin" /\ ~i.principals[u].archived
                        /\ i.passwords[u] > 0

(* password_credentials refers to principals. *)
ASSUME CredentialsAssumption ==
  \A i \in Installations : \A u \in Users :
    i.passwords[u] > 0 => i.principals[u].role # NULL

ASSUME HandlersAssumption == Managers \cap Sessions = {}

idVars == <<identity, held, adm, bootstrapped, ses, memberships>>

Installed(i) ==
  /\ principals = i.principals
  /\ passwords = i.passwords
  /\ tokens = [n \in DOMAIN i.owners |->
                 [owner |-> i.owners[n], name |-> "api", state |-> "valid"]]
  /\ held = [t \in Transactions |-> {}]
  /\ adm = [t \in Managers |-> IdleManager]
  /\ bootstrapped = {}
  /\ ses = [t \in Sessions |-> IdleSession]
  /\ groups = [g \in Groups |-> "none"]
  /\ members = {}

Init == \E i \in Installations : Installed(i)

Expiration == \E i \in DOMAIN tokens : ExpireToken(i)

Next ==
  \/ ManageNext /\ UNCHANGED <<ses, memberships>>
  \/ SessionNext /\ UNCHANGED <<adm, bootstrapped>>
  \/ Expiration /\ UNCHANGED <<adm, bootstrapped, ses, memberships>>

Spec == Init /\ [][Next]_idVars

-------------------------------------------------------------------------------

(* Every variable has its type. *)
TypeOK == IdentityTypeOK /\ ManageTypeOK /\ SessionTypeOK

(* Wherever there is anybody, somebody can administer the system, however  *)
(* the archivals and demotions of administrators overlap and whatever has  *)
(* become of the administrator who asked (archive_principal, update_user:  *)
(* the scan under locks and its 409).                                      *)
NeverOrphaned == (\E p \in Names : Exists(p)) => \E u \in Users : ActiveAdministrator(u)

(* Bootstrap creates one administrator, however many commands run and      *)
(* whatever administrators do to it afterwards (bootstrap_administrator).  *)
BootstrapOnce == \A u, v \in bootstrapped : u = v

LoginTokens == {i \in DOMAIN tokens : tokens[i].name = "login"}

NoArchivedLogin ==
  \A i \in LoginTokens' \ LoginTokens : ~principals[tokens'[i].owner].archived

CurrentPasswordOnly ==
  \A t \in Sessions :
    ses[t].at = "verify" /\ tokens' # tokens /\ ses'[t] # ses[t]
      => ses[t].presented >= ses[t].current

OwnTokensOnly ==
  \A i \in DOMAIN tokens' :
    i \notin DOMAIN tokens \/ (tokens'[i].state = "revoked" /\ tokens[i].state # "revoked")
      => \E t \in Sessions :
           /\ ses'[t] # ses[t] /\ ses[t].target = tokens'[i].owner
           /\ ses[t].actor = tokens'[i].owner \/ tokens'[i].owner \in Services

(* Nobody logs in to an archived account: the archival commits first and   *)
(* the login is refused, or the other way round (login: FOR UPDATE OF      *)
(* principals against archive_principal).                                  *)
LoginsAreActive == [][NoArchivedLogin]_tokens

(* A password replaced before the login request arrived does not log in,   *)
(* however the replacement and the login's statements overlap (login,      *)
(* change_my_password, reset_user_password).                               *)
ReplacedPasswordRejected == [][CurrentPasswordOnly]_<<tokens, ses>>

(* Nobody gets, or revokes, the token of another user; administrators do   *)
(* so for services only (create_my_token, revoke_my_token and the routes   *)
(* of service tokens, against requests that arrived earlier).              *)
TokensAreOwn == [][OwnTokensOnly]_tokens

-------------------------------------------------------------------------------
(* Locks: what the scan of administrators has found stays so. *)

(* No two transactions hold locks on one row that conflict. *)
LocksCompatible ==
  \A t, u \in Transactions : t # u =>
    \A l \in held[t], m \in held[u] : l[1] = m[1] => ~Conflict(l[2], m[2])

ManagerKnows(t) ==
  LET m == adm[t]
  IN  /\ \A u \in m.found : /\ <<u, "FOR UPDATE">> \in held[t]
                            /\ ActiveAdministrator(u)
      /\ m.at \in {"row", "write"} /\ m.op = "archive" /\ m.target \in Users =>
           <<m.target, "FOR UPDATE">> \in held[t]
      /\ m.at \in {"scan", "lock"} /\ m.op = "archive" =>
           <<m.target, "FOR UPDATE">> \in held[t]
      /\ m.op = "bootstrap" /\ m.at \in {"check", "write"} =>
           <<Administration, "FOR UPDATE">> \in held[t]

(* The administrators a removal has found are locked and stay active, so   *)
(* one that is not the target survives it; only one bootstrap at a time    *)
(* has seen that there is nobody.                                          *)
ScanHolds == LocksCompatible /\ \A t \in Managers : ManagerKnows(t)

-------------------------------------------------------------------------------
(* Liveness *)

(* Handlers go on; PostgreSQL grants a row lock to those who wait in turn. *)
Fairness ==
  /\ \A t \in Managers : SF_idVars(ManageStep(t) /\ UNCHANGED <<ses, memberships>>)
  /\ \A t \in Sessions : SF_idVars(SessionStep(t) /\ UNCHANGED <<adm, bootstrapped>>)

FairSpec == Spec /\ Fairness

(* Archivals, demotions and logins never wait for each other               *)
(* for ever: the lock on the administration comes first (archive_principal *)
(* and update_user).  With plain updates of administrators next to them    *)
(* they can, and PostgreSQL ends one: README, "Deadlocks".                 *)
RequestsEnd ==
  /\ \A t \in Managers : adm[t].at # "idle" ~> adm[t].at = "idle"
  /\ \A t \in Sessions : ses[t].at # "idle" ~> ses[t].at = "idle"
===============================================================================
