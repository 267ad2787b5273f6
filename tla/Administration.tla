---------------------------- MODULE Administration ----------------------------
(***************************************************************************)
(* What administrators do to principals, statement by statement:           *)
(* identity/persistence.py, the user and service-identity routes, and the  *)
(* bootstrap command of identity/bootstrap.py.                             *)
(***************************************************************************)
EXTENDS IdentityStore

CONSTANTS
  Managers,    \* administrators' requests and commands in flight at once
  Operations,  \* the operations of Requests below they may ask for
  NewRoles     \* the roles an update may ask for, or NULL

ASSUME ManagersAssumption == Managers \subseteq Transactions
ASSUME OperationsAssumption == Operations \subseteq {"archive", "update", "create", "bootstrap"}
ASSUME NoSuchName == Administration \notin Names

VARIABLES
  adm,           \* per manager: the handler's position and local variables
  bootstrapped   \* the subjects of the events administrator.bootstrapped

IdleManager == [at |-> "idle", op |-> "create", actor |-> NULL, target |-> NULL,
                role |-> NULL, todo |-> {}, found |-> {}]

EndManage(t) == adm' = [adm EXCEPT ![t] = IdleManager] /\ Unlock(t)

Go(t, at) == adm' = [adm EXCEPT ![t].at = at]

(* The operation, its principal and the role in the body; an update        *)
(* without a role changes the display name only.                           *)
Requests ==
  {q \in [op : Operations, target : Names, role : Roles \cup {NULL}] :
     /\ q.op = "archive" => q.role = NULL
     /\ q.op = "create" => q.role # NULL
     /\ q.op = "update" => q.role \in NewRoles
     /\ q.op = "bootstrap" => q.target \in Users /\ q.role = "Admin"}

(* Mutant: no lock serialises the removals of administrators. *)
FirstStepUnserialised(q) ==
  CASE q.op = "archive" -> "target"
    [] q.op = "bootstrap" -> "check"
    [] q.op = "update" -> IF q.target \in Users /\ q.role = "User" THEN "scan" ELSE "row"
    [] q.op = "create" -> "write"

(* Archiving a user and taking the role from one serialise on a lock that  *)
(* stands for all administrators; the other operations do not ask for it.  *)
FirstStep(q) ==
  CASE q.op = "bootstrap" -> "advisory"
    [] q.op = "archive" -> IF q.target \in Users THEN "advisory" ELSE "target"
    [] q.op = "update" -> IF q.target \in Users /\ q.role = "User" THEN "advisory" ELSE "row"
    [] q.op = "create" -> "write"

Begin(t, q, a) ==
  /\ adm[t].at = "idle"
  /\ adm' = [adm EXCEPT ![t] = [at |-> FirstStep(q), op |-> q.op, actor |-> a,
                                target |-> q.target, role |-> q.role,
                                todo |-> {}, found |-> {}]]
  /\ UNCHANGED <<identity, bootstrapped, held>>

(* A request is authenticated; whoever can run the command needs no token. *)
BeginManage(t) ==
  \/ \E q \in Requests, a \in Names :
       q.op # "bootstrap" /\ Administrator(a) /\ Begin(t, q, a)
  \/ \E q \in Requests : q.op = "bootstrap" /\ Begin(t, q, NULL)

(* Mutant: the lock on the administration is not asked for. *)
SkipAdministration(t) ==
  /\ adm[t].at = "advisory"
  /\ Go(t, CASE adm[t].op = "archive" -> "target"
             [] adm[t].op = "update" -> "scan"
             [] adm[t].op = "bootstrap" -> "check")
  /\ UNCHANGED <<identity, bootstrapped, held>>

(* pg_advisory_xact_lock(ADMINISTRATION_LOCK_ID) *)
LockAdministration(t) ==
  /\ adm[t].at = "advisory"
  /\ Lock(t, Administration, "FOR UPDATE")
  /\ Go(t, CASE adm[t].op = "archive" -> "target"
             [] adm[t].op = "update" -> "scan"
             [] adm[t].op = "bootstrap" -> "check")
  /\ UNCHANGED <<identity, bootstrapped>>

(* archive_principal locks its target and reads the role under the lock. *)
LockTarget(t) ==
  LET p == adm[t].target
  IN  /\ adm[t].at = "target"
      /\ Exists(p)
      /\ Lock(t, p, "FOR UPDATE")
      /\ Go(t, IF p \in Users /\ principals[p].role = "Admin" THEN "scan" ELSE "write")
      /\ UNCHANGED <<identity, bootstrapped>>

(* 404 *)
NotFound(t) ==
  /\ adm[t].at \in {"target", "row"}
  /\ ~Exists(adm[t].target)
  /\ EndManage(t)
  /\ UNCHANGED <<identity, bootstrapped>>

(* Mutant: archived administrators are not left out. *)
AdministratorsEver == {u \in Users : principals[u].role = "Admin" /\ passwords[u] > 0}

Administrators == {u \in Users : ActiveAdministrator(u)}

(* The rows the SELECT's snapshot finds ... *)
ScanAdministrators(t) ==
  /\ adm[t].at = "scan"
  /\ adm' = [adm EXCEPT ![t] = [adm[t] EXCEPT !.at = "lock", !.todo = Administrators]]
  /\ UNCHANGED <<identity, bootstrapped, held>>

(* Mutant: they are read again and not locked. *)
NoteAdministrator(t, u) ==
  /\ adm[t].at = "lock"
  /\ u \in adm[t].todo
  /\ adm' = [adm EXCEPT ![t] = [adm[t] EXCEPT
               !.todo = @ \ {u},
               !.found = IF u \in Administrators THEN @ \cup {u} ELSE @]]
  /\ UNCHANGED <<identity, bootstrapped, held>>

(* ... are locked one by one, and looked at again if they have changed. *)
LockAdministrator(t, u) ==
  /\ adm[t].at = "lock"
  /\ u \in adm[t].todo
  /\ Lock(t, u, "FOR UPDATE")
  /\ adm' = [adm EXCEPT ![t] = [adm[t] EXCEPT
               !.todo = @ \ {u},
               !.found = IF u \in Administrators THEN @ \cup {u} ELSE @]]
  /\ UNCHANGED <<identity, bootstrapped>>

Scanned(t) == adm[t].at = "lock" /\ adm[t].todo = {}

(* 409 The final active administrator cannot be archived, or demoted. *)
RefuseFinal(t) ==
  /\ Scanned(t)
  /\ adm[t].found = {adm[t].target}
  /\ EndManage(t)
  /\ UNCHANGED <<identity, bootstrapped>>

NotFinal(t) ==
  /\ Scanned(t)
  /\ adm[t].found # {adm[t].target}
  /\ Go(t, IF adm[t].op = "archive" THEN "write" ELSE "row")
  /\ UNCHANGED <<identity, bootstrapped, held>>

(* UPDATE principals locks the row it changes. *)
LockRow(t) ==
  /\ adm[t].at = "row"
  /\ Exists(adm[t].target)
  /\ Lock(t, adm[t].target, "UPDATE")
  /\ Go(t, "write")
  /\ UNCHANGED <<identity, bootstrapped>>

(* The audit event refers to its actor; then the transaction commits. *)
Write(t, op) ==
  /\ adm[t].at = "write"
  /\ adm[t].op = op
  /\ adm[t].actor # NULL => CanLock(t, adm[t].actor, "KEY SHARE")
  /\ EndManage(t)

CommitArchive(t) ==
  /\ Write(t, "archive")
  /\ principals' = [principals EXCEPT ![adm[t].target].archived = TRUE]
  /\ UNCHANGED <<passwords, tokens, bootstrapped>>

CommitUpdate(t) ==
  /\ Write(t, "update")
  /\ principals' = [principals EXCEPT ![adm[t].target].role =
                      IF adm[t].role = NULL THEN @ ELSE adm[t].role]
  /\ UNCHANGED <<passwords, tokens, bootstrapped>>

(* A user is created with a password, a service identity without. *)
Insert(p, role) ==
  /\ ~Exists(p)
  /\ principals' = [principals EXCEPT ![p] = [role |-> role, archived |-> FALSE]]
  /\ passwords' = [u \in Users |-> IF u = p THEN 1 ELSE passwords[u]]

CommitCreate(t) ==
  /\ Write(t, "create")
  /\ Insert(adm[t].target, adm[t].role)
  /\ UNCHANGED <<tokens, bootstrapped>>

(* The unique name is taken: a 409, or the command fails. *)
NameTaken(t) ==
  /\ adm[t].at = "write"
  /\ adm[t].op \in {"create", "bootstrap"}
  /\ Exists(adm[t].target)
  /\ EndManage(t)
  /\ UNCHANGED <<identity, bootstrapped>>

(* SELECT EXISTS: an administrator already exists. *)
RefuseBootstrap(t) ==
  /\ adm[t].at = "check"
  /\ Administrators # {}
  /\ EndManage(t)
  /\ UNCHANGED <<identity, bootstrapped>>

FindNoAdministrator(t) ==
  /\ adm[t].at = "check"
  /\ Administrators = {}
  /\ Go(t, "write")
  /\ UNCHANGED <<identity, bootstrapped, held>>

CommitBootstrap(t) ==
  /\ Write(t, "bootstrap")
  /\ Insert(adm[t].target, "Admin")
  /\ bootstrapped' = bootstrapped \cup {adm[t].target}
  /\ UNCHANGED tokens

(* The client or the connection goes away, or PostgreSQL ends a deadlock. *)
AbortManage(t) ==
  /\ adm[t].at # "idle"
  /\ EndManage(t)
  /\ UNCHANGED <<identity, bootstrapped>>

ManageStep(t) ==
  \/ LockAdministration(t) \/ LockTarget(t) \/ NotFound(t) \/ ScanAdministrators(t)
  \/ \E u \in Users : LockAdministrator(t, u)
  \/ RefuseFinal(t) \/ NotFinal(t) \/ LockRow(t)
  \/ CommitArchive(t) \/ CommitUpdate(t) \/ CommitCreate(t) \/ NameTaken(t)
  \/ RefuseBootstrap(t) \/ FindNoAdministrator(t) \/ CommitBootstrap(t)

ManageNext == \E t \in Managers : BeginManage(t) \/ ManageStep(t) \/ AbortManage(t)

ManagerLocals ==
  [at : {"idle", "advisory", "target", "scan", "lock", "row", "check", "write"},
   op : {"archive", "update", "create", "bootstrap"}, actor : Names \cup {NULL},
   target : Names \cup {NULL}, role : Roles \cup {NULL},
   todo : SUBSET Users, found : SUBSET Users]

ManageTypeOK == /\ adm \in [Managers -> ManagerLocals]
                /\ bootstrapped \subseteq Users
===============================================================================
