----------------------------- MODULE SecretAccess -----------------------------
(***************************************************************************)
(* Resource secrets, statement by statement: what administrators do with   *)
(* them, and what the holder of a lease may learn, from                    *)
(* resource_secrets/persistence.py, api.py and crypto.py.  Names are left  *)
(* out, and so is the cipher: an encrypted value is one that can be read   *)
(* while its key is in the key ring.                                       *)
(***************************************************************************)
EXTENDS GroupAccess

CONSTANTS
  Readers,        \* requests about secrets that can be in flight at once
  SecretOps,      \* the operations they ask for
  RingKeys,       \* ids of deployment keys
  MaxSecrets,     \* bound: secrets ever created
  MaxRevision     \* bound: the version at which a secret is left alone

ASSUME ReadersAssumption == Readers \subseteq Transactions
ASSUME SecretOpsAssumption ==
  SecretOps \subseteq {"create", "update", "delete", "list", "get", "access"}

VARIABLES
  secrets,    \* table resource_secrets; the index is the id, deleted rows stay
  sec,        \* per reader: the handler's position and local variables
  ring,       \* settings: the configured keys and the active key's id
  retiring,   \* keys that the operator has found unused and will remove
  disclosed   \* what clients have received: secret, version, principal

secretVars == <<secrets, ring, retiring, disclosed>>

Material == [mode : {"Managed"}, key : RingKeys] \cup [mode : {"External"}, key : {NULL}]
SecretRow == [resource : Resources, material : Material, version : Nat, deleted : BOOLEAN]

Stored(i, r) == i \in DOMAIN secrets /\ ~secrets[i].deleted /\ secrets[i].resource = r

IdleReader == [at |-> "idle", op |-> "list", who |-> NULL, lease |-> 0, resource |-> NULL,
               secret |-> 0, body |-> NULL, base |-> 0, now |-> 0, via |-> {}]

EndReader(h) == sec' = [sec EXCEPT ![h] = IdleReader] /\ ReleaseAll(h)

Goto(h, at) == sec' = [sec EXCEPT ![h].at = at]

(* A request under a resource is an administrator's.  The body of an       *)
(* update has new material, another name or description, or nothing, and   *)
(* the version it was made from.                                           *)
BeginForResource(h, op, a, r, i, body) ==
  /\ sec[h].at = "idle"
  /\ op = "update" => secrets[i].version < MaxRevision
  /\ sec' = [sec EXCEPT ![h] = [IdleReader EXCEPT
               !.at = "resource", !.op = op, !.who = a, !.resource = r, !.secret = i,
               !.body = body, !.base = IF i = 0 THEN 0 ELSE secrets[i].version, !.now = clock]]
  /\ UNCHANGED <<storeVars, groups, secretVars>>

(* A request under a lease is anybody's; the secret's id may be of another *)
(* resource.                                                               *)
BeginForLease(h, op, p, l, i) ==
  /\ sec[h].at = "idle"
  /\ sec' = [sec EXCEPT ![h] = [IdleReader EXCEPT
               !.at = "lease", !.op = op, !.who = p, !.lease = l, !.secret = i, !.now = clock]]
  /\ UNCHANGED <<storeVars, groups, secretVars>>

-------------------------------------------------------------------------------
(* Locking and authorization *)

(* The WHERE clause: func.now() is the start of the transaction.  It is    *)
(* evaluated again when the lock has been waited for.                      *)
UsableLease(h) ==
  /\ Active(leases[sec[h].lease], sec[h].now)
  /\ sec[h].who \in Admins \/ leases[sec[h].lease].owner = sec[h].who

(* Mutant: the lease is read and not locked. *)
ReadLeaseOfSecret(h) ==
  /\ sec[h].at = "lease"
  /\ UsableLease(h)
  /\ sec' = [sec EXCEPT ![h].resource = leases[sec[h].lease].resource,
                        ![h].at = IF sec[h].who \in Admins THEN "secret" ELSE "resource"]
  /\ UNCHANGED <<storeVars, groups, secretVars>>

LockLeaseOfSecret(h) ==
  /\ sec[h].at = "lease"
  /\ UsableLease(h)
  /\ Take(h, LeaseLock(sec[h].lease))
  /\ sec' = [sec EXCEPT ![h].resource = leases[sec[h].lease].resource,
                        ![h].at = IF sec[h].who \in Admins THEN "secret" ELSE "resource"]
  /\ UNCHANGED <<clock, tables, groups, secretVars>>

(* Mutant: the resource row is read and not locked. *)
ReadResourceOfSecret(h) ==
  /\ sec[h].at = "resource"
  /\ Goto(h, IF sec[h].lease # 0 THEN "visible"
             ELSE IF sec[h].op = "create" THEN "write" ELSE "secret")
  /\ UNCHANGED <<storeVars, groups, secretVars>>

LockResourceOfSecret(h) ==
  /\ sec[h].at = "resource"
  /\ Take(h, ResourceLock(sec[h].resource))
  /\ sec[h].op \in {"create", "update"} => ~resources[sec[h].resource].archived
  /\ Goto(h, IF sec[h].lease # 0 THEN "visible"
             ELSE IF sec[h].op = "create" THEN "write" ELSE "secret")
  /\ UNCHANGED <<clock, tables, groups, secretVars>>

(* A statement of its own, under the resource's lock. *)
SeeResource(h) ==
  LET c == sec[h]
  IN  /\ c.at = "visible"
      /\ ~resources[c.resource].archived
      /\ VisibleTo(c.who, c.resource)
      /\ sec' = [sec EXCEPT ![h].at = "secret", ![h].via = GroupsShowing(c.who, c.resource)]
      /\ UNCHANGED <<storeVars, groups, secretVars>>

LockSecret(h) ==
  /\ sec[h].at = "secret"
  /\ sec[h].op # "list"
  /\ Stored(sec[h].secret, sec[h].resource)
  /\ Take(h, SecretLock(sec[h].secret))
  /\ Goto(h, "write")
  /\ UNCHANGED <<clock, tables, groups, secretVars>>

(* 404, and 409 for a change to an archived resource.  A secret that is    *)
(* not there has been deleted: deleting it again succeeds, unaudited.      *)
Refused(h) ==
  LET c == sec[h]
  IN  \/ c.at = "lease" /\ ~UsableLease(h)
      \/ c.at = "resource" /\ c.op \in {"create", "update"} /\ resources[c.resource].archived
      \/ /\ c.at = "visible"
         /\ resources[c.resource].archived \/ ~VisibleTo(c.who, c.resource)
      \/ c.at = "secret" /\ c.op # "list" /\ ~Stored(c.secret, c.resource)

RefuseReader(h) == /\ Refused(h)
                   /\ EndReader(h)
                   /\ UNCHANGED <<clock, tables, groups, secretVars>>

(* list_resource_secrets, list_lease_secrets and get_resource_secret       *)
(* answer with metadata.                                                   *)
AnswerMetadata(h) ==
  /\ \/ sec[h].at = "secret" /\ sec[h].op = "list"
     \/ sec[h].at = "write" /\ sec[h].op = "get"
  /\ EndReader(h)
  /\ UNCHANGED <<clock, tables, groups, secretVars>>

-------------------------------------------------------------------------------
(* The rows and the key ring *)

CanEncrypt == ring.active \in ring.keys
CanDecrypt(material) == material.mode = "Managed" => material.key \in ring.keys

(* Mutant: a key of the ring encrypts that need not be the active one. *)
SomeKey(body) ==
  [mode |-> body,
   key |-> IF body # "Managed" THEN NULL
           ELSE CHOOSE k \in ring.keys : ring.keys # {ring.active} => k # ring.active]

(* Mutant: the key's column is not cleared. *)
KeyKept(body) == [mode |-> body, key |-> ring.active]

(* _material_values: managed material is encrypted with the active key. *)
Sealed(body) == IF body = "Managed" THEN [mode |-> body, key |-> ring.active]
                ELSE [mode |-> body, key |-> NULL]

(* An update commits once its revision has been checked. *)
Commit(h, op) == /\ sec[h].at = IF op = "update" THEN "revise" ELSE "write"
                 /\ sec[h].op = op
                 /\ EndReader(h)
                 /\ UNCHANGED <<clock, resources, grants, leases, groups,
                                ring, retiring, disclosed>>

Log(h, event, i) == audit' = Recorded({Event(event, i, sec[h].who)})

(* 503: the configuration has no key to encrypt or to decrypt with. *)
Unavailable(h) ==
  /\ \/ /\ sec[h].at = IF sec[h].op = "update" THEN "revise" ELSE "write"
        /\ sec[h].body = "Managed" /\ ~CanEncrypt
     \/ /\ sec[h].at = "write" /\ sec[h].op = "access"
        /\ ~CanDecrypt(secrets[sec[h].secret].material)
  /\ EndReader(h)
  /\ UNCHANGED <<clock, tables, groups, secretVars>>

CommitCreateSecret(h) ==
  LET c == sec[h]
  IN  /\ c.body = "Managed" => CanEncrypt
      /\ Len(secrets) < MaxSecrets
      /\ Commit(h, "create")
      /\ secrets' = Append(secrets, [resource |-> c.resource, material |-> Sealed(c.body),
                                     version |-> 1, deleted |-> FALSE])
      /\ Log(h, "resource_secret.created", Len(secrets) + 1)

CurrentVersion(h) == sec[h].base = secrets[sec[h].secret].version

(* 409 Resource secret version is stale; or the body names no change. *)
NothingToUpdate(h) ==
  /\ sec[h].at = "write"
  /\ sec[h].op = "update"
  /\ ~CurrentVersion(h) \/ sec[h].body = NULL
  /\ EndReader(h)
  /\ UNCHANGED <<clock, tables, groups, secretVars>>

Revisable(h) == /\ sec[h].at = "write"
                /\ sec[h].op = "update"
                /\ CurrentVersion(h) /\ sec[h].body # NULL

(* Mutant: the version is checked in a transaction of its own. *)
CheckAndUnlock(h) ==
  /\ Revisable(h)
  /\ Goto(h, "revise")
  /\ ReleaseAll(h)
  /\ UNCHANGED <<clock, tables, groups, secretVars>>

(* The version that the locked row was read with is compared in the        *)
(* handler; the UPDATE, which does not compare it, is another statement.   *)
CheckRevision(h) ==
  /\ Revisable(h)
  /\ Goto(h, "revise")
  /\ UNCHANGED <<storeVars, groups, secretVars>>

CommitUpdateSecret(h) ==
  LET c == sec[h]
  IN  /\ c.body = "Managed" => CanEncrypt
      /\ Commit(h, "update")
      /\ secrets' = [secrets EXCEPT ![c.secret] = [secrets[c.secret] EXCEPT
                       !.material = IF c.body = "Rename" THEN @ ELSE Sealed(c.body),
                       !.version = @ + 1]]
      /\ Log(h, "resource_secret.updated", c.secret)

CommitDeleteSecret(h) ==
  /\ Commit(h, "delete")
  /\ secrets' = [secrets EXCEPT ![sec[h].secret].deleted = TRUE]
  /\ Log(h, "resource_secret.deleted", sec[h].secret)

(* Mutant: the access is not recorded. *)
RevealUnrecorded(h) ==
  /\ sec[h].at = "write" /\ sec[h].op = "access"
  /\ sec' = [sec EXCEPT ![h].at = "answer", ![h].base = secrets[sec[h].secret].version]
  /\ ReleaseAll(h)
  /\ UNCHANGED <<clock, tables, groups, secretVars>>

(* The material is decrypted, its disclosure recorded and committed ... *)
CommitReveal(h) ==
  LET s == secrets[sec[h].secret]
  IN  /\ sec[h].at = "write" /\ sec[h].op = "access"
      /\ CanDecrypt(s.material)
      /\ Log(h, "resource_secret.accessed", sec[h].secret)
      /\ sec' = [sec EXCEPT ![h].at = "answer", ![h].base = s.version]
      /\ ReleaseAll(h)
      /\ UNCHANGED <<clock, resources, grants, leases, groups, secretVars>>

(* ... before the answer leaves. *)
AnswerSecret(h) ==
  /\ sec[h].at = "answer"
  /\ disclosed' = disclosed \cup {[secret |-> sec[h].secret, version |-> sec[h].base,
                                   to |-> sec[h].who]}
  /\ EndReader(h)
  /\ UNCHANGED <<clock, tables, groups, secrets, ring, retiring>>

AbortReader(h) == /\ sec[h].at # "idle"
                  /\ EndReader(h)
                  /\ UNCHANGED <<clock, tables, groups, secretVars>>

-------------------------------------------------------------------------------
(* Key rotation, as docs/resource-secrets.md tells operators to do it *)

(* An old key may go once no stored value uses it. *)
DecideRetire(k) ==
  /\ k \in ring.keys \ ({ring.active} \cup retiring)
  /\ \A i \in DOMAIN secrets : ~secrets[i].deleted => secrets[i].material.key # k
  /\ retiring' = retiring \cup {k}
  /\ UNCHANGED <<storeVars, groups, sec, secrets, ring, disclosed>>

(* The service reads its settings when it starts: a change of the ring     *)
(* ends every request about secrets, and its transaction.  (Other requests *)
(* end too; their own aborts stand for that.)                              *)
Restart(added, active) ==
  /\ \A k \in ring.keys \cup retiring : k \notin added
  /\ ring' = [keys |-> (ring.keys \ retiring) \cup added, active |-> active]
  /\ ring' # ring
  /\ retiring' = {}
  /\ sec' = [h \in Readers |-> IdleReader]
  /\ held' = [t \in Transactions |-> IF t \in Readers THEN {} ELSE held[t]]
  /\ UNCHANGED <<clock, tables, groups, secrets, disclosed>>

-------------------------------------------------------------------------------

ReaderStep(h) ==
  \/ LockLeaseOfSecret(h) \/ LockResourceOfSecret(h) \/ SeeResource(h) \/ LockSecret(h)
  \/ RefuseReader(h) \/ AnswerMetadata(h) \/ Unavailable(h) \/ NothingToUpdate(h)
  \/ CommitCreateSecret(h) \/ CheckRevision(h) \/ CommitUpdateSecret(h) \/ CommitDeleteSecret(h)
  \/ CommitReveal(h) \/ AnswerSecret(h)

BeginReader(h) ==
  \/ \E a \in Admins, r \in Resources :
       \/ "list" \in SecretOps /\ BeginForResource(h, "list", a, r, 0, NULL)
       \/ \E body \in {"Managed", "External"} :
            /\ "create" \in SecretOps /\ Len(secrets) < MaxSecrets
            /\ BeginForResource(h, "create", a, r, 0, body)
       \/ \E op \in SecretOps \ {"list", "create"}, i \in DOMAIN secrets,
             body \in {"Managed", "External", "Rename", NULL} :
            /\ op # "update" => body = NULL
            /\ BeginForResource(h, op, a, r, i, body)
  \/ \E p \in Principals, l \in DOMAIN leases :
       \/ "list" \in SecretOps /\ BeginForLease(h, "list", p, l, 0)
       \/ \E i \in DOMAIN secrets :
            "access" \in SecretOps /\ BeginForLease(h, "access", p, l, i)

SecretNext ==
  \/ \E h \in Readers : BeginReader(h) \/ ReaderStep(h) \/ AbortReader(h)
  \/ \E k \in RingKeys : DecideRetire(k)
  \/ \E added \in SUBSET RingKeys, active \in RingKeys \cup {NULL} : Restart(added, active)

(* The lock the reader's next step waits for. *)
ReaderWaitsFor(h) ==
  IF Refused(h) THEN {}
  ELSE CASE sec[h].at = "lease" -> {LeaseLock(sec[h].lease)}
         [] sec[h].at = "resource" -> {ResourceLock(sec[h].resource)}
         [] sec[h].at = "secret" /\ sec[h].op # "list" -> {SecretLock(sec[h].secret)}
         [] OTHER -> {}

ReaderLocals ==
  [at : {"idle", "lease", "resource", "visible", "secret", "write", "revise", "answer"},
   op : {"create", "update", "delete", "list", "get", "access"}, who : Principals \cup {NULL},
   lease : Nat, resource : Resources \cup {NULL}, secret : Nat,
   body : {"Managed", "External", "Rename", NULL}, base : Nat, now : Nat, via : SUBSET GroupIds]

SecretTypeOK ==
  /\ secrets \in Seq(SecretRow)
  /\ sec \in [Readers -> ReaderLocals]
  /\ ring \in [keys : SUBSET RingKeys, active : RingKeys \cup {NULL}]
  /\ retiring \subseteq RingKeys
  /\ disclosed \subseteq [secret : Nat, version : Nat, to : Principals]
===============================================================================
