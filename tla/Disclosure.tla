------------------------------ MODULE Disclosure ------------------------------
(***************************************************************************)
(* Secrets in use: requests about secrets while leases end, resources are  *)
(* edited, access is granted and revoked, and keys are rotated.            *)
(***************************************************************************)
EXTENDS LeaseChange, ExpirationWorker, CatalogChange, SecretAccess

CONSTANT Beginnings  \* configurations, grants, leases, secrets and rings to begin with

ASSUME BeginningsAssumption ==
  Beginnings \subseteq [configs : SUBSET Configs, grants : SUBSET (Principals \X Resources),
                        leases : Seq(LeaseRow), secrets : Seq(SecretRow),
                        ring : [keys : SUBSET RingKeys, active : RingKeys \cup {NULL}]]

(* The key ring in use at the beginning has the keys of what is stored. *)
ASSUME BeginningsReadable ==
  \A b \in Beginnings :
    \A i \in DOMAIN b.secrets :
      /\ ~b.secrets[i].deleted
      /\ b.secrets[i].material.mode = "Managed"
      => b.secrets[i].material.key \in b.ring.keys

ASSUME HandlersDisjoint ==
  /\ Transactions = Changers \cup Workers \cup Editors \cup Readers
  /\ Readers \cap (Changers \cup Workers \cup Editors) = {}
  /\ Changers \cap (Workers \cup Editors) = {}
  /\ Workers \cap Editors = {}

handlers == <<chg, swp, adm>>
allVars == <<storeVars, groups, secretVars, sec, handlers>>

Begun(b) ==
  /\ clock = 0
  /\ resources \in [Resources -> [config : b.configs, status : {"Active"},
                                  archived : {FALSE}, version : {1}, leasedAt : {NULL}]]
  /\ grants = b.grants
  /\ leases = b.leases
  /\ audit = NothingRecorded
  /\ held = [t \in Transactions |-> {}]
  /\ groups = [g \in GroupIds |-> [archived |-> FALSE, members |-> {}, resources |-> {}]]
  /\ secrets = b.secrets
  /\ ring = b.ring
  /\ retiring = {}
  /\ disclosed = {}
  /\ sec = [h \in Readers |-> IdleReader]
  /\ chg = [t \in Changers |-> IdleChange]
  /\ swp = [w \in Workers |-> IdleSweep]
  /\ adm = [t \in Editors |-> IdleEdit]

Init == \E b \in Beginnings : Begun(b)

Next ==
  \/ Tick /\ UNCHANGED <<groups, secretVars, sec, handlers>>
  \/ ChangeNext /\ UNCHANGED <<groups, secretVars, sec, swp, adm>>
  \/ SweepNext /\ UNCHANGED <<groups, secretVars, sec, chg, adm>>
  \/ EditNext /\ UNCHANGED <<groups, secretVars, sec, chg, swp>>
  \/ GroupNext /\ UNCHANGED <<secretVars, sec, handlers>>
  \/ SecretNext /\ UNCHANGED handlers

Spec == Init /\ [][Next]_allVars

-------------------------------------------------------------------------------

(* Every variable has its type. *)
TypeOK == /\ StoreTypeOK /\ ChangeTypeOK /\ SweepTypeOK /\ EditTypeOK
          /\ GroupTypeOK /\ SecretTypeOK

(* When a secret's material is read for an answer, everything the request  *)
(* was allowed on still holds, whatever was released, revoked, archived or *)
(* deleted since it was checked: the lease has not ended and is on the     *)
(* secret's resource, and its owner still sees that resource, at least by  *)
(* the grant to a group it was a member of (access_lease_secret: the locks *)
(* of _lock_active_authorized_lease and _lock_secret).                     *)
RevealHolds ==
  \A h \in Readers :
    LET c == sec[h]
        l == leases[c.lease]
    IN  c.at = "write" /\ c.op = "access" =>
          /\ Stored(c.secret, c.resource)
          /\ c.lease # 0 => l.ended = NULL /\ l.resource = c.resource
          /\ c.lease # 0 /\ c.who \notin Admins =>
               /\ l.owner = c.who
               /\ ~resources[c.resource].archived
               /\ \/ resources[c.resource].config.visibility = "Public"
                  \/ <<c.who, c.resource>> \in grants
                  \/ \E g \in c.via : c.resource \in groups[g].resources

(* Nothing is disclosed that the audit trail does not tell of, though the  *)
(* service may stop between the commit and the answer (_access_locked_     *)
(* secret inside the transaction, the response after it).                  *)
DisclosuresRecorded ==
  \A d \in disclosed : Event("resource_secret.accessed", d.secret, d.to) \in DOMAIN audit

(* Every stored value can be decrypted with the ring in use, if keys are   *)
(* rotated as the documentation says: no request under way encrypts with a *)
(* key that was found unused and is about to go (SecretCipher.encrypt).    *)
AllReadable ==
  \A i \in DOMAIN secrets : secrets[i].deleted \/ CanDecrypt(secrets[i].material)

(* No update of a secret is lost: it replaces the revision its sender had  *)
(* read, although the UPDATE does not compare versions: between the check  *)
(* and the commit no other request, begun from the same revision, writes   *)
(* the row (the locks that update_resource_secret keeps until its commit). *)
NoLostRevision ==
  [][\A i \in DOMAIN secrets :
       secrets'[i].version # secrets[i].version =>
         \E h \in Readers : /\ sec[h].at = "revise" /\ sec[h].secret = i
                            /\ sec[h].base = secrets[i].version]_secrets

(* The secrets of an archived resource are read or deleted, never created  *)
(* or replaced, though it may be archived at any moment (_lock_resource    *)
(* with require_active against archive_resource).                          *)
ArchivedSecretsStay ==
  [][\A i \in DOMAIN secrets' :
       i \notin DOMAIN secrets \/ secrets'[i].version # secrets[i].version
         => ~resources[secrets'[i].resource].archived]_secrets

(* What the documentation says of lease-scoped access by its owner: the    *)
(* lease has not ended or expired.  It is judged when the request, allowed *)
(* to read the secret, is granted its last lock: the lease may have        *)
(* expired while it waited for a row (now() in                             *)
(* _lock_active_authorized_lease is the start of the transaction).         *)
OwnLeaseActive ==
  [][\A h \in Readers :
       /\ sec[h].at = "secret" /\ sec'[h].at = "write"
       /\ sec[h].lease # 0 /\ sec[h].who \notin Admins
       => Active(leases[sec[h].lease], clock)]_sec

DisclosureWaitsFor(t) ==
  CASE t \in Readers -> ReaderWaitsFor(t)
    [] t \in Changers -> ChangeWaitsFor(t)
    [] t \in Workers -> SweepWaitsFor(t)
    [] t \in Editors -> EditWaitsFor(t)

(* Requests about secrets wait in no circle with the others: leases come   *)
(* before resources, and resources before secrets.                         *)
NoSecretLockCycle ==
  \A S \in (SUBSET Transactions) \ {{}} :
    \E t \in S : \A u \in S \ {t} : DisclosureWaitsFor(t) \cap held[u] = {}
===============================================================================
