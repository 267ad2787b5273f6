---------------------------- MODULE CatalogChange ----------------------------
(***************************************************************************)
(* The administrator's changes to a resource that exists, from             *)
(* catalog/persistence.py: update_resource, archive_resource,              *)
(* transition_resource and set_resource_grant.  Each locks the resource    *)
(* row, decides, writes and commits.                                       *)
(***************************************************************************)
EXTENDS LeaseStore

CONSTANTS
  Editors,    \* administrators' requests that can be in flight at once
  Edits,      \* the kinds of change they ask for
  MaxVersion  \* bound: the version at which a resource is left alone

Transitions == {"disable", "enable", "quarantine", "recover"}
GrantEdits == {"grant", "revoke"}

ASSUME EditorsAssumption == Editors \subseteq Transactions
ASSUME EditsAssumption == Edits \subseteq {"update", "archive"} \cup Transitions \cup GrantEdits
ASSUME MaxVersionAssumption == MaxVersion \in Nat

VARIABLE adm  \* per editor: the handler's position and local variables

NoBase == [config |-> NULL, status |-> "Active", version |-> 0]

IdleEdit ==
  [at |-> "idle", op |-> "archive", who |-> NULL, resource |-> NULL, config |-> NULL,
   base |-> NoBase, principal |-> NULL, now |-> 0]

(* Commit, rollback or an HTTP error: the transaction ends, its locks go. *)
EndEdit(t) == /\ adm' = [adm EXCEPT ![t] = IdleEdit]
              /\ ReleaseAll(t)

(* What GET /v1/resources/{id} tells an administrator before a PATCH. *)
Representation(r) ==
  [config |-> resources[r].config, status |-> resources[r].status,
   version |-> resources[r].version]

(* An administrator asks for a change of r; an update carries the version  *)
(* of the representation it was made from.  Others may change r meanwhile. *)
BeginEdit(t, op, a, r, c, p) ==
  /\ adm[t].at = "idle"
  /\ op \notin GrantEdits => resources[r].version < MaxVersion
  /\ adm' = [adm EXCEPT ![t] = [at |-> "lock", op |-> op, who |-> a, resource |-> r,
                                config |-> c, base |-> Representation(r),
                                principal |-> p, now |-> clock]]
  /\ UNCHANGED storeVars

(* Mutant: the resource row is read and not locked. *)
ReadEdited(t) ==
  /\ adm[t].at = "lock"
  /\ adm' = [adm EXCEPT ![t].at = "apply"]
  /\ UNCHANGED storeVars

(* SELECT ... FOR UPDATE on the resource, the first statement of each. *)
LockEdited(t) ==
  /\ adm[t].at = "lock"
  /\ Take(t, ResourceLock(adm[t].resource))
  /\ adm' = [adm EXCEPT ![t].at = "apply"]
  /\ UNCHANGED <<clock, tables>>

Applies(t, ops) == /\ adm[t].at = "apply"
                   /\ adm[t].op \in ops
                   /\ ~resources[adm[t].resource].archived

(* The row is archived: archiving again answers, any other change is a 409. *)
FindArchived(t) ==
  /\ adm[t].at = "apply"
  /\ resources[adm[t].resource].archived
  /\ EndEdit(t)
  /\ UNCHANGED <<clock, tables>>

-------------------------------------------------------------------------------
(* PATCH /v1/resources/{id} *)

(* Mutant: the version is not compared. *)
UpdateUnversioned(t) ==
  /\ adm[t].config # NULL
  /\ ValidExpiration(adm[t].config)

(* What is checked under the lock: the version, that the body names a      *)
(* field (NULL: it names none), and the merged expiration policy.          *)
UpdateAllowed(t) ==
  /\ resources[adm[t].resource].version = adm[t].base.version
  /\ adm[t].config # NULL
  /\ ValidExpiration(adm[t].config)

RefuseUpdate(t) ==
  /\ Applies(t, {"update"})
  /\ ~UpdateAllowed(t)
  /\ EndEdit(t)
  /\ UNCHANGED <<clock, tables>>

(* Nothing asks whether the resource has active leases. *)
UpdateResource(t) ==
  LET r == adm[t].resource
  IN  /\ Applies(t, {"update"})
      /\ UpdateAllowed(t)
      /\ resources' = [resources EXCEPT ![r] = [resources[r] EXCEPT !.config = adm[t].config,
                                                                 !.version = @ + 1]]
      /\ audit' = Recorded({Event("resource.updated", r, adm[t].who)})
      /\ EndEdit(t)
      /\ UNCHANGED <<clock, grants, leases>>

-------------------------------------------------------------------------------
(* DELETE /v1/resources/{id} *)

(* 409 A resource with active leases cannot be archived. *)
RefuseArchive(t) ==
  /\ Applies(t, {"archive"})
  /\ ActiveLeases(adm[t].resource, adm[t].now) # {}
  /\ EndEdit(t)
  /\ UNCHANGED <<clock, tables>>

(* Mutant: archived whatever its leases. *)
ArchiveInUse(t) ==
  LET r == adm[t].resource
  IN  /\ Applies(t, {"archive"})
      /\ resources' = [resources EXCEPT ![r] = [resources[r] EXCEPT !.archived = TRUE,
                                                                 !.version = @ + 1]]
      /\ audit' = Recorded({Event("resource.archived", r, adm[t].who)})
      /\ EndEdit(t)
      /\ UNCHANGED <<clock, grants, leases>>

ArchiveResource(t) ==
  LET r == adm[t].resource
  IN  /\ Applies(t, {"archive"})
      /\ ActiveLeases(r, adm[t].now) = {}
      /\ resources' = [resources EXCEPT ![r] = [resources[r] EXCEPT !.archived = TRUE,
                                                                 !.version = @ + 1]]
      /\ audit' = Recorded({Event("resource.archived", r, adm[t].who)})
      /\ EndEdit(t)
      /\ UNCHANGED <<clock, grants, leases>>

-------------------------------------------------------------------------------
(* POST /v1/resources/{id}/disable, enable, quarantine, recover *)

SourcesOf(op) == CASE op = "disable" -> {"Active", "Quarantined"}
                   [] op = "enable" -> {"Disabled"}
                   [] op = "quarantine" -> {"Active"}
                   [] op = "recover" -> {"Quarantined"}

TargetOf(op) == CASE op = "disable" -> "Disabled"
                  [] op = "quarantine" -> "Quarantined"
                  [] op \in {"enable", "recover"} -> "Active"

EventOf(op) == CASE op = "disable" -> "resource.disabled"
                 [] op = "enable" -> "resource.enabled"
                 [] op = "quarantine" -> "resource.quarantined"
                 [] op = "recover" -> "resource.recovered"

RefuseTransition(t) ==
  /\ Applies(t, Transitions)
  /\ resources[adm[t].resource].status \notin SourcesOf(adm[t].op)
  /\ EndEdit(t)
  /\ UNCHANGED <<clock, tables>>

TransitionResource(t) ==
  LET r == adm[t].resource
  IN  /\ Applies(t, Transitions)
      /\ resources[r].status \in SourcesOf(adm[t].op)
      /\ resources' = [resources EXCEPT ![r] = [resources[r] EXCEPT !.status = TargetOf(adm[t].op),
                                                                 !.version = @ + 1]]
      /\ audit' = Recorded({Event(EventOf(adm[t].op), r, adm[t].who)})
      /\ EndEdit(t)
      /\ UNCHANGED <<clock, grants, leases>>

-------------------------------------------------------------------------------
(* PUT and DELETE /v1/resources/{id}/access/... *)

(* Idempotent: a grant that is there, or a missing one, writes no event.   *)
(* The resource row is locked and not written: its version stays.          *)
SetGrant(t) ==
  LET r == adm[t].resource
      pair == {<<adm[t].principal, r>>}
      wanted == IF adm[t].op = "grant" THEN grants \cup pair ELSE grants \ pair
      event == IF adm[t].op = "grant" THEN "resource.access.granted"
               ELSE "resource.access.revoked"
  IN  /\ Applies(t, GrantEdits)
      /\ grants' = wanted
      /\ audit' = IF wanted = grants THEN audit
                  ELSE Recorded({Event(event, r, adm[t].who)})
      /\ EndEdit(t)
      /\ UNCHANGED <<clock, resources, leases>>

(* The connection is lost or the process dies: the transaction rolls back. *)
AbortEdit(t) ==
  /\ adm[t].at # "idle"
  /\ EndEdit(t)
  /\ UNCHANGED <<clock, tables>>

-------------------------------------------------------------------------------

EditStep(t) ==
  \/ LockEdited(t) \/ FindArchived(t) \/ RefuseUpdate(t) \/ UpdateResource(t)
  \/ RefuseArchive(t) \/ ArchiveResource(t) \/ RefuseTransition(t)
  \/ TransitionResource(t) \/ SetGrant(t)

EditBy(t) ==
  \/ \E a \in Admins, r \in Resources :
       \/ \E c \in Configs \cup {NULL} :
            "update" \in Edits /\ BeginEdit(t, "update", a, r, c, NULL)
       \/ \E op \in Edits \cap ({"archive"} \cup Transitions) :
            BeginEdit(t, op, a, r, NULL, NULL)
       \/ \E op \in Edits \cap GrantEdits, p \in Principals :
            BeginEdit(t, op, a, r, NULL, p)
  \/ EditStep(t)
  \/ AbortEdit(t)

EditNext == \E t \in Editors : EditBy(t)

(* The lock the transaction's next step waits for. *)
EditWaitsFor(t) ==
  IF adm[t].at = "lock" THEN {ResourceLock(adm[t].resource)} ELSE {}

Representations == [config : Configs \cup {NULL}, status : Statuses, version : Nat]

EditLocals ==
  [at : {"idle", "lock", "apply"}, op : {"update", "archive"} \cup Transitions \cup GrantEdits,
   who : Admins \cup {NULL}, resource : Resources \cup {NULL}, config : Configs \cup {NULL},
   base : Representations, principal : Principals \cup {NULL}, now : Nat]

EditTypeOK == adm \in [Editors -> EditLocals]
===============================================================================
