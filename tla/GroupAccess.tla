----------------------------- MODULE GroupAccess -----------------------------
(***************************************************************************)
(* Groups and the grants they hold on resources: the group routes of       *)
(* identity/api/groups.py and set_resource_grant with a group.  Each is a  *)
(* short transaction, and one step here: what it reads without a lock, the *)
(* archived_at of the group, changes only once.                            *)
(***************************************************************************)
EXTENDS LeaseStore

CONSTANT GroupIds

VARIABLE groups  \* tables groups, group_memberships and resource_group_grants

GroupRow == [archived : BOOLEAN, members : SUBSET Principals, resources : SUBSET Resources]

GroupTypeOK == groups \in [GroupIds -> GroupRow]

(* The groups that show r to their member p: archived ones show nothing. *)
GroupsShowing(p, r) ==
  {g \in GroupIds : /\ ~groups[g].archived
                    /\ p \in groups[g].members /\ r \in groups[g].resources}

(* resource_visibility_predicate *)
VisibleTo(p, r) == \/ resources[r].config.visibility = "Public"
                   \/ <<p, r>> \in grants
                   \/ GroupsShowing(p, r) # {}

Record(action, entity, a) == /\ audit' = Recorded({Event(action, entity, a)})
                             /\ UNCHANGED <<clock, resources, grants, leases, held>>

(* DELETE /v1/groups/{id}: memberships and grants stay, without effect. *)
ArchiveGroup(a, g) == /\ groups' = [groups EXCEPT ![g].archived = TRUE]
                      /\ Record("group.archived", g, a)

(* Both are idempotent, and neither asks whether the group is archived. *)
AddMember(a, g, p) == /\ groups' = [groups EXCEPT ![g].members = @ \cup {p}]
                      /\ Record("group.member_added", g, a)

RemoveMember(a, g, p) == /\ groups' = [groups EXCEPT ![g].members = @ \ {p}]
                         /\ Record("group.member_removed", g, a)

(* set_resource_grant locks the resource row, which must not be archived,  *)
(* grants only to a group that is not, and audits what it changes.         *)
SetGroupGrant(a, g, r, granted) ==
  /\ \A t \in Transactions : ResourceLock(r) \notin held[t]
  /\ ~resources[r].archived
  /\ granted => ~groups[g].archived
  /\ granted # (r \in groups[g].resources)
  /\ groups' = [groups EXCEPT ![g].resources = IF granted THEN @ \cup {r} ELSE @ \ {r}]
  /\ Record(IF granted THEN "resource.access.granted" ELSE "resource.access.revoked", r, a)

(* Administrators see every resource: whether they are members is left out. *)
GroupNext ==
  \E a \in Admins, g \in GroupIds :
    \/ ArchiveGroup(a, g)
    \/ \E p \in Principals \ Admins : AddMember(a, g, p) \/ RemoveMember(a, g, p)
    \/ \E r \in Resources, granted \in BOOLEAN : SetGroupGrant(a, g, r, granted)
===============================================================================
