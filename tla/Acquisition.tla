----------------------------- MODULE Acquisition -----------------------------
(***************************************************************************)
(* POST /v1/leases: acquire_lease in leasing/persistence.py, one action    *)
(* per SQL statement or decision of the handler, so that the statements of *)
(* concurrent requests interleave as they do in PostgreSQL.                *)
(***************************************************************************)
EXTENDS LeaseStore

CONSTANTS
  Acquirers,  \* acquisition requests that can be in flight at once
  Requests    \* the request bodies clients send

ASSUME AcquirersAssumption == Acquirers \subseteq Transactions
ASSUME RequestsAssumption == Requests \subseteq Request

VARIABLE acq  \* per acquirer: the handler's position and local variables

IdleAcquire ==
  [at |-> "idle", who |-> NULL, key |-> NULL, request |-> NULL, now |-> 0,
   todo |-> <<>>, granted |-> {}, target |-> NULL, acquired |-> 0, expires |-> NULL]

(* Commit, rollback or an HTTP error: the transaction ends, its locks go. *)
EndAcquire(t) == /\ acq' = [acq EXCEPT ![t] = IdleAcquire]
                 /\ ReleaseAll(t)

-------------------------------------------------------------------------------
(* The candidate SELECT *)

(* The filter on ttl_seconds admits only resources that can honour it. *)
TtlAdmitted(c, ttl) ==
  \/ ttl = OMITTED_TTL /\ (c.default # NULL \/ c.expiration = "Optional")
  \/ ttl = NULL /\ c.expiration = "Optional"
  \/ ttl \in Nat /\ (c.max # NULL => c.max >= ttl)

(* The part of the WHERE clause that PostgreSQL evaluates again on the     *)
(* newest row once the row is locked; `granted' stands for the subqueries  *)
(* on the grant tables, which keep the statement's snapshot.               *)
RowMatches(r, q, granted) ==
  LET row == resources[r]
  IN  /\ ~row.archived
      /\ row.status = "Active"
      /\ row.config.mode = q.mode
      /\ TtlAdmitted(row.config, q.ttl)
      /\ row.config.visibility = "Public" \/ r \in granted

(* resource_visibility_predicate, which administrators are not subject to. *)
GrantedTo(p) == {r \in Resources : p \in Admins \/ <<p, r>> \in grants}

(* An exclusive request also filters on active_count = 0. *)
Matching(q, granted, now) ==
  {r \in Resources : /\ RowMatches(r, q, granted)
                     /\ q.mode = "Exclusive" => ActiveLeases(r, now) = {}}

(* ORDER BY active_count, last_leased_at NULLS FIRST, id *)
PreferredTo(r, s, now) ==
  LET load(x) == Cardinality(ActiveLeases(x, now))
      a == resources[r].leasedAt
      b == resources[s].leasedAt
  IN  \/ load(r) < load(s)
      \/ /\ load(r) = load(s)
         /\ \/ a = NULL /\ b # NULL
            \/ a # NULL /\ b # NULL /\ a < b
            \/ a = b /\ r < s

InPreference(S, now) ==
  {s \in [1..Cardinality(S) -> S] :
     \A i, j \in 1..Cardinality(S) : i < j => PreferredTo(s[i], s[j], now)}

-------------------------------------------------------------------------------
(* The handler's steps *)

(* The transaction starts with its first statement, which fixes now(). *)
BeginAcquire(t, p, k, q) ==
  /\ acq[t].at = "idle"
  /\ acq' = [acq EXCEPT ![t] = [IdleAcquire EXCEPT !.at = "key", !.who = p, !.key = k,
                                                   !.request = q, !.now = clock]]
  /\ UNCHANGED storeVars

(* Mutant: the attempts of one request are not serialised. *)
ReadKey(t) ==
  /\ acq[t].at = "key"
  /\ acq' = [acq EXCEPT ![t].at = "existing"]
  /\ UNCHANGED storeVars

(* pg_advisory_xact_lock on the principal and the key. *)
LockKey(t) ==
  /\ acq[t].at = "key"
  /\ Take(t, KeyLock(acq[t].who, acq[t].key))
  /\ acq' = [acq EXCEPT ![t].at = "existing"]
  /\ UNCHANGED <<clock, tables>>

KeyUsed(t) ==
  \E i \in DOMAIN leases : leases[i].owner = acq[t].who /\ leases[i].key = acq[t].key

(* The key was used before: the stored lease is returned, or 409 when the  *)
(* digests differ.  Neither writes.                                        *)
AnswerFromExisting(t) ==
  /\ acq[t].at = "existing"
  /\ KeyUsed(t)
  /\ EndAcquire(t)
  /\ UNCHANGED <<clock, tables>>

(* The key is new, and nobody else can use it while it is locked.  The     *)
(* candidate SELECT starts: its snapshot decides which resources match and *)
(* the order in which their rows are tried.                                *)
SelectCandidates(t) ==
  /\ acq[t].at = "existing"
  /\ ~KeyUsed(t)
  /\ LET granted == GrantedTo(acq[t].who)
         matching == Matching(acq[t].request, granted, acq[t].now)
     IN  \E s \in InPreference(matching, acq[t].now) :
           acq' = [acq EXCEPT ![t] = [@ EXCEPT !.at = "lock", !.todo = s, !.granted = granted]]
  /\ UNCHANGED storeVars

(* SKIP LOCKED, which only exclusive requests ask for. *)
SkipLocked(t) ==
  /\ acq[t].at = "lock"
  /\ acq[t].todo # <<>>
  /\ acq[t].request.mode = "Exclusive"
  /\ ~Free(t, ResourceLock(Head(acq[t].todo)))
  /\ acq' = [acq EXCEPT ![t].todo = Tail(@)]
  /\ UNCHANGED storeVars

(* Mutant: FOR UPDATE without the second look at the WHERE clause. *)
LockStaleCandidate(t) ==
  LET r == Head(acq[t].todo)
  IN  /\ acq[t].at = "lock"
      /\ acq[t].todo # <<>>
      /\ Take(t, ResourceLock(r))
      /\ acq' = [acq EXCEPT ![t] = [@ EXCEPT !.target = r, !.todo = <<>>,
                                             !.at = IF acq[t].request.mode = "Exclusive"
                                                    THEN "recheck" ELSE "insert"]]
      /\ UNCHANGED <<clock, tables>>

(* FOR UPDATE LIMIT 1: the first row that still matches when it is locked. *)
(* active_count is NOT counted again: its subquery keeps the snapshot.     *)
LockCandidate(t) ==
  LET r == Head(acq[t].todo)
  IN  /\ acq[t].at = "lock"
      /\ acq[t].todo # <<>>
      /\ Take(t, ResourceLock(r))
      /\ RowMatches(r, acq[t].request, acq[t].granted)
      /\ acq' = [acq EXCEPT ![t] = [@ EXCEPT !.target = r, !.todo = <<>>,
                                             !.at = IF acq[t].request.mode = "Exclusive"
                                                    THEN "recheck" ELSE "insert"]]
      /\ UNCHANGED <<clock, tables>>

(* A row that no longer matches is passed over, and stays locked. *)
PassOver(t) ==
  LET r == Head(acq[t].todo)
  IN  /\ acq[t].at = "lock"
      /\ acq[t].todo # <<>>
      /\ Take(t, ResourceLock(r))
      /\ ~RowMatches(r, acq[t].request, acq[t].granted)
      /\ acq' = [acq EXCEPT ![t].todo = Tail(@)]
      /\ UNCHANGED <<clock, tables>>

(* 409 No matching resource is available. *)
NoneAvailable(t) ==
  /\ acq[t].at = "lock"
  /\ acq[t].todo = <<>>
  /\ EndAcquire(t)
  /\ UNCHANGED <<clock, tables>>

(* still_active: a statement of its own, after the lock, with a snapshot of *)
(* its own; an active lease on the locked resource is a 409 as well.       *)
StillActive(t) ==
  /\ acq[t].at = "recheck"
  /\ ActiveLeases(acq[t].target, acq[t].now) # {}
  /\ EndAcquire(t)
  /\ UNCHANGED <<clock, tables>>

(* Mutant: the count of the candidate SELECT is trusted. *)
TrustCandidate(t) ==
  /\ acq[t].at = "recheck"
  /\ acq' = [acq EXCEPT ![t].at = "insert"]
  /\ UNCHANGED storeVars

StillFree(t) ==
  /\ acq[t].at = "recheck"
  /\ ActiveLeases(acq[t].target, acq[t].now) = {}
  /\ acq' = [acq EXCEPT ![t].at = "insert"]
  /\ UNCHANGED storeVars

(* _resolve_ttl and INSERT.  The 409 of _resolve_ttl cannot occur here:    *)
(* SelectionHolds says so of every state in which this step is next.  *)
InsertLease(t) ==
  LET c == resources[acq[t].target].config
  IN  /\ acq[t].at = "insert"
      /\ ~TtlRefused(c, acq[t].request.ttl)
      /\ acq' = [acq EXCEPT ![t] = [@ EXCEPT
                !.at = "commit", !.acquired = clock,
                !.expires = ExpiresAt(clock, c, acq[t].request.ttl)]]
      /\ UNCHANGED storeVars

(* COMMIT: the lease, last_leased_at and the audit event become visible. *)
CommitAcquire(t) ==
  LET a == acq[t]
  IN  /\ a.at = "commit"
      /\ leases' = Append(leases,
           [resource |-> a.target, owner |-> a.who, key |-> a.key, request |-> a.request,
            acquired |-> a.acquired, expires |-> a.expires, renewed |-> NULL,
            ended |-> NULL, reason |-> NULL])
      /\ resources' = [resources EXCEPT ![a.target].leasedAt = a.acquired]
      /\ audit' = Recorded({Event("lease.acquired", Len(leases) + 1, a.who)})
      /\ EndAcquire(t)
      /\ UNCHANGED <<clock, grants>>

(* The connection is lost, the process dies or the server cancels the      *)
(* transaction: it rolls back.  The client may send the request again.     *)
AbortAcquire(t) ==
  /\ acq[t].at # "idle"
  /\ EndAcquire(t)
  /\ UNCHANGED <<clock, tables>>

-------------------------------------------------------------------------------

AcquireStep(t) ==
  \/ LockKey(t) \/ AnswerFromExisting(t) \/ SelectCandidates(t)
  \/ SkipLocked(t) \/ LockCandidate(t) \/ PassOver(t) \/ NoneAvailable(t)
  \/ StillActive(t) \/ StillFree(t) \/ InsertLease(t) \/ CommitAcquire(t)

AcquireBy(t) ==
  \/ \E p \in Principals, k \in Keys, q \in Requests : BeginAcquire(t, p, k, q)
  \/ AcquireStep(t)
  \/ AbortAcquire(t)

AcquireNext == \E t \in Acquirers : AcquireBy(t)

(* The lock the transaction's next step waits for. *)
AcquireWaitsFor(t) ==
  CASE acq[t].at = "key" -> {KeyLock(acq[t].who, acq[t].key)}
    [] acq[t].at = "lock" /\ acq[t].todo # <<>> /\ acq[t].request.mode = "Shared" ->
         {ResourceLock(Head(acq[t].todo))}
    [] OTHER -> {}

AcquireLocals ==
  [at : {"idle", "key", "existing", "lock", "recheck", "insert", "commit"},
   who : Principals \cup {NULL}, key : Keys \cup {NULL}, request : Requests \cup {NULL},
   now : Nat, todo : Seq(Resources), granted : SUBSET Resources,
   target : Resources \cup {NULL}, acquired : Nat, expires : Seconds]

AcquireTypeOK == acq \in [Acquirers -> AcquireLocals]
===============================================================================
