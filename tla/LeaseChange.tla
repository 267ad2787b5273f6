----------------------------- MODULE LeaseChange -----------------------------
(***************************************************************************)
(* The three ways a request changes a lease: POST /v1/leases/{id}/renew,   *)
(* .../release and .../revoke, that is renew_lease and end_lease in        *)
(* leasing/persistence.py.  All lock the lease row first and the resource  *)
(* row second (_lock_lease_for_change).                                    *)
(***************************************************************************)
EXTENDS LeaseStore

CONSTANTS
  Changers,    \* renewals, releases and revocations that can be in flight at once
  RenewalTtls  \* the ttl_seconds clients ask a renewal for

ASSUME ChangersAssumption == Changers \subseteq Transactions
ASSUME RenewalTtlsAssumption == RenewalTtls \subseteq TtlIntents

VARIABLE chg  \* per changer: the handler's position and local variables

Operations == {"Renew", "Released", "Revoked"}

IdleChange ==
  [at |-> "idle", op |-> "Renew", who |-> NULL, lease |-> 0, ttl |-> NULL, now |-> 0,
   renewed |-> 0, expires |-> NULL]

(* Commit, rollback or an HTTP error: the transaction ends, its locks go. *)
EndChange(t) == /\ chg' = [chg EXCEPT ![t] = IdleChange]
                /\ ReleaseAll(t)

(* A client names a lease it has seen, so one that is committed.  Only an  *)
(* administrator reaches the revocation route.                             *)
BeginChange(t, op, p, i, ttl) ==
  /\ chg[t].at = "idle"
  /\ op = "Revoked" => p \in Admins
  /\ chg' = [chg EXCEPT ![t] = [IdleChange EXCEPT !.at = "lease", !.op = op, !.who = p,
                                                  !.lease = i, !.ttl = ttl, !.now = clock]]
  /\ UNCHANGED storeVars

(* Renewal and release are the owner's; revocation is not. *)
MayChange(t) == \/ chg[t].op = "Revoked"
                \/ leases[chg[t].lease].owner = chg[t].who

(* 404 Lease not found: the WHERE clause selects, and locks, no row. *)
NotFound(t) ==
  /\ chg[t].at = "lease"
  /\ ~MayChange(t)
  /\ EndChange(t)
  /\ UNCHANGED <<clock, tables>>

(* Mutant: the resource row first. *)
ResourceFirst(t) == IF chg[t].at = "lease" THEN ResourceLock(leases[chg[t].lease].resource)
                    ELSE LeaseLock(chg[t].lease)

(* The lease row first, its resource row second. *)
ChangeLock(t) == IF chg[t].at = "lease" THEN LeaseLock(chg[t].lease)
                 ELSE ResourceLock(leases[chg[t].lease].resource)

LockLease(t) ==
  /\ chg[t].at = "lease"
  /\ MayChange(t)
  /\ Take(t, ChangeLock(t))
  /\ chg' = [chg EXCEPT ![t].at = "resource"]
  /\ UNCHANGED <<clock, tables>>

(* Mutant: the resource row is not locked. *)
ReadLeasedResource(t) ==
  /\ chg[t].at = "resource"
  /\ chg' = [chg EXCEPT ![t].at = IF chg[t].op = "Renew" THEN "check" ELSE "end"]
  /\ UNCHANGED storeVars

LockLeasedResource(t) ==
  /\ chg[t].at = "resource"
  /\ Take(t, ChangeLock(t))
  /\ chg' = [chg EXCEPT ![t].at = IF chg[t].op = "Renew" THEN "check" ELSE "end"]
  /\ UNCHANGED <<clock, tables>>

-------------------------------------------------------------------------------
(* Renewal *)

(* 409 Only an active lease can be renewed: judged by datetime.now(UTC),   *)
(* read when both rows are locked, not by the transaction's now().         *)
RefuseInactive(t) ==
  /\ chg[t].at = "check"
  /\ ~Active(leases[chg[t].lease], clock)
  /\ EndChange(t)
  /\ UNCHANGED <<clock, tables>>

(* Mutant: active is judged by the transaction's now(), as ACTIVE_LEASE is. *)
FindActiveAtStart(t) ==
  /\ chg[t].at = "check"
  /\ Active(leases[chg[t].lease], chg[t].now)
  /\ chg' = [chg EXCEPT ![t].at = "policy"]
  /\ UNCHANGED storeVars

FindActive(t) ==
  /\ chg[t].at = "check"
  /\ Active(leases[chg[t].lease], clock)
  /\ chg' = [chg EXCEPT ![t].at = "policy"]
  /\ UNCHANGED storeVars

PolicyNow(t) == resources[leases[chg[t].lease].resource].config

(* The policy is read again; 409 when it does not allow the ttl. *)
RefuseTtl(t) ==
  /\ chg[t].at = "policy"
  /\ TtlRefused(PolicyNow(t), chg[t].ttl)
  /\ EndChange(t)
  /\ UNCHANGED <<clock, tables>>

(* The expiration is counted from a second reading of the clock. *)
ComputeRenewal(t) ==
  /\ chg[t].at = "policy"
  /\ ~TtlRefused(PolicyNow(t), chg[t].ttl)
  /\ chg' = [chg EXCEPT ![t] = [@ EXCEPT
            !.at = "renew", !.renewed = clock,
            !.expires = ExpiresAt(clock, PolicyNow(t), chg[t].ttl)]]
  /\ UNCHANGED storeVars

(* UPDATE, the audit event, COMMIT. *)
CommitRenewal(t) ==
  LET c == chg[t]
  IN  /\ c.at = "renew"
      /\ leases' = [leases EXCEPT ![c.lease] = [@ EXCEPT !.expires = c.expires,
                                                         !.renewed = c.renewed]]
      /\ audit' = Recorded({Event("lease.renewed", c.lease, c.who)})
      /\ EndChange(t)
      /\ UNCHANGED <<clock, resources, grants>>

-------------------------------------------------------------------------------
(* Release and revocation *)

EndEvent(op) == IF op = "Released" THEN "lease.released" ELSE "lease.revoked"

(* Mutant: an end that finds the lease ended is audited like the first. *)
AuditedAgain(t) ==
  LET c == chg[t]
  IN  /\ c.at = "end"
      /\ leases[c.lease].ended # NULL
      /\ audit' = Recorded({Event(EndEvent(c.op), c.lease, c.who)})
      /\ EndChange(t)
      /\ UNCHANGED <<clock, resources, grants, leases>>

(* Ending is idempotent: a lease that has ended is returned as it is. *)
AlreadyEnded(t) ==
  /\ chg[t].at = "end"
  /\ leases[chg[t].lease].ended # NULL
  /\ EndChange(t)
  /\ UNCHANGED <<clock, tables>>

(* Mutant: a lease is ended whether or not it has ended. *)
EndAgain(t) ==
  LET c == chg[t]
  IN  /\ c.at = "end"
      /\ leases' = [leases EXCEPT ![c.lease] = [@ EXCEPT !.ended = c.now, !.reason = c.op]]
      /\ audit' = Recorded({Event(EndEvent(c.op), c.lease, c.who)})
      /\ EndChange(t)
      /\ UNCHANGED <<clock, resources, grants>>

(* Mutant: the audited action is stored as the reason. *)
EndByEvent(t) ==
  LET c == chg[t]
  IN  /\ c.at = "end"
      /\ leases[c.lease].ended = NULL
      /\ leases' = [leases EXCEPT ![c.lease] = [@ EXCEPT !.ended = c.now,
                                                         !.reason = EndEvent(c.op)]]
      /\ audit' = Recorded({Event(EndEvent(c.op), c.lease, c.who)})
      /\ EndChange(t)
      /\ UNCHANGED <<clock, resources, grants>>

(* UPDATE with ended_at = now(), the audit event, COMMIT.  A lease that is *)
(* past its expiration and that no worker has ended yet is ended here.     *)
CommitEnd(t) ==
  LET c == chg[t]
  IN  /\ c.at = "end"
      /\ leases[c.lease].ended = NULL
      /\ leases' = [leases EXCEPT ![c.lease] = [@ EXCEPT !.ended = c.now, !.reason = c.op]]
      /\ audit' = Recorded({Event(EndEvent(c.op), c.lease, c.who)})
      /\ EndChange(t)
      /\ UNCHANGED <<clock, resources, grants>>

(* The connection is lost, the process dies, or PostgreSQL cancels the     *)
(* transaction to break a deadlock: it rolls back.                         *)
AbortChange(t) ==
  /\ chg[t].at # "idle"
  /\ EndChange(t)
  /\ UNCHANGED <<clock, tables>>

-------------------------------------------------------------------------------

ChangeStep(t) ==
  \/ NotFound(t) \/ LockLease(t) \/ LockLeasedResource(t)
  \/ RefuseInactive(t) \/ FindActive(t) \/ RefuseTtl(t) \/ ComputeRenewal(t)
  \/ CommitRenewal(t) \/ AlreadyEnded(t) \/ CommitEnd(t)

ChangeBy(t) ==
  \/ \E p \in Principals, i \in DOMAIN leases, ttl \in RenewalTtls :
       BeginChange(t, "Renew", p, i, ttl)
  \/ \E op \in {"Released", "Revoked"}, p \in Principals, i \in DOMAIN leases :
       BeginChange(t, op, p, i, NULL)
  \/ ChangeStep(t)
  \/ AbortChange(t)

ChangeNext == \E t \in Changers : ChangeBy(t)

(* The lock the transaction's next step waits for. *)
ChangeWaitsFor(t) ==
  IF (chg[t].at = "lease" /\ MayChange(t)) \/ chg[t].at = "resource"
  THEN {ChangeLock(t)} ELSE {}

ChangeLocals ==
  [at : {"idle", "lease", "resource", "check", "policy", "renew", "end"},
   op : Operations, who : Principals \cup {NULL}, lease : Nat, ttl : TtlIntents,
   now : Nat, renewed : Nat, expires : Seconds]

ChangeTypeOK == chg \in [Changers -> ChangeLocals]
===============================================================================
