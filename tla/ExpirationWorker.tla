--------------------------- MODULE ExpirationWorker ---------------------------
(***************************************************************************)
(* The expiration worker: the loop of leasing/worker.py around             *)
(* expire_due_leases in leasing/persistence.py.                            *)
(***************************************************************************)
EXTENDS LeaseStore

CONSTANTS
  Workers,   \* worker processes; the compose files start one
  BatchSize  \* lease_expiration_batch_size

ASSUME WorkersAssumption == Workers \subseteq Transactions
ASSUME BatchSizeAssumption == BatchSize \in Nat \ {0}

VARIABLE swp  \* per worker: the sweep's position and local variables

IdleSweep == [at |-> "idle", now |-> 0, todo |-> <<>>, expired |-> {}]

(* Commit or rollback: the transaction ends, its locks go. *)
EndSweep(w) == /\ swp' = [swp EXCEPT ![w] = IdleSweep]
               /\ ReleaseAll(w)

(* ended_at IS NULL AND expires_at <= now() *)
Due(i, t) == /\ leases[i].ended = NULL
             /\ leases[i].expires # NULL
             /\ leases[i].expires <= t

(* The poll interval is over, or the last sweep expired something. *)
BeginSweep(w) ==
  /\ swp[w].at = "idle"
  /\ swp' = [swp EXCEPT ![w] = [IdleSweep EXCEPT !.at = "select", !.now = clock]]
  /\ UNCHANGED storeVars

(* Mutant: the condition on ended_at is left out. *)
LockableOrEnded(w) ==
  {i \in DOMAIN leases : /\ leases[i].expires # NULL
                         /\ leases[i].expires <= swp[w].now
                         /\ Free(w, LeaseLock(i))}

Lockable(w) == {i \in DOMAIN leases : Due(i, swp[w].now) /\ Free(w, LeaseLock(i))}

(* The batches the SELECT can return: at most BatchSize of the due leases  *)
(* nobody has locked, earliest expiration first; ids break ties, and a     *)
(* lease's id is random.                                                   *)
Batches(w) ==
  LET size == IF Cardinality(Lockable(w)) < BatchSize
              THEN Cardinality(Lockable(w)) ELSE BatchSize
  IN  {s \in [1..size -> Lockable(w)] :
         \A i, j \in 1..size : /\ i # j => s[i] # s[j]
                               /\ i < j => leases[s[i]].expires <= leases[s[j]].expires
                               /\ \A l \in Lockable(w) \ {s[n] : n \in 1..size} :
                                    leases[s[i]].expires <= leases[l].expires}

(* SELECT ... ORDER BY expires_at, id LIMIT batch FOR UPDATE SKIP LOCKED.  *)
(* The statement never waits, and its conditions read the lease row alone, *)
(* so it is one step.                                                      *)
LockBatch(w) ==
  /\ swp[w].at = "select"
  /\ \E s \in Batches(w) :
       /\ swp' = [swp EXCEPT ![w] = [@ EXCEPT !.at = "expire", !.todo = s]]
       /\ held' = [held EXCEPT ![w] = @ \cup {LeaseLock(s[n]) : n \in DOMAIN s}]
  /\ UNCHANGED <<clock, tables>>

(* The loop's body: lock the lease's resource row, then end the lease if   *)
(* it is still due.                                                        *)
ExpireNext(w) ==
  LET i == Head(swp[w].todo)
  IN  /\ swp[w].at = "expire"
      /\ swp[w].todo # <<>>
      /\ Take(w, ResourceLock(leases[i].resource))
      /\ swp' = [swp EXCEPT ![w] = [swp[w] EXCEPT
                !.todo = Tail(@),
                !.expired = IF Due(i, swp[w].now) THEN @ \cup {i} ELSE @]]
      /\ UNCHANGED <<clock, tables>>

(* Mutant: a lease ends when the worker finds it, not when it expired. *)
CommitSweepNow(w) ==
  /\ swp[w].at = "expire"
  /\ swp[w].todo = <<>>
  /\ leases' = [i \in DOMAIN leases |->
                  IF i \in swp[w].expired
                  THEN [leases[i] EXCEPT !.ended = swp[w].now, !.reason = "Expired"]
                  ELSE leases[i]]
  /\ audit' = Recorded({Event("lease.expired", i, NULL) : i \in swp[w].expired})
  /\ EndSweep(w)
  /\ UNCHANGED <<clock, resources, grants>>

(* COMMIT: every lease of the batch has ended when it expired. *)
CommitSweep(w) ==
  /\ swp[w].at = "expire"
  /\ swp[w].todo = <<>>
  /\ leases' = [i \in DOMAIN leases |->
                  IF i \in swp[w].expired
                  THEN [leases[i] EXCEPT !.ended = leases[i].expires, !.reason = "Expired"]
                  ELSE leases[i]]
  /\ audit' = Recorded({Event("lease.expired", i, NULL) : i \in swp[w].expired})
  /\ EndSweep(w)
  /\ UNCHANGED <<clock, resources, grants>>

(* An exception ends the process, its transaction rolls back, and the      *)
(* container's restart policy starts it again.                             *)
CrashSweep(w) ==
  /\ swp[w].at # "idle"
  /\ EndSweep(w)
  /\ UNCHANGED <<clock, tables>>

-------------------------------------------------------------------------------

SweepStep(w) == BeginSweep(w) \/ LockBatch(w) \/ ExpireNext(w) \/ CommitSweep(w)

SweepBy(w) == SweepStep(w) \/ CrashSweep(w)

SweepNext == \E w \in Workers : SweepBy(w)

(* The lock the transaction's next step waits for. *)
SweepWaitsFor(w) ==
  IF swp[w].at = "expire" /\ swp[w].todo # <<>>
  THEN {ResourceLock(leases[Head(swp[w].todo)].resource)} ELSE {}

SweepLocals == [at : {"idle", "select", "expire"}, now : Nat,
                todo : Seq(Nat), expired : SUBSET Nat]

SweepTypeOK == swp \in [Workers -> SweepLocals]
===============================================================================
