------------------------------- MODULE Shepherd -------------------------------
(***************************************************************************)
(* Shepherd Resource Manager's leasing core: acquisition requests, lease   *)
(* changes, resource edits and the expiration worker over one database.    *)
(***************************************************************************)
EXTENDS Acquisition, LeaseChange, ExpirationWorker, CatalogChange

CONSTANTS
  InitialConfigs,  \* the configurations resources are created with
  MaxLeases        \* a bound on the leases that the keys allow, for liveness

ASSUME InitialConfigsAssumption ==
  InitialConfigs \subseteq {c \in Configs : ValidExpiration(c)}

ASSUME MaxLeasesAssumption == MaxLeases \in Nat

ASSUME TransactionsAssumption ==
  /\ Transactions = Acquirers \cup Changers \cup Workers \cup Editors
  /\ Acquirers \cap (Changers \cup Workers \cup Editors) = {}
  /\ Changers \cap (Workers \cup Editors) = {}
  /\ Workers \cap Editors = {}

vars == <<clock, resources, grants, leases, audit, held, acq, chg, swp, adm>>

(* create_resource: an Active resource of version 1, never leased. *)
Created(c) == [config |-> c, status |-> "Active", archived |-> FALSE,
               version |-> 1, leasedAt |-> NULL]

Init ==
  /\ clock = 0
  /\ resources \in [Resources -> {Created(c) : c \in InitialConfigs}]
  /\ grants = {}
  /\ leases = <<>>
  /\ audit = NothingRecorded
  /\ held = [t \in Transactions |-> {}]
  /\ acq = [t \in Acquirers |-> IdleAcquire]
  /\ chg = [t \in Changers |-> IdleChange]
  /\ swp = [w \in Workers |-> IdleSweep]
  /\ adm = [t \in Editors |-> IdleEdit]

Next ==
  \/ Tick /\ UNCHANGED <<acq, chg, swp, adm>>
  \/ AcquireNext /\ UNCHANGED <<chg, swp, adm>>
  \/ ChangeNext /\ UNCHANGED <<acq, swp, adm>>
  \/ SweepNext /\ UNCHANGED <<acq, chg, adm>>
  \/ EditNext /\ UNCHANGED <<acq, chg, swp>>

Spec == Init /\ [][Next]_vars

-------------------------------------------------------------------------------
(* Invariants *)

(* Every variable has its type. *)
TypeOK == StoreTypeOK /\ AcquireTypeOK /\ ChangeTypeOK /\ SweepTypeOK /\ EditTypeOK

(* Exclusive allocation: once an exclusive request has been granted a      *)
(* resource, no lease granted on it before is active any more, and none    *)
(* comes back through a renewal (acquire_lease, renew_lease).              *)
ExclusiveGrant ==
  \A i, j \in DOMAIN leases :
    /\ i < j
    /\ leases[i].resource = leases[j].resource
    /\ leases[j].request.mode = "Exclusive"
    => ~Active(leases[i], clock)

(* What a test says of exclusive leases: while one is active, its resource *)
(* is leased to no second principal (acquire_lease against                 *)
(* update_resource).                                                       *)
ExclusiveBlocks ==
  \A i, j \in DOMAIN leases :
    /\ i < j
    /\ leases[i].resource = leases[j].resource
    /\ leases[i].owner # leases[j].owner
    /\ leases[i].request.mode = "Exclusive"
    /\ Active(leases[i], leases[j].acquired)
    => ~Active(leases[j], clock)

(* A resource is archived only for good: no lease of it is active, or      *)
(* becomes active again (archive_resource against acquire and renew).      *)
ArchivedIsIdle ==
  \A r \in Resources : resources[r].archived => ActiveLeases(r, clock) = {}

(* A retried request never makes a second lease, however the attempts      *)
(* overlap: one lease per principal and idempotency key (acquire_lease).   *)
(* The INSERT is modelled without uq_leases_principal_idempotency, so this *)
(* also says that no attempt runs into that constraint.                    *)
OneLeasePerKey ==
  \A i, j \in DOMAIN leases :
    leases[i].owner = leases[j].owner /\ leases[i].key = leases[j].key => i = j

Selected(t) ==
  LET row == resources[acq[t].target]
  IN  /\ ~TtlRefused(row.config, acq[t].request.ttl)
      /\ row.config.mode = acq[t].request.mode
      /\ row.status = "Active" /\ ~row.archived
      /\ row.config.visibility = "Public" \/ acq[t].target \in acq[t].granted

(* When the lease is inserted, the resource chosen for it still matches:   *)
(* it can honour the requested ttl, so that _resolve_ttl does not refuse,  *)
(* and has the mode, status and visibility that were asked for, whatever   *)
(* was edited between the SELECT's snapshot and this moment (the filters,  *)
(* the row lock and _resolve_ttl of acquire_lease).                        *)
SelectionHolds ==
  \A t \in Acquirers : acq[t].at \in {"insert", "commit"} => Selected(t)

(* A lease ends within its life, and an expired one at its expiration,     *)
(* which has passed by then (end_lease, expire_due_leases, and the CHECK   *)
(* constraints of table leases).                                           *)
EndsWithinLife ==
  \A i \in DOMAIN leases :
    LET l == leases[i]
    IN  /\ l.expires # NULL => l.expires > l.acquired
        /\ l.ended # NULL <=> l.reason # NULL
        /\ l.ended # NULL => l.acquired <= l.ended /\ l.ended <= clock
        /\ l.reason = "Expired" => l.ended = l.expires

EndEvents(i) ==
  {e \in DOMAIN audit : e.entity = i /\ e.action \in EndActions}

OneRowTells(i, e) == EndEvents(i) = {e} /\ audit[e] = 1

(* The audit trail tells how each lease ended, in one row, and by whom:    *)
(* its owner, an administrator, or nobody for the worker, though several   *)
(* requests and the worker may end a lease at once and releases are        *)
(* repeated (record_audit_event in end_lease and expire_due_leases).       *)
AuditTellsTheEnd ==
  \A i \in DOMAIN leases :
    LET l == leases[i]
    IN  /\ l.reason = NULL => EndEvents(i) = {}
        /\ l.reason = "Released" => OneRowTells(i, Event("lease.released", i, l.owner))
        /\ l.reason = "Expired" => OneRowTells(i, Event("lease.expired", i, NULL))
        /\ l.reason = "Revoked" =>
             \E a \in Admins : OneRowTells(i, Event("lease.revoked", i, a))

-------------------------------------------------------------------------------
(* What transactions know under their locks *)

(* No two transactions hold one lock. *)
LocksExclude ==
  \A t, u \in Transactions : t # u => held[t] \cap held[u] = {}

AcquireKnows(t) ==
  LET a == acq[t]
  IN  /\ a.at # "idle" => a.now <= clock
      /\ a.at \in {"existing", "lock", "recheck", "insert", "commit"} =>
           KeyLock(a.who, a.key) \in held[t]
      /\ a.at \in {"lock", "recheck", "insert", "commit"} => ~KeyUsed(t)
      /\ a.at \in {"recheck", "insert", "commit"} =>
           /\ ResourceLock(a.target) \in held[t]
           /\ ~resources[a.target].archived
      /\ a.at \in {"insert", "commit"} /\ a.request.mode = "Exclusive" =>
           ActiveLeases(a.target, clock) = {}

ChangeKnows(t) ==
  LET c == chg[t]
      l == leases[c.lease]
  IN  /\ c.at \in {"resource", "check", "policy", "renew", "end"} =>
           LeaseLock(c.lease) \in held[t]
      /\ c.at \in {"check", "policy", "renew", "end"} =>
           ResourceLock(l.resource) \in held[t]
      /\ c.at \in {"policy", "renew"} =>
           /\ l.ended = NULL
           /\ ~resources[l.resource].archived
           /\ \A j \in DOMAIN leases :
                j > c.lease /\ leases[j].resource = l.resource
                  => leases[j].request.mode # "Exclusive"

SweepKnows(w) ==
  /\ \A n \in DOMAIN swp[w].todo : LeaseLock(swp[w].todo[n]) \in held[w]
  /\ \A i \in swp[w].expired :
       /\ LeaseLock(i) \in held[w]
       /\ leases[i].ended = NULL /\ leases[i].expires # NULL

EditKnows(t) ==
  /\ adm[t].at # "idle" => adm[t].now <= clock
  /\ adm[t].at = "apply" => ResourceLock(adm[t].resource) \in held[t]

(* What a transaction has established under its locks stays true until it  *)
(* ends, whatever the others commit meanwhile: the key is unused, the      *)
(* chosen resource is free, the lease to renew is the last exclusive one   *)
(* (the order of locking and checking in every handler).                   *)
LockedKnowledge ==
  /\ LocksExclude
  /\ \A t \in Acquirers : AcquireKnows(t)
  /\ \A t \in Changers : ChangeKnows(t)
  /\ \A w \in Workers : SweepKnows(w)
  /\ \A t \in Editors : EditKnows(t)

WaitsFor(t) ==
  CASE t \in Acquirers -> AcquireWaitsFor(t)
    [] t \in Changers -> ChangeWaitsFor(t)
    [] t \in Workers -> SweepWaitsFor(t)
    [] t \in Editors -> EditWaitsFor(t)

(* No circle of transactions that wait for each other's locks: leases are  *)
(* locked before resources, exclusive acquisitions skip locked resources,  *)
(* and only the worker waits for a resource while it holds another         *)
(* (_lock_lease_for_change, expire_due_leases, SKIP LOCKED).  With shared  *)
(* acquisitions or a second worker it does not hold: README, "Deadlocks".  *)
NoLockCycle ==
  \A S \in (SUBSET Transactions) \ {{}} :
    \E t \in S : \A u \in S \ {t} : WaitsFor(t) \cap held[u] = {}

-------------------------------------------------------------------------------
(* Action properties *)

OnlyLifeChanges ==
  /\ Len(leases') >= Len(leases)
  /\ \A i \in DOMAIN leases :
       \/ leases'[i] = leases[i]
       \/ /\ leases[i].ended = NULL
          /\ leases'[i] = [leases[i] EXCEPT !.expires = leases'[i].expires,
                                           !.renewed = leases'[i].renewed,
                                           !.ended = leases'[i].ended,
                                           !.reason = leases'[i].reason]

(* A lease that has ended stays as it is, and what was granted (resource,  *)
(* owner, key, request, acquired_at) never changes; no lease disappears.   *)
History == [][OnlyLifeChanges]_leases

NoRevival ==
  \A i \in DOMAIN leases :
    leases'[i].expires # leases[i].expires =>
      /\ leases[i].ended = NULL
      /\ ~resources[leases[i].resource].archived
      /\ \A j \in DOMAIN leases :
           j > i /\ leases[j].resource = leases[i].resource
             => leases[j].request.mode = "Shared"

(* A renewal never revives: when it commits, the lease had not ended, was  *)
(* not archived away, and nobody was granted its resource exclusively      *)
(* after it (renew_lease).                                                 *)
RenewalNeverRevives == [][NoRevival]_leases

WithinPolicy ==
  \A i \in DOMAIN leases' :
    LET l == leases'[i]
        c == resources[l.resource].config
        start == IF l.renewed = NULL THEN l.acquired ELSE l.renewed
    IN  (i \notin DOMAIN leases \/ l.expires # leases[i].expires) =>
          /\ l.expires = NULL => c.expiration = "Optional"
          /\ l.expires # NULL /\ c.max # NULL => l.expires - start <= c.max

(* Every expiration that is granted or extended obeys the policy the       *)
(* resource has at that moment (the row locks of acquire and renew against *)
(* update_resource).                                                       *)
PolicyObeyed == [][WithinPolicy]_leases

ReadBefore ==
  \A r \in Resources :
    resources'[r].config # resources[r].config =>
      \E t \in Editors : /\ adm[t].at = "apply" /\ adm[t].resource = r
                         /\ adm[t].base.config = resources[r].config
                         /\ adm[t].base.status = resources[r].status

(* No update is lost: a PATCH replaces exactly the configuration, and was  *)
(* made in exactly the status, that its sender had read (update_resource). *)
NoLostUpdate == [][ReadBefore]_resources

-------------------------------------------------------------------------------
(* Liveness *)

(* Handlers that have started go on until they commit or fail. *)
HandlerFairness ==
  /\ \A t \in Acquirers : WF_vars(AcquireStep(t) /\ UNCHANGED <<chg, swp, adm>>)
  /\ \A t \in Changers : WF_vars(ChangeStep(t) /\ UNCHANGED <<acq, swp, adm>>)
  /\ \A t \in Editors : WF_vars(EditStep(t) /\ UNCHANGED <<acq, chg, swp>>)

(* The worker polls, and is restarted when it fails; it may fail any       *)
(* number of times, but not for ever (a failure that nobody can tell from  *)
(* the commit of a sweep without expired leases does not count as one).    *)
(* Row locks are granted in turn.                                          *)
WorkerFairness ==
  /\ \A w \in Workers :
       /\ WF_vars(SweepStep(w) /\ UNCHANGED <<acq, chg, adm>>)
       /\ SF_vars(ExpireNext(w) /\ UNCHANGED <<acq, chg, adm>>)
  /\ <>[][\A w \in Workers : CrashSweep(w) => CommitSweep(w)]_vars

FairSpec == Spec /\ HandlerFairness /\ WorkerFairness

CallsAbout(i) == {t \in Changers : chg[t].at # "idle" /\ chg[t].lease = i}

(* A lease does not stay due for ever: the worker ends it, or a call that  *)
(* was under way ends or renews it (run_worker, expire_due_leases).  Its   *)
(* owner must stop calling at some time: a call locks the lease's row, and *)
(* the worker, which skips locked rows, could find it locked at each poll. *)
DueLeasesEnd ==
  \A i \in 1..MaxLeases :
    LET due == i \in DOMAIN leases /\ Due(i, clock)
    IN  <>[](CallsAbout(i) = {}) => (due ~> ~due)

-------------------------------------------------------------------------------
(* Refinement *)

Book == INSTANCE LeaseBook WITH
  now <- clock,
  book <- [i \in DOMAIN leases |->
             [resource |-> leases[i].resource,
              exclusive |-> leases[i].request.mode = "Exclusive",
              from |-> leases[i].acquired, until |-> leases[i].expires,
              ended |-> leases[i].ended]],
  retired <- {r \in Resources : resources[r].archived}

(* Every step of the concurrent transactions is a step of the book of      *)
(* leases, or changes nothing in it.                                       *)
ImplementsBook == Book!BookSpec
===============================================================================
