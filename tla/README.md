# Shepherd Resource Manager in TLA+

Shepherd RM hands out named resources to users and services. A client asks for *a* resource that
matches, gets a lease on one, reads the secrets of what it holds, renews or releases it, and the lease
expires when nobody does. The program has no scheduler and keeps almost nothing in memory: every HTTP
handler, the expiration worker and the bootstrap command are PostgreSQL transactions, and everything that
must be exclusive is decided by row locks, advisory locks and the order in which rows are read, locked and
read again. That order is what this project models, checks with TLC and proves with TLAPS.

All line numbers are of files under `src/`; `persistence.py` without a directory is
`src/shepherd_rm/leasing/persistence.py`.

## 1. Inventory

| Component | State | Operations | Status |
|---|---|---|---|
| Lease acquisition (`leasing/persistence.py`, `leasing/api.py`) | `leases`, `resources.last_leased_at`; an advisory lock per principal and `Idempotency-Key` | `acquire_lease` | `Acquisition` |
| Lease change (same files) | `leases` | `renew_lease`, `end_lease` (release, revoke) | `LeaseChange` |
| Expiration worker (`leasing/worker.py`) | none between two sweeps | `expire_due_leases`, the poll loop | `ExpirationWorker` |
| Resource catalog (`catalog/`) | `resources`, labels | create, update, archive, disable, enable, quarantine, recover | partly: `CatalogChange` |
| Visibility and grants (`catalog/persistence.py`) | `resource_principal_grants`, `resource_group_grants` | `set_resource_grant`, the visibility predicate | `CatalogChange`, `GroupAccess` |
| Resource secrets (`resource_secrets/`) | `resource_secrets` | create, update, delete, list, get; access by an administrator or through a lease | `SecretAccess` |
| Secret encryption (`crypto.py`, `config.py`) | the key ring in the settings | encrypt, decrypt, rotation by the operator | `SecretAccess` |
| Principals and groups (`identity/`) | `principals`, `groups`, `group_memberships` | create, update, archive, join, leave | `Administration`, `Credentials` |
| Authentication and tokens (`identity/authentication.py`) | `password_credentials`, `api_tokens` | login, passwords, tokens, the check of every request | `Credentials`, `IdentityStore` |
| Administrator bootstrap (`identity/bootstrap.py`) | as above | `bootstrap_administrator` | `Administration` |
| Rate limits (`rate_limits.py`) | `rate_limit_windows` | `enforce_rate_limit` with its cleanup | `RateLimit` |
| Request body limit (`request_limits.py`), correlation id, error handlers (`application.py`, `request_context.py`) | the messages of one request, a `ContextVar`, counters | the two middlewares, the exception path | `RequestPipeline` |
| Worker metrics (`observability.py`) | a file shared by workers and API, its lock file | load, update | `WorkerTelemetry` |
| Database metrics (`observability.py`) | none | `collect_database_metrics` | `Monitoring` |
| Audit log (`audit.py`) | `audit_events` | `record_audit_event`, in the transaction it is about | partly, in every module |
| Lease reads, listings, paging | none | queries | not modelled |
| Allocation counters, logs, rendering, settings, routing | process counters | | not modelled |
| Scripts and deployment | | the concurrency probe of `release_acceptance.py` | partly: `ConcurrencyProbe` |

**How the parts interact.** They call each other nowhere; they meet in the tables. An acquisition reads
resources, grants and leases, and writes a lease; a renewal reads the resource's policy *now*; an edit of a resource
happens between any two statements of either; the worker ends what clients left; a secret is read through a lease
that all of them may be ending. Every request first passes the two middlewares and a check of its token, in a transaction
of its own, and acts in another. The locks:

| Lock | Taken by | In the code |
|---|---|---|
| principal and idempotency key (advisory) | acquisition, first | `persistence.py:102` |
| lease row | renewal, release, revocation, lease-scoped secret access: first; the worker's batch: `SKIP LOCKED` | `:305`, `:389`, `resource_secrets/persistence.py:308` |
| resource row | acquisition (`SKIP LOCKED` if exclusive, waiting if shared); lease changes and secret access: second; the worker: one per lease of the batch; every catalog change and grant | `:163`, `:315`, `:396`, `catalog/persistence.py:207` |
| secret row | operations on one secret, last | `resource_secrets/persistence.py:64` |
| administration (advisory) | bootstrap, archiving a user, taking a role from one | `identity/persistence.py:133`, `identity/bootstrap.py:25` |
| principal row | archiving, the scan of administrators, login (`FOR UPDATE`); updates; foreign keys of events and tokens (`KEY SHARE`) | `identity/persistence.py:145`, `identity/authentication.py:133` |
| rate-limit row | the cleanup's `DELETE`, `INSERT ... ON CONFLICT` | `rate_limits.py:42` |
| `flock` on the lock file | the worker's publication | `observability.py:168` |

**What is hard here.** (1) A statement sees a snapshot, and the decisive ones are only partly evaluated again
after their locks. (2) `now()` is the start of the transaction, `datetime.now(UTC)` the moment, and a transaction may wait
for locks between the two. (3) Retried requests overlap their first attempt. (4) Three parties end a lease. (5) The
worker keeps the locks of a batch, skips what is locked, may die anywhere, and is restarted. (6) Administrators
change the rules while they are applied, and each other. (7) Requests take turns in one event loop at every `await`.
(8) Keys are taken out of service while requests encrypt. `PROJECT.json` lists the hazards at their lines.

**What makes each component correct.** *Acquisition*: an exclusive grant finds nobody on the resource, a retry
makes no second lease, and what is granted matches the request at the moment of the grant. *Lease change*: a lease
that is over stays over; a renewal obeys the present policy. *Worker*: each due lease ends once, at its expiration, and
eventually. *Catalog*: archived means idle for good; no update is lost. *Secrets*: what a reader was allowed on still holds when
the material is read; no disclosure without a record; every stored value can be decrypted. *Identity*: somebody can always administer; one bootstrap;
no login to an archived account or with a replaced password; nobody gets another's token. *Limits and metrics*: each attempt,
request and expiration is counted once. *Together*: no lock cycle, and every interleaving looks like a book of leases kept by one clerk
(`LeaseBook`).

## 2. Modules

| Module | Models | Variables |
|---|---|---|
| `LeaseStore` | tables, locks, the clock, lease policy (`_resolve_ttl`, `ACTIVE_LEASE`) | `clock`, `resources`, `grants`, `leases`, `audit`, `held` |
| `Acquisition` | `acquire_lease`, one action per statement or decision | `acq` |
| `LeaseChange` | `renew_lease`, `end_lease` | `chg` |
| `ExpirationWorker` | `run_worker`, `expire_due_leases` | `swp` |
| `CatalogChange` | changes of an existing resource, direct grants | `adm` |
| `Shepherd` | composes these: `Init`, `Next`, properties, fairness, the refinement mapping | |
| `LeaseBook` | the abstract specification: grants, extensions, ends and retirements, each in one step | `now`, `book`, `retired` |
| `Monitoring` | extends `Shepherd` by a scrape of `/metrics` | `scrape`, `touched` |
| `GroupAccess` | groups, memberships, grants to groups | `groups` |
| `SecretAccess` | operations on secrets, the key ring and its rotation | `secrets`, `sec`, `ring`, `retiring`, `disclosed` |
| `Disclosure` | composes `SecretAccess` with `LeaseChange`, `ExpirationWorker` and `CatalogChange` | |
| `IdentityStore` | identity tables, row locks with modes, the check of a request | `principals`, `passwords`, `tokens`, `held` |
| `Administration` | create, update, archive, bootstrap | `adm`, `bootstrapped` |
| `Credentials` | login, passwords, tokens, memberships | `ses`, `groups`, `members` |
| `Identity` | composes these | |
| `RateLimit` | `enforce_rate_limit` | `clock`, `windows`, `holder`, `lim`, `history` |
| `WorkerTelemetry` | workers of several images and the state file | `file`, `flock`, `loop`, `sweeps`, `done`, `lost` |
| `RequestPipeline` | both middlewares, body replay, error handlers | `request`, `context`, `counted`, `trail` |
| `Values` | `NULL`, for the last three | |
| `ConcurrencyProbe` | the probe of the release acceptance script | |
| `MCShepherd`, `MCCatalog`, `MCMonitoring`, `MCIdentity`, `MCIdentityScenarios`, `MCDisclosure`, `MCService` | instances for TLC | |
| `HandlerProofs`, `TypeProofs`, `SafetyProofs`, `LifeProofs`, `LeaseBookProofs`, `DisclosureProofs`, `IdentityProofs`, `ServiceProofs` | theorems, checked by TLAPS (section 5) | |

**State.** The tables hold *committed* rows. A lease, token or secret is identified by its position in its sequence, the
order of the commits (the real ids are random; nothing depends on their order but a tie between equal expirations, which
`Batches` leaves open). `audit` counts the rows of the events that end a lease, so that two rows that tell the same end differ from one. Of the other events,
which clients may repeat without bound, it only tells which have occurred (`Recorded`): `DisclosuresRecorded` says that a disclosure has a record, not how many. `held[t]` is the set of locks of transaction `t`. `acq[t]`, `chg[t]`, `sec[h]`, `ses[t]`, ... are
the program counter (`at`) and the local variables of a handler; `now` among them is the transaction's `now()`.
Some variables record what a property needs and no handler reads: `history`, `done`, `lost`, `disclosed`, `bootstrapped`,
`touched`, `trail`, `counted`, `sent` in a request and `current` in a login.

**Actions.** Each is one SQL statement, or one decision between two statements, with the early returns as actions of
their own. Where a handler compares a version under a lock and writes in a later statement that compares nothing, the two are actions (`CheckRevision`,
`CommitUpdateSecret`) with all other handlers' steps between them. Writes become visible in the commit action, which also writes the audit event and releases the locks. Every
handler can abort at every point: the connection drops, the process dies, PostgreSQL cancels it. Clients repeat requests
freely: any handler slot may begin any request at any time.

**PostgreSQL, as assumed** (`database.py` sets no isolation level, so READ COMMITTED):

- each statement sees the rows committed when it starts; the variables of the model are exactly these;
- `FOR UPDATE` waits for the row and then evaluates the WHERE clause again *on the newest version of that row*.
  Subqueries on other tables keep the statement's snapshot. So `LockCandidate` tests mode, status, visibility mode and
  policy on the new row, but `active_count` and the grants as they were; and a row that fails the test is
  passed over and stays locked (`PassOver`). Likewise a login keeps the password hash of its snapshot (`LockLogin`);
- `SKIP LOCKED` skips a locked row and never waits; `ORDER BY` is evaluated on the snapshot;
- `DELETE ... WHERE ctid IN (subquery)` does not delete a row version that another transaction has replaced;
  `ON CONFLICT DO UPDATE` updates the row as it is then;
- an `UPDATE` that changes no key and a foreign key check do not block each other; `FOR UPDATE` blocks both;
- `now()` is the start of the transaction. The hosts' clocks agree: one `clock` stands for `now()` and `datetime.now(UTC)`;
- the unique constraint on (principal, key) is *not* modelled: `OneLeasePerKey` says that no attempt ever runs into it.

**Outside of `src/`, as used there.** FastAPI reads a declared body before it calls the endpoint, answers a body that ends
early with 400, and runs each request in a task with its own copy of the context; Starlette's server-error middleware answers a raised
exception with a plain 500 without the correlation id. The 404 of a route that does not exist is FastAPI's own answer and not `http_problem`'s; the status is the same (`Refuse`). The operator rotates keys as `docs/resource-secrets.md` says: `DecideRetire` finds
a key unused, and a later `Restart` removes it. A replaced volume empties the worker's state file while no worker runs.

**Abstractions.** Types and labels of resources are left out: every resource matches them. The digest of a request is
the request. Names, descriptions and metadata of events are left out, as are hashing, `last_used_at` and the cipher with
its associated data: an encrypted value is one that can be read while its key is in the ring. The status `Cleaning` is in the code's type
but no operation sets it. Creation of resources is the initial state: a resource made later has no history, like one that
nobody has used yet. `Restart` ends the requests about secrets; those of the other components end by their own aborts, which may come or
not, so the model has more behaviours than the code. Locks that foreign keys take on principals and groups are modelled in `Identity` and not
in `Disclosure`. A group's membership is judged when it is checked: removing a member takes no lock that a reader holds, so `RevealHolds` asks for
the grants of the groups the reader was then a member of (`via`). `RateLimit` bounds a transaction's length (`MaxDelay`), which nothing in the code
does; `AtMostTwoWindows` says how much it matters, and no other property depends on it. One API process is assumed: the settings, and so the key ring, are those of the deployment.

## 3. Runs

Bounds are in the `.cfg` files; constants named `Max...` stop the counters. A transaction slot is one handler at a
time and is used again when it is idle, so two slots give any number of requests of which two overlap.

*Scenarios.* Five instances explore several situations in one run. Their first state chooses one, in a variable that never
changes, and with it the initial tables and the requests that may *begin*. A request that has begun takes every step of its
component, aborts included. The restriction on beginnings keeps the product of all components out of one state space; what two or three of
them can do to each other is explored in full.

| Run | Instance | Checks |
|---|---|---|
| `exclusive` | 1 resource, 2 acquisitions, 1 lease change, 2 keys, 3 times | `ExclusiveGrant`, `OneLeasePerKey`, `LockedKnowledge`, `RenewalNeverRevives` |
| `catalog` | scenarios: a policy edited or a resource archived under an acquisition and a lease change; mode, visibility and grants changed under two acquisitions of two resources; two editors with all eight kinds of change and an invalid policy | `ArchivedIsIdle`, `SelectionHolds`, `PolicyObeyed`, `NoLostUpdate` |
| `expiration` | 2 resources, acquisition, lease change, worker with batches of 2; scenario with a scrape | `EndsWithinLife`, `NoLockCycle`, `History`, `UntouchedCountedOnce` |
| `whole` | all four leasing components, owner and administrator | `TypeOK`, `AuditTellsTheEnd`, `ImplementsBook` |
| `liveness` | 2 shared leases, worker with batches of 1 | `DueLeasesEnd` |
| `identity` | scenarios: two removals of administrators at once; two bootstraps of an empty database and what the first administrator does; any request about tokens, passwords and groups; logins and password changes next to an archival | `TypeOK`, `ScanHolds`, `NeverOrphaned`, `BootstrapOnce`, `TokensAreOwn`, `LoginsAreActive`, `ReplacedPasswordRejected` |
| `requests` | two archivals or demotions and a login, with fairness | `RequestsEnd` |
| `disclosure` | scenarios: a reader while its lease ends or its resource is edited; a resource seen through a group; two requests about a secret during key rotation; the same during archiving; everybody who locks a lease and its resource | `TypeOK`, `RevealHolds`, `AllReadable`, `DisclosuresRecorded`, `NoSecretLockCycle`, `NoLostRevision`, `ArchivedSecretsStay` |
| `service` | one of three parts without common state: 2 subjects, 2 overlapping attempts of 5 in all, 2 of them allowed in a window; 2 workers of 2 images; 2 requests whose bodies arrive in up to 3 pieces | `ServiceTypeOK`, `EveryAttemptCounted`, `LiveWindowStays`, `AtMostTwoWindows`, `EveryExpirationCounted`, `CountersGrow`, `EndpointGetsBody`, `CountedOnce`, `CorrelationKept` |
| `probe` | 3 requests at once for 2 free resources | `EveryResourceUsed` is **violated** (finding 1) |
| `modechange` | 2 principals, 1 acquisition at a time, 1 editor | `ExclusiveBlocks` is **violated** (finding 2) |
| `ownlease` | everybody who locks a lease and its resource, as in `disclosure`; time passes only while a request of the lease's owner waits for a row | `OwnLeaseActive` is **violated** (finding 3) |

*Why these bounds are enough for the question.* Each property is about at most two rows (two leases of one resource, two
attempts with one key, two administrators), and about one party acting between two statements of another: two slots of
the racing kind and one of each that may interfere. A lease of one second and a clock of three times give "not yet expired",
"expires while waiting for a lock" and "renewed and expired again". A batch of two against two resources is the smallest in
which the worker holds one resource while it waits for the next; a batch of one against two due leases is the smallest in which
`LIMIT` leaves one for later. Two administrators are the smallest number of which each can find the other. Two keys are one to retire and one to
encrypt with. In the limiter two of the five attempts are allowed in a window of four seconds, and a transaction
lasts one second at most: an attempt that began before a window's end can open the next, and a subject gets three admitted attempts within the span
that `AtMostTwoWindows` bounds by less than four; with one allowed attempt that boundary case cannot happen; a cleanup
limit of one leaves an expired window for later. A body of three pieces against a limit of three bytes can be complete, too long, or cut off at each place.

*Symmetry.* Slots of one kind, keys and rate-limit subjects are interchangeable, and no property of a run with symmetry is
a liveness property. Resources are not: `id` breaks ties. `liveness` and `requests` use no symmetry.

*Deadlock* in TLC's sense is checked wherever some step is always possible. `probe`, `requests`, `identity` and `service` really stop:
when all answers are in, when the bounded tokens and passwords are used up, or when nobody is left whose request is allowed.

### Deadlocks

`NoLockCycle` says that no set of transactions wait for each other in a circle. It holds for exclusive acquisitions,
lease changes, edits and one worker: leases are locked before resources, exclusive acquisitions never wait for a
resource, and the worker takes its lease locks without waiting. `NoSecretLockCycle` adds requests about secrets, whose rows
come last. Both are proved under these two conditions, and nothing else (section 5, Deadlocks). `RequestsEnd` says it of removals of administrators and logins as a liveness property: the
administration lock comes first, so that no two removals lock the administrators' rows at once.

They do *not* hold in configurations that the conditions and the runs leave out:

- a shared acquisition passes over resource 2 (changed since the snapshot, but it keeps the lock) and waits for resource 1,
  while the worker holds 1 and waits for 2 in its batch;
- two workers hold resources of disjoint batches in opposite orders;
- a plain update of an administrator holds the target's row and waits for the foreign key of its event on its actor, whose
  row an archival has locked while it waits, in its scan, for the updated one;
- two rate-limit cleanups delete overlapping sets of rows in different orders.

PostgreSQL resolves each by aborting one transaction; the aborts are actions of the model (`AbortAcquire`, `CrashSweep`,
`AbortManage`, `AbortAttempt`), so every safety property covers them. The repository promises nothing about them, and the compose files
start one worker, so they are recorded as hazards and not as findings.

### Fairness

`FairSpec` of `Shepherd` is used by `liveness`. A handler that has begun goes on (weak fairness of its steps): an
`async` handler with a live connection is scheduled. Nothing obliges a client to begin. The worker polls for ever and the
container is restarted (`restart: unless-stopped`), so its steps are weakly fair; it may crash any number of times but not
for ever, otherwise no sweep would need to end. PostgreSQL queues those who wait for a row lock, so a worker that waits
for a resource row again and again gets it once (strong fairness of `ExpireNext`). `DueLeasesEnd` supposes that the
calls about one lease stop at some time: a renewal or release locks the lease's row, and `SKIP LOCKED` may find it locked at
each poll.

`FairSpec` of `Identity` is used by `requests`: strong fairness of each handler's steps, for the same reason, and no
fairness of aborts, so that `RequestsEnd` does not owe its truth to them.

## 4. Findings

1. **`acquire_lease` refuses although a resource is free** (`persistence.py:172`; run `probe`). Requests that arrive together
   prefer the same row. The loser locks it after the winner has committed, when it is no longer locked to be skipped and
   `active_count` is still the snapshot's; `still_active` then sees the winner's lease and the answer is 409, without a look
   at the next candidate. `scripts/release_acceptance.py:354` asserts that exactly as many parallel requests succeed as there
   are resources.
2. **A PATCH of `sharing_mode` undermines an exclusive lease** (`catalog/persistence.py:331`; run `modechange`). Nothing
   asks for active leases, so a resource with an active exclusive lease of one principal becomes Shared and is leased to a second.
   `tests/integration/leasing/test_acquisition.py:21`: "An active exclusive lease prevents a second principal from acquiring its
   resource." The guarantee that does hold is `ExclusiveGrant`: an exclusive lease is never granted, or extended by a renewal
   into being so, next to an *earlier* one.
3. **A secret can be answered after its lease has expired** (`resource_secrets/persistence.py:304`; run `ownlease`). The lease is
   compared with `now()`, the start of a transaction that may then wait for rows. In TLC's trace the owner of the lease asks for a secret, its
   request waits for the lease's row while a renewal has it, the lease expires, and the request is then granted the lease, the resource
   and the secret. `OwnLeaseActive` judges at the last of these grants, so time that passes afterwards, which no implementation could exclude,
   does not count, and it leaves out administrators. `docs/resource-secrets.md:13-15`: "Regular principals use the lease-scoped operations, which
   require an owned lease that has not ended or expired". What does hold is `RevealHolds`: the lease has not *ended*.

Three smaller things met on the way are recorded as hazards or here, and no run refutes a promise by them. `addGroupMember` checks that a user
is not archived without a lock, so one archived meanwhile becomes a member, to no effect: an archived principal is not authenticated
(`identity/api/groups.py:82`). The two statements of a scrape see two snapshots, so a lease that is renewed between them is counted twice or
not at all (`observability.py:220`); `UntouchedCountedOnce` is what holds. `create_user` does not take the administration lock, but a bootstrap that
has found nobody cannot meet it: no administrator is there to call it (`BootstrapOnce`).

## 5. Proofs

TLC checks the instances of section 3; the theorems hold for every value of the constants. They assume what the modules
state as `ASSUME`: resource ids are natural numbers and finitely many, `NULL` is neither a number nor a reason, slots of different
kinds are different, a batch has at least one place, worker processes are finitely many, no two handlers are the same transaction, and what is encrypted at the beginning can be decrypted
with the first key ring (`BeginningsReadable`). Numbers of requests, workers, editors, users, sessions and attempts are
arbitrary, as are the bounds `Max...`. Installations of `Identity` start empty or with an administrator.

| Theorem | In | States |
|---|---|---|
| `AlwaysTyped`, `TypeCorrect` | `TypeProofs` | the types of the leasing core |
| `AlwaysSafe`, `ExclusiveAllocation`, `ArchivedForGood`, `IdempotentAcquisition`, `KnowledgeHolds`, `RenewalsNeverRevive` | `SafetyProofs` | `ExclusiveGrant`, `ArchivedIsIdle`, `OneLeasePerKey`, `LockedKnowledge`, `RenewalNeverRevives` |
| `NoDeadlock`, `NoSecretDeadlock` | `SafetyProofs`, `DisclosureProofs` | `NoLockCycle`, if every request is for an exclusive lease and there is at most one worker; `NoSecretLockCycle`, if there is at most one worker |
| `AlwaysAlive`, `SelectionIsCurrent`, `LivesEndInTime`, `AuditTells`, `HistoryIsKept`, `PolicyIsObeyed`, `UpdatesAreNotLost` | `LifeProofs` | `SelectionHolds`, `EndsWithinLife`, `AuditTellsTheEnd`, `History`, `PolicyObeyed`, `NoLostUpdate` |
| `ShepherdImplementsBook` | `LifeProofs` | `ImplementsBook`, the refinement |
| `ScrapesAreConsistent` | `LifeProofs` | `UntouchedCountedOnce`, of `Monitoring` |
| `BookIsExclusive` | `LeaseBookProofs` | what the book itself promises |
| `LimiterTypes`, `AttemptsAreCounted`, `LiveWindowsStay`, `TwiceAllowedAtMost` | `ServiceProofs` | `EveryAttemptCounted`, `LiveWindowStays`, `AtMostTwoWindows` |
| `AlwaysGuarded`, `DisclosureTyped`, `RevealsHold`, `SecretsStayReadable`, `DisclosuresAreRecorded`, `NoRevisionIsLost`, `ArchivedSecretsAreKept` | `DisclosureProofs` | every other safety property of the run `disclosure`: `TypeOK`, `RevealHolds`, `AllReadable`, `DisclosuresRecorded`, `NoLostRevision`, `ArchivedSecretsStay` |
| `IdentityAlways`, `IdentityTypes`, `AlwaysAdministered`, `BootstrapsOnce`, `ScansHold`, `LoginsActive`, `ReplacedPasswordsRejected`, `OwnTokens` | `IdentityProofs` | every safety property of the run `identity` |
| `PipelineAlways`, `RequestsCountedOnce`, `CorrelationNeverMixed`, `BodiesAreWhole`, `TelemetryAlways`, `CountersOnlyGrow`, `ExpirationsAreCounted`, `ServiceTypes` | `ServiceProofs` | `CountedOnce`, `CorrelationKept`, `EndpointGetsBody`, `CountersGrow`, `EveryExpirationCounted`, `ServiceTypeOK` |

**Types of the core.** `TypeOK` is not inductive: a commit appends a lease of `acq[t].target`, which may be `NULL` by its type. `Typed` adds which
local variables each handler has bound at each position (`AcquireArgs`, `ChangeArgs`, `SweepArgs`, `EditArgs`). The lemmas about lease changes, the worker
and the catalog are in `HandlerProofs`: both compositions, `Shepherd` and `Disclosure`, use them.

**Safety of the core.** No safety invariant is inductive without what the transactions *know*: a commit is harmless only because of
what was read some statements earlier. `Safe` is `Typed`, the three invariants and `LockedKnowledge`, which
the run `exclusive` checks too. The argument is rely and guarantee. `Guarantee(H)` says what a step of a transaction that holds the locks `H` may
do to the tables: change the end and the expiration of leases whose rows are in `H`, add a lease only to a resource in `H` and with a key in `H`, archive only a resource in `H`.
One lemma per kind of handler says that such a step leaves the knowledge of *others* alone, since `LocksExclude` makes their locks disjoint from `H`
(`OthersKnow`); one says that a handler's own step establishes its own knowledge (`AcquirerKnows`, `ChangerKnows`, ...); one per commit
says that it keeps its guarantee and the invariants (`CommitAcquireSafe`, ...).

**The life of a lease.** `Life` adds to `Safe` what handlers have *computed* (`AcquireLife`, `ChangeLife`, `SweepLife`, `EditLife`), e.g.
that the expiration to be committed is the one that the present policy gives, and `RowsLife`: leases end within their lives, the audit trail has exactly one row
for each end and none for a lease that has not ended, and every configured policy is valid. The last is needed because the filter of the SELECT and `_resolve_ttl` differ: only for a valid policy does the one
admit nothing that the other refuses (`AdmittedIsAccepted`). `Aging(H)` extends the guarantee: `acquired_at` is fixed, and a configuration or status changes only
under the row's lock and with a new version, which is why the comparison of versions in `update_resource` is enough for `NoLostUpdate`.

**Refinement.** Under `Life` each committing step is one step of `LeaseBook` and every other step changes nothing in the book: a committed acquisition
is a `Grant`, a renewal an `Extend`, a release, revocation or sweep a `Close`, an archival a `Retire`. With `BookIsExclusive` the promise follows from the abstract specification alone.

**Secrets.** `Guarded` joins the types, the exclusion of locks, what lease changes, the worker and resource edits have locked before they write (`HandlersHold`), and
what every request about secrets knows (`Knows`): once it has locked its lease, that the lease is its owner's and has not ended; once it has locked the resource, that the
resource is open and the owner sees it; at `write`, that the secret it is to read or replace is still there; at `revise`, that the stored version is the one
it has compared. The last makes `NoLostRevision` a consequence of the locks: the statement that writes compares nothing (`KnowsStays`, `RevisionEffect`). A step of another handler under
the locks `H` changes only what `H` covers (`Guarantee`), or takes access from a resource that nobody has locked. `Rotating` says that
what is stored is encrypted with a key of the ring that nobody has decided to remove (`ring.keys \ retiring`), and that the active key is never one of those: an operator removes
a key only after it has ceased to be active, so nothing is encrypted with it between the decision and the restart.

**Rate limits.** `RowTells` relates a row to the recorded history, `AttemptKnows` says what an attempt has found (`Underway`, `FoundExpired`, `HoldsDropped`,
`HoldsCounted`); an attempt that holds a row's lock is the only one to change it.

**Identity.** `ManagerInv` and `SessionInv` hold what a handler was asked for and has seen; `Guarantee(t)` and `Rely(u)` bound the steps of one handler as
the others see them, and `GuaranteesSuffice` joins them. Archivals, demotions and bootstraps hold the administration lock, so what one has scanned no other removes;
`Founded` is the fact that there has been an administrator.

**Pipeline and telemetry.** What the middleware has replayed and what it still buffers are together what was sent, completely or up to where the client cut it off
(`BodyKept`); a request has been counted exactly when its counter says so (`CountKept`); the context of a task never holds another's id (`IdKept`, `TrailKept`).
A worker between load and write holds the `flock` and has loaded what the file contains (`WorkerKnows`).

**Deadlocks.** `LocksInOrder` says what each handler holds at each position: an acquisition that waits for its key holds nothing, and afterwards it skips what is
locked; a lease change holds at most its lease when it waits for a resource, an edit holds nothing, a request about a secret only rows that come before the
one it waits for. In a circle, therefore, nobody waits for a key or a secret, since who holds one waits for nothing that another in the circle holds; only the worker holds a resource while it
waits, and for another's resource nobody else is left to wait; what remains are changes that wait for leases and hold nothing. The two conditions are those that the counterexamples of
section 3 need: a second worker, or a shared acquisition.

**Scrapes.** `Monitored` keeps, between the two statements of a scrape, that the set counted by the first is still true of each lease that nobody has touched since
(`ActiveCounted`); such a lease is either active or due at the one `now()` that both statements compare it with (`ActiveOrDue`).

**A subject's two windows.** `SpacingInv` says of *any* two attempts of a subject, not only neighbours, that they are of one window, with consecutive numbers (`SameWindow`), or
that the later one's window ends at least `Window - MaxDelay` after the earlier one (`LaterWindow`); `SpacedAppend` carries that over a commit. Of the attempts
admitted within a span, take the first, and the first that is not of its window (`LeastNatural`). A third window would lie a window's length behind, so all are
within two runs of `Allowed` numbers; and not all of both, for an attempt that opens a window commits at least
`Window - MaxDelay` before that window's end and so lies in no span with one of the next (`Opening`, `AdmittedIsBounded`). The bound, fewer than `2 * Allowed`, is sharp: the instance of the run `service` attains
`2 * Allowed - 1`, and with a span one second longer it has `2 * Allowed`.

**The balance of the workers.** `Unpublished(r)` is the number of pairs of a worker and a number up to what it holds, so that one worker's step
changes it by what that worker takes or gives (`PendingMoves`, from `PendingSplit`); with the knowledge that a worker writes what it has loaded plus what it holds, each step keeps the sum of told, held and lost
equal to what has been ended (`Balanced`). Lost is what a worker held when it died or could not write, what a sweep has ended whose commit was never acknowledged
(`FailSweep`), and what a removed or another image's file told.

**Only model-checked.** `DueLeasesEnd` and `RequestsEnd`, which are about liveness. Every other property that a run finds to hold is a theorem. Liveness is out of the prover's reach,
as is induction over data. No module declares a RECURSIVE operator: the order of candidates and the worker's batches are
the *set* of orderings that SQL allows (`InPreference`, `Batches`), so that the theorems hold for each of them.

## 6. Not modelled

- *Lease reads, listings, paging*: queries that change nothing; each is one statement on one snapshot.
- *Allocation counters, log lines, rendering of metrics*: sums in one process that no decision reads.
- *Settings, routing, error bodies*: wiring; of the application only the middlewares, the exception path and the correlation id are stateful.
- *Migrations*: only the columns and constraints they leave behind; they run once, before the program.
- *Scripts and deployment*, except for the probe: drivers of containers.
- *Creation of resources, names, descriptions, labels, types*: a unique constraint and a filter that removes candidates.
- *The cipher and password hashes*: an encrypted value is readable while its key is in the ring, a hash matches the password it was made of.

Hazards that no property covers are listed in `PROJECT.json` with the reason, among them the deadlocks of section 3, which only a change of the code could exclude.
