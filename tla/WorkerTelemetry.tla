---------------------------- MODULE WorkerTelemetry ----------------------------
(***************************************************************************)
(* The file through which expiration workers tell the API what they have   *)
(* done: run_worker and publish_worker_metrics of leasing/worker.py,       *)
(* update_worker_metrics and load_worker_metrics of observability.py.      *)
(* How a sweep ends its leases is in ExpirationWorker.                     *)
(***************************************************************************)
EXTENDS Values, Integers, FiniteSets

CONSTANTS
  Processes,  \* worker processes that run at once, those of another image included
  Revisions,  \* the source revisions of images
  BatchSize,  \* lease_expiration_batch_size
  MaxSweeps   \* bound: the sweeps that are ever made

ASSUME TelemetryAssumption == /\ IsFiniteSet(Processes)
                              /\ BatchSize \in Nat \ {0} /\ MaxSweeps \in Nat
                              /\ NULL \notin Processes \cup Revisions

VARIABLES
  file,    \* the state file, always complete; a revision of NULL: there is none
  flock,   \* the process that has locked the lock file
  loop,    \* per process: where it is, its revision, and its local variables
  sweeps,  \* how many sweeps have ended; stands for the time as well
  done,    \* per revision: the leases its processes have ended
  lost     \* per revision: those the file will never tell of

telemetryVars == <<file, flock, loop, sweeps, done, lost>>

NoSnapshot == [rev |-> NULL, success |-> 0, failure |-> 0, expired |-> 0,
               lastSuccess |-> 0, lastFailure |-> 0]
Down == [at |-> "down", rev |-> NULL, outcome |-> "success", n |-> 0, base |-> NoSnapshot]

Snapshots == [rev : Revisions \cup {NULL}, success : Nat, failure : Nat, expired : Nat,
              lastSuccess : Nat, lastFailure : Nat]
WorkerLocals == [at : {"down", "sweep", "lock", "load", "write"}, rev : Revisions \cup {NULL},
                 outcome : {"success", "failure"}, n : 0..BatchSize, base : Snapshots]

TelemetryInit ==
  /\ file = NoSnapshot
  /\ flock = NULL
  /\ loop = [p \in Processes |-> Down]
  /\ sweeps = 0
  /\ done = [r \in Revisions |-> 0]
  /\ lost = [r \in Revisions |-> 0]

Move(p, row) == loop' = [loop EXCEPT ![p] = row]

(* A container starts, of this image or another. *)
StartWorker(p, r) ==
  /\ loop[p].at = "down"
  /\ Move(p, [Down EXCEPT !.at = "sweep", !.rev = r])
  /\ UNCHANGED <<file, flock, sweeps, done, lost>>

(* The transaction has committed with n leases ended ... *)
Expire(p, n) ==
  /\ loop[p].at = "sweep" /\ sweeps < MaxSweeps
  /\ Move(p, [loop[p] EXCEPT !.at = "lock", !.outcome = "success", !.n = n])
  /\ sweeps' = sweeps + 1
  /\ done' = [done EXCEPT ![loop[p].rev] = @ + n]
  /\ UNCHANGED <<file, flock, lost>>

(* ... or the sweep has failed, and the process will end: nothing has been *)
(* committed, or n leases have ended and the answer to COMMIT is lost.     *)
FailSweep(p, n) ==
  /\ loop[p].at = "sweep" /\ sweeps < MaxSweeps
  /\ Move(p, [loop[p] EXCEPT !.at = "lock", !.outcome = "failure", !.n = 0])
  /\ sweeps' = sweeps + 1
  /\ done' = [done EXCEPT ![loop[p].rev] = @ + n]
  /\ lost' = [lost EXCEPT ![loop[p].rev] = @ + n]
  /\ UNCHANGED <<file, flock>>

(* Mutant: the lock file is opened and not locked. *)
OpenLockFile(p) == /\ loop[p].at = "lock"
                   /\ Move(p, [loop[p] EXCEPT !.at = "load"])
                   /\ UNCHANGED <<file, flock, sweeps, done, lost>>

LockFile(p) == /\ loop[p].at = "lock" /\ flock = NULL
               /\ flock' = p
               /\ Move(p, [loop[p] EXCEPT !.at = "load"])
               /\ UNCHANGED <<file, sweeps, done, lost>>

(* load_worker_metrics: nothing, unless this image has written the file.   *)
(* The API reads it so, and takes no lock.                                 *)
LoadedBy(r) == IF file.rev = r THEN file ELSE NoSnapshot

LoadFile(p) == /\ loop[p].at = "load"
               /\ Move(p, [loop[p] EXCEPT !.at = "write", !.base = LoadedBy(loop[p].rev)])
               /\ UNCHANGED <<file, flock, sweeps, done, lost>>

(* Mutant: the totals of successes and failures are exchanged. *)
PayloadSwapped(p) ==
  LET w == loop[p]
  IN  [rev |-> w.rev, success |-> w.base.success + (IF w.outcome = "failure" THEN 1 ELSE 0),
       failure |-> w.base.failure + (IF w.outcome = "success" THEN 1 ELSE 0),
       expired |-> w.base.expired + w.n,
       lastSuccess |-> IF w.outcome = "success" THEN sweeps ELSE w.base.lastSuccess,
       lastFailure |-> IF w.outcome = "failure" THEN sweeps ELSE w.base.lastFailure]

Payload(p) ==
  LET w == loop[p]
  IN  [rev |-> w.rev, success |-> w.base.success + (IF w.outcome = "success" THEN 1 ELSE 0),
       failure |-> w.base.failure + (IF w.outcome = "failure" THEN 1 ELSE 0),
       expired |-> w.base.expired + w.n,
       lastSuccess |-> IF w.outcome = "success" THEN sweeps ELSE w.base.lastSuccess,
       lastFailure |-> IF w.outcome = "failure" THEN sweeps ELSE w.base.lastFailure]

(* Closing the lock file unlocks it. *)
EndPublish(p) ==
  /\ Move(p, IF loop[p].outcome = "failure" THEN Down
             ELSE [Down EXCEPT !.at = "sweep", !.rev = loop[p].rev])
  /\ flock' = IF flock = p THEN NULL ELSE flock
  /\ UNCHANGED <<sweeps, done>>

(* The temporary file replaces the state file.  What another image had     *)
(* published is gone.                                                      *)
ReplaceFile(p) ==
  /\ loop[p].at = "write"
  /\ file' = Payload(p)
  /\ lost' = IF file.rev \in {NULL, loop[p].rev} THEN lost
             ELSE [lost EXCEPT ![file.rev] = @ + file.expired]
  /\ EndPublish(p)

(* An OSError is logged, and the worker goes on. *)
PublishFails(p) ==
  /\ loop[p].at \in {"lock", "load", "write"}
  /\ lost' = [lost EXCEPT ![loop[p].rev] = @ + loop[p].n]
  /\ EndPublish(p)
  /\ UNCHANGED file

(* The process is killed; the system unlocks the lock file. *)
KillWorker(p) ==
  /\ loop[p].at # "down"
  /\ lost' = [lost EXCEPT ![loop[p].rev] = @ + loop[p].n]
  /\ Move(p, Down)
  /\ flock' = IF flock = p THEN NULL ELSE flock
  /\ UNCHANGED <<file, sweeps, done>>

(* An operator replaces the volume while the workers are stopped. *)
RemoveFile ==
  /\ file.rev # NULL /\ \A p \in Processes : loop[p].at = "down"
  /\ lost' = [lost EXCEPT ![file.rev] = @ + file.expired]
  /\ file' = NoSnapshot
  /\ UNCHANGED <<flock, loop, sweeps, done>>

ProcessStep(p) ==
  \/ \E r \in Revisions : StartWorker(p, r)
  \/ \E n \in 0..BatchSize : Expire(p, n) \/ FailSweep(p, n)
  \/ LockFile(p) \/ LoadFile(p) \/ ReplaceFile(p) \/ PublishFails(p) \/ KillWorker(p)

TelemetryNext == RemoveFile \/ \E p \in Processes : ProcessStep(p)

TelemetrySpec == TelemetryInit /\ [][TelemetryNext]_telemetryVars

-------------------------------------------------------------------------------

(* Every variable has its type. *)
TelemetryTypeOK == /\ file \in Snapshots
          /\ flock \in Processes \cup {NULL}
          /\ loop \in [Processes -> WorkerLocals]
          /\ sweeps \in Nat
          /\ done \in [Revisions -> Nat] /\ lost \in [Revisions -> Nat]

(* The leases that workers have ended and not told of, numbered by worker. *)
Pending(r) == {x \in Processes \X (1..BatchSize) :
                 loop[x[1]].rev = r /\ x[2] <= loop[x[1]].n}

Unpublished(r) == Cardinality(Pending(r))

(* Every lease a worker has ended is counted once in shepherd_rm_expired_  *)
(* leases_total, unless its process was killed, could not write or was not *)
(* told of its commit, or a worker of another image or an operator has     *)
(* replaced the file: no update of overlapping workers is lost or made     *)
(* twice (update_worker_metrics).                                          *)
EveryExpirationCounted ==
  \A r \in Revisions : LoadedBy(r).expired + Unpublished(r) + lost[r] = done[r]

GrowingWrite ==
  file'.rev = file.rev =>
    /\ file'.success + file'.failure = file.success + file.failure + 1
    /\ file'.expired > file.expired => file'.success > file.success
    /\ file'.expired >= file.expired
    /\ file'.lastSuccess >= file.lastSuccess /\ file'.lastFailure >= file.lastFailure
    /\ file'.lastSuccess > 0 <=> file'.success > 0

(* While one image writes the file its counters and times only grow, and   *)
(* each write counts one loop, with the time of its outcome                *)
(* (update_worker_metrics under flock, and os.replace).                    *)
CountersGrow == [][GrowingWrite]_file
===============================================================================
