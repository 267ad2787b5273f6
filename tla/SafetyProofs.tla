------------------------------ MODULE SafetyProofs ------------------------------
(***************************************************************************)
(* The allocation guarantees of Shepherd, for any number of resources,     *)
(* requests, workers and editors, and the order of its locks.              *)
(*                                                                         *)
(* The argument is one of rely and guarantee.  A step changes a lease, a   *)
(* resource's archiving or the leases of a resource only under locks that  *)
(* its transaction holds (Guarantee); no two transactions hold one lock;   *)
(* so what a transaction has established under its own locks is not        *)
(* disturbed by the steps of the others (OthersKnow).  With this knowledge *)
(* each COMMIT preserves the guarantees.                                   *)
(*                                                                         *)
(* Without shared acquisitions, and with one worker, nobody holds a row    *)
(* that comes after the one he waits for (LocksInOrder), so nobody waits   *)
(* in a cycle.                                                             *)
(***************************************************************************)
EXTENDS TypeProofs

Safe == /\ Typed
        /\ LockedKnowledge
        /\ ExclusiveGrant /\ ArchivedIsIdle /\ OneLeasePerKey

(* What a step of a transaction that holds the locks H does to the tables. *)
Guarantee(H) ==
  /\ clock <= clock'
  /\ DOMAIN leases \subseteq DOMAIN leases'
  /\ \A i \in DOMAIN leases :
       /\ leases'[i].resource = leases[i].resource
       /\ leases'[i].owner = leases[i].owner
       /\ leases'[i].key = leases[i].key
       /\ leases'[i].request = leases[i].request
       /\ leases'[i] = leases[i] \/ LeaseLock(i) \in H
       /\ Active(leases'[i], clock') =>
            Active(leases[i], clock) \/ ResourceLock(leases[i].resource) \in H
  /\ \A i \in DOMAIN leases' \ DOMAIN leases :
       /\ ResourceLock(leases'[i].resource) \in H
       /\ KeyLock(leases'[i].owner, leases'[i].key) \in H
  /\ \A r \in Resources :
       resources'[r].archived = resources[r].archived \/ ResourceLock(r) \in H

-------------------------------------------------------------------------------
(* Lemmas *)

(* Time only takes activity away. *)
LEMMA ActiveEarlier ==
  ASSUME NEW l \in LeaseRow, NEW t \in Nat, NEW u \in Nat, t <= u, Active(l, u)
  PROVE  Active(l, t)
BY NullAssumption DEF Active, LeaseRow, Seconds

(* A step that writes nothing. *)
LEMMA NoWriteGuarantee ==
  ASSUME Typed, UNCHANGED <<clock, tables>>, NEW H
  PROVE  Guarantee(H)
BY DEF Guarantee, tables, Typed, TypeOK, StoreTypeOK

(* The locks after a step. *)
LEMMA LocksStep ==
  ASSUME Typed, LocksExclude, NEW u \in Transactions,
         (\E lock : Take(u, lock)) \/ ReleaseAll(u) \/ UNCHANGED held
  PROVE  LocksExclude' /\ \A t \in Transactions \ {u} : held'[t] = held[t]
BY DEF Typed, TypeOK, StoreTypeOK, LocksExclude, Take, Free, ReleaseAll

-------------------------------------------------------------------------------
(* What the others know survives a step *)

LEMMA AcquirersKnow ==
  ASSUME Typed, Typed', NEW H, Guarantee(H), NEW t \in Acquirers,
         acq'[t] = acq[t], held'[t] = held[t], held[t] \cap H = {}, AcquireKnows(t)
  PROVE  AcquireKnows(t)'
<1> DEFINE a == acq[t]
<1>1. a' = a
  OBVIOUS
<1>2. /\ clock \in Nat /\ clock' \in Nat /\ clock <= clock' /\ a.now \in Nat
      /\ DOMAIN leases \subseteq DOMAIN leases'
  BY DEF Typed, TypeOK, StoreTypeOK, AcquireTypeOK, AcquireLocals, Guarantee
<1>3. a.at # "idle" => a.now <= clock'
  BY <1>2 DEF AcquireKnows
<1>4. a.at \in {"existing", "lock", "recheck", "insert", "commit"} =>
        KeyLock(a.who, a.key) \in held'[t]
  BY DEF AcquireKnows
<1>5. a.at \in {"lock", "recheck", "insert", "commit"} => ~KeyUsed(t)'
  BY DEF AcquireKnows, KeyUsed, Guarantee
<1>6. a.at \in {"recheck", "insert", "commit"} =>
        ResourceLock(a.target) \in held'[t] /\ ~resources'[a.target].archived
  BY DEF AcquireKnows, Guarantee, Typed, ArgumentsOK, AcquireArgs
<1>7. ASSUME a.at \in {"insert", "commit"}, a.request.mode = "Exclusive"
      PROVE  ActiveLeases(a.target, clock)' = {}
  <2>1. ActiveLeases(a.target, clock) = {} /\ ResourceLock(a.target) \notin H
    BY <1>7 DEF AcquireKnows
  <2>2. SUFFICES ASSUME NEW i \in DOMAIN leases', leases'[i].resource = a.target,
                        Active(leases'[i], clock')
                 PROVE  FALSE
    BY DEF ActiveLeases
  <2>3. i \in DOMAIN leases
    BY <2>1, <2>2 DEF Guarantee
  <2> QED
    BY <2>1, <2>2, <2>3 DEF Guarantee, ActiveLeases
<1> HIDE DEF a
<1> QED
  BY <1>1, <1>3, <1>4, <1>5, <1>6, <1>7 DEF AcquireKnows, a

LEMMA ChangersKnow ==
  ASSUME Typed, Typed', NEW H, Guarantee(H), NEW t \in Changers,
         chg'[t] = chg[t], held'[t] = held[t], held[t] \cap H = {}, ChangeKnows(t)
  PROVE  ChangeKnows(t)'
<1> DEFINE c == chg[t]
           bound == {"resource", "check", "policy", "renew", "end"}
<1>1. c.at \in bound => c.lease \in DOMAIN leases /\ LeaseLock(c.lease) \in held[t]
  BY DEF ChangeKnows, Typed, ArgumentsOK, ChangeArgs
<1>2. c.at \in bound => leases'[c.lease] = leases[c.lease]
  BY <1>1 DEF Guarantee
<1>3. c.at \in {"check", "policy", "renew", "end"} =>
        ResourceLock(leases[c.lease].resource) \in held[t]
  BY DEF ChangeKnows
<1>4. ASSUME c.at \in {"policy", "renew"}
      PROVE  /\ leases'[c.lease].ended = NULL
             /\ ~resources'[leases'[c.lease].resource].archived
             /\ \A j \in DOMAIN leases' :
                  j > c.lease /\ leases'[j].resource = leases'[c.lease].resource
                    => leases'[j].request.mode # "Exclusive"
  <2>1. /\ leases'[c.lease] = leases[c.lease] /\ leases[c.lease].ended = NULL
        /\ ResourceLock(leases[c.lease].resource) \notin H
        /\ ~resources[leases[c.lease].resource].archived
    BY <1>2, <1>3, <1>4 DEF ChangeKnows
  <2>2. leases[c.lease].resource \in Resources
    BY <1>1, <1>4, LeaseTyped DEF Typed, TypeOK, LeaseRow
  <2>3. ~resources'[leases'[c.lease].resource].archived
    BY <2>1, <2>2 DEF Guarantee
  <2>4. ASSUME NEW j \in DOMAIN leases', j > c.lease,
               leases'[j].resource = leases'[c.lease].resource
        PROVE  leases'[j].request.mode # "Exclusive"
    <3>1. j \in DOMAIN leases
      BY <2>1, <2>4 DEF Guarantee
    <3>2. leases[j].resource = leases[c.lease].resource /\ leases'[j].request = leases[j].request
      BY <2>1, <2>4, <3>1 DEF Guarantee
    <3> QED
      BY <1>4, <2>4, <3>1, <3>2 DEF ChangeKnows
  <2> QED
    BY <2>1, <2>3, <2>4
<1> QED
  BY <1>1, <1>2, <1>3, <1>4 DEF ChangeKnows

LEMMA WorkersKnow ==
  ASSUME Typed, Typed', NEW H, Guarantee(H), NEW w \in Workers,
         swp'[w] = swp[w], held'[w] = held[w], held[w] \cap H = {}, SweepKnows(w)
  PROVE  SweepKnows(w)'
BY DEF SweepKnows, Guarantee, Typed, ArgumentsOK, SweepArgs

LEMMA EditorsKnow ==
  ASSUME Typed, Typed', NEW H, Guarantee(H), NEW t \in Editors,
         adm'[t] = adm[t], held'[t] = held[t], EditKnows(t)
  PROVE  EditKnows(t)'
BY DEF EditKnows, Guarantee, Typed, TypeOK, StoreTypeOK, EditTypeOK, EditLocals

(* A step that grants nothing, renews nothing and archives nothing. *)
Quiet ==
  /\ DOMAIN leases' = DOMAIN leases
  /\ \A i \in DOMAIN leases : Active(leases'[i], clock') => Active(leases[i], clock)
  /\ \A r \in Resources : resources'[r].archived = resources[r].archived

LEMMA QuietStep ==
  ASSUME Safe, NEW H, Guarantee(H), Quiet
  PROVE  ExclusiveGrant' /\ ArchivedIsIdle' /\ OneLeasePerKey'
<1>1. \A i \in DOMAIN leases :
        /\ leases'[i].resource = leases[i].resource
        /\ leases'[i].owner = leases[i].owner
        /\ leases'[i].key = leases[i].key
        /\ leases'[i].request = leases[i].request
  BY DEF Guarantee
<1>2. ExclusiveGrant'
  BY <1>1 DEF Safe, ExclusiveGrant, Quiet
<1>3. ArchivedIsIdle'
  BY <1>1 DEF Safe, ArchivedIsIdle, ActiveLeases, Quiet
<1>4. OneLeasePerKey'
  BY <1>1 DEF Safe, OneLeasePerKey, Quiet
<1> QED
  BY <1>2, <1>3, <1>4

(* A step of one transaction leaves what the others know intact. *)
LEMMA OthersKnow ==
  ASSUME Safe, Typed', NEW u \in Transactions, NEW H \in SUBSET held[u], Guarantee(H),
         LocksExclude', \A t \in Transactions \ {u} : held'[t] = held[t],
         \A t \in Acquirers \ {u} : acq'[t] = acq[t],
         \A t \in Changers \ {u} : chg'[t] = chg[t],
         \A w \in Workers \ {u} : swp'[w] = swp[w],
         \A t \in Editors \ {u} : adm'[t] = adm[t],
         u \in Acquirers => AcquireKnows(u)',
         u \in Changers => ChangeKnows(u)',
         u \in Workers => SweepKnows(u)',
         u \in Editors => EditKnows(u)'
  PROVE  LockedKnowledge'
<1>1. \A t \in Transactions \ {u} : held[t] \cap H = {}
  BY DEF Safe, LockedKnowledge, LocksExclude
<1>2. /\ \A t \in Acquirers : AcquireKnows(t)
      /\ \A t \in Changers : ChangeKnows(t)
      /\ \A w \in Workers : SweepKnows(w)
      /\ \A t \in Editors : EditKnows(t)
      /\ Typed
  BY DEF Safe, LockedKnowledge
<1>3. /\ Acquirers \subseteq Transactions /\ Changers \subseteq Transactions
      /\ Workers \subseteq Transactions /\ Editors \subseteq Transactions
  BY TransactionsAssumption
<1>4. \A t \in Acquirers : AcquireKnows(t)'
  BY <1>1, <1>2, <1>3, AcquirersKnow
<1>5. \A t \in Changers : ChangeKnows(t)'
  BY <1>1, <1>2, <1>3, ChangersKnow
<1>6. \A w \in Workers : SweepKnows(w)'
  BY <1>1, <1>2, <1>3, WorkersKnow
<1>7. \A t \in Editors : EditKnows(t)'
  BY <1>1, <1>2, <1>3, EditorsKnow
<1> QED
  BY <1>4, <1>5, <1>6, <1>7 DEF LockedKnowledge

(* A step that writes no row, of a transaction that knows what it should. *)
LEMMA NoWriteSafe ==
  ASSUME Safe, Typed', NEW u \in Transactions, UNCHANGED <<clock, tables>>,
         (\E lock : Take(u, lock)) \/ ReleaseAll(u) \/ UNCHANGED held
  PROVE  /\ Guarantee({})
         /\ LocksExclude' /\ \A t \in Transactions \ {u} : held'[t] = held[t]
         /\ ExclusiveGrant' /\ ArchivedIsIdle' /\ OneLeasePerKey'
<1>1. Typed /\ LocksExclude
  BY DEF Safe, LockedKnowledge
<1>2. Guarantee({})
  BY <1>1, NoWriteGuarantee
<1>3. Quiet
  BY DEF Quiet, tables
<1> QED
  BY <1>1, <1>2, <1>3, LocksStep, QuietStep

-------------------------------------------------------------------------------
(* Acquisition *)

(* A handler knows, of itself, what its last step established. *)
LEMMA AcquirerKnows ==
  ASSUME Safe, Typed', NEW u \in Acquirers, AcquireBy(u)
  PROVE  AcquireKnows(u)'
<1>1. /\ acq \in [Acquirers -> AcquireLocals] /\ AcquireKnows(u) /\ u \in Transactions
      /\ held \in [Transactions -> SUBSET Locks] /\ clock \in Nat
      /\ leases \in Seq(LeaseRow)
  BY AcquirersAssumption
     DEF Safe, LockedKnowledge, Typed, TypeOK, StoreTypeOK, AcquireTypeOK
<1>2. acq[u] \in AcquireLocals
  BY <1>1
<1>3. CASE EndAcquire(u)
  BY <1>1, <1>3 DEF EndAcquire, IdleAcquire, AcquireKnows
<1>4. ASSUME NEW p \in Principals, NEW k \in Keys, NEW q \in Requests, BeginAcquire(u, p, k, q)
      PROVE  AcquireKnows(u)'
  BY <1>1, <1>4 DEF BeginAcquire, IdleAcquire, AcquireKnows, storeVars
<1>5. CASE LockKey(u)
  <2>1. /\ acq'[u] = [acq[u] EXCEPT !.at = "existing"] /\ acq[u].at = "key" /\ clock' = clock
        /\ held'[u] = held[u] \cup {KeyLock(acq[u].who, acq[u].key)}
    BY <1>1, <1>5 DEF LockKey, Take
  <2>2. /\ acq'[u].at = "existing" /\ acq'[u].who = acq[u].who /\ acq'[u].key = acq[u].key
        /\ acq'[u].now = acq[u].now
    BY <1>2, <2>1 DEF AcquireLocals
  <2> QED
    BY <1>1, <2>1, <2>2 DEF AcquireKnows
<1>6. CASE SelectCandidates(u)
  <2>1. PICK s, g : acq' = [acq EXCEPT ![u] = [@ EXCEPT !.at = "lock", !.todo = s, !.granted = g]]
    BY <1>6 DEF SelectCandidates
  <2>2. /\ acq'[u].at = "lock" /\ acq'[u].who = acq[u].who /\ acq'[u].key = acq[u].key
        /\ acq'[u].now = acq[u].now
    BY <1>1, <1>2, <2>1 DEF AcquireLocals
  <2>3. acq[u].at = "existing" /\ ~KeyUsed(u) /\ UNCHANGED storeVars
    BY <1>6 DEF SelectCandidates
  <2> QED
    BY <1>1, <2>2, <2>3 DEF AcquireKnows, KeyUsed, storeVars, tables
<1>7. CASE SkipLocked(u) \/ PassOver(u)
  <2>1. /\ acq[u].at = "lock" /\ UNCHANGED <<clock, tables>>
        /\ acq' = [acq EXCEPT ![u].todo = Tail(@)]
        /\ held[u] \subseteq held'[u]
    BY <1>1, <1>7 DEF SkipLocked, PassOver, Take, storeVars
  <2>2. /\ acq'[u].at = "lock" /\ acq'[u].who = acq[u].who /\ acq'[u].key = acq[u].key
        /\ acq'[u].now = acq[u].now
    BY <1>1, <1>2, <2>1 DEF AcquireLocals
  <2> QED
    BY <1>1, <2>1, <2>2 DEF AcquireKnows, KeyUsed, tables
<1>8. CASE LockCandidate(u)
  <2> DEFINE r == Head(acq[u].todo)
  <2>1. /\ acq[u].at = "lock" /\ UNCHANGED <<clock, tables>>
        /\ held'[u] = held[u] \cup {ResourceLock(r)} /\ ~resources[r].archived
        /\ acq' = [acq EXCEPT ![u] = [@ EXCEPT !.target = r, !.todo = <<>>,
                     !.at = IF acq[u].request.mode = "Exclusive" THEN "recheck" ELSE "insert"]]
    BY <1>1, <1>8 DEF LockCandidate, Take, RowMatches
  <2> HIDE DEF r
  <2>2. /\ acq'[u].at \in {"recheck", "insert"} /\ acq'[u].target = r
        /\ acq'[u].at = "insert" => acq[u].request.mode # "Exclusive"
        /\ acq'[u].who = acq[u].who /\ acq'[u].key = acq[u].key
        /\ acq'[u].now = acq[u].now /\ acq'[u].request = acq[u].request
    BY <1>1, <1>2, <2>1 DEF AcquireLocals
  <2> QED
    BY <1>1, <2>1, <2>2 DEF AcquireKnows, KeyUsed, tables
<1>9. CASE StillFree(u) \/ InsertLease(u)
  <2> DEFINE bound == /\ acq'[u].at \in {"insert", "commit"} /\ acq'[u].target = acq[u].target
                      /\ acq'[u].who = acq[u].who /\ acq'[u].key = acq[u].key
                      /\ acq'[u].now = acq[u].now /\ acq'[u].request = acq[u].request
  <2>1. /\ UNCHANGED storeVars
        /\ \/ acq[u].at = "insert"
           \/ acq[u].at = "recheck" /\ ActiveLeases(acq[u].target, acq[u].now) = {}
    BY <1>9 DEF StillFree, InsertLease
  <2>2. bound
    <3>1. CASE acq' = [acq EXCEPT ![u].at = "insert"]
      BY <1>1, <1>2, <3>1 DEF AcquireLocals
    <3>2. ASSUME NEW x, NEW y, acq' = [acq EXCEPT ![u] =
                   [@ EXCEPT !.at = "commit", !.acquired = x, !.expires = y]]
          PROVE  bound
      BY <1>1, <1>2, <3>2 DEF AcquireLocals
    <3> QED
      BY <1>9, <3>1, <3>2 DEF StillFree, InsertLease
  <2>3. acq[u].now \in Nat /\ acq[u].now <= clock
    BY <1>1, <1>2, <2>1 DEF AcquireKnows, AcquireLocals
  <2>4. ActiveLeases(acq[u].target, acq[u].now) = {} =>
          ActiveLeases(acq[u].target, clock) = {}
    BY <1>1, <2>3, ActiveEarlier DEF ActiveLeases
  <2> QED
    BY <1>1, <2>1, <2>2, <2>4 DEF AcquireKnows, KeyUsed, ActiveLeases, storeVars, tables
<1> QED
  BY <1>3, <1>4, <1>5, <1>6, <1>7, <1>8, <1>9
     DEF AcquireBy, AcquireStep, AbortAcquire, AnswerFromExisting, NoneAvailable, StillActive,
         CommitAcquire

(* The commit of an acquisition: nobody else uses the resource, it is not  *)
(* archived, and the key is new. *)
LEMMA CommitAcquireSafe ==
  ASSUME Safe, Typed', NEW u \in Acquirers, CommitAcquire(u)
  PROVE  Guarantee(held[u]) /\ ExclusiveGrant' /\ ArchivedIsIdle' /\ OneLeasePerKey'
<1> DEFINE a == acq[u]
           n == Len(leases) + 1
<1>1. /\ leases \in Seq(LeaseRow) /\ clock \in Nat /\ a.target \in Resources
      /\ resources \in [Resources -> ResourceRow] /\ a.request \in Requests
      /\ a.at = "commit" /\ clock' = clock
  BY DEF Safe, Typed, TypeOK, StoreTypeOK, ArgumentsOK, AcquireArgs, CommitAcquire
<1>2. /\ Len(leases') = n /\ DOMAIN leases' = DOMAIN leases \cup {n} /\ n \notin DOMAIN leases
      /\ \A i \in DOMAIN leases : leases'[i] = leases[i] /\ i < n
      /\ leases'[n].resource = a.target /\ leases'[n].owner = a.who
      /\ leases'[n].key = a.key /\ leases'[n].request = a.request
  BY <1>1 DEF CommitAcquire
<1>3. \A r \in Resources : resources'[r].archived = resources[r].archived
  BY <1>1 DEF CommitAcquire, ResourceRow
<1>4. /\ KeyLock(a.who, a.key) \in held[u] /\ ResourceLock(a.target) \in held[u]
      /\ ~KeyUsed(u) /\ ~resources[a.target].archived
      /\ a.request.mode = "Exclusive" => ActiveLeases(a.target, clock) = {}
  BY <1>1 DEF Safe, LockedKnowledge, AcquireKnows
<1> HIDE DEF a, n
<1>5. Guarantee(held[u])
  BY <1>1, <1>2, <1>3, <1>4 DEF Guarantee
<1>6. ExclusiveGrant'
  <2>1. SUFFICES ASSUME NEW i \in DOMAIN leases', NEW j \in DOMAIN leases', i < j,
                        leases'[i].resource = leases'[j].resource,
                        leases'[j].request.mode = "Exclusive"
                 PROVE  ~Active(leases'[i], clock')
    BY DEF ExclusiveGrant
  <2>2. CASE j = n
    BY <1>1, <1>2, <1>4, <2>1, <2>2 DEF ActiveLeases
  <2>3. CASE j \in DOMAIN leases
    <3>1. i \in DOMAIN leases
      BY <1>1, <1>2, <2>1, <2>3
    <3> QED
      BY <1>1, <1>2, <2>1, <2>3, <3>1 DEF Safe, ExclusiveGrant
  <2> QED
    BY <1>2, <2>2, <2>3
<1>7. ArchivedIsIdle'
  BY <1>1, <1>2, <1>3, <1>4 DEF Safe, ArchivedIsIdle, ActiveLeases
<1>8. OneLeasePerKey'
  BY <1>2, <1>4 DEF Safe, OneLeasePerKey, KeyUsed, a
<1> QED
  BY <1>5, <1>6, <1>7, <1>8

LEMMA AcquireSafe ==
  ASSUME Safe, Typed', NEW u \in Acquirers, AcquireBy(u), UNCHANGED <<chg, swp, adm>>
  PROVE  Safe'
<1>1. u \in Transactions /\ AcquireKnows(u)' /\ Typed /\ LocksExclude
  BY AcquirersAssumption, AcquirerKnows DEF Safe, LockedKnowledge
<1>2. \A t \in Acquirers \ {u} : acq'[t] = acq[t]
  <2>1. acq \in [Acquirers -> AcquireLocals]
    BY <1>1 DEF Typed, TypeOK, AcquireTypeOK
  <2> QED
    BY <2>1 DEF AcquireBy, AcquireStep, BeginAcquire, LockKey, SelectCandidates, SkipLocked,
                LockCandidate, PassOver, StillFree, InsertLease, AbortAcquire, EndAcquire,
                AnswerFromExisting, NoneAvailable, StillActive, CommitAcquire
<1>3. (\E lock : Take(u, lock)) \/ ReleaseAll(u) \/ UNCHANGED held
  BY DEF AcquireBy, AcquireStep, BeginAcquire, LockKey, SelectCandidates, SkipLocked,
         LockCandidate, PassOver, StillFree, InsertLease, AbortAcquire, EndAcquire,
         AnswerFromExisting, NoneAvailable, StillActive, CommitAcquire, storeVars
<1>4. UNCHANGED <<clock, tables>> \/ CommitAcquire(u)
  BY DEF AcquireBy, AcquireStep, BeginAcquire, LockKey, SelectCandidates, SkipLocked,
         LockCandidate, PassOver, StillFree, InsertLease, AbortAcquire,
         AnswerFromExisting, NoneAvailable, StillActive, storeVars
<1>5. PICK H \in SUBSET held[u] :
        Guarantee(H) /\ ExclusiveGrant' /\ ArchivedIsIdle' /\ OneLeasePerKey'
  BY <1>1, <1>3, <1>4, NoWriteSafe, CommitAcquireSafe
<1>6. LocksExclude' /\ \A t \in Transactions \ {u} : held'[t] = held[t]
  BY <1>1, <1>3, LocksStep
<1>7. LockedKnowledge'
  <2>1. u \notin Changers /\ u \notin Workers /\ u \notin Editors
    BY TransactionsAssumption
  <2> QED
    BY <1>1, <1>2, <1>5, <1>6, <2>1, OthersKnow
<1> QED
  BY <1>5, <1>7 DEF Safe

-------------------------------------------------------------------------------
(* Lease changes *)

LEMMA ChangerKnows ==
  ASSUME Safe, Typed', NEW u \in Changers, ChangeBy(u)
  PROVE  ChangeKnows(u)'
<1>1. /\ chg \in [Changers -> ChangeLocals] /\ ChangeKnows(u) /\ ChangeArgs(u)
      /\ held \in [Transactions -> SUBSET Locks] /\ u \in Transactions
  BY ChangersAssumption
     DEF Safe, LockedKnowledge, Typed, TypeOK, StoreTypeOK, ArgumentsOK, ChangeTypeOK
<1>2. chg[u] \in ChangeLocals
  BY <1>1
<1>3. CASE EndChange(u)
  BY <1>1, <1>3 DEF EndChange, IdleChange, ChangeKnows
<1>4. ASSUME NEW op, NEW p, NEW i, NEW ttl, BeginChange(u, op, p, i, ttl)
      PROVE  ChangeKnows(u)'
  BY <1>1, <1>4 DEF BeginChange, IdleChange, ChangeKnows
<1>5. CASE LockLease(u)
  <2>1. /\ chg' = [chg EXCEPT ![u].at = "resource"] /\ chg[u].at = "lease"
        /\ held'[u] = held[u] \cup {LeaseLock(chg[u].lease)}
    BY <1>1, <1>5 DEF LockLease, Take, ChangeLock
  <2>2. chg'[u].at = "resource" /\ chg'[u].lease = chg[u].lease
    BY <1>1, <1>2, <2>1 DEF ChangeLocals
  <2> QED
    BY <2>1, <2>2 DEF ChangeKnows
<1>6. CASE LockLeasedResource(u)
  <2>1. /\ chg[u].at = "resource" /\ UNCHANGED leases
        /\ chg' = [chg EXCEPT ![u].at = IF chg[u].op = "Renew" THEN "check" ELSE "end"]
        /\ held'[u] = held[u] \cup {ResourceLock(leases[chg[u].lease].resource)}
    BY <1>1, <1>6 DEF LockLeasedResource, Take, ChangeLock, tables
  <2>2. chg'[u].at \in {"check", "end"} /\ chg'[u].lease = chg[u].lease
    BY <1>1, <1>2, <2>1 DEF ChangeLocals
  <2> QED
    BY <1>1, <2>1, <2>2 DEF ChangeKnows
<1>7. CASE FindActive(u)
  <2> DEFINE i == chg[u].lease
  <2>1. /\ chg[u].at = "check" /\ UNCHANGED <<resources, leases, held>>
        /\ chg' = [chg EXCEPT ![u].at = "policy"] /\ Active(leases[i], clock)
    BY <1>7 DEF FindActive, storeVars, tables
  <2>2. chg'[u].at = "policy" /\ chg'[u].lease = i
    BY <1>1, <1>2, <2>1 DEF ChangeLocals
  <2>3. i \in DOMAIN leases /\ leases[i].resource \in Resources
    BY <1>1, <2>1, LeaseTyped DEF ChangeArgs, LeaseRow, Safe, Typed, TypeOK
  <2> HIDE DEF i
  <2>4. leases[i].ended = NULL
    BY <2>1 DEF Active
  <2>5. ~resources[leases[i].resource].archived
    BY <2>1, <2>3 DEF Safe, ArchivedIsIdle, ActiveLeases
  <2>6. \A j \in DOMAIN leases :
          j > i /\ leases[j].resource = leases[i].resource
            => leases[j].request.mode # "Exclusive"
    BY <2>1, <2>3 DEF Safe, ExclusiveGrant
  <2>7. LeaseLock(i) \in held[u] /\ ResourceLock(leases[i].resource) \in held[u]
    BY <1>1, <2>1 DEF ChangeKnows, i
  <2> QED
    BY <2>1, <2>2, <2>4, <2>5, <2>6, <2>7 DEF ChangeKnows
<1>8. CASE ComputeRenewal(u)
  <2>1. PICK e : chg' = [chg EXCEPT ![u] = [@ EXCEPT !.at = "renew", !.renewed = clock,
                                                     !.expires = e]]
    BY <1>8 DEF ComputeRenewal
  <2>2. chg'[u].at = "renew" /\ chg'[u].lease = chg[u].lease
    BY <1>1, <1>2, <2>1 DEF ChangeLocals
  <2>3. chg[u].at = "policy" /\ UNCHANGED <<resources, leases, held>>
    BY <1>8 DEF ComputeRenewal, storeVars, tables
  <2> QED
    BY <1>1, <2>2, <2>3 DEF ChangeKnows
<1> QED
  BY <1>3, <1>4, <1>5, <1>6, <1>7, <1>8
     DEF ChangeBy, ChangeStep, NotFound, RefuseInactive, RefuseTtl, CommitRenewal,
         AlreadyEnded, CommitEnd, AbortChange

(* The commit of a renewal may revive a lease only while its resource has  *)
(* been granted exclusively to nobody else and is not archived. *)
LEMMA CommitRenewalSafe ==
  ASSUME Safe, NEW u \in Changers, CommitRenewal(u)
  PROVE  Guarantee(held[u]) /\ ExclusiveGrant' /\ ArchivedIsIdle' /\ OneLeasePerKey'
<1> DEFINE c == chg[u].lease
<1>1. /\ leases \in Seq(LeaseRow) /\ clock \in Nat /\ clock' = clock /\ resources' = resources
      /\ c \in DOMAIN leases /\ chg[u].at = "renew" /\ leases[c] \in LeaseRow
  BY LeaseTyped DEF Safe, Typed, TypeOK, StoreTypeOK, ArgumentsOK, ChangeArgs, CommitRenewal
<1>2. /\ LeaseLock(c) \in held[u] /\ ResourceLock(leases[c].resource) \in held[u]
      /\ ~resources[leases[c].resource].archived
      /\ \A j \in DOMAIN leases :
           j > c /\ leases[j].resource = leases[c].resource
             => leases[j].request.mode # "Exclusive"
  BY <1>1 DEF Safe, LockedKnowledge, ChangeKnows
<1>3. leases' = [leases EXCEPT ![c] = [@ EXCEPT !.expires = chg[u].expires,
                                                !.renewed = chg[u].renewed]]
  BY DEF CommitRenewal
<1> HIDE DEF c
<1>4. /\ DOMAIN leases' = DOMAIN leases
      /\ \A i \in DOMAIN leases \ {c} : leases'[i] = leases[i]
      /\ leases'[c].resource = leases[c].resource /\ leases'[c].owner = leases[c].owner
      /\ leases'[c].key = leases[c].key /\ leases'[c].request = leases[c].request
  BY <1>1, <1>3 DEF LeaseRow
<1>5. Guarantee(held[u])
  BY <1>1, <1>2, <1>4 DEF Guarantee
<1>6. ExclusiveGrant'
  <2>1. SUFFICES ASSUME NEW i \in DOMAIN leases, NEW j \in DOMAIN leases, i < j,
                        leases[i].resource = leases[j].resource,
                        leases[j].request.mode = "Exclusive"
                 PROVE  ~Active(leases'[i], clock')
    BY <1>4 DEF ExclusiveGrant
  <2>2. i # c
    BY <1>1, <1>2, <2>1
  <2> QED
    BY <1>1, <1>4, <2>1, <2>2 DEF Safe, ExclusiveGrant
<1>7. ArchivedIsIdle'
  BY <1>1, <1>2, <1>4 DEF Safe, ArchivedIsIdle, ActiveLeases
<1>8. OneLeasePerKey'
  BY <1>4 DEF Safe, OneLeasePerKey
<1> QED
  BY <1>5, <1>6, <1>7, <1>8

LEMMA CommitEndSafe ==
  ASSUME Safe, NEW u \in Changers, CommitEnd(u)
  PROVE  Guarantee(held[u]) /\ ExclusiveGrant' /\ ArchivedIsIdle' /\ OneLeasePerKey'
<1> DEFINE c == chg[u].lease
<1>1. /\ leases \in Seq(LeaseRow) /\ clock \in Nat /\ clock' = clock /\ resources' = resources
      /\ c \in DOMAIN leases /\ chg[u].at = "end" /\ leases[c] \in LeaseRow
      /\ chg[u].now # NULL
  BY LeaseTyped, NullAssumption
     DEF Safe, Typed, TypeOK, StoreTypeOK, ArgumentsOK, ChangeArgs, ChangeTypeOK, ChangeLocals,
         CommitEnd
<1>2. LeaseLock(c) \in held[u]
  BY <1>1 DEF Safe, LockedKnowledge, ChangeKnows
<1>3. leases' = [leases EXCEPT ![c] = [@ EXCEPT !.ended = chg[u].now, !.reason = chg[u].op]]
  BY DEF CommitEnd
<1> HIDE DEF c
<1>4. /\ DOMAIN leases' = DOMAIN leases
      /\ \A i \in DOMAIN leases \ {c} : leases'[i] = leases[i]
      /\ leases'[c].resource = leases[c].resource /\ leases'[c].owner = leases[c].owner
      /\ leases'[c].key = leases[c].key /\ leases'[c].request = leases[c].request
      /\ leases'[c].ended = chg[u].now
  BY <1>1, <1>3 DEF LeaseRow
<1>5. ~Active(leases'[c], clock')
  BY <1>1, <1>4 DEF Active
<1>6. Guarantee(held[u]) /\ Quiet
  BY <1>1, <1>2, <1>4, <1>5 DEF Guarantee, Quiet
<1> QED
  BY <1>6, QuietStep

LEMMA ChangeSafe ==
  ASSUME Safe, Typed', NEW u \in Changers, ChangeBy(u), UNCHANGED <<acq, swp, adm>>
  PROVE  Safe'
<1>1. u \in Transactions /\ ChangeKnows(u)' /\ Typed /\ LocksExclude
  BY ChangersAssumption, ChangerKnows DEF Safe, LockedKnowledge
<1>2. \A t \in Changers \ {u} : chg'[t] = chg[t]
  <2>1. chg \in [Changers -> ChangeLocals]
    BY <1>1 DEF Typed, TypeOK, ChangeTypeOK
  <2> QED
    BY <2>1 DEF ChangeBy, ChangeStep, BeginChange, NotFound, LockLease, LockLeasedResource,
                RefuseInactive, FindActive, RefuseTtl, ComputeRenewal, CommitRenewal,
                AlreadyEnded, CommitEnd, AbortChange, EndChange
<1>3. (\E lock : Take(u, lock)) \/ ReleaseAll(u) \/ UNCHANGED held
  BY DEF ChangeBy, ChangeStep, BeginChange, NotFound, LockLease, LockLeasedResource,
         RefuseInactive, FindActive, RefuseTtl, ComputeRenewal, CommitRenewal,
         AlreadyEnded, CommitEnd, AbortChange, EndChange, storeVars
<1>4. UNCHANGED <<clock, tables>> \/ CommitRenewal(u) \/ CommitEnd(u)
  BY DEF ChangeBy, ChangeStep, BeginChange, NotFound, LockLease, LockLeasedResource,
         RefuseInactive, FindActive, RefuseTtl, ComputeRenewal, AlreadyEnded, AbortChange,
         storeVars
<1>5. PICK H \in SUBSET held[u] :
        Guarantee(H) /\ ExclusiveGrant' /\ ArchivedIsIdle' /\ OneLeasePerKey'
  BY <1>1, <1>3, <1>4, NoWriteSafe, CommitRenewalSafe, CommitEndSafe
<1>6. LocksExclude' /\ \A t \in Transactions \ {u} : held'[t] = held[t]
  BY <1>1, <1>3, LocksStep
<1>7. LockedKnowledge'
  <2>1. u \notin Acquirers /\ u \notin Workers /\ u \notin Editors
    BY TransactionsAssumption
  <2> QED
    BY <1>1, <1>2, <1>5, <1>6, <2>1, OthersKnow
<1> QED
  BY <1>5, <1>7 DEF Safe

-------------------------------------------------------------------------------
(* The expiration worker *)

LEMMA WorkerKnows ==
  ASSUME Safe, Typed', NEW w \in Workers, SweepBy(w)
  PROVE  SweepKnows(w)'
<1>1. /\ swp \in [Workers -> SweepLocals] /\ SweepKnows(w) /\ StoreTypeOK
      /\ held \in [Transactions -> SUBSET Locks] /\ w \in Transactions
  BY WorkersAssumption
     DEF Safe, LockedKnowledge, Typed, TypeOK, StoreTypeOK, SweepTypeOK
<1>2. swp[w] \in SweepLocals
  BY <1>1
<1>3. CASE BeginSweep(w) \/ EndSweep(w)
  <2>1. swp'[w].todo = <<>> /\ swp'[w].expired = {}
    <3>1. IdleSweep.todo = <<>> /\ IdleSweep.expired = {}
      BY DEF IdleSweep
    <3>2. CASE BeginSweep(w)
      <4>1. swp'[w] = [IdleSweep EXCEPT !.at = "select", !.now = clock]
        BY <1>1, <3>2 DEF BeginSweep
      <4> QED
        BY <3>1, <4>1 DEF IdleSweep
    <3>3. CASE EndSweep(w)
      BY <1>1, <3>1, <3>3 DEF EndSweep
    <3> QED
      BY <1>3, <3>2, <3>3
  <2> QED
    BY <2>1 DEF SweepKnows
<1>4. CASE LockBatch(w)
  <2>1. PICK s \in Batches(w) :
          /\ swp' = [swp EXCEPT ![w] = [@ EXCEPT !.at = "expire", !.todo = s]]
          /\ held' = [held EXCEPT ![w] = @ \cup {LeaseLock(s[n]) : n \in DOMAIN s}]
    BY <1>4 DEF LockBatch
  <2>2. swp'[w].todo = s /\ swp'[w].expired = swp[w].expired
    BY <1>1, <1>2, <2>1 DEF SweepLocals
  <2>3. held'[w] = held[w] \cup {LeaseLock(s[n]) : n \in DOMAIN s} /\ UNCHANGED leases
    BY <1>1, <1>4, <2>1 DEF LockBatch, tables
  <2> QED
    BY <1>1, <2>2, <2>3 DEF SweepKnows
<1>5. CASE ExpireNext(w)
  <2> DEFINE i == Head(swp[w].todo)
  <2>1. /\ swp[w].todo # <<>> /\ UNCHANGED leases /\ held[w] \subseteq held'[w]
        /\ swp' = [swp EXCEPT ![w] = [swp[w] EXCEPT
             !.todo = Tail(@),
             !.expired = IF Due(i, swp[w].now) THEN @ \cup {i} ELSE @]]
    BY <1>1, <1>5 DEF ExpireNext, Take, tables
  <2>2. /\ swp'[w].todo = Tail(swp[w].todo)
        /\ swp'[w].expired \subseteq swp[w].expired \cup {i}
        /\ i \in swp'[w].expired => i \in swp[w].expired \/ Due(i, swp[w].now)
    BY <1>1, <1>2, <2>1 DEF SweepLocals
  <2>3. swp[w].todo \in Seq(Nat)
    BY <1>2 DEF SweepLocals
  <2>4. /\ 1 \in DOMAIN swp[w].todo /\ i = swp[w].todo[1]
        /\ \A n \in DOMAIN Tail(swp[w].todo) :
             n + 1 \in DOMAIN swp[w].todo /\ Tail(swp[w].todo)[n] = swp[w].todo[n + 1]
    BY <2>1, <2>3
  <2> HIDE DEF i
  <2>5. LeaseLock(i) \in held[w] /\ \A n \in DOMAIN swp'[w].todo : LeaseLock(swp'[w].todo[n]) \in held'[w]
    BY <1>1, <2>1, <2>2, <2>4 DEF SweepKnows
  <2>6. ASSUME NEW j \in swp'[w].expired
        PROVE  /\ LeaseLock(j) \in held'[w]
               /\ leases'[j].ended = NULL /\ leases'[j].expires # NULL
    <3>1. CASE j \in swp[w].expired
      BY <1>1, <2>1, <3>1 DEF SweepKnows
    <3>2. CASE j = i /\ Due(i, swp[w].now)
      BY <2>1, <2>5, <3>2 DEF Due
    <3> QED
      BY <2>2, <2>6, <3>1, <3>2
  <2> QED
    BY <2>5, <2>6 DEF SweepKnows
<1>6. CASE CommitSweep(w)
  BY <1>3, <1>6 DEF CommitSweep
<1> QED
  BY <1>3, <1>4, <1>5, <1>6 DEF SweepBy, SweepStep, CrashSweep

(* The commit of a sweep ends leases that had not ended, and only ends. *)
LEMMA CommitSweepSafe ==
  ASSUME Safe, NEW w \in Workers, CommitSweep(w)
  PROVE  Guarantee(held[w]) /\ ExclusiveGrant' /\ ArchivedIsIdle' /\ OneLeasePerKey'
<1> DEFINE end(i) == [leases[i] EXCEPT !.ended = leases[i].expires, !.reason = "Expired"]
<1>1. /\ leases \in Seq(LeaseRow) /\ clock \in Nat /\ clock' = clock /\ resources' = resources
      /\ leases' = [i \in DOMAIN leases |->
                      IF i \in swp[w].expired THEN end(i) ELSE leases[i]]
  BY DEF Safe, Typed, TypeOK, StoreTypeOK, CommitSweep
<1>2. \A i \in swp[w].expired : LeaseLock(i) \in held[w] /\ leases[i].expires # NULL
  BY DEF Safe, LockedKnowledge, SweepKnows
<1>3. \A i \in DOMAIN leases :
        /\ end(i).resource = leases[i].resource /\ end(i).owner = leases[i].owner
        /\ end(i).key = leases[i].key /\ end(i).request = leases[i].request
        /\ end(i).ended = leases[i].expires
  BY LeaseTyped DEF LeaseRow, Safe, Typed, TypeOK
<1> HIDE DEF end
<1>4. \A i \in DOMAIN leases :
        /\ leases'[i].resource = leases[i].resource /\ leases'[i].owner = leases[i].owner
        /\ leases'[i].key = leases[i].key /\ leases'[i].request = leases[i].request
        /\ leases'[i] = leases[i] \/ LeaseLock(i) \in held[w]
        /\ Active(leases'[i], clock') => Active(leases[i], clock)
  BY <1>1, <1>2, <1>3 DEF Active
<1>5. DOMAIN leases' = DOMAIN leases
  BY <1>1
<1>6. Guarantee(held[w]) /\ Quiet
  BY <1>1, <1>4, <1>5 DEF Guarantee, Quiet
<1> QED
  BY <1>6, QuietStep

LEMMA SweepSafe ==
  ASSUME Safe, Typed', NEW w \in Workers, SweepBy(w), UNCHANGED <<acq, chg, adm>>
  PROVE  Safe'
<1>1. /\ w \in Transactions /\ SweepKnows(w)' /\ Typed /\ LocksExclude
      /\ swp \in [Workers -> SweepLocals] /\ held \in [Transactions -> SUBSET Locks]
  BY WorkersAssumption, WorkerKnows
     DEF Safe, LockedKnowledge, Typed, TypeOK, StoreTypeOK, SweepTypeOK
<1>2. \A t \in Workers \ {w} : swp'[t] = swp[t]
  BY <1>1 DEF SweepBy, SweepStep, BeginSweep, LockBatch, ExpireNext, CommitSweep, CrashSweep,
              EndSweep
<1>3. LockBatch(w) \/ (\E lock : Take(w, lock)) \/ ReleaseAll(w) \/ UNCHANGED held
  BY DEF SweepBy, SweepStep, BeginSweep, ExpireNext, CommitSweep, CrashSweep, EndSweep, storeVars
<1>4. UNCHANGED <<clock, tables>> \/ CommitSweep(w)
  BY DEF SweepBy, SweepStep, BeginSweep, LockBatch, ExpireNext, CrashSweep, storeVars
<1>5. LocksExclude' /\ \A t \in Transactions \ {w} : held'[t] = held[t]
  <2>1. CASE LockBatch(w)
    <3>1. PICK s \in Batches(w) :
            held' = [held EXCEPT ![w] = @ \cup {LeaseLock(s[n]) : n \in DOMAIN s}]
      BY <2>1 DEF LockBatch
    <3>2. \A n \in DOMAIN s : Free(w, LeaseLock(s[n]))
      BY <1>1, <3>1, BatchesType DEF Lockable, Typed, TypeOK
    <3> QED
      BY <1>1, <3>1, <3>2 DEF LocksExclude, Free
  <2> QED
    BY <1>1, <1>3, <2>1, LocksStep
<1>6. PICK H \in SUBSET held[w] :
        Guarantee(H) /\ ExclusiveGrant' /\ ArchivedIsIdle' /\ OneLeasePerKey'
  <2>1. CASE UNCHANGED <<clock, tables>>
    <3>1. Guarantee({}) /\ Quiet
      BY <1>1, <2>1, NoWriteGuarantee DEF Quiet, tables
    <3> QED
      BY <3>1, QuietStep
  <2> QED
    BY <1>4, <2>1, CommitSweepSafe
<1>7. LockedKnowledge'
  <2>1. w \notin Acquirers /\ w \notin Changers /\ w \notin Editors
    BY TransactionsAssumption
  <2> QED
    BY <1>1, <1>2, <1>5, <1>6, <2>1, OthersKnow
<1> QED
  BY <1>6, <1>7 DEF Safe

-------------------------------------------------------------------------------
(* Resource edits *)

LEMMA EditorKnows ==
  ASSUME Safe, Typed', NEW u \in Editors, EditBy(u)
  PROVE  EditKnows(u)'
<1>1. /\ adm \in [Editors -> EditLocals] /\ EditKnows(u) /\ clock \in Nat
      /\ held \in [Transactions -> SUBSET Locks] /\ u \in Transactions
  BY EditorsAssumption
     DEF Safe, LockedKnowledge, Typed, TypeOK, StoreTypeOK, EditTypeOK
<1>2. CASE EndEdit(u)
  BY <1>1, <1>2 DEF EndEdit, IdleEdit, EditKnows
<1>3. ASSUME NEW op, NEW a, NEW r, NEW c, NEW p, BeginEdit(u, op, a, r, c, p)
      PROVE  EditKnows(u)'
  BY <1>1, <1>3 DEF BeginEdit, EditKnows, storeVars
<1>4. CASE LockEdited(u)
  <2>1. /\ adm' = [adm EXCEPT ![u].at = "apply"] /\ adm[u].at = "lock" /\ clock' = clock
        /\ held'[u] = held[u] \cup {ResourceLock(adm[u].resource)}
    BY <1>1, <1>4 DEF LockEdited, Take
  <2>2. adm'[u].at = "apply" /\ adm'[u].resource = adm[u].resource /\ adm'[u].now = adm[u].now
    BY <1>1, <2>1 DEF EditLocals
  <2> QED
    BY <1>1, <2>1, <2>2 DEF EditKnows
<1> QED
  BY <1>2, <1>3, <1>4
     DEF EditBy, EditStep, FindArchived, RefuseUpdate, UpdateResource, RefuseArchive,
         ArchiveResource, RefuseTransition, TransitionResource, SetGrant, AbortEdit

(* A commit that archives finds no active lease under the row's lock; the  *)
(* other commits leave leases and archiving alone. *)
LEMMA CommitEditSafe ==
  ASSUME Safe, NEW u \in Editors,
         UpdateResource(u) \/ ArchiveResource(u) \/ TransitionResource(u) \/ SetGrant(u)
  PROVE  Guarantee(held[u]) /\ ExclusiveGrant' /\ ArchivedIsIdle' /\ OneLeasePerKey'
<1> DEFINE r == adm[u].resource
<1>1. /\ leases \in Seq(LeaseRow) /\ clock \in Nat /\ adm[u].at = "apply" /\ r \in Resources
      /\ resources \in [Resources -> ResourceRow] /\ adm[u].now \in Nat
      /\ UNCHANGED <<clock, leases>>
  BY DEF Safe, Typed, TypeOK, StoreTypeOK, ArgumentsOK, EditArgs, EditTypeOK, EditLocals, Applies,
         UpdateResource, ArchiveResource, TransitionResource, SetGrant
<1>2. ResourceLock(r) \in held[u] /\ adm[u].now <= clock
  BY <1>1 DEF Safe, LockedKnowledge, EditKnows
<1>3. CASE ~ArchiveResource(u)
  <2>1. \A s \in Resources : resources'[s].archived = resources[s].archived
    <3>1. CASE UpdateResource(u)
      BY <1>1, <3>1 DEF UpdateResource, ResourceRow
    <3>2. CASE TransitionResource(u)
      BY <1>1, <3>2 DEF TransitionResource, ResourceRow
    <3>3. CASE SetGrant(u)
      BY <3>3 DEF SetGrant
    <3> QED
      BY <1>3, <3>1, <3>2, <3>3
  <2>2. Guarantee(held[u]) /\ Quiet
    BY <1>1, <2>1 DEF Guarantee, Quiet
  <2> QED
    BY <2>2, QuietStep
<1>4. CASE ArchiveResource(u)
  <2>1. /\ \A s \in Resources \ {r} : resources'[s] = resources[s]
        /\ ActiveLeases(r, adm[u].now) = {}
    BY <1>1, <1>4 DEF ArchiveResource
  <2> HIDE DEF r
  <2>2. Guarantee(held[u])
    BY <1>1, <1>2, <2>1 DEF Guarantee
  <2>3. ActiveLeases(r, clock) = {}
    BY <1>1, <1>2, <2>1, ActiveEarlier DEF ActiveLeases
  <2>4. ArchivedIsIdle'
    BY <1>1, <2>1, <2>3 DEF Safe, ArchivedIsIdle, ActiveLeases
  <2>5. ExclusiveGrant' /\ OneLeasePerKey'
    BY <1>1 DEF Safe, ExclusiveGrant, OneLeasePerKey
  <2> QED
    BY <2>2, <2>4, <2>5
<1> QED
  BY <1>3, <1>4

LEMMA EditSafe ==
  ASSUME Safe, Typed', NEW u \in Editors, EditBy(u), UNCHANGED <<acq, chg, swp>>
  PROVE  Safe'
<1>1. u \in Transactions /\ EditKnows(u)' /\ Typed /\ LocksExclude
  BY EditorsAssumption, EditorKnows DEF Safe, LockedKnowledge
<1>2. \A t \in Editors \ {u} : adm'[t] = adm[t]
  <2>1. adm \in [Editors -> EditLocals]
    BY <1>1 DEF Typed, TypeOK, EditTypeOK
  <2> QED
    BY <2>1 DEF EditBy, EditStep, BeginEdit, LockEdited, FindArchived, RefuseUpdate,
                UpdateResource, RefuseArchive, ArchiveResource, RefuseTransition,
                TransitionResource, SetGrant, AbortEdit, EndEdit
<1>3. (\E lock : Take(u, lock)) \/ ReleaseAll(u) \/ UNCHANGED held
  BY DEF EditBy, EditStep, BeginEdit, LockEdited, FindArchived, RefuseUpdate,
         UpdateResource, RefuseArchive, ArchiveResource, RefuseTransition,
         TransitionResource, SetGrant, AbortEdit, EndEdit, storeVars
<1>4. \/ UNCHANGED <<clock, tables>>
      \/ UpdateResource(u) \/ ArchiveResource(u) \/ TransitionResource(u) \/ SetGrant(u)
  BY DEF EditBy, EditStep, BeginEdit, LockEdited, FindArchived, RefuseUpdate,
         RefuseArchive, RefuseTransition, AbortEdit, storeVars
<1>5. PICK H \in SUBSET held[u] :
        Guarantee(H) /\ ExclusiveGrant' /\ ArchivedIsIdle' /\ OneLeasePerKey'
  BY <1>1, <1>3, <1>4, NoWriteSafe, CommitEditSafe
<1>6. LocksExclude' /\ \A t \in Transactions \ {u} : held'[t] = held[t]
  BY <1>1, <1>3, LocksStep
<1>7. LockedKnowledge'
  <2>1. u \notin Acquirers /\ u \notin Changers /\ u \notin Workers
    BY TransactionsAssumption
  <2> QED
    BY <1>1, <1>2, <1>5, <1>6, <2>1, OthersKnow
<1> QED
  BY <1>5, <1>7 DEF Safe

-------------------------------------------------------------------------------
(* The clock, and the steps together *)

LEMMA TickSafe ==
  ASSUME Safe, Typed', Tick, UNCHANGED <<acq, chg, swp, adm>>
  PROVE  Safe'
<1>1. /\ leases \in Seq(LeaseRow) /\ clock \in Nat /\ clock' = clock + 1
      /\ UNCHANGED <<resources, leases, held>>
  BY DEF Safe, Typed, TypeOK, StoreTypeOK, Tick, tables
<1>2. \A i \in DOMAIN leases : Active(leases'[i], clock') => Active(leases[i], clock)
  BY <1>1, ActiveEarlier
<1>3. Guarantee({}) /\ Quiet
  BY <1>1, <1>2 DEF Guarantee, Quiet
<1>4. /\ \A t \in Acquirers : AcquireKnows(t)
      /\ \A t \in Changers : ChangeKnows(t)
      /\ \A w \in Workers : SweepKnows(w)
      /\ \A t \in Editors : EditKnows(t)
      /\ Typed /\ LocksExclude
  BY DEF Safe, LockedKnowledge
<1>5. /\ \A t \in Acquirers : AcquireKnows(t)'
      /\ \A t \in Changers : ChangeKnows(t)'
      /\ \A w \in Workers : SweepKnows(w)'
      /\ \A t \in Editors : EditKnows(t)'
  BY <1>1, <1>3, <1>4, AcquirersKnow, ChangersKnow, WorkersKnow, EditorsKnow
<1>6. LocksExclude'
  BY <1>1, <1>4 DEF LocksExclude
<1> QED
  BY <1>3, <1>5, <1>6, QuietStep DEF Safe, LockedKnowledge

LEMMA InitSafe == Init => Safe
<1> SUFFICES ASSUME Init PROVE Safe
  OBVIOUS
<1>1. leases = <<>> /\ \A r \in Resources : ~resources[r].archived
  BY DEF Init, Created
<1>2. LockedKnowledge
  BY DEF Init, LockedKnowledge, LocksExclude, AcquireKnows, ChangeKnows, SweepKnows, EditKnows,
         IdleAcquire, IdleChange, IdleSweep, IdleEdit
<1> QED
  BY <1>1, <1>2, InitTyped DEF Safe, ExclusiveGrant, ArchivedIsIdle, OneLeasePerKey

LEMMA NextSafe == Safe /\ [Next]_vars => Safe'
<1> SUFFICES ASSUME Safe, [Next]_vars PROVE Safe'
  OBVIOUS
<1>1. Typed'
  BY NextTyped DEF Safe
<1>2. CASE Tick /\ UNCHANGED <<acq, chg, swp, adm>>
  BY <1>1, <1>2, TickSafe
<1>3. CASE AcquireNext /\ UNCHANGED <<chg, swp, adm>>
  BY <1>1, <1>3, AcquireSafe DEF AcquireNext
<1>4. CASE ChangeNext /\ UNCHANGED <<acq, swp, adm>>
  BY <1>1, <1>4, ChangeSafe DEF ChangeNext
<1>5. CASE SweepNext /\ UNCHANGED <<acq, chg, adm>>
  BY <1>1, <1>5, SweepSafe DEF SweepNext
<1>6. CASE EditNext /\ UNCHANGED <<acq, chg, swp>>
  BY <1>1, <1>6, EditSafe DEF EditNext
<1>7. CASE UNCHANGED vars
  <2>1. /\ LocksExclude'
        /\ \A t \in Acquirers : AcquireKnows(t)'
        /\ \A t \in Editors : EditKnows(t)'
    BY <1>7 DEF vars, Safe, LockedKnowledge, LocksExclude, AcquireKnows, KeyUsed, ActiveLeases,
                EditKnows
  <2>2. (\A t \in Changers : ChangeKnows(t)') /\ \A w \in Workers : SweepKnows(w)'
    BY <1>7 DEF vars, Safe, LockedKnowledge, ChangeKnows, SweepKnows
  <2>3. ExclusiveGrant' /\ ArchivedIsIdle' /\ OneLeasePerKey'
    BY <1>7 DEF vars, Safe, ExclusiveGrant, ArchivedIsIdle, ActiveLeases, OneLeasePerKey
  <2> QED
    BY <1>1, <2>1, <2>2, <2>3 DEF Safe, LockedKnowledge
<1> QED
  BY <1>2, <1>3, <1>4, <1>5, <1>6, <1>7 DEF Next

(* What a handler or worker has established under its locks stays true     *)
(* until it ends, together with the guarantees below.                      *)
THEOREM AlwaysSafe == Spec => []Safe
BY InitSafe, NextSafe, PTL DEF Spec

(* Exclusive allocation: no lease granted on a resource before an          *)
(* exclusive one is active any more, or comes back (acquire_lease,         *)
(* renew_lease).                                                           *)
THEOREM ExclusiveAllocation == Spec => []ExclusiveGrant
<1>1. Safe => ExclusiveGrant
  BY DEF Safe
<1> QED
  BY AlwaysSafe, <1>1, PTL

(* No lease of an archived resource is active (archive_resource).          *)
THEOREM ArchivedForGood == Spec => []ArchivedIsIdle
<1>1. Safe => ArchivedIsIdle
  BY DEF Safe
<1> QED
  BY AlwaysSafe, <1>1, PTL

(* Overlapping attempts of one request make one lease (acquire_lease).     *)
THEOREM IdempotentAcquisition == Spec => []OneLeasePerKey
<1>1. Safe => OneLeasePerKey
  BY DEF Safe
<1> QED
  BY AlwaysSafe, <1>1, PTL

(* The knowledge that handlers act on when they commit is never stale.     *)
THEOREM KnowledgeHolds == Spec => []LockedKnowledge
<1>1. Safe => LockedKnowledge
  BY DEF Safe
<1> QED
  BY AlwaysSafe, <1>1, PTL

(* The commit of a renewal extends a lease that has not ended, of a        *)
(* resource that is not archived and that nobody was granted exclusively   *)
(* since (renew_lease).                                                    *)
THEOREM RenewalsNeverRevive == Spec => RenewalNeverRevives
<1>1. Safe /\ [Next]_vars => [NoRevival]_leases
  <2>1. SUFFICES ASSUME Safe, Next, leases' # leases, NEW i \in DOMAIN leases,
                        leases'[i].expires # leases[i].expires
                 PROVE  /\ leases[i].ended = NULL
                        /\ ~resources[leases[i].resource].archived
                        /\ \A j \in DOMAIN leases :
                             j > i /\ leases[j].resource = leases[i].resource
                               => leases[j].request.mode = "Shared"
    BY DEF NoRevival, vars
  <2>2. leases \in Seq(LeaseRow) /\ StoreTypeOK
    BY <2>1 DEF Safe, Typed, TypeOK, StoreTypeOK
  <2>3. CASE \E t \in Acquirers : CommitAcquire(t)
    BY <2>1, <2>2, <2>3 DEF CommitAcquire
  <2>4. CASE \E t \in Changers : CommitEnd(t)
    BY <2>1, <2>2, <2>4, LeaseTyped DEF CommitEnd, LeaseRow
  <2>5. CASE \E w \in Workers : CommitSweep(w)
    <3> DEFINE end == [leases[i] EXCEPT !.ended = leases[i].expires, !.reason = "Expired"]
    <3>1. end.expires = leases[i].expires
      BY <2>1, <2>2, LeaseTyped DEF LeaseRow
    <3>2. leases'[i] = end \/ leases'[i] = leases[i]
      BY <2>1, <2>5 DEF CommitSweep
    <3> QED
      BY <2>1, <3>1, <3>2
  <2>6. CASE \E t \in Changers : CommitRenewal(t)
    <3>1. PICK t \in Changers : CommitRenewal(t)
      BY <2>6
    <3>2. chg[t].at = "renew" /\ i = chg[t].lease
      BY <2>1, <2>2, <3>1 DEF CommitRenewal
    <3>3. \A j \in DOMAIN leases : leases[j].request.mode \in {"Exclusive", "Shared"}
      BY <2>2, LeaseTyped DEF LeaseRow, Request, SharingModes
    <3> QED
      BY <3>2, <3>3, <2>1 DEF Safe, LockedKnowledge, ChangeKnows
  <2>7. \/ \E t \in Acquirers : CommitAcquire(t)
        \/ \E t \in Changers : CommitEnd(t) \/ CommitRenewal(t)
        \/ \E w \in Workers : CommitSweep(w)
    <3>1. AcquireNext => \E t \in Acquirers : CommitAcquire(t)
      BY <2>1 DEF AcquireNext, AcquireBy, AcquireStep, BeginAcquire, LockKey, SelectCandidates,
           SkipLocked, LockCandidate, PassOver, StillFree, InsertLease, AbortAcquire,
           AnswerFromExisting, NoneAvailable, StillActive, storeVars, tables
    <3>2. ChangeNext => \E t \in Changers : CommitEnd(t) \/ CommitRenewal(t)
      BY <2>1 DEF ChangeNext, ChangeBy, ChangeStep, BeginChange, NotFound, LockLease,
           LockLeasedResource, RefuseInactive, FindActive, RefuseTtl, ComputeRenewal,
           AlreadyEnded, AbortChange, storeVars, tables
    <3>3. SweepNext => \E w \in Workers : CommitSweep(w)
      BY <2>1 DEF SweepNext, SweepBy, SweepStep, BeginSweep, LockBatch, ExpireNext, CrashSweep,
           storeVars, tables
    <3>4. ~EditNext
      <4>1. \A t \in Editors : EditStep(t) \/ AbortEdit(t) => UNCHANGED leases
        BY DEF EditStep, LockEdited, FindArchived, RefuseUpdate, UpdateResource, RefuseArchive,
               ArchiveResource, RefuseTransition, TransitionResource, SetGrant, AbortEdit, tables
      <4>2. \A t, op, a, r, c, p : BeginEdit(t, op, a, r, c, p) => UNCHANGED leases
        BY DEF BeginEdit, storeVars, tables
      <4> QED
        BY <2>1, <4>1, <4>2 DEF EditNext, EditBy
    <3>5. ~Tick
      BY <2>1 DEF Tick, tables
    <3> QED
      BY <2>1, <3>1, <3>2, <3>3, <3>4, <3>5 DEF Next
  <2> QED
    BY <2>3, <2>4, <2>5, <2>6, <2>7
<1> QED
  BY AlwaysSafe, <1>1, PTL DEF Spec, RenewalNeverRevives

-------------------------------------------------------------------------------
(* Deadlock *)

KeyLocks == {"key"} \X (Principals \X Keys)

(* An acquisition locks its key first, and resources after it. *)
AcquireOrder(t) ==
  /\ held[t] \subseteq KeyLocks \cup ResourceLocks
  /\ acq[t].at \in {"idle", "key"} => held[t] = {}

LocksInOrder ==
  /\ \A t \in Acquirers : AcquireOrder(t)
  /\ \A t \in Changers : ChangeOrder(t)
  /\ \A w \in Workers : SweepOrder(w)
  /\ \A t \in Editors : EditOrder(t)

LEMMA KeyLockTypes ==
  /\ \A p \in Principals, k \in Keys : KeyLock(p, k) \in KeyLocks
  /\ \A k \in KeyLocks, l \in RowLocks : k # l
BY DEF KeyLock, KeyLocks, RowLocks, LeaseLocks, ResourceLocks

LEMMA AcquireInOrder ==
  ASSUME Typed, NEW t \in Acquirers, AcquireBy(t), AcquireOrder(t)
  PROVE  AcquireOrder(t)'
<1>1. /\ held \in [Transactions -> SUBSET Locks] /\ t \in Transactions
      /\ acq \in [Acquirers -> AcquireLocals] /\ acq[t] \in AcquireLocals
      /\ AcquireArgs(t)
  BY AcquirersAssumption DEF Typed, ArgumentsOK, TypeOK, StoreTypeOK, AcquireTypeOK
<1>2. CASE EndAcquire(t)
  BY <1>1, <1>2 DEF EndAcquire, ReleaseAll, IdleAcquire, AcquireOrder
<1>3. ASSUME NEW p, NEW k, NEW q, BeginAcquire(t, p, k, q)
      PROVE  AcquireOrder(t)'
  BY <1>1, <1>3 DEF BeginAcquire, storeVars, AcquireOrder
<1>4. CASE LockKey(t)
  <2>1. /\ acq'[t] = [acq[t] EXCEPT !.at = "existing"]
        /\ held'[t] = held[t] \cup {KeyLock(acq[t].who, acq[t].key)}
        /\ acq[t].who \in Principals /\ acq[t].key \in Keys
    BY <1>1, <1>4 DEF LockKey, Take, AcquireArgs
  <2>2. acq'[t].at = "existing"
    BY <1>1, <2>1 DEF AcquireLocals
  <2> QED
    BY <2>1, <2>2, KeyLockTypes DEF AcquireOrder
<1>5. CASE LockCandidate(t) \/ PassOver(t)
  <2> DEFINE r == Head(acq[t].todo)
  <2>1. r \in Resources /\ acq[t].at = "lock"
    BY <1>1, <1>5 DEF LockCandidate, PassOver, AcquireLocals
  <2>2. held'[t] = held[t] \cup {ResourceLock(r)}
    BY <1>1, <1>5 DEF LockCandidate, PassOver, Take
  <2>3. acq'[t].at \in {"lock", "recheck", "insert"}
    <3>1. CASE LockCandidate(t)
      BY <1>1, <3>1 DEF LockCandidate, AcquireLocals
    <3>2. CASE PassOver(t)
      BY <1>1, <2>1, <3>2 DEF PassOver, AcquireLocals
    <3> QED
      BY <1>5, <3>1, <3>2
  <2> HIDE DEF r
  <2> QED
    BY <2>1, <2>2, <2>3, RowLockTypes DEF AcquireOrder
<1>6. ASSUME UNCHANGED held, acq'[t].at \notin {"idle", "key"}
      PROVE  AcquireOrder(t)'
  BY <1>6 DEF AcquireOrder
<1>7. CASE SelectCandidates(t)
  <2>1. PICK s, g : acq' = [acq EXCEPT ![t] = [@ EXCEPT !.at = "lock", !.todo = s, !.granted = g]]
    BY <1>7 DEF SelectCandidates
  <2>2. acq'[t].at = "lock"
    BY <1>1, <2>1 DEF AcquireLocals
  <2> QED
    BY <1>6, <1>7, <2>2 DEF SelectCandidates, storeVars
<1>8. CASE SkipLocked(t)
  <2>1. acq'[t].at = "lock"
    BY <1>1, <1>8 DEF SkipLocked, AcquireLocals
  <2> QED
    BY <1>6, <1>8, <2>1 DEF SkipLocked, storeVars
<1>9. CASE StillFree(t)
  <2>1. acq'[t].at = "insert"
    BY <1>1, <1>9 DEF StillFree, AcquireLocals
  <2> QED
    BY <1>6, <1>9, <2>1 DEF StillFree, storeVars
<1>10. CASE InsertLease(t)
  <2>1. PICK e : acq' = [acq EXCEPT ![t] =
                   [@ EXCEPT !.at = "commit", !.acquired = clock, !.expires = e]]
    BY <1>10 DEF InsertLease
  <2>2. acq'[t].at = "commit"
    BY <1>1, <2>1 DEF AcquireLocals
  <2> QED
    BY <1>6, <1>10, <2>2 DEF InsertLease, storeVars
<1> QED
  BY <1>2, <1>3, <1>4, <1>5, <1>7, <1>8, <1>9, <1>10
     DEF AcquireBy, AcquireStep, AbortAcquire, AnswerFromExisting, NoneAvailable, StillActive,
         CommitAcquire

LEMMA AcquireAlone ==
  ASSUME Typed, NEW t \in Acquirers, AcquireBy(t)
  PROVE  /\ \A u \in Acquirers \ {t} : acq'[u] = acq[u]
         /\ \A u \in Transactions \ {t} : held'[u] = held[u]
<1>1. /\ held \in [Transactions -> SUBSET Locks] /\ t \in Transactions
      /\ acq \in [Acquirers -> AcquireLocals]
  BY AcquirersAssumption DEF Typed, TypeOK, StoreTypeOK, AcquireTypeOK
<1>2. \A u \in Acquirers \ {t} : acq'[u] = acq[u]
  BY <1>1 DEF AcquireBy, BeginAcquire, AcquireStep, LockKey, AnswerFromExisting,
              SelectCandidates, SkipLocked, LockCandidate, PassOver, NoneAvailable,
              StillActive, StillFree, InsertLease, CommitAcquire, AbortAcquire, EndAcquire
<1>3. (\E lock : Take(t, lock)) \/ ReleaseAll(t) \/ UNCHANGED held
  BY DEF AcquireBy, BeginAcquire, AcquireStep, LockKey, AnswerFromExisting,
         SelectCandidates, SkipLocked, LockCandidate, PassOver, NoneAvailable,
         StillActive, StillFree, InsertLease, CommitAcquire, AbortAcquire, EndAcquire,
         storeVars
<1>4. \A u \in Transactions \ {t} : held'[u] = held[u]
  BY <1>1, <1>3 DEF Take, ReleaseAll
<1> QED
  BY <1>2, <1>4

LEMMA InitInOrder == Init => LocksInOrder
BY TransactionsAssumption
   DEF Init, LocksInOrder, AcquireOrder, ChangeOrder, SweepOrder, EditOrder

(* A step moves one transaction, and the locks of that one alone. *)
LEMMA NextInOrder == Typed /\ LocksInOrder /\ [Next]_vars => LocksInOrder'
<1> SUFFICES ASSUME Typed, LocksInOrder, [Next]_vars PROVE LocksInOrder'
  OBVIOUS
<1>1. /\ StoreTypeOK /\ ChangesTyped /\ SweepsTyped /\ EditsTyped
      /\ ChangeTypeOK /\ EditTypeOK
  BY DEF Typed, TypeOK, ArgumentsOK, ChangesTyped, SweepsTyped, EditsTyped
<1>2. /\ \A t \in Acquirers : held'[t] = held[t] /\ acq'[t] = acq[t] => AcquireOrder(t)'
      /\ \A t \in Changers : held'[t] = held[t] /\ chg'[t] = chg[t] => ChangeOrder(t)'
      /\ \A w \in Workers : held'[w] = held[w] => SweepOrder(w)'
      /\ \A t \in Editors : held'[t] = held[t] /\ adm'[t] = adm[t] => EditOrder(t)'
  BY DEF LocksInOrder, AcquireOrder, ChangeOrder, SweepOrder, EditOrder, ResourceLocks, RowLocks
<1>3. CASE \/ Tick /\ UNCHANGED <<acq, chg, swp, adm>>
           \/ UNCHANGED vars
  BY <1>2, <1>3 DEF Tick, vars, LocksInOrder
<1>4. CASE AcquireNext /\ UNCHANGED <<chg, swp, adm>>
  <2>1. PICK t \in Acquirers : AcquireBy(t)
    BY <1>4 DEF AcquireNext
  <2>2. AcquireOrder(t)'
    BY <2>1, AcquireInOrder DEF LocksInOrder
  <2> QED
    BY <1>2, <1>4, <2>1, <2>2, AcquireAlone, TransactionsAssumption DEF LocksInOrder
<1>5. CASE ChangeNext /\ UNCHANGED <<acq, swp, adm>>
  <2>1. PICK t \in Changers : ChangeBy(t)
    BY <1>5 DEF ChangeNext
  <2>2. ChangeOrder(t)'
    BY <1>1, <2>1, ChangeInOrder DEF LocksInOrder
  <2> QED
    BY <1>1, <1>2, <1>5, <2>1, <2>2, ChangeAlone, TransactionsAssumption DEF LocksInOrder
<1>6. CASE SweepNext /\ UNCHANGED <<acq, chg, adm>>
  <2>1. PICK w \in Workers : SweepBy(w)
    BY <1>6 DEF SweepNext
  <2>2. SweepOrder(w)' /\ \A u \in Transactions \ {w} : held'[u] = held[u]
    BY <1>1, <2>1, SweepInOrder DEF LocksInOrder
  <2> QED
    BY <1>2, <1>6, <2>2, TransactionsAssumption DEF LocksInOrder
<1>7. CASE EditNext /\ UNCHANGED <<acq, chg, swp>>
  <2>1. PICK t \in Editors : EditBy(t)
    BY <1>7 DEF EditNext
  <2>2. EditOrder(t)'
    BY <1>1, <2>1, EditInOrder DEF LocksInOrder
  <2> QED
    BY <1>1, <1>2, <1>7, <2>1, <2>2, EditAlone, TransactionsAssumption DEF LocksInOrder
<1> QED
  BY <1>3, <1>4, <1>5, <1>6, <1>7 DEF Next

(* What a transaction that waits for a lock holds meanwhile. *)
LEMMA WaitingHolds ==
  ASSUME Typed, LocksInOrder, \A q \in Requests : q.mode = "Exclusive",
         NEW t \in Transactions, WaitsFor(t) # {}
  PROVE  \/ t \in Acquirers /\ WaitsFor(t) \subseteq KeyLocks /\ held[t] = {}
         \/ t \in Changers /\ WaitsFor(t) \subseteq LeaseLocks /\ held[t] = {}
         \/ t \in Changers /\ WaitsFor(t) \subseteq ResourceLocks /\ held[t] \subseteq LeaseLocks
         \/ t \in Workers /\ WaitsFor(t) \subseteq ResourceLocks /\ held[t] \subseteq RowLocks
         \/ t \in Editors /\ WaitsFor(t) \subseteq ResourceLocks /\ held[t] = {}
<1>1. /\ StoreTypeOK /\ ChangeTypeOK /\ SweepTypeOK
      /\ \A u \in Acquirers : AcquireArgs(u)
      /\ \A u \in Changers : ChangeArgs(u)
      /\ \A w \in Workers : SweepArgs(w)
      /\ \A u \in Editors : EditArgs(u)
  BY DEF Typed, TypeOK, ArgumentsOK
<1>2. CASE t \in Acquirers
  <2>1. WaitsFor(t) = AcquireWaitsFor(t)
    BY <1>2, TransactionsAssumption DEF WaitsFor
  <2>2. acq[t].at = "key" /\ WaitsFor(t) = {KeyLock(acq[t].who, acq[t].key)}
    BY <1>1, <1>2, <2>1 DEF AcquireWaitsFor, AcquireArgs
  <2>3. acq[t].who \in Principals /\ acq[t].key \in Keys
    BY <1>1, <1>2, <2>2 DEF AcquireArgs
  <2> QED
    BY <1>2, <2>2, <2>3, KeyLockTypes DEF LocksInOrder, AcquireOrder
<1>3. CASE t \in Changers
  <2>1. WaitsFor(t) = ChangeWaitsFor(t)
    BY <1>3, TransactionsAssumption DEF WaitsFor
  <2>2. /\ chg[t].at \in {"lease", "resource"} /\ WaitsFor(t) = {ChangeLock(t)}
        /\ ChangeOrder(t) /\ chg[t].lease \in DOMAIN leases /\ chg[t].lease \in Nat
    BY <1>1, <1>3, <2>1 DEF ChangeWaitsFor, LocksInOrder, ChangeArgs, ChangeTypeOK, ChangeLocals
  <2>3. CASE chg[t].at = "lease"
    BY <1>3, <2>2, <2>3, RowLockTypes DEF ChangeLock, ChangeOrder
  <2>4. CASE chg[t].at = "resource"
    <3>1. leases[chg[t].lease].resource \in Resources
      BY <1>1, <2>2, LeaseTyped DEF LeaseRow
    <3> QED
      BY <1>3, <2>2, <2>4, <3>1, RowLockTypes DEF ChangeLock, ChangeOrder
  <2> QED
    BY <2>2, <2>3, <2>4
<1>4. CASE t \in Workers
  <2>1. WaitsFor(t) = SweepWaitsFor(t)
    BY <1>4, TransactionsAssumption DEF WaitsFor
  <2>2. /\ swp[t].todo # <<>> /\ swp[t].todo \in Seq(Nat)
        /\ WaitsFor(t) = {ResourceLock(leases[Head(swp[t].todo)].resource)}
    BY <1>1, <1>4, <2>1 DEF SweepWaitsFor, SweepTypeOK, SweepLocals
  <2>3. Head(swp[t].todo) \in DOMAIN leases
    BY <1>1, <1>4, <2>2 DEF SweepArgs
  <2>4. leases[Head(swp[t].todo)].resource \in Resources
    BY <1>1, <2>3, LeaseTyped DEF LeaseRow
  <2> QED
    BY <1>4, <2>2, <2>4, RowLockTypes DEF LocksInOrder, SweepOrder
<1>5. CASE t \in Editors
  <2>1. WaitsFor(t) = EditWaitsFor(t)
    BY <1>5, TransactionsAssumption DEF WaitsFor
  <2>2. adm[t].at = "lock" /\ WaitsFor(t) = {ResourceLock(adm[t].resource)}
    BY <2>1 DEF EditWaitsFor
  <2>3. adm[t].resource \in Resources
    BY <1>1, <1>5, <2>2 DEF EditArgs
  <2> QED
    BY <1>5, <2>2, <2>3, RowLockTypes DEF LocksInOrder, EditOrder
<1> QED
  BY <1>2, <1>3, <1>4, <1>5, TransactionsAssumption

(* While every request is exclusive and there is one worker, transactions  *)
(* wait in no circle.  In a circle no transaction holds a key, since only  *)
(* acquisitions hold keys and they wait with empty hands; so none waits    *)
(* for one.  Only the worker could hold a resource, and it does not wait   *)
(* for itself; so nobody waits for a resource, and the changes that are    *)
(* left wait for leases and hold nothing (_lock_lease_for_change,          *)
(* expire_due_leases, SKIP LOCKED).                                        *)
THEOREM NoDeadlock ==
  ASSUME \A q \in Requests : q.mode = "Exclusive",
         \A v, w \in Workers : v = w
  PROVE  Spec => []NoLockCycle
<1>1. Typed /\ LocksInOrder => NoLockCycle
  <2> SUFFICES ASSUME Typed, LocksInOrder, NEW S \in SUBSET Transactions,
                      \A t \in S : \E u \in S \ {t} : WaitsFor(t) \cap held[u] # {}
               PROVE  S = {}
    BY DEF NoLockCycle
  <2> DEFINE Stuck(t) ==
        \/ t \in Acquirers /\ WaitsFor(t) \subseteq KeyLocks /\ held[t] = {}
        \/ t \in Changers /\ WaitsFor(t) \subseteq LeaseLocks /\ held[t] = {}
        \/ t \in Changers /\ WaitsFor(t) \subseteq ResourceLocks /\ held[t] \subseteq LeaseLocks
        \/ t \in Workers /\ WaitsFor(t) \subseteq ResourceLocks /\ held[t] \subseteq RowLocks
        \/ t \in Editors /\ WaitsFor(t) \subseteq ResourceLocks /\ held[t] = {}
  <2>1. ASSUME NEW t \in S PROVE Stuck(t)
    <3>1. WaitsFor(t) # {} /\ t \in Transactions
      OBVIOUS
    <3> QED
      BY <3>1, WaitingHolds
  <2>2. \A k \in KeyLocks, l \in RowLocks : k # l
    BY KeyLockTypes
  <2>3. \A l \in LeaseLocks, r \in ResourceLocks : l # r
    BY RowLockTypes
  <2>4. \A t \in S : t \notin Acquirers
    <3> SUFFICES ASSUME NEW t \in S, t \in Acquirers PROVE FALSE
      OBVIOUS
    <3>1. WaitsFor(t) \subseteq KeyLocks
      BY <2>1, TransactionsAssumption
    <3>2. PICK u \in S : WaitsFor(t) \cap held[u] # {}
      OBVIOUS
    <3>3. held[u] \subseteq RowLocks
      BY <2>1 DEF RowLocks
    <3> QED
      BY <2>2, <3>1, <3>2, <3>3
  <2>5. \A t \in S : t \notin Workers
    <3> SUFFICES ASSUME NEW t \in S, t \in Workers PROVE FALSE
      OBVIOUS
    <3>1. WaitsFor(t) \subseteq ResourceLocks
      BY <2>1, TransactionsAssumption
    <3>2. PICK u \in S \ {t} : WaitsFor(t) \cap held[u] # {}
      OBVIOUS
    <3>3. held[u] \subseteq LeaseLocks
      BY <2>1
    <3> QED
      BY <2>3, <3>1, <3>2, <3>3
  <2>6. \A t \in S : held[t] \subseteq LeaseLocks
    BY <2>1, <2>5
  <2>7. \A t \in S : ~(WaitsFor(t) \subseteq ResourceLocks)
    <3> SUFFICES ASSUME NEW t \in S, WaitsFor(t) \subseteq ResourceLocks PROVE FALSE
      OBVIOUS
    <3>1. PICK u \in S : WaitsFor(t) \cap held[u] # {}
      OBVIOUS
    <3> QED
      BY <2>3, <2>6, <3>1
  <2>8. \A t \in S : held[t] = {}
    BY <2>1, <2>4, <2>7
  <2> QED
    BY <2>8
<1> QED
  BY AlwaysTyped, InitInOrder, NextInOrder, <1>1, PTL DEF Spec
===============================================================================
