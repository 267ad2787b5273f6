--------------------------- MODULE DisclosureProofs ---------------------------
(***************************************************************************)
(* Theorems about Disclosure, for any number of resources, leases, secrets *)
(* and keys, and of requests about them.                                   *)
(*                                                                         *)
(* As in SafetyProofs the argument is one of rely and guarantee: a step    *)
(* changes a lease, a resource, the access to it or a secret only under    *)
(* locks that its transaction holds or that nobody holds (Guarantee), so   *)
(* what a request about secrets has established under its own locks        *)
(* (Knows) lasts until it answers.  With one worker the rows are locked in *)
(* an order, and nobody waits in a cycle.                                  *)
(***************************************************************************)
EXTENDS Disclosure, HandlerProofs

Typed == /\ StoreTypeOK /\ ChangesTyped /\ SweepsTyped /\ EditsTyped
         /\ GroupTypeOK /\ SecretTypeOK

LocksExclude ==
  \A t, u \in Transactions : t # u => held[t] \cap held[u] = {}

(* What the other handlers have locked when they are about to write. *)
ChangeHolds(t) ==
  chg[t].at \in {"resource", "check", "policy", "renew", "end"} =>
    LeaseLock(chg[t].lease) \in held[t]

SweepHolds(w) ==
  /\ \A n \in DOMAIN swp[w].todo : LeaseLock(swp[w].todo[n]) \in held[w]
  /\ \A i \in swp[w].expired : LeaseLock(i) \in held[w]

EditHolds(t) ==
  adm[t].at = "apply" => ResourceLock(adm[t].resource) \in held[t]

HandlersHold == /\ \A t \in Changers : ChangeHolds(t)
                /\ \A w \in Workers : SweepHolds(w)
                /\ \A t \in Editors : EditHolds(t)

(* The lease that a request h with the local variables c acts for. *)
OwnsLease(h, c) ==
  /\ LeaseLock(c.lease) \in held[h]
  /\ leases[c.lease].ended = NULL
  /\ leases[c.lease].resource = c.resource
  /\ c.who \notin Admins => leases[c.lease].owner = c.who

SeesResource(c) == \/ resources[c.resource].config.visibility = "Public"
                   \/ <<c.who, c.resource>> \in grants
                   \/ \E g \in c.via : c.resource \in groups[g].resources

(* A row that the request has locked, and that is not archived. *)
OpenResource(h, c) == /\ ResourceLock(c.resource) \in held[h]
                      /\ ~resources[c.resource].archived

(* What a request knows at each position. *)
Knows(h, c) ==
  /\ c \in ReaderLocals
  /\ c.at # "idle" => c.who \in Principals
  /\ c.op = "create" => c.body \in {"Managed", "External"}
  /\ c.at # "idle" /\ c.lease # 0 => c.lease \in DOMAIN leases /\ c.op \in {"list", "access"}
  /\ c.at \in {"lease", "visible"} => c.lease # 0
  /\ c.at \in {"resource", "visible", "secret", "write", "revise"} =>
       c.resource \in Resources /\ (c.lease # 0 => OwnsLease(h, c))
  /\ c.at = "visible" => ResourceLock(c.resource) \in held[h]
  /\ c.at \in {"secret", "write", "revise"} =>
       /\ c.op \in {"create", "update"} => OpenResource(h, c)
       /\ c.lease # 0 /\ c.who \notin Admins => OpenResource(h, c) /\ SeesResource(c)
  /\ c.at \in {"write", "revise"} /\ c.op # "create" =>
       SecretLock(c.secret) \in held[h] /\ Stored(c.secret, c.resource)
  /\ c.at = "revise" =>
       c.op = "update" /\ c.body # NULL /\ c.base = secrets[c.secret].version
  /\ c.at = "answer" => Event("resource_secret.accessed", c.secret, c.who) \in DOMAIN audit

Guarded == /\ Typed /\ LocksExclude /\ HandlersHold
           /\ \A h \in Readers : Knows(h, sec[h])

(* What a step under the locks H does to the tables. *)
Guarantee(H) ==
  /\ DOMAIN audit \subseteq DOMAIN audit'
  /\ DOMAIN leases \subseteq DOMAIN leases'
  /\ \A i \in DOMAIN leases :
       /\ leases'[i].resource = leases[i].resource
       /\ leases'[i].owner = leases[i].owner
       /\ leases'[i] = leases[i] \/ LeaseLock(i) \in H
  /\ \A r \in Resources :
       \/ ResourceLock(r) \in H
       \/ /\ resources'[r] = resources[r]
          /\ \A p \in Principals : <<p, r>> \in grants => <<p, r>> \in grants'
          /\ \A g \in GroupIds : r \in groups[g].resources => r \in groups'[g].resources
  /\ DOMAIN secrets \subseteq DOMAIN secrets'
  /\ \A i \in DOMAIN secrets : secrets'[i] = secrets[i] \/ SecretLock(i) \in H

-------------------------------------------------------------------------------
(* Locks, and what survives the steps of others *)

(* The locks after a step. *)
LEMMA LocksStep ==
  ASSUME StoreTypeOK, LocksExclude, NEW u \in Transactions,
         (\E lock : Take(u, lock)) \/ ReleaseAll(u) \/ UNCHANGED held
  PROVE  LocksExclude' /\ \A t \in Transactions \ {u} : held'[t] = held[t]
BY DEF StoreTypeOK, LocksExclude, Take, Free, ReleaseAll

(* A step that writes no events, or those of a set. *)
Recording == audit' = audit \/ \E E : audit' = Recorded(E)

(* No record is lost when others are made. *)
LEMMA RecordingGrows == Recording => DOMAIN audit \subseteq DOMAIN audit'
BY DEF Recording, Recorded

(* The events of a step are typed. *)
LEMMA RecordingTyped ==
  ASSUME StoreTypeOK, Recording
  PROVE  \A e \in DOMAIN audit' : audit'[e] \in Nat \ {0}
BY RecordedTyped DEF Recording

(* A transaction that takes or releases locks leaves them typed. *)
LEMMA HeldTyped ==
  ASSUME StoreTypeOK, NEW u \in Transactions,
         (\E lock \in Locks : Take(u, lock)) \/ ReleaseAll(u) \/ UNCHANGED held
  PROVE  held' \in [Transactions -> SUBSET Locks]
BY DEF StoreTypeOK, Take, ReleaseAll

(* What a request knows lasts while others hold no lock of its own. *)
LEMMA KnowsStays ==
  ASSUME NEW h, NEW c, Knows(h, c), NEW H, Guarantee(H),
         held'[h] = held[h], held[h] \cap H = {}
  PROVE  Knows(h, c)'
<1>1. c.at \in {"resource", "visible", "secret", "write", "revise"} /\ c.lease # 0 => OwnsLease(h, c)'
  <2>1. SUFFICES ASSUME c.at \in {"resource", "visible", "secret", "write", "revise"}, c.lease # 0
                 PROVE  OwnsLease(h, c)'
    OBVIOUS
  <2>2. c.lease \in DOMAIN leases /\ OwnsLease(h, c)
    BY <2>1 DEF Knows
  <2>3. leases'[c.lease] = leases[c.lease]
    BY <2>2 DEF OwnsLease, Guarantee
  <2> QED
    BY <2>2, <2>3 DEF OwnsLease
<1>2. ASSUME c.at \in {"secret", "write", "revise"}, OpenResource(h, c)
      PROVE  /\ OpenResource(h, c)'
             /\ c.who \in Principals /\ SeesResource(c) => SeesResource(c)'
  <2>1. c.resource \in Resources /\ ResourceLock(c.resource) \notin H
    BY <1>2 DEF Knows, OpenResource
  <2>2. /\ resources'[c.resource] = resources[c.resource]
        /\ \A p \in Principals : <<p, c.resource>> \in grants => <<p, c.resource>> \in grants'
        /\ \A g \in GroupIds : c.resource \in groups[g].resources =>
                                 c.resource \in groups'[g].resources
    BY <2>1 DEF Guarantee
  <2>3. c.via \subseteq GroupIds
    BY DEF Knows, ReaderLocals
  <2> QED
    BY <1>2, <2>2, <2>3 DEF OpenResource, SeesResource
<1>3. c.at \in {"secret", "write", "revise"} =>
        /\ c.op \in {"create", "update"} => OpenResource(h, c)'
        /\ c.lease # 0 /\ c.who \notin Admins => OpenResource(h, c)' /\ SeesResource(c)'
  BY <1>2 DEF Knows
<1>4. c.at \in {"write", "revise"} /\ c.op # "create" =>
        /\ SecretLock(c.secret) \in held'[h] /\ Stored(c.secret, c.resource)'
        /\ secrets'[c.secret] = secrets[c.secret]
  <2>1. SUFFICES ASSUME c.at \in {"write", "revise"}, c.op # "create"
                 PROVE  /\ SecretLock(c.secret) \in held'[h] /\ Stored(c.secret, c.resource)'
                        /\ secrets'[c.secret] = secrets[c.secret]
    OBVIOUS
  <2>2. SecretLock(c.secret) \in held[h] /\ Stored(c.secret, c.resource)
    BY <2>1 DEF Knows
  <2>3. secrets'[c.secret] = secrets[c.secret] /\ c.secret \in DOMAIN secrets'
    BY <2>2 DEF Guarantee, Stored
  <2> QED
    BY <2>2, <2>3 DEF Stored
<1>5. /\ c.at # "idle" /\ c.lease # 0 => c.lease \in DOMAIN leases' /\ c.op \in {"list", "access"}
      /\ c.at = "answer" => Event("resource_secret.accessed", c.secret, c.who) \in DOMAIN audit'
  BY DEF Knows, Guarantee
<1>6. c.at = "revise" =>
        c.op = "update" /\ c.body # NULL /\ c.base = secrets'[c.secret].version
  <2>1. c.at = "revise" =>
          c.op = "update" /\ c.body # NULL /\ c.base = secrets[c.secret].version
    BY DEF Knows
  <2> QED
    BY <1>4, <2>1
<1> QED
  BY <1>1, <1>3, <1>4, <1>5, <1>6 DEF Knows

(* A step that writes no row. *)
LEMMA NoWriteGuarantee ==
  ASSUME UNCHANGED <<tables, groups, secrets>>, NEW H
  PROVE  Guarantee(H)
BY DEF Guarantee, tables

-------------------------------------------------------------------------------
(* Lease changes *)

LEMMA ChangeEffect ==
  ASSUME Guarded, NEW u \in Changers, ChangeBy(u), UNCHANGED <<groups, secrets>>
  PROVE  /\ Guarantee(held[u])
         /\ (\E lock : Take(u, lock)) \/ ReleaseAll(u) \/ UNCHANGED held
         /\ \A t \in Changers \ {u} : chg'[t] = chg[t]
         /\ ChangeHolds(u)'
<1> DEFINE c == chg[u]
<1>1. /\ chg \in [Changers -> ChangeLocals] /\ ChangeHolds(u) /\ ChangeArgs(u)
      /\ leases \in Seq(LeaseRow) /\ u \in Transactions
      /\ held \in [Transactions -> SUBSET Locks]
  BY ChangersAssumption DEF Guarded, Typed, ChangesTyped, ChangeTypeOK, StoreTypeOK, HandlersHold
<1>2. c \in ChangeLocals
  BY <1>1
<1>3. (\E lock : Take(u, lock)) \/ ReleaseAll(u) \/ UNCHANGED held
  BY DEF ChangeBy, BeginChange, ChangeStep, NotFound, LockLease, LockLeasedResource,
         RefuseInactive, FindActive, RefuseTtl, ComputeRenewal, CommitRenewal, AlreadyEnded,
         CommitEnd, AbortChange, EndChange, storeVars
<1>4. \A t \in Changers \ {u} : chg'[t] = chg[t]
  BY <1>1 DEF ChangeBy, BeginChange, ChangeStep, NotFound, LockLease, LockLeasedResource,
              RefuseInactive, FindActive, RefuseTtl, ComputeRenewal, CommitRenewal,
              AlreadyEnded, CommitEnd, AbortChange, EndChange
<1>5. CASE CommitRenewal(u) \/ CommitEnd(u)
  <2>1. /\ c.at \in {"renew", "end"} /\ DOMAIN audit \subseteq DOMAIN audit' /\ EndChange(u)
        /\ UNCHANGED <<resources, grants>>
        /\ \/ leases' = [leases EXCEPT ![c.lease] = [@ EXCEPT !.expires = c.expires,
                                                              !.renewed = c.renewed]]
           \/ leases' = [leases EXCEPT ![c.lease] = [@ EXCEPT !.ended = c.now,
                                                              !.reason = c.op]]
    BY <1>5, RecordingGrows DEF Recording, CommitRenewal, CommitEnd
  <2>2. c.lease \in DOMAIN leases /\ LeaseLock(c.lease) \in held[u]
    BY <1>1, <2>1 DEF ChangeArgs, ChangeHolds
  <2>3. leases[c.lease] \in LeaseRow
    BY <1>1, <2>2
  <2>4. /\ DOMAIN leases' = DOMAIN leases
        /\ \A i \in DOMAIN leases : i # c.lease => leases'[i] = leases[i]
        /\ leases'[c.lease].resource = leases[c.lease].resource
        /\ leases'[c.lease].owner = leases[c.lease].owner
    <3>1. PICK row : /\ leases' = [leases EXCEPT ![c.lease] = row]
                     /\ \/ row = [leases[c.lease] EXCEPT !.expires = c.expires,
                                                         !.renewed = c.renewed]
                        \/ row = [leases[c.lease] EXCEPT !.ended = c.now, !.reason = c.op]
      BY <2>1
    <3>2. row.resource = leases[c.lease].resource /\ row.owner = leases[c.lease].owner
      BY <2>3, <3>1 DEF LeaseRow
    <3>3. DOMAIN leases' = DOMAIN leases /\ leases'[c.lease] = row
      BY <1>1, <2>2, <3>1
    <3> QED
      BY <1>1, <3>1, <3>2, <3>3
  <2> HIDE DEF c
  <2>5. Guarantee(held[u])
    BY <2>1, <2>2, <2>4 DEF Guarantee
  <2>6. ChangeHolds(u)'
    BY <1>1, <2>1 DEF EndChange, IdleChange, ChangeHolds
  <2> QED
    BY <1>3, <1>4, <2>5, <2>6
<1>6. CASE UNCHANGED <<clock, tables>>
  <2>1. Guarantee(held[u])
    BY <1>6, NoWriteGuarantee DEF tables
  <2>2. CASE EndChange(u)
    BY <1>1, <1>3, <1>4, <2>1, <2>2 DEF EndChange, IdleChange, ChangeHolds
  <2>3. ASSUME NEW op, NEW p, NEW i, NEW ttl, BeginChange(u, op, p, i, ttl)
        PROVE  ChangeHolds(u)'
    BY <1>1, <2>3 DEF BeginChange, IdleChange, ChangeHolds
  <2>4. CASE LockLease(u)
    <3>1. chg' = [chg EXCEPT ![u] = [c EXCEPT !.at = "resource"]] /\ c.at = "lease"
      BY <2>4 DEF LockLease
    <3>2. chg'[u].lease = c.lease
      BY <1>1, <1>2, <3>1 DEF ChangeLocals
    <3>3. held'[u] = held[u] \cup {LeaseLock(c.lease)}
      BY <1>1, <2>4, <3>1 DEF LockLease, ChangeLock, Take
    <3> QED
      BY <1>3, <1>4, <2>1, <3>2, <3>3 DEF ChangeHolds
  <2>5. ASSUME LockLeasedResource(u) \/ FindActive(u) \/ ComputeRenewal(u)
        PROVE  ChangeHolds(u)'
    <3>1. c.at \in {"resource", "check", "policy"} /\ held[u] \subseteq held'[u]
      BY <1>1, <2>5 DEF LockLeasedResource, FindActive, ComputeRenewal, Take, storeVars
    <3>2. CASE \E at : chg' = [chg EXCEPT ![u].at = at]
      BY <1>1, <1>2, <3>1, <3>2 DEF ChangeLocals, ChangeHolds
    <3>3. CASE ComputeRenewal(u)
      <4>1. PICK e : chg' = [chg EXCEPT ![u] = [@ EXCEPT !.at = "renew", !.renewed = clock,
                                                         !.expires = e]]
        BY <3>3 DEF ComputeRenewal
      <4> QED
        BY <1>1, <1>2, <3>1, <4>1 DEF ChangeLocals, ChangeHolds
    <3> QED
      BY <2>5, <3>2, <3>3 DEF LockLeasedResource, FindActive
  <2> QED
    BY <1>3, <1>4, <1>5, <2>1, <2>2, <2>3, <2>4, <2>5
       DEF ChangeBy, ChangeStep, NotFound, RefuseInactive, RefuseTtl, AlreadyEnded, AbortChange
<1> QED
  BY <1>5, <1>6
     DEF ChangeBy, BeginChange, ChangeStep, NotFound, LockLease, LockLeasedResource,
         RefuseInactive, FindActive, RefuseTtl, ComputeRenewal, AlreadyEnded, AbortChange,
         storeVars

-------------------------------------------------------------------------------
(* The expiration worker *)

LEMMA SweepEffect ==
  ASSUME Guarded, NEW u \in Workers, SweepBy(u), UNCHANGED <<groups, secrets>>
  PROVE  /\ Guarantee(held[u])
         /\ LocksExclude' /\ \A t \in Transactions \ {u} : held'[t] = held[t]
         /\ \A w \in Workers \ {u} : swp'[w] = swp[w]
         /\ SweepHolds(u)'
<1> DEFINE c == swp[u]
<1>1. /\ swp \in [Workers -> SweepLocals] /\ SweepHolds(u) /\ SweepArgs(u)
      /\ leases \in Seq(LeaseRow) /\ u \in Transactions /\ StoreTypeOK /\ LocksExclude
      /\ held \in [Transactions -> SUBSET Locks]
  BY WorkersAssumption DEF Guarded, Typed, SweepsTyped, SweepTypeOK, StoreTypeOK, HandlersHold
<1>2. c \in SweepLocals
  BY <1>1
<1>3. \A w \in Workers \ {u} : swp'[w] = swp[w]
  BY <1>1 DEF SweepBy, SweepStep, BeginSweep, LockBatch, ExpireNext, CommitSweep, CrashSweep,
              EndSweep
<1>4. CASE CommitSweep(u)
  <2>1. /\ DOMAIN audit \subseteq DOMAIN audit' /\ EndSweep(u) /\ UNCHANGED <<resources, grants>>
        /\ DOMAIN leases' = DOMAIN leases
        /\ \A i \in DOMAIN leases : i \notin c.expired => leases'[i] = leases[i]
        /\ \A i \in c.expired : LeaseLock(i) \in held[u]
    BY <1>1, <1>4, RecordingGrows DEF Recording, CommitSweep, SweepHolds
  <2>2. ASSUME NEW i \in DOMAIN leases
        PROVE  leases'[i].resource = leases[i].resource /\ leases'[i].owner = leases[i].owner
    <3>1. leases[i] \in LeaseRow
      BY <1>1
    <3> QED
      BY <1>4, <3>1 DEF CommitSweep, LeaseRow
  <2> HIDE DEF c
  <2>3. Guarantee(held[u])
    BY <2>1, <2>2 DEF Guarantee
  <2>4. SweepHolds(u)'
    BY <1>1, <2>1 DEF EndSweep, IdleSweep, SweepHolds
  <2>5. LocksExclude' /\ \A t \in Transactions \ {u} : held'[t] = held[t]
    BY <1>1, <2>1, LocksStep DEF EndSweep
  <2> QED
    BY <1>3, <2>3, <2>4, <2>5
<1>5. CASE EndSweep(u) /\ UNCHANGED <<clock, tables>>
  <2>1. SweepHolds(u)'
    BY <1>1, <1>5 DEF EndSweep, IdleSweep, SweepHolds
  <2>2. LocksExclude' /\ \A t \in Transactions \ {u} : held'[t] = held[t]
    BY <1>1, <1>5, LocksStep DEF EndSweep
  <2> QED
    BY <1>3, <1>5, <2>1, <2>2, NoWriteGuarantee DEF tables
<1>6. CASE BeginSweep(u)
  <2>1. UNCHANGED <<held, tables>>
    BY <1>6 DEF BeginSweep, storeVars
  <2>2. SweepHolds(u)'
    BY <1>1, <1>6 DEF BeginSweep, IdleSweep, SweepHolds
  <2> QED
    BY <1>1, <1>3, <2>1, <2>2, LocksStep, NoWriteGuarantee DEF tables
<1>7. CASE LockBatch(u)
  <2>1. PICK s \in Batches(u) :
          /\ swp' = [swp EXCEPT ![u] = [@ EXCEPT !.at = "expire", !.todo = s]]
          /\ held' = [held EXCEPT ![u] = @ \cup {LeaseLock(s[n]) : n \in DOMAIN s}]
    BY <1>7 DEF LockBatch
  <2>2. \A n \in DOMAIN s : Free(u, LeaseLock(s[n]))
    BY <1>1, <2>1, BatchesType DEF Lockable
  <2>3. LocksExclude' /\ \A t \in Transactions \ {u} : held'[t] = held[t]
    BY <1>1, <2>1, <2>2 DEF LocksExclude, Free
  <2>4. swp'[u].todo = s /\ swp'[u].expired = c.expired
    BY <1>1, <1>2, <2>1 DEF SweepLocals
  <2>5. SweepHolds(u)'
    BY <1>1, <2>1, <2>4 DEF SweepHolds
  <2>6. UNCHANGED tables
    BY <1>7 DEF LockBatch
  <2> QED
    BY <1>3, <2>3, <2>5, <2>6, NoWriteGuarantee DEF tables
<1>8. CASE ExpireNext(u)
  <2> DEFINE rest == Tail(c.todo)
  <2>1. /\ c.todo # <<>> /\ c.todo \in Seq(Nat) /\ UNCHANGED tables
        /\ (\E lock : Take(u, lock)) /\ held[u] \subseteq held'[u]
    BY <1>1, <1>2, <1>8 DEF ExpireNext, SweepLocals, Take
  <2>2. \A n \in DOMAIN rest : n + 1 \in DOMAIN c.todo /\ rest[n] = c.todo[n + 1]
    BY <2>1
  <2>3. 1 \in DOMAIN c.todo /\ Head(c.todo) = c.todo[1]
    BY <2>1
  <2>4. /\ swp'[u].todo = rest
        /\ swp'[u].expired \subseteq c.expired \cup {Head(c.todo)}
    BY <1>1, <1>2, <1>8 DEF ExpireNext, SweepLocals
  <2> HIDE DEF c, rest
  <2>5. SweepHolds(u)'
    BY <1>1, <2>1, <2>2, <2>3, <2>4 DEF SweepHolds, c
  <2> QED
    BY <1>1, <1>3, <2>1, <2>5, LocksStep, NoWriteGuarantee DEF tables
<1> QED
  BY <1>4, <1>5, <1>6, <1>7, <1>8 DEF SweepBy, SweepStep, CrashSweep

-------------------------------------------------------------------------------
(* Resource edits *)

LEMMA EditEffect ==
  ASSUME Guarded, NEW u \in Editors, EditBy(u), UNCHANGED <<groups, secrets>>
  PROVE  /\ Guarantee(held[u])
         /\ (\E lock : Take(u, lock)) \/ ReleaseAll(u) \/ UNCHANGED held
         /\ \A t \in Editors \ {u} : adm'[t] = adm[t]
         /\ EditHolds(u)'
<1> DEFINE r == adm[u].resource
<1>1. /\ adm \in [Editors -> EditLocals] /\ EditHolds(u) /\ EditArgs(u)
      /\ resources \in [Resources -> ResourceRow] /\ u \in Transactions
      /\ held \in [Transactions -> SUBSET Locks]
  BY EditorsAssumption DEF Guarded, Typed, EditsTyped, EditTypeOK, StoreTypeOK, HandlersHold
<1>2. adm[u] \in EditLocals
  BY <1>1
<1>3. (\E lock : Take(u, lock)) \/ ReleaseAll(u) \/ UNCHANGED held
  BY DEF EditBy, BeginEdit, EditStep, LockEdited, FindArchived, RefuseUpdate, UpdateResource,
         RefuseArchive, ArchiveResource, RefuseTransition, TransitionResource, SetGrant,
         AbortEdit, EndEdit, storeVars
<1>4. \A t \in Editors \ {u} : adm'[t] = adm[t]
  BY <1>1 DEF EditBy, BeginEdit, EditStep, LockEdited, FindArchived, RefuseUpdate,
              UpdateResource, RefuseArchive, ArchiveResource, RefuseTransition,
              TransitionResource, SetGrant, AbortEdit, EndEdit
<1>5. CASE UpdateResource(u) \/ ArchiveResource(u) \/ TransitionResource(u)
  <2>1. PICK row : /\ resources' = [resources EXCEPT ![r] = row]
                   /\ adm[u].at = "apply" /\ DOMAIN audit \subseteq DOMAIN audit' /\ EndEdit(u)
                   /\ UNCHANGED <<grants, leases>>
    BY <1>5, RecordingGrows DEF Recording, UpdateResource, ArchiveResource, TransitionResource, Applies
  <2>2. Guarantee(held[u])
    BY <1>1, <2>1 DEF Guarantee, EditHolds
  <2>3. EditHolds(u)'
    BY <1>1, <2>1 DEF EndEdit, IdleEdit, EditHolds
  <2> QED
    BY <1>3, <1>4, <2>2, <2>3
<1>6. CASE SetGrant(u)
  <2>1. /\ adm[u].at = "apply" /\ DOMAIN audit \subseteq DOMAIN audit' /\ EndEdit(u)
        /\ UNCHANGED <<resources, leases>>
        /\ \A q \in grants : q \in grants' \/ q = <<adm[u].principal, r>>
    BY <1>6, RecordingGrows DEF Recording, SetGrant, Applies
  <2>2. Guarantee(held[u])
    BY <1>1, <2>1 DEF Guarantee, EditHolds
  <2>3. EditHolds(u)'
    BY <1>1, <2>1 DEF EndEdit, IdleEdit, EditHolds
  <2> QED
    BY <1>3, <1>4, <2>2, <2>3
<1>7. CASE UNCHANGED <<clock, tables>>
  <2>1. Guarantee(held[u])
    BY <1>7, NoWriteGuarantee DEF tables
  <2>2. CASE EndEdit(u)
    BY <1>1, <1>3, <1>4, <2>1, <2>2 DEF EndEdit, IdleEdit, EditHolds
  <2>3. ASSUME NEW op, NEW a, NEW x, NEW k, NEW p, BeginEdit(u, op, a, x, k, p)
        PROVE  EditHolds(u)'
    BY <1>1, <2>3 DEF BeginEdit, EditHolds
  <2>4. CASE LockEdited(u)
    <3>1. adm'[u].resource = r /\ held'[u] = held[u] \cup {ResourceLock(r)}
      BY <1>1, <1>2, <2>4 DEF LockEdited, Take, EditLocals
    <3> QED
      BY <1>3, <1>4, <2>1, <3>1 DEF EditHolds
  <2> QED
    BY <1>3, <1>4, <1>5, <1>6, <2>1, <2>2, <2>3, <2>4
       DEF EditBy, EditStep, FindArchived, RefuseUpdate, RefuseArchive, RefuseTransition,
           AbortEdit
<1> QED
  BY <1>5, <1>6, <1>7
     DEF EditBy, BeginEdit, EditStep, LockEdited, FindArchived, RefuseUpdate, RefuseArchive,
         RefuseTransition, AbortEdit, storeVars

-------------------------------------------------------------------------------
(* Requests about secrets: what they know and lock *)

ReaderBy(h) == BeginReader(h) \/ ReaderStep(h) \/ AbortReader(h)

ReaderLocks(h) ==
  (\E lock \in Locks : Take(h, lock)) \/ ReleaseAll(h) \/ UNCHANGED held

Rest == <<clock, resources, grants, leases, groups, ring, retiring>>

LEMMA IdleKnows ==
  ASSUME NEW h
  PROVE  Knows(h, IdleReader) /\ Knows(h, IdleReader)'
<1>1. 0 \in Nat /\ {} \in SUBSET GroupIds
  OBVIOUS
<1>2. IdleReader \in ReaderLocals
  BY <1>1, Zenon DEF IdleReader, ReaderLocals
<1>3. IdleReader.at = "idle" /\ IdleReader.op = "list"
  BY DEF IdleReader
<1> QED
  BY <1>2, <1>3 DEF Knows

LEMMA EndEffect ==
  ASSUME Guarded, NEW h \in Readers, EndReader(h)
  PROVE  /\ \E row : sec' = [sec EXCEPT ![h] = row] /\ Knows(h, row)'
         /\ ReaderLocks(h)
BY IdleKnows DEF EndReader, ReaderLocks

(* A request names what there is. *)
LEMMA BeginEffect ==
  ASSUME Guarded, NEW h \in Readers, BeginReader(h)
  PROVE  /\ \E row : sec' = [sec EXCEPT ![h] = row] /\ Knows(h, row)'
         /\ ReaderLocks(h)
         /\ UNCHANGED <<Rest, tables, secrets, disclosed>>
<1> DEFINE Goal == /\ \E row : sec' = [sec EXCEPT ![h] = row] /\ Knows(h, row)'
                   /\ ReaderLocks(h)
                   /\ UNCHANGED <<Rest, tables, secrets, disclosed>>
<1>1. /\ clock \in Nat /\ 0 \in Nat /\ {} \in SUBSET GroupIds
      /\ secrets \in Seq(SecretRow) /\ DOMAIN secrets \subseteq Nat
      /\ leases \in Seq(LeaseRow) /\ DOMAIN leases \subseteq Nat \ {0}
  BY DEF Guarded, Typed, StoreTypeOK, SecretTypeOK
<1>2. ASSUME NEW op \in {"create", "update", "delete", "list", "get", "access"},
             NEW a \in Admins, NEW r \in Resources, NEW i \in DOMAIN secrets \cup {0},
             NEW body \in {"Managed", "External", "Rename", NULL},
             op = "create" => body \in {"Managed", "External"},
             BeginForResource(h, op, a, r, i, body)
      PROVE  Goal
  <2> DEFINE base == IF i = 0 THEN 0 ELSE secrets[i].version
  <2>0. PICK row :
          row = [IdleReader EXCEPT !.at = "resource", !.op = op, !.who = a, !.resource = r,
                   !.secret = i, !.body = body, !.base = base, !.now = clock]
    OBVIOUS
  <2>1. base \in Nat /\ i \in Nat
    <3>1. ASSUME i # 0 PROVE secrets[i] \in SecretRow
      BY <1>1, <1>2, <3>1
    <3>2. i # 0 => secrets[i].version \in Nat
      BY <3>1 DEF SecretRow
    <3> QED
      BY <1>1, <1>2, <3>2
  <2>2. /\ sec' = [sec EXCEPT ![h] = row]
        /\ UNCHANGED <<held, Rest, tables, secrets, disclosed>>
    BY <2>0, <1>2 DEF BeginForResource, Rest, tables, storeVars, secretVars
  <2>3. a \in Principals
    BY <1>2, AdminsAssumption
  <2> HIDE DEF base
  <2>4. row \in ReaderLocals
    BY <2>0, <1>1, <2>1, <2>3, Zenon DEF IdleReader, ReaderLocals
  <2>5. /\ row.at = "resource" /\ row.op = op /\ row.who = a /\ row.resource = r
        /\ row.body = body /\ row.lease = 0
    BY <2>0 DEF IdleReader
  <2>6. Knows(h, row)'
    BY <1>2, <2>3, <2>4, <2>5 DEF Knows
  <2> QED
    BY <2>2, <2>6 DEF ReaderLocks
<1>3. ASSUME NEW op \in {"list", "access"}, NEW p \in Principals, NEW l \in DOMAIN leases,
             NEW i \in DOMAIN secrets \cup {0}, BeginForLease(h, op, p, l, i)
      PROVE  Goal
  <2>0. PICK row :
          row = [IdleReader EXCEPT !.at = "lease", !.op = op, !.who = p, !.lease = l,
                   !.secret = i, !.now = clock]
    OBVIOUS
  <2>1. i \in Nat /\ l \in Nat \ {0}
    BY <1>1, <1>3
  <2>2. /\ sec' = [sec EXCEPT ![h] = row]
        /\ UNCHANGED <<held, Rest, tables, secrets, disclosed>>
    BY <2>0, <1>3 DEF BeginForLease, Rest, tables, storeVars, secretVars
  <2>3. row \in ReaderLocals
    BY <2>0, <1>1, <2>1, Zenon DEF IdleReader, ReaderLocals
  <2>4. row.at = "lease" /\ row.op = op /\ row.who = p /\ row.lease = l
    BY <2>0 DEF IdleReader
  <2>5. l \in DOMAIN leases'
    BY <2>2 DEF tables
  <2>6. Knows(h, row)'
    BY <1>3, <2>1, <2>3, <2>4, <2>5 DEF Knows
  <2> QED
    BY <2>2, <2>6 DEF ReaderLocks
<1> QED
  BY <1>2, <1>3, SecretOpsAssumption DEF BeginReader

(* The steps that lock a row, or see a resource, write none. *)
LEMMA LockEffect ==
  ASSUME Guarded, NEW h \in Readers,
         LockLeaseOfSecret(h) \/ LockResourceOfSecret(h) \/ SeeResource(h) \/ LockSecret(h)
  PROVE  /\ \E row : sec' = [sec EXCEPT ![h] = row] /\ Knows(h, row)'
         /\ ReaderLocks(h)
         /\ UNCHANGED <<Rest, tables, secrets, disclosed>>
<1> DEFINE c == sec[h]
<1>1. /\ sec \in [Readers -> ReaderLocals] /\ Knows(h, c) /\ h \in Transactions
      /\ leases \in Seq(LeaseRow) /\ DOMAIN leases \subseteq Nat \ {0}
      /\ held \in [Transactions -> SUBSET Locks]
      /\ StoreTypeOK
  BY ReadersAssumption DEF Guarded, Typed, StoreTypeOK, SecretTypeOK
<1>2. c \in ReaderLocals
  BY <1>1
<1>3. UNCHANGED <<Rest, tables, secrets, disclosed>>
  BY DEF LockLeaseOfSecret, LockResourceOfSecret, SeeResource, LockSecret, Rest, tables,
         storeVars, secretVars
<1>4. CASE LockLeaseOfSecret(h)
  <2> DEFINE r == leases[c.lease].resource
             at == IF c.who \in Admins THEN "secret" ELSE "resource"
  <2>0. PICK row : row = [c EXCEPT !.resource = r, !.at = at]
    OBVIOUS
  <2>1. /\ c.at = "lease" /\ UsableLease(h) /\ Take(h, LeaseLock(c.lease))
        /\ sec' = [sec EXCEPT ![h].resource = r, ![h].at = at]
    BY <1>4 DEF LockLeaseOfSecret
  <2>2. /\ c.lease \in DOMAIN leases /\ c.lease # 0 /\ c.op \in {"list", "access"}
        /\ c.who \in Principals
    BY <1>1, <2>1 DEF Knows
  <2>3. r \in Resources
    BY <1>1, <2>2, LeaseTyped DEF LeaseRow
  <2>4. sec' = [sec EXCEPT ![h] = row]
    BY <2>0, <1>1, <1>2, <2>1 DEF ReaderLocals
  <2>5. /\ leases[c.lease].ended = NULL
        /\ c.who \notin Admins => leases[c.lease].owner = c.who
    BY <2>1 DEF UsableLease, Active
  <2> HIDE DEF r, at
  <2>6. row \in ReaderLocals
    <3>1. at \in {"secret", "resource"}
      BY DEF at
    <3> QED
      BY <2>0, <1>2, <2>3, <3>1, Zenon DEF ReaderLocals
  <2>7. /\ row.at = at /\ row.resource = r /\ row.lease = c.lease /\ row.who = c.who
        /\ row.op = c.op
    BY <2>0, <1>2 DEF ReaderLocals
  <2>8. LeaseLock(c.lease) \in held'[h]
    BY <1>1, <2>1 DEF Take
  <2>9. OwnsLease(h, row)'
    BY <1>3, <2>5, <2>7, <2>8 DEF OwnsLease, r, tables
  <2>10. Knows(h, row)'
    BY <1>3, <2>2, <2>3, <2>6, <2>7, <2>9 DEF Knows, at, tables
  <2>11. ReaderLocks(h)
    BY <2>1, <2>2, <1>1, LockTypes DEF ReaderLocks
  <2> QED
    BY <1>3, <2>4, <2>10, <2>11
<1>5. CASE LockResourceOfSecret(h)
  <2> DEFINE at == IF c.lease # 0 THEN "visible"
                   ELSE IF c.op = "create" THEN "write" ELSE "secret"
  <2>0. PICK row : row = [c EXCEPT !.at = at]
    OBVIOUS
  <2>1. /\ c.at = "resource" /\ Take(h, ResourceLock(c.resource))
        /\ c.op \in {"create", "update"} => ~resources[c.resource].archived
        /\ sec' = [sec EXCEPT ![h].at = at]
    BY <1>5 DEF LockResourceOfSecret, Goto
  <2>2. /\ c.who \in Principals /\ c.resource \in Resources
        /\ c.lease # 0 => OwnsLease(h, c) /\ c.lease \in DOMAIN leases
                          /\ c.op \in {"list", "access"}
        /\ c.op = "create" => c.body \in {"Managed", "External"}
    BY <1>1, <2>1 DEF Knows
  <2>3. sec' = [sec EXCEPT ![h] = row]
    BY <2>0, <1>1, <2>1
  <2>4. at \in {"visible", "write", "secret"}
    OBVIOUS
  <2>5. row \in ReaderLocals
    BY <2>0, <1>2, <2>4, Zenon DEF ReaderLocals
  <2>6. /\ row.at = at /\ row.resource = c.resource /\ row.lease = c.lease
        /\ row.who = c.who /\ row.op = c.op /\ row.body = c.body
    BY <2>0, <1>2 DEF ReaderLocals
  <2>7. held'[h] = held[h] \cup {ResourceLock(c.resource)}
    BY <1>1, <2>1 DEF Take
  <2>8. row.lease # 0 => OwnsLease(h, row)'
    BY <1>3, <2>2, <2>6, <2>7 DEF OwnsLease, tables
  <2>9. row.op \in {"create", "update"} => OpenResource(h, row)'
    BY <1>3, <2>1, <2>6, <2>7 DEF OpenResource, tables
  <2>10. Knows(h, row)'
    BY <1>3, <2>2, <2>5, <2>6, <2>7, <2>8, <2>9 DEF Knows, tables
  <2>11. ReaderLocks(h)
    BY <2>1, <2>2, LockTypes DEF ReaderLocks
  <2> QED
    BY <1>3, <2>3, <2>10, <2>11
<1>6. CASE SeeResource(h)
  <2> DEFINE via == GroupsShowing(c.who, c.resource)
  <2>0. PICK row : row = [c EXCEPT !.at = "secret", !.via = via]
    OBVIOUS
  <2>1. /\ c.at = "visible" /\ ~resources[c.resource].archived
        /\ VisibleTo(c.who, c.resource)
        /\ sec' = [sec EXCEPT ![h].at = "secret", ![h].via = via]
        /\ UNCHANGED held
    BY <1>6 DEF SeeResource, storeVars
  <2>2. /\ c.who \in Principals /\ c.resource \in Resources
        /\ ResourceLock(c.resource) \in held[h]
        /\ OwnsLease(h, c) /\ c.lease \in DOMAIN leases /\ c.op \in {"list", "access"}
    BY <1>1, <2>1 DEF Knows
  <2>3. via \in SUBSET GroupIds
    BY DEF GroupsShowing
  <2>4. sec' = [sec EXCEPT ![h] = row]
    BY <2>0, <1>1, <1>2, <2>1 DEF ReaderLocals
  <2>5. \/ resources[c.resource].config.visibility = "Public"
        \/ <<c.who, c.resource>> \in grants
        \/ \E g \in via : c.resource \in groups[g].resources
    BY <2>1 DEF VisibleTo, GroupsShowing
  <2> HIDE DEF via
  <2>6. row \in ReaderLocals
    BY <2>0, <1>2, <2>3, Zenon DEF ReaderLocals
  <2>7. /\ row.at = "secret" /\ row.resource = c.resource /\ row.lease = c.lease
        /\ row.who = c.who /\ row.op = c.op /\ row.via = via
    BY <2>0, <1>2 DEF ReaderLocals
  <2>8. OwnsLease(h, row)'
    BY <1>3, <2>1, <2>2, <2>7 DEF OwnsLease, tables
  <2>9. OpenResource(h, row)' /\ SeesResource(row)'
    BY <1>3, <2>1, <2>2, <2>5, <2>7 DEF OpenResource, SeesResource, tables, Rest
  <2>10. Knows(h, row)'
    BY <1>3, <2>2, <2>6, <2>7, <2>8, <2>9 DEF Knows, tables
  <2> QED
    BY <1>3, <2>1, <2>4, <2>10 DEF ReaderLocks
<1>7. CASE LockSecret(h)
  <2>0. PICK row : row = [c EXCEPT !.at = "write"]
    OBVIOUS
  <2>1. /\ c.at = "secret" /\ Stored(c.secret, c.resource) /\ Take(h, SecretLock(c.secret))
        /\ sec' = [sec EXCEPT ![h].at = "write"]
    BY <1>7 DEF LockSecret, Goto
  <2>2. sec' = [sec EXCEPT ![h] = row]
    BY <2>0, <1>1, <2>1
  <2>3. row \in ReaderLocals
    BY <2>0, <1>2, Zenon DEF ReaderLocals
  <2>4. /\ row.at = "write" /\ row.resource = c.resource /\ row.lease = c.lease
        /\ row.who = c.who /\ row.op = c.op /\ row.via = c.via /\ row.secret = c.secret
        /\ row.body = c.body
    BY <2>0, <1>2 DEF ReaderLocals
  <2>5. held'[h] = held[h] \cup {SecretLock(c.secret)}
    BY <1>1, <2>1 DEF Take
  <2>6. /\ OwnsLease(h, c) => OwnsLease(h, row)'
        /\ OpenResource(h, c) => OpenResource(h, row)'
        /\ SeesResource(c) => SeesResource(row)'
        /\ SecretLock(row.secret) \in held'[h] /\ Stored(row.secret, row.resource)'
    <3>1. UNCHANGED <<resources, grants, leases, groups, secrets>>
      BY <1>3, <2>1 DEF tables, Rest
    <3>2. OwnsLease(h, c) => OwnsLease(h, row)'
      BY <2>4, <2>5, <3>1 DEF OwnsLease
    <3>3. OpenResource(h, c) => OpenResource(h, row)'
      BY <2>4, <2>5, <3>1 DEF OpenResource
    <3>4. SeesResource(c) => SeesResource(row)'
      BY <2>4, <3>1 DEF SeesResource
    <3>5. SecretLock(row.secret) \in held'[h] /\ Stored(row.secret, row.resource)'
      BY <2>1, <2>4, <2>5, <3>1 DEF Stored
    <3> QED
      BY <3>2, <3>3, <3>4, <3>5
  <2>7. Knows(h, row)'
    <3>1. /\ c.who \in Principals /\ c.resource \in Resources
          /\ c.op = "create" => c.body \in {"Managed", "External"}
          /\ c.lease # 0 => c.lease \in DOMAIN leases /\ c.op \in {"list", "access"}
          /\ c.lease # 0 => OwnsLease(h, c)
          /\ c.op \in {"create", "update"} => OpenResource(h, c)
          /\ c.lease # 0 /\ c.who \notin Admins => OpenResource(h, c) /\ SeesResource(c)
      BY <1>1, <2>1 DEF Knows
    <3>2. DOMAIN leases' = DOMAIN leases
      BY <1>3, <2>1 DEF tables
    <3>3. /\ row.who \in Principals /\ row.resource \in Resources
          /\ row.op = "create" => row.body \in {"Managed", "External"}
          /\ row.lease # 0 => row.lease \in DOMAIN leases' /\ row.op \in {"list", "access"}
          /\ row.lease # 0 => OwnsLease(h, row)'
      BY <2>4, <2>6, <3>1, <3>2
    <3>4. /\ row.op \in {"create", "update"} => OpenResource(h, row)'
          /\ row.lease # 0 /\ row.who \notin Admins => OpenResource(h, row)' /\ SeesResource(row)'
      BY <2>4, <2>6, <3>1
    <3> QED
      BY <2>3, <2>4, <2>6, <3>3, <3>4 DEF Knows
  <2>8. ReaderLocks(h)
    <3>1. c.secret \in Nat
      BY <1>2 DEF ReaderLocals
    <3> QED
      BY <2>1, <3>1, LockTypes DEF ReaderLocks
  <2> QED
    BY <1>3, <2>2, <2>7, <2>8
<1> QED
  BY <1>4, <1>5, <1>6, <1>7

(* An update that has compared its revision knows the one it replaces. *)
LEMMA RevisionEffect ==
  ASSUME Guarded, NEW h \in Readers, CheckRevision(h)
  PROVE  /\ \E row : sec' = [sec EXCEPT ![h] = row] /\ Knows(h, row)'
         /\ ReaderLocks(h)
         /\ UNCHANGED <<Rest, tables, secrets, disclosed>>
<1> DEFINE c == sec[h]
<1>1. /\ c.at = "write" /\ c.op = "update" /\ c.body # NULL
      /\ c.base = secrets[c.secret].version
      /\ sec' = [sec EXCEPT ![h].at = "revise"]
      /\ UNCHANGED <<held, Rest, tables, secrets, disclosed>>
  BY DEF CheckRevision, Revisable, CurrentVersion, Goto, Rest, tables, storeVars, secretVars
<1>2. /\ sec \in [Readers -> ReaderLocals] /\ c \in ReaderLocals
      /\ c.who \in Principals /\ c.resource \in Resources /\ c.lease = 0
      /\ OpenResource(h, c) /\ SecretLock(c.secret) \in held[h] /\ Stored(c.secret, c.resource)
  BY <1>1 DEF Guarded, Knows, Typed, SecretTypeOK
<1>3. PICK row : row = [c EXCEPT !.at = "revise"]
  OBVIOUS
<1>4. sec' = [sec EXCEPT ![h] = row]
  BY <1>1, <1>2, <1>3
<1>5. row \in ReaderLocals
  BY <1>2, <1>3, Zenon DEF ReaderLocals
<1>6. /\ row.at = "revise" /\ row.resource = c.resource /\ row.lease = 0 /\ row.who = c.who
      /\ row.op = "update" /\ row.secret = c.secret /\ row.body = c.body /\ row.base = c.base
  BY <1>1, <1>2, <1>3 DEF ReaderLocals
<1> HIDE DEF c
<1>7. /\ OpenResource(h, row)' /\ SecretLock(row.secret) \in held'[h]
      /\ Stored(row.secret, row.resource)'
      /\ row.body # NULL /\ row.base = secrets'[row.secret].version
  <2>1. UNCHANGED <<held, resources, secrets>>
    BY <1>1 DEF tables
  <2> QED
    BY <1>1, <1>2, <1>6, <2>1 DEF OpenResource, Stored
<1>8. Knows(h, row)'
  BY <1>2, <1>5, <1>6, <1>7 DEF Knows
<1> QED
  BY <1>1, <1>4, <1>8 DEF ReaderLocks

-------------------------------------------------------------------------------
(* Requests about secrets: what they write *)

(* What becomes of the row i in a step of h: nothing, a deletion, or new   *)
(* contents, encrypted with the active key, of a resource that is there.   *)
Written(h, i) ==
  LET c == sec[h]
      mine == /\ i \in DOMAIN secrets
              /\ c.secret = i /\ SecretLock(i) \in held[h]
              /\ secrets'[i].resource = secrets[i].resource
  IN  \/ i \in DOMAIN secrets /\ secrets'[i] = secrets[i]
      \/ /\ mine
         /\ secrets'[i].version = secrets[i].version
         /\ secrets'[i].deleted
      \/ /\ i \in DOMAIN secrets => mine /\ c.at = "revise" /\ c.base = secrets[i].version
         /\ ~resources[secrets'[i].resource].archived
         /\ \/ /\ i \in DOMAIN secrets
               /\ secrets'[i].material = secrets[i].material
               /\ secrets'[i].deleted = secrets[i].deleted
            \/ /\ secrets'[i].material.mode = "Managed"
               => CanEncrypt /\ secrets'[i].material.key = ring.active

(* What is stored is encrypted with the active key or is not ours. *)
LEMMA SealedType ==
  ASSUME SecretTypeOK, NEW body \in {"Managed", "External"}, body = "Managed" => CanEncrypt
  PROVE  /\ Sealed(body) \in Material
         /\ Sealed(body).mode = "Managed" => CanEncrypt /\ Sealed(body).key = ring.active
<1>1. CASE body = "Managed"
  BY <1>1 DEF Sealed, Material, CanEncrypt, SecretTypeOK
<1>2. CASE body = "External"
  BY <1>2 DEF Sealed, Material
<1> QED
  BY <1>1, <1>2

Writes(h) == /\ secrets' \in Seq(SecretRow)
             /\ DOMAIN secrets \subseteq DOMAIN secrets'
             /\ \A i \in DOMAIN secrets' : Written(h, i)

LEMMA CreateWrites ==
  ASSUME Guarded, NEW h \in Readers, CommitCreateSecret(h)
  PROVE  Writes(h)
<1> DEFINE c == sec[h]
           row == [resource |-> c.resource, material |-> Sealed(c.body), version |-> 1,
                   deleted |-> FALSE]
           n == Len(secrets) + 1
<1>1. /\ c.at = "write" /\ c.op = "create"
      /\ c.body = "Managed" => CanEncrypt
      /\ secrets' = Append(secrets, row)
  BY DEF CommitCreateSecret, Commit
<1>2. /\ secrets \in Seq(SecretRow) /\ SecretTypeOK
      /\ c.body \in {"Managed", "External"} /\ c.resource \in Resources
      /\ ~resources[c.resource].archived
  BY <1>1 DEF Guarded, Typed, SecretTypeOK, Knows, OpenResource
<1>3. /\ Sealed(c.body) \in Material
      /\ Sealed(c.body).mode = "Managed" =>
           CanEncrypt /\ Sealed(c.body).key = ring.active
  BY <1>1, <1>2, SealedType
<1> HIDE DEF c
<1>4. row \in SecretRow
  BY <1>2, <1>3, Zenon, 1 \in Nat DEF SecretRow
<1>5. row.resource = c.resource /\ row.material = Sealed(c.body)
  OBVIOUS
<1> HIDE DEF row
<1>6. /\ secrets' \in Seq(SecretRow) /\ DOMAIN secrets' = DOMAIN secrets \cup {n}
      /\ n \notin DOMAIN secrets /\ secrets'[n] = row
      /\ \A i \in DOMAIN secrets : secrets'[i] = secrets[i]
  BY <1>1, <1>2, <1>4
<1> HIDE DEF n
<1>7. Written(h, n)
  BY <1>2, <1>3, <1>5, <1>6 DEF Written
<1>8. \A i \in DOMAIN secrets : Written(h, i)
  BY <1>6 DEF Written
<1> QED
  BY <1>6, <1>7, <1>8 DEF Writes

LEMMA UpdateWrites ==
  ASSUME Guarded, NEW h \in Readers, CommitUpdateSecret(h) \/ CommitDeleteSecret(h)
  PROVE  Writes(h)
<1> DEFINE c == sec[h]
           j == c.secret
           old == secrets[j]
<1>1. /\ c.op \in {"update", "delete"}
      /\ c.op = "update" => c.at = "revise" /\ CommitUpdateSecret(h)
      /\ c.op = "delete" => c.at = "write" /\ CommitDeleteSecret(h)
  BY DEF CommitUpdateSecret, CommitDeleteSecret, Commit
<1>2. /\ secrets \in Seq(SecretRow) /\ SecretTypeOK /\ c \in ReaderLocals
      /\ j \in DOMAIN secrets /\ old.resource = c.resource /\ SecretLock(j) \in held[h]
      /\ c.op = "update" => ~resources[c.resource].archived
      /\ c.at = "revise" => c.body # NULL /\ c.base = old.version
  BY <1>1 DEF Guarded, Typed, SecretTypeOK, Knows, OpenResource, Stored
<1>3. old \in SecretRow /\ old.version + 1 \in Nat
  <2>1. old \in SecretRow
    BY <1>2
  <2> QED
    BY <2>1 DEF SecretRow
<1>4. ASSUME NEW row \in SecretRow, secrets' = [secrets EXCEPT ![j] = row],
             row.resource = old.resource,
             \/ row.version = old.version /\ row.deleted
             \/ /\ c.op = "update" /\ row.deleted = old.deleted
                /\ \/ row.material = old.material
                   \/ /\ row.material.mode = "Managed"
                      => CanEncrypt /\ row.material.key = ring.active
      PROVE  Writes(h)
  <2>1. /\ secrets' \in Seq(SecretRow) /\ DOMAIN secrets' = DOMAIN secrets
        /\ secrets'[j] = row /\ \A i \in DOMAIN secrets : i # j => secrets'[i] = secrets[i]
    BY <1>2, <1>4
  <2>2. Written(h, j)
    BY <1>1, <1>2, <1>4, <2>1 DEF Written
  <2>3. \A i \in DOMAIN secrets : i # j => Written(h, i)
    BY <2>1 DEF Written
  <2> QED
    BY <2>1, <2>2, <2>3 DEF Writes
<1>5. CASE c.op = "update"
  <2> DEFINE material == IF c.body = "Rename" THEN old.material ELSE Sealed(c.body)
  <2>1. /\ c.body = "Managed" => CanEncrypt
        /\ c.base = old.version /\ c.body # NULL
    BY <1>1, <1>2, <1>5 DEF CommitUpdateSecret
  <2>2. c.body \in {"Managed", "External", "Rename"}
    BY <1>2, <2>1 DEF ReaderLocals
  <2>3. /\ material \in Material
        /\ \/ material = old.material
           \/ material.mode = "Managed" => CanEncrypt /\ material.key = ring.active
    BY <1>2, <1>3, <2>1, <2>2, SealedType DEF SecretRow
  <2>4. PICK row : row = [old EXCEPT !.material = material, !.version = old.version + 1]
    OBVIOUS
  <2>5. secrets' = [secrets EXCEPT ![j] = row]
    BY <1>1, <1>5, <2>4 DEF CommitUpdateSecret
  <2> HIDE DEF material
  <2>6. row \in SecretRow
    BY <1>3, <2>3, <2>4, Zenon DEF SecretRow
  <2>7. row.resource = old.resource /\ row.material = material /\ row.deleted = old.deleted
    BY <1>3, <2>4 DEF SecretRow
  <2> QED
    BY <1>4, <1>5, <2>1, <2>3, <2>5, <2>6, <2>7
<1>6. CASE c.op = "delete"
  <2>1. PICK row : row = [old EXCEPT !.deleted = TRUE]
    OBVIOUS
  <2>2. secrets' = [secrets EXCEPT ![j] = row]
    BY <1>1, <1>6, <2>1 DEF CommitDeleteSecret
  <2>3. row \in SecretRow
    BY <1>3, <2>1, Zenon DEF SecretRow
  <2>4. row.resource = old.resource /\ row.version = old.version /\ row.deleted
    BY <1>3, <2>1 DEF SecretRow
  <2> QED
    BY <1>4, <2>2, <2>3, <2>4
<1> QED
  BY <1>1, <1>5, <1>6

(* Every step of a request about secrets. *)
LEMMA ReaderEffect ==
  ASSUME Guarded, NEW h \in Readers, ReaderBy(h)
  PROVE  /\ \E row : sec' = [sec EXCEPT ![h] = row] /\ Knows(h, row)'
         /\ ReaderLocks(h) /\ UNCHANGED Rest /\ Recording
         /\ Writes(h)
         /\ \/ UNCHANGED disclosed
            \/ AnswerSecret(h)
<1>1. ASSUME UNCHANGED secrets PROVE Writes(h)
  BY <1>1 DEF Guarded, Typed, SecretTypeOK, Writes, Written
<1>2. CASE BeginReader(h)
  BY <1>1, <1>2, BeginEffect DEF tables, Recording
<1>3. CASE LockLeaseOfSecret(h) \/ LockResourceOfSecret(h) \/ SeeResource(h) \/ LockSecret(h)
  BY <1>1, <1>3, LockEffect DEF tables, Recording
<1>4. CASE RefuseReader(h) \/ AnswerMetadata(h) \/ Unavailable(h) \/ NothingToUpdate(h)
           \/ AbortReader(h)
  <2>1. EndReader(h) /\ UNCHANGED <<clock, tables, groups, secretVars>>
    BY <1>4 DEF RefuseReader, AnswerMetadata, Unavailable, NothingToUpdate, AbortReader
  <2> QED
    BY <1>1, <2>1, EndEffect DEF tables, secretVars, Rest, Recording
<1>5. CASE CommitCreateSecret(h) \/ CommitUpdateSecret(h) \/ CommitDeleteSecret(h)
  <2>1. /\ EndReader(h) /\ UNCHANGED <<Rest, disclosed>> /\ Recording
    BY <1>5
       DEF CommitCreateSecret, CommitUpdateSecret, CommitDeleteSecret, Commit, Log, Rest,
           Recording
  <2> QED
    BY <1>5, <2>1, EndEffect, CreateWrites, UpdateWrites
<1>6. CASE CommitReveal(h)
  <2> DEFINE c == sec[h]
             version == secrets[c.secret].version
  <2>1. /\ c.at = "write" /\ c.op = "access" /\ ReleaseAll(h)
        /\ sec' = [sec EXCEPT ![h].at = "answer", ![h].base = version]
        /\ audit' = Recorded({Event("resource_secret.accessed", c.secret, c.who)})
        /\ Recording
        /\ UNCHANGED <<Rest, secretVars>>
    BY <1>6 DEF CommitReveal, Recording, Log, Rest, secretVars
  <2>2. /\ sec \in [Readers -> ReaderLocals] /\ c \in ReaderLocals
        /\ secrets \in Seq(SecretRow) /\ c.secret \in DOMAIN secrets /\ c.who \in Principals
        /\ c.lease # 0 => c.lease \in DOMAIN leases
    BY <2>1 DEF Guarded, Typed, SecretTypeOK, Knows, Stored
  <2>3. version \in Nat
    <3>1. secrets[c.secret] \in SecretRow
      BY <2>2
    <3> QED
      BY <3>1 DEF SecretRow
  <2>4. PICK row : row = [c EXCEPT !.at = "answer", !.base = version]
    OBVIOUS
  <2>5. sec' = [sec EXCEPT ![h] = row]
    BY <2>1, <2>2, <2>4 DEF ReaderLocals
  <2> HIDE DEF version
  <2>6. row \in ReaderLocals
    BY <2>2, <2>3, <2>4, Zenon DEF ReaderLocals
  <2>7. /\ row.at = "answer" /\ row.secret = c.secret /\ row.who = c.who
        /\ row.op = c.op /\ row.lease = c.lease
    BY <2>2, <2>4 DEF ReaderLocals
  <2>8. /\ Event("resource_secret.accessed", row.secret, row.who) \in DOMAIN audit'
        /\ UNCHANGED leases
    BY <2>1, <2>7 DEF Rest, Recorded
  <2>9. Knows(h, row)'
    BY <2>1, <2>2, <2>6, <2>7, <2>8 DEF Knows
  <2> QED
    BY <1>1, <2>1, <2>5, <2>9 DEF ReaderLocks, secretVars
<1>7. CASE AnswerSecret(h)
  <2>1. EndReader(h) /\ UNCHANGED <<Rest, secrets, tables>>
    BY <1>7 DEF AnswerSecret, Rest, tables
  <2> QED
    BY <1>1, <1>7, <2>1, EndEffect DEF tables, Recording
<1>8. CASE CheckRevision(h)
  BY <1>1, <1>8, RevisionEffect DEF tables, Recording
<1> QED
  BY <1>2, <1>3, <1>4, <1>5, <1>6, <1>7, <1>8 DEF ReaderBy, ReaderStep

(* A request writes only the secret it has locked, or a new one. *)
LEMMA ReaderGuarantee ==
  ASSUME NEW h \in Readers, Writes(h), UNCHANGED Rest, Recording
  PROVE  Guarantee(held[h])
BY RecordingGrows DEF Writes, Written, Guarantee, Rest

-------------------------------------------------------------------------------
(* Groups and key rotation *)

(* Access is taken from a group while nobody has locked the resource. *)
LEMMA GroupEffect ==
  ASSUME Guarded, GroupNext, UNCHANGED secrets
  PROVE  /\ GroupTypeOK' /\ UNCHANGED <<clock, resources, grants, leases, held>>
         /\ Recording
         /\ \E H : /\ Guarantee(H)
                   /\ \A t \in Transactions : held[t] \cap H = {}
<1>1. groups \in [GroupIds -> GroupRow]
  BY DEF Guarded, Typed, GroupTypeOK
<1>2. /\ UNCHANGED <<clock, resources, grants, leases, held>> /\ Recording
      /\ DOMAIN audit \subseteq DOMAIN audit'
  <2>1. UNCHANGED <<clock, resources, grants, leases, held>> /\ Recording
    BY DEF GroupNext, ArchiveGroup, AddMember, RemoveMember, SetGroupGrant, Record, Recording
  <2> QED
    BY <2>1, RecordingGrows
<1>3. ASSUME NEW g \in GroupIds, NEW row \in GroupRow, groups' = [groups EXCEPT ![g] = row],
             groups[g].resources \subseteq row.resources
      PROVE  GroupTypeOK' /\ Guarantee({})
  BY <1>1, <1>2, <1>3 DEF GroupTypeOK, Guarantee
<1>4. ASSUME NEW a \in Admins, NEW g \in GroupIds, ArchiveGroup(a, g)
      PROVE  GroupTypeOK' /\ Guarantee({})
  <2>1. groups[g] \in GroupRow
    BY <1>1
  <2>2. PICK row : row = [groups[g] EXCEPT !.archived = TRUE]
    OBVIOUS
  <2>3. row \in GroupRow /\ row.resources = groups[g].resources
    BY <2>1, <2>2 DEF GroupRow
  <2>4. groups' = [groups EXCEPT ![g] = row]
    BY <1>4, <2>2 DEF ArchiveGroup
  <2> QED
    BY <1>3, <2>3, <2>4
<1>5. ASSUME NEW a \in Admins, NEW g \in GroupIds, NEW q \in Principals,
             AddMember(a, g, q) \/ RemoveMember(a, g, q)
      PROVE  GroupTypeOK' /\ Guarantee({})
  <2>1. groups[g] \in GroupRow
    BY <1>1
  <2>2. PICK members \in SUBSET Principals :
          groups' = [groups EXCEPT ![g] = [groups[g] EXCEPT !.members = members]]
    <3>1. groups[g].members \cup {q} \in SUBSET Principals
      BY <2>1 DEF GroupRow
    <3>2. groups[g].members \ {q} \in SUBSET Principals
      BY <2>1 DEF GroupRow
    <3> QED
      BY <1>5, <3>1, <3>2 DEF AddMember, RemoveMember
  <2>3. PICK row : row = [groups[g] EXCEPT !.members = members]
    OBVIOUS
  <2>4. row \in GroupRow /\ row.resources = groups[g].resources
    BY <2>1, <2>3 DEF GroupRow
  <2> QED
    BY <1>3, <2>2, <2>3, <2>4
<1>6. ASSUME NEW a \in Admins, NEW g \in GroupIds, NEW r \in Resources,
             NEW granted \in BOOLEAN, SetGroupGrant(a, g, r, granted)
      PROVE  GroupTypeOK' /\ Guarantee({ResourceLock(r)})
  <2>1. groups[g] \in GroupRow
    BY <1>1
  <2>2. PICK shown \in SUBSET Resources :
          /\ groups' = [groups EXCEPT ![g] = [groups[g] EXCEPT !.resources = shown]]
          /\ groups[g].resources \ {r} \subseteq shown
    <3>1. /\ groups[g].resources \cup {r} \in SUBSET Resources
          /\ groups[g].resources \ {r} \in SUBSET Resources
      BY <2>1 DEF GroupRow
    <3> QED
      BY <1>6, <3>1 DEF SetGroupGrant
  <2>3. PICK row : row = [groups[g] EXCEPT !.resources = shown]
    OBVIOUS
  <2>4. row \in GroupRow /\ row.resources = shown
    BY <2>1, <2>3 DEF GroupRow
  <2>5. groups' = [groups EXCEPT ![g] = row]
    BY <2>2, <2>3
  <2>6. \A x \in GroupIds, y \in Resources :
          y # r /\ y \in groups[x].resources => y \in groups'[x].resources
    BY <1>1, <2>2, <2>4, <2>5
  <2> QED
    BY <1>1, <1>2, <2>4, <2>5, <2>6, LocksDiffer DEF GroupTypeOK, Guarantee
<1>7. ASSUME NEW a \in Admins, NEW g \in GroupIds, NEW r \in Resources,
             NEW granted \in BOOLEAN, SetGroupGrant(a, g, r, granted)
      PROVE  \A t \in Transactions : held[t] \cap {ResourceLock(r)} = {}
  BY <1>7 DEF SetGroupGrant
<1>8. \A t \in Transactions : held[t] \cap {} = {}
  OBVIOUS
<1> QED
  BY <1>2, <1>4, <1>5, <1>6, <1>7, <1>8 DEF GroupNext

LEMMA RotationTyped ==
  ASSUME Guarded,
         \/ \E k \in RingKeys : DecideRetire(k)
         \/ \E added \in SUBSET RingKeys, active \in RingKeys \cup {NULL} :
              Restart(added, active)
  PROVE  SecretTypeOK' /\ UNCHANGED <<clock, tables, groups, secrets, disclosed>>
<1>1. SecretTypeOK
  BY DEF Guarded, Typed
<1>2. ASSUME NEW k \in RingKeys, DecideRetire(k)
      PROVE  SecretTypeOK' /\ UNCHANGED <<clock, tables, groups, secrets, disclosed>>
  BY <1>1, <1>2 DEF DecideRetire, SecretTypeOK, storeVars, tables
<1>3. ASSUME NEW added \in SUBSET RingKeys, NEW active \in RingKeys \cup {NULL},
             Restart(added, active)
      PROVE  SecretTypeOK' /\ UNCHANGED <<clock, tables, groups, secrets, disclosed>>
  <2>1. IdleReader \in ReaderLocals
    BY IdleKnows DEF Knows
  <2>2. ring.keys \subseteq RingKeys
    BY <1>1 DEF SecretTypeOK
  <2>3. /\ ring' = [keys |-> (ring.keys \ retiring) \cup added, active |-> active]
        /\ retiring' = {} /\ sec' = [h \in Readers |-> IdleReader]
        /\ UNCHANGED <<clock, tables, groups, secrets, disclosed>>
    BY <1>3 DEF Restart
  <2>4. ring' \in [keys : SUBSET RingKeys, active : RingKeys \cup {NULL}]
    BY <2>2, <2>3
  <2>5. sec' \in [Readers -> ReaderLocals]
    BY <2>1, <2>3
  <2> QED
    BY <1>1, <2>3, <2>4, <2>5 DEF SecretTypeOK
<1> QED
  BY <1>2, <1>3

-------------------------------------------------------------------------------
(* The invariant *)

LEMMA InitGuarded == Init => Guarded
<1> SUFFICES ASSUME NEW b \in Beginnings, Begun(b) PROVE Guarded
  BY DEF Init
<1>1. /\ b.configs \subseteq Configs /\ b.grants \subseteq Principals \X Resources
      /\ b.leases \in Seq(LeaseRow) /\ b.secrets \in Seq(SecretRow)
      /\ b.ring \in [keys : SUBSET RingKeys, active : RingKeys \cup {NULL}]
  BY BeginningsAssumption
<1>2. ChangesTyped /\ SweepsTyped /\ EditsTyped
  BY IdleTyped DEF Begun
<1>3. StoreTypeOK
  <2>1. ASSUME NEW x \in [config : b.configs, status : {"Active"}, archived : {FALSE},
                           version : {1}, leasedAt : {NULL}]
        PROVE  x \in ResourceRow
    <3>1. PICK c \in Configs : x = [config |-> c, status |-> "Active", archived |-> FALSE,
                                   version |-> 1, leasedAt |-> NULL]
      BY <1>1
    <3>2. 1 \in Nat /\ NULL \in Seconds
      BY DEF Seconds
    <3> QED
      BY <3>1, <3>2, Zenon DEF ResourceRow, Statuses
  <2>2. resources \in [Resources -> ResourceRow]
    BY <2>1 DEF Begun
  <2>3. \A e \in DOMAIN NothingRecorded : NothingRecorded[e] \in Nat \ {0}
    BY DEF NothingRecorded
  <2> QED
    BY <1>1, <2>2, <2>3 DEF Begun, StoreTypeOK
<1>4. GroupTypeOK
  BY DEF Begun, GroupTypeOK, GroupRow
<1>5. SecretTypeOK
  <2>1. IdleReader \in ReaderLocals
    BY IdleKnows DEF Knows
  <2> QED
    BY <1>1, <2>1 DEF Begun, SecretTypeOK
<1>6. LocksExclude
  BY DEF Begun, LocksExclude
<1>7. HandlersHold
  BY DEF Begun, HandlersHold, ChangeHolds, SweepHolds, EditHolds, IdleChange, IdleSweep, IdleEdit
<1>8. \A h \in Readers : Knows(h, sec[h])
  BY IdleKnows DEF Begun
<1> QED
  BY <1>2, <1>3, <1>4, <1>5, <1>6, <1>7, <1>8 DEF Guarded, Typed

(* A step of others leaves what a request knows intact. *)
LEMMA OtherKnows ==
  ASSUME Guarded, NEW H, Guarantee(H), NEW g \in Readers,
         sec'[g] = sec[g], held'[g] = held[g], held[g] \cap H = {}
  PROVE  Knows(g, sec[g])'
<1>1. PICK c : c = sec[g]
  OBVIOUS
<1>2. Knows(g, c)'
  <2>1. Knows(g, c)
    BY <1>1 DEF Guarded
  <2> QED
    BY <2>1, KnowsStays
<1>3. c = sec'[g]
  BY <1>1
<1> QED
  BY <1>2, <1>3

LEMMA NextGuarded == Guarded /\ [Next]_allVars => Guarded'
<1> SUFFICES ASSUME Guarded, [Next]_allVars PROVE Guarded'
  OBVIOUS
<1>1. /\ StoreTypeOK /\ ChangesTyped /\ SweepsTyped /\ EditsTyped /\ GroupTypeOK
      /\ SecretTypeOK /\ LocksExclude /\ HandlersHold
  BY DEF Guarded, Typed
<1>2. /\ Changers \subseteq Transactions /\ Workers \subseteq Transactions
      /\ Editors \subseteq Transactions /\ Readers \subseteq Transactions
      /\ Readers \cap Changers = {} /\ Readers \cap Workers = {} /\ Readers \cap Editors = {}
      /\ Changers \cap Workers = {} /\ Changers \cap Editors = {} /\ Workers \cap Editors = {}
  BY HandlersDisjoint
<1>3. /\ UNCHANGED groups => GroupTypeOK'
      /\ UNCHANGED <<secretVars, sec>> => SecretTypeOK'
  BY <1>1 DEF GroupTypeOK, SecretTypeOK, secretVars
<1>4. ASSUME NEW u \in Transactions, NEW H \in SUBSET held[u], Guarantee(H),
             LocksExclude', \A t \in Transactions \ {u} : held'[t] = held[t],
             \A t \in Changers \ {u} : chg'[t] = chg[t],
             \A t \in Workers \ {u} : swp'[t] = swp[t],
             \A t \in Editors \ {u} : adm'[t] = adm[t],
             \A t \in Readers \ {u} : sec'[t] = sec[t],
             u \in Changers => ChangeHolds(u)',
             u \in Workers => SweepHolds(u)',
             u \in Editors => EditHolds(u)',
             u \in Readers => Knows(u, sec[u])',
             Typed'
      PROVE  Guarded'
  <2>1. \A t \in Transactions \ {u} : held[t] \cap H = {}
    BY <1>1, <1>4 DEF LocksExclude
  <2>2. \A t \in Readers \ {u} : Knows(t, sec[t])'
    <3> SUFFICES ASSUME NEW t \in Readers \ {u} PROVE Knows(t, sec[t])'
      OBVIOUS
    <3>1. t \in Transactions \ {u}
      BY <1>2
    <3>2. sec'[t] = sec[t] /\ held'[t] = held[t] /\ held[t] \cap H = {}
      BY <1>4, <2>1, <3>1
    <3> QED
      BY <1>4, <3>2, OtherKnows
  <2>3. HandlersHold'
    <3>1. \A t \in Changers \ {u} : ChangeHolds(t)'
      BY <1>1, <1>2, <1>4 DEF HandlersHold, ChangeHolds
    <3>2. \A t \in Workers \ {u} : SweepHolds(t)'
      BY <1>1, <1>2, <1>4 DEF HandlersHold, SweepHolds
    <3>3. \A t \in Editors \ {u} : EditHolds(t)'
      BY <1>1, <1>2, <1>4 DEF HandlersHold, EditHolds
    <3> QED
      BY <1>4, <3>1, <3>2, <3>3 DEF HandlersHold
  <2> QED
    BY <1>4, <2>2, <2>3 DEF Guarded
<1>5. ASSUME UNCHANGED <<held, sec, handlers>>, Typed',
             NEW H, Guarantee(H), \A t \in Transactions : held[t] \cap H = {}
      PROVE  Guarded'
  <2>1. LocksExclude' /\ HandlersHold'
    BY <1>1, <1>5 DEF LocksExclude, HandlersHold, ChangeHolds, SweepHolds, EditHolds, handlers
  <2>2. \A g \in Readers : Knows(g, sec[g])'
    <3> SUFFICES ASSUME NEW g \in Readers PROVE Knows(g, sec[g])'
      OBVIOUS
    <3>1. sec'[g] = sec[g] /\ held'[g] = held[g] /\ held[g] \cap H = {}
      BY <1>2, <1>5
    <3> QED
      BY <1>5, <3>1, OtherKnows
  <2> QED
    BY <1>5, <2>1, <2>2 DEF Guarded
<1>6. CASE Tick /\ UNCHANGED <<groups, secretVars, sec, handlers>>
  <2>1. Kept
    BY <1>1, <1>6 DEF Tick, tables, Kept, StoreTypeOK
  <2>2. Typed'
    BY <1>1, <1>3, <1>6, <2>1, StayTyped DEF Typed, Kept, handlers
  <2>3. UNCHANGED <<held, tables, groups, secrets>>
    BY <1>6 DEF Tick, secretVars
  <2>4. Guarantee({})
    BY <2>3, NoWriteGuarantee
  <2> QED
    BY <1>5, <1>6, <2>2, <2>3, <2>4
<1>7. CASE ChangeNext /\ UNCHANGED <<groups, secretVars, sec, swp, adm>>
  <2>1. PICK u \in Changers : ChangeBy(u)
    BY <1>7 DEF ChangeNext
  <2>2. Kept
    BY <1>1, <2>1, ChangeStore
  <2>3. ChangesTyped'
    BY <1>1, <2>1, <2>2, ChangeTyped DEF Kept, ChangesTyped
  <2>4. Typed'
    BY <1>1, <1>3, <1>7, <2>2, <2>3, StayTyped DEF Typed, Kept
  <2>5. /\ Guarantee(held[u])
        /\ (\E lock : Take(u, lock)) \/ ReleaseAll(u) \/ UNCHANGED held
        /\ \A t \in Changers \ {u} : chg'[t] = chg[t]
        /\ ChangeHolds(u)'
    BY <1>7, <2>1, ChangeEffect DEF secretVars
  <2>6. LocksExclude' /\ \A t \in Transactions \ {u} : held'[t] = held[t]
    BY <1>1, <1>2, <2>5, LocksStep
  <2> QED
    BY <1>2, <1>4, <1>7, <2>4, <2>5, <2>6
<1>8. CASE SweepNext /\ UNCHANGED <<groups, secretVars, sec, chg, adm>>
  <2>1. PICK u \in Workers : SweepBy(u)
    BY <1>8 DEF SweepNext
  <2>2. Kept
    BY <1>1, <2>1, SweepStore
  <2>3. SweepsTyped'
    BY <1>1, <2>1, <2>2, SweepTyped DEF Kept, SweepsTyped
  <2>4. Typed'
    BY <1>1, <1>3, <1>8, <2>2, <2>3, StayTyped DEF Typed, Kept
  <2>5. /\ Guarantee(held[u])
        /\ LocksExclude' /\ \A t \in Transactions \ {u} : held'[t] = held[t]
        /\ \A t \in Workers \ {u} : swp'[t] = swp[t]
        /\ SweepHolds(u)'
    BY <1>8, <2>1, SweepEffect DEF secretVars
  <2> QED
    BY <1>2, <1>4, <1>8, <2>4, <2>5
<1>9. CASE EditNext /\ UNCHANGED <<groups, secretVars, sec, chg, swp>>
  <2>1. PICK u \in Editors : EditBy(u)
    BY <1>9 DEF EditNext
  <2>2. Kept
    BY <1>1, <2>1, EditStore
  <2>3. EditsTyped'
    BY <1>1, <2>1, EditTyped DEF EditsTyped
  <2>4. Typed'
    BY <1>1, <1>3, <1>9, <2>2, <2>3, StayTyped DEF Typed, Kept
  <2>5. /\ Guarantee(held[u])
        /\ (\E lock : Take(u, lock)) \/ ReleaseAll(u) \/ UNCHANGED held
        /\ \A t \in Editors \ {u} : adm'[t] = adm[t]
        /\ EditHolds(u)'
    BY <1>9, <2>1, EditEffect DEF secretVars
  <2>6. LocksExclude' /\ \A t \in Transactions \ {u} : held'[t] = held[t]
    BY <1>1, <1>2, <2>5, LocksStep
  <2> QED
    BY <1>2, <1>4, <1>9, <2>4, <2>5, <2>6
<1>10. CASE GroupNext /\ UNCHANGED <<secretVars, sec, handlers>>
  <2>1. PICK H : /\ GroupTypeOK' /\ UNCHANGED <<clock, resources, grants, leases, held>>
                 /\ Guarantee(H) /\ Recording
                 /\ \A t \in Transactions : held[t] \cap H = {}
    BY <1>10, GroupEffect DEF secretVars
  <2>2. Kept
    BY <1>1, <2>1, RecordingTyped DEF Kept, StoreTypeOK
  <2>3. Typed'
    BY <1>1, <1>3, <1>10, <2>1, <2>2, StayTyped DEF Typed, Kept, handlers
  <2> QED
    BY <1>5, <1>10, <2>1, <2>3
<1>11. ASSUME NEW u \in Readers, ReaderBy(u), UNCHANGED handlers
       PROVE  Guarded'
  <2>1. PICK row : sec' = [sec EXCEPT ![u] = row] /\ Knows(u, row)'
    BY <1>11, ReaderEffect
  <2>2. /\ ReaderLocks(u) /\ UNCHANGED Rest /\ Recording /\ Writes(u)
        /\ UNCHANGED disclosed \/ AnswerSecret(u)
    BY <1>11, ReaderEffect
  <2>3. Kept
    <3>1. held' \in [Transactions -> SUBSET Locks]
      BY <1>1, <1>2, <2>2, HeldTyped DEF ReaderLocks
    <3> QED
      BY <1>1, <2>2, <3>1, RecordingTyped DEF Kept, StoreTypeOK, Rest
  <2>4. SecretTypeOK'
    <3>1. row \in ReaderLocals
      BY <2>1 DEF Knows
    <3>2. sec' \in [Readers -> ReaderLocals] /\ sec'[u] = row
      BY <1>1, <2>1, <3>1 DEF SecretTypeOK
    <3>3. disclosed' \subseteq [secret : Nat, version : Nat, to : Principals]
      <4>1. CASE AnswerSecret(u)
        <5>1. /\ sec[u].secret \in Nat /\ sec[u].base \in Nat /\ sec[u].who \in Principals
          BY <1>1, <4>1 DEF Guarded, Knows, AnswerSecret, ReaderLocals
        <5> QED
          BY <1>1, <4>1, <5>1 DEF AnswerSecret, SecretTypeOK
      <4> QED
        BY <1>1, <2>2, <4>1 DEF SecretTypeOK
    <3> QED
      BY <1>1, <2>2, <3>2, <3>3 DEF SecretTypeOK, Writes, Rest
  <2>5. Typed'
    BY <1>1, <1>3, <1>11, <2>2, <2>3, <2>4, StayTyped DEF Typed, Kept, Rest, handlers
  <2>6. LocksExclude' /\ \A t \in Transactions \ {u} : held'[t] = held[t]
    BY <1>1, <1>2, <2>2, LocksStep DEF ReaderLocks
  <2>7. Guarantee(held[u])
    BY <2>2, ReaderGuarantee
  <2>8. /\ \A t \in Readers \ {u} : sec'[t] = sec[t]
        /\ row = sec'[u]
    BY <1>1, <2>1 DEF SecretTypeOK
  <2>9. Knows(u, sec[u])'
    BY <2>1, <2>8
  <2> QED
    BY <1>2, <1>4, <1>11, <2>5, <2>6, <2>7, <2>8, <2>9 DEF handlers
<1>12. ASSUME NEW k \in RingKeys, DecideRetire(k), UNCHANGED handlers
       PROVE  Guarded'
  <2>1. SecretTypeOK' /\ UNCHANGED <<clock, tables, groups, secrets, disclosed, held, sec>>
    BY <1>12, RotationTyped DEF DecideRetire, storeVars
  <2>2. Guarantee({})
    BY <2>1, NoWriteGuarantee
  <2>3. Kept
    BY <1>1, <2>1 DEF Kept, StoreTypeOK, tables
  <2>4. Typed'
    BY <1>1, <1>3, <1>12, <2>1, <2>3, StayTyped DEF Typed, Kept, handlers
  <2> QED
    BY <1>5, <1>12, <2>1, <2>2, <2>4
<1>13. ASSUME NEW added \in SUBSET RingKeys, NEW active \in RingKeys \cup {NULL},
              Restart(added, active), UNCHANGED handlers
       PROVE  Guarded'
  <2>1. SecretTypeOK' /\ UNCHANGED <<clock, tables, groups, secrets, disclosed>>
    BY <1>13, RotationTyped
  <2>2. /\ held' = [t \in Transactions |-> IF t \in Readers THEN {} ELSE held[t]]
        /\ sec' = [h \in Readers |-> IdleReader]
    BY <1>13 DEF Restart
  <2>3. Kept
    BY <1>1, <2>1, <2>2 DEF Kept, StoreTypeOK, tables
  <2>4. Typed'
    BY <1>1, <1>3, <1>13, <2>1, <2>3, StayTyped DEF Typed, Kept, handlers
  <2>5. LocksExclude'
    BY <1>1, <2>2 DEF LocksExclude
  <2>6. HandlersHold'
    <3>1. \A t \in Changers \cup Workers \cup Editors : held'[t] = held[t]
      BY <1>2, <2>2
    <3> QED
      BY <1>1, <1>13, <3>1 DEF HandlersHold, ChangeHolds, SweepHolds, EditHolds, handlers
  <2>7. \A h \in Readers : Knows(h, sec[h])'
    <3>1. \A h \in Readers : sec'[h] = IdleReader /\ Knows(h, IdleReader)'
      BY <2>2, IdleKnows
    <3> QED
      BY <3>1 DEF Knows
  <2> QED
    BY <2>4, <2>5, <2>6, <2>7 DEF Guarded
<1>14. CASE UNCHANGED allVars
  <2>1. UNCHANGED <<clock, tables, held, groups, secrets, secretVars, sec, handlers>>
    BY <1>14 DEF allVars, storeVars, secretVars
  <2>2. Guarantee({})
    BY <2>1, NoWriteGuarantee
  <2>3. Kept
    BY <1>1, <2>1 DEF Kept, StoreTypeOK, tables
  <2>4. Typed'
    BY <1>1, <1>3, <2>1, <2>3, StayTyped DEF Typed, Kept, handlers
  <2> QED
    BY <1>5, <2>1, <2>2, <2>4
<1> QED
  BY <1>6, <1>7, <1>8, <1>9, <1>10, <1>11, <1>12, <1>13, <1>14
     DEF Next, SecretNext, ReaderBy

-------------------------------------------------------------------------------
(* Theorems *)

(* Guarded holds in every reachable state: a request about secrets that    *)
(* goes on after _lock_resource or _lock_leased_resource still holds the   *)
(* rows it was allowed on, and nobody else holds them.                     *)
THEOREM AlwaysGuarded == Spec => []Guarded
BY InitGuarded, NextGuarded, PTL DEF Spec

(* Every variable has its type: in particular a secret that is stored      *)
(* encrypted names a key, and any other names none, as the constraint on   *)
(* the table's columns demands (_material_values).                         *)
THEOREM DisclosureTyped == Spec => []TypeOK
<1>1. Guarded => TypeOK
  BY DEF Guarded, Typed, TypeOK, ChangesTyped, SweepsTyped, EditsTyped
<1> QED
  BY AlwaysGuarded, <1>1, PTL

(* When a secret's material is read for an answer, everything the request  *)
(* was allowed on still holds: its lease has not ended, and its owner      *)
(* still sees the resource (access_lease_secret).                          *)
THEOREM RevealsHold == Spec => []RevealHolds
<1>1. Guarded => RevealHolds
  BY DEF Guarded, Knows, OwnsLease, OpenResource, SeesResource, RevealHolds
<1> QED
  BY AlwaysGuarded, <1>1, PTL

(* What is stored can be read with the keys that stay. *)
Rotating ==
  /\ ring.active \notin retiring
  /\ \A i \in DOMAIN secrets :
       /\ ~secrets[i].deleted
       /\ secrets[i].material.mode = "Managed"
       => secrets[i].material.key \in ring.keys \ retiring

LEMMA InitRotating == Init => Rotating
BY BeginningsReadable DEF Init, Begun, Rotating

LEMMA NextRotating == Guarded /\ Rotating /\ [Next]_allVars => Rotating'
<1> SUFFICES ASSUME Guarded, Rotating, [Next]_allVars PROVE Rotating'
  OBVIOUS
<1>1. ASSUME UNCHANGED secretVars PROVE Rotating'
  BY <1>1 DEF Rotating, secretVars
<1>2. ASSUME NEW h \in Readers, ReaderBy(h) PROVE Rotating'
  <2>1. Writes(h) /\ UNCHANGED <<ring, retiring>>
    BY <1>2, ReaderEffect DEF Rest
  <2>2. SUFFICES ASSUME NEW i \in DOMAIN secrets', ~secrets'[i].deleted,
                        secrets'[i].material.mode = "Managed"
                 PROVE  secrets'[i].material.key \in ring.keys \ retiring
    BY <2>1 DEF Rotating
  <2>3. Written(h, i)
    BY <2>1 DEF Writes
  <2>4. CASE CanEncrypt /\ secrets'[i].material.key = ring.active
    BY <2>4 DEF CanEncrypt, Rotating
  <2>5. CASE /\ i \in DOMAIN secrets
             /\ secrets'[i].material = secrets[i].material
             /\ secrets'[i].deleted = secrets[i].deleted
    BY <2>2, <2>5 DEF Rotating
  <2> QED
    BY <2>2, <2>3, <2>4, <2>5 DEF Written
<1>3. ASSUME NEW k \in RingKeys, DecideRetire(k) PROVE Rotating'
  BY <1>3 DEF DecideRetire, Rotating
<1>4. ASSUME NEW added, NEW active, Restart(added, active) PROVE Rotating'
  BY <1>4 DEF Restart, Rotating
<1> QED
  BY <1>1, <1>2, <1>3, <1>4 DEF Next, SecretNext, ReaderBy, allVars

(* Every stored value can be decrypted with the ring in use while keys are *)
(* rotated as the documentation says, whatever is encrypted meanwhile      *)
(* (SecretCipher.encrypt, docs/resource-secrets.md).                       *)
THEOREM SecretsStayReadable == Spec => []AllReadable
<1>1. Rotating => AllReadable
  BY DEF Rotating, AllReadable, CanDecrypt
<1> QED
  BY AlwaysGuarded, InitRotating, NextRotating, <1>1, PTL DEF Spec

(* Nothing is disclosed that the audit trail does not tell of, though the  *)
(* service may stop between the commit and the answer                      *)
(* (_access_locked_secret).                                                *)
THEOREM DisclosuresAreRecorded == Spec => []DisclosuresRecorded
<1>1. Init => DisclosuresRecorded
  BY DEF Init, Begun, DisclosuresRecorded
<1>2. Guarded /\ DisclosuresRecorded /\ [Next]_allVars => DisclosuresRecorded'
  <2>1. SUFFICES ASSUME Guarded, DisclosuresRecorded, [Next]_allVars
                 PROVE  DisclosuresRecorded'
    OBVIOUS
  <2>2. ASSUME UNCHANGED disclosed, DOMAIN audit \subseteq DOMAIN audit' PROVE DisclosuresRecorded'
    BY <2>1, <2>2 DEF DisclosuresRecorded
  <2>3. ASSUME NEW u \in Changers, ChangeBy(u), UNCHANGED <<groups, secretVars>>
        PROVE  DisclosuresRecorded'
    BY <2>1, <2>2, <2>3, ChangeEffect DEF Guarantee, secretVars
  <2>4. ASSUME NEW u \in Workers, SweepBy(u), UNCHANGED <<groups, secretVars>>
        PROVE  DisclosuresRecorded'
    BY <2>1, <2>2, <2>4, SweepEffect DEF Guarantee, secretVars
  <2>5. ASSUME NEW u \in Editors, EditBy(u), UNCHANGED <<groups, secretVars>>
        PROVE  DisclosuresRecorded'
    BY <2>1, <2>2, <2>5, EditEffect DEF Guarantee, secretVars
  <2>6. ASSUME GroupNext, UNCHANGED secretVars
        PROVE  DisclosuresRecorded'
    BY <2>1, <2>2, <2>6, GroupEffect DEF Guarantee, secretVars
  <2>7. ASSUME NEW h \in Readers, ReaderBy(h)
        PROVE  DisclosuresRecorded'
    <3>1. /\ DOMAIN audit \subseteq DOMAIN audit'
          /\ UNCHANGED disclosed \/ AnswerSecret(h)
      BY <2>1, <2>7, ReaderEffect, RecordingGrows
    <3>2. CASE AnswerSecret(h)
      <4>1. Event("resource_secret.accessed", sec[h].secret, sec[h].who) \in DOMAIN audit
        BY <2>1, <3>2 DEF Guarded, Knows, AnswerSecret
      <4> QED
        BY <2>1, <3>1, <3>2, <4>1 DEF AnswerSecret, DisclosuresRecorded
    <3> QED
      BY <2>2, <3>1, <3>2
  <2>8. CASE UNCHANGED <<audit, disclosed>>
    BY <2>2, <2>8
  <2> QED
    BY <2>1, <2>3, <2>4, <2>5, <2>6, <2>7, <2>8
       DEF Next, ChangeNext, SweepNext, EditNext, SecretNext, ReaderBy, DecideRetire, Restart,
           Tick, allVars, storeVars, secretVars, tables
<1> QED
  BY AlwaysGuarded, <1>1, <1>2, PTL DEF Spec

(* What a step may do to the secrets. *)
LEMMA SecretsAreWritten ==
  ASSUME Guarded, Next
  PROVE  UNCHANGED secrets \/ \E h \in Readers : Writes(h)
BY ReaderEffect DEF Next, SecretNext, ReaderBy, DecideRetire, Restart, secretVars

(* NoLostRevision's action. *)
RevisionRead ==
  \A i \in DOMAIN secrets :
    secrets'[i].version # secrets[i].version =>
      \E h \in Readers : /\ sec[h].at = "revise" /\ sec[h].secret = i
                         /\ sec[h].base = secrets[i].version

(* No update of a secret is lost: what it replaces is the revision its     *)
(* sender had read, because nobody else writes the row from the moment the *)
(* revision was compared until the commit: a request keeps the lock it     *)
(* compared under (KnowsStays; update_resource_secret).                    *)
THEOREM NoRevisionIsLost == Spec => NoLostRevision
<1>1. Guarded /\ [Next]_allVars => [RevisionRead]_secrets
  <2>1. SUFFICES ASSUME Guarded, Next, ~UNCHANGED secrets PROVE RevisionRead
    BY DEF allVars, secretVars
  <2>2. PICK h \in Readers : Writes(h)
    BY <2>1, SecretsAreWritten
  <2> QED
    BY <2>2 DEF Writes, Written, RevisionRead
<1> QED
  BY AlwaysGuarded, <1>1, PTL DEF Spec, NoLostRevision, RevisionRead

(* ArchivedSecretsStay's action. *)
OpenWritten ==
  \A i \in DOMAIN secrets' :
    i \notin DOMAIN secrets \/ secrets'[i].version # secrets[i].version
      => ~resources[secrets'[i].resource].archived

(* The secrets of an archived resource are read or deleted, never created  *)
(* or replaced, though it may be archived at any moment (_lock_resource    *)
(* with require_active against archive_resource).                          *)
THEOREM ArchivedSecretsAreKept == Spec => ArchivedSecretsStay
<1>1. Guarded /\ [Next]_allVars => [OpenWritten]_secrets
  <2>1. SUFFICES ASSUME Guarded, Next, ~UNCHANGED secrets PROVE OpenWritten
    BY DEF allVars, secretVars
  <2>2. PICK h \in Readers : Writes(h)
    BY <2>1, SecretsAreWritten
  <2> QED
    BY <2>2 DEF Writes, Written, OpenWritten
<1> QED
  BY AlwaysGuarded, <1>1, PTL DEF Spec, ArchivedSecretsStay, OpenWritten

-------------------------------------------------------------------------------
(* Deadlock *)

SecretLocks == {"secret"} \X Nat

(* A request about a secret locks a lease, a resource and then the secret. *)
ReaderOrder(h) ==
  /\ sec[h].at \in {"idle", "lease", "answer"} => held[h] = {}
  /\ sec[h].at = "resource" => held[h] \subseteq LeaseLocks
  /\ sec[h].at \notin {"write", "revise"} => held[h] \subseteq RowLocks

LocksInOrder ==
  /\ \A h \in Readers : ReaderOrder(h)
  /\ \A t \in Changers : ChangeOrder(t)
  /\ \A w \in Workers : SweepOrder(w)
  /\ \A t \in Editors : EditOrder(t)

LEMMA SecretLockTypes ==
  /\ \A i \in Nat : SecretLock(i) \in SecretLocks
  /\ \A s \in SecretLocks, l \in RowLocks : s # l
BY DEF SecretLock, SecretLocks, RowLocks, LeaseLocks, ResourceLocks

LEMMA ReaderInOrder ==
  ASSUME Guarded, NEW h \in Readers, ReaderBy(h), ReaderOrder(h)
  PROVE  ReaderOrder(h)'
<1>1. /\ held \in [Transactions -> SUBSET Locks] /\ h \in Transactions
      /\ sec \in [Readers -> ReaderLocals] /\ sec[h] \in ReaderLocals
      /\ Knows(h, sec[h]) /\ DOMAIN leases \subseteq Nat
  BY ReadersAssumption DEF Guarded, Typed, StoreTypeOK, SecretTypeOK
<1>2. CASE EndReader(h)
  BY <1>1, <1>2 DEF EndReader, ReleaseAll, IdleReader, ReaderOrder
<1>3. CASE BeginReader(h)
  <2>1. ASSUME NEW op, NEW a, NEW r, NEW i, NEW body, BeginForResource(h, op, a, r, i, body)
        PROVE  ReaderOrder(h)'
    BY <1>1, <2>1 DEF BeginForResource, IdleReader, storeVars, ReaderOrder
  <2>2. ASSUME NEW op, NEW p, NEW l, NEW i, BeginForLease(h, op, p, l, i)
        PROVE  ReaderOrder(h)'
    BY <1>1, <2>2 DEF BeginForLease, IdleReader, storeVars, ReaderOrder
  <2> QED
    BY <1>3, <2>1, <2>2 DEF BeginReader
<1>4. CASE LockLeaseOfSecret(h)
  <2>1. sec[h].at = "lease" /\ sec[h].lease \in Nat
    BY <1>1, <1>4 DEF LockLeaseOfSecret, ReaderLocals
  <2>2. held'[h] = held[h] \cup {LeaseLock(sec[h].lease)}
    BY <1>1, <1>4 DEF LockLeaseOfSecret, Take
  <2>3. sec'[h].at \in {"secret", "resource"}
    BY <1>1, <1>4 DEF LockLeaseOfSecret, ReaderLocals
  <2> QED
    BY <2>1, <2>2, <2>3, RowLockTypes DEF ReaderOrder, RowLocks
<1>5. CASE LockResourceOfSecret(h)
  <2>1. sec[h].at = "resource" /\ sec[h].resource \in Resources
    BY <1>1, <1>5 DEF LockResourceOfSecret, Knows
  <2>2. held'[h] = held[h] \cup {ResourceLock(sec[h].resource)}
    BY <1>1, <1>5 DEF LockResourceOfSecret, Take
  <2>3. sec'[h].at \in {"visible", "write", "secret"}
    BY <1>1, <1>5 DEF LockResourceOfSecret, Goto, ReaderLocals
  <2> QED
    BY <2>1, <2>2, <2>3, RowLockTypes DEF ReaderOrder, RowLocks
<1>6. CASE SeeResource(h)
  <2>1. sec[h].at = "visible" /\ UNCHANGED held
    BY <1>6 DEF SeeResource, storeVars
  <2>2. sec'[h].at = "secret"
    BY <1>1, <1>6 DEF SeeResource, ReaderLocals
  <2> QED
    BY <2>1, <2>2 DEF ReaderOrder, RowLocks, ResourceLocks
<1>7. CASE LockSecret(h)
  <2>1. sec'[h].at = "write"
    BY <1>1, <1>7 DEF LockSecret, Goto, ReaderLocals
  <2> QED
    BY <2>1 DEF ReaderOrder
<1>8. CASE CommitReveal(h)
  <2>1. sec'[h].at = "answer"
    BY <1>1, <1>8 DEF CommitReveal, ReaderLocals
  <2>2. held'[h] = {}
    BY <1>1, <1>8 DEF CommitReveal, ReleaseAll
  <2> QED
    BY <2>1, <2>2 DEF ReaderOrder
<1>9. CASE CheckRevision(h)
  <2>1. sec'[h].at = "revise"
    BY <1>1, <1>9 DEF CheckRevision, Goto, ReaderLocals
  <2> QED
    BY <2>1 DEF ReaderOrder
<1> QED
  BY <1>2, <1>3, <1>4, <1>5, <1>6, <1>7, <1>8, <1>9
     DEF ReaderBy, ReaderStep, RefuseReader, AnswerMetadata, Unavailable, NothingToUpdate,
         CommitCreateSecret, CommitUpdateSecret, CommitDeleteSecret, Commit, AnswerSecret,
         AbortReader

LEMMA InitInOrder == Init => LocksInOrder
BY HandlersDisjoint
   DEF Init, Begun, LocksInOrder, ReaderOrder, ChangeOrder, SweepOrder, EditOrder

(* A step moves one transaction, and the locks of that one alone. *)
LEMMA NextInOrder == Guarded /\ LocksInOrder /\ [Next]_allVars => LocksInOrder'
<1> SUFFICES ASSUME Guarded, LocksInOrder, [Next]_allVars PROVE LocksInOrder'
  OBVIOUS
<1>1. /\ StoreTypeOK /\ ChangesTyped /\ SweepsTyped /\ EditsTyped
      /\ ChangeTypeOK /\ EditTypeOK /\ LocksExclude
      /\ sec \in [Readers -> ReaderLocals]
  BY DEF Guarded, Typed, ChangesTyped, EditsTyped, SecretTypeOK
<1>2. /\ \A h \in Readers : held'[h] = held[h] /\ sec'[h] = sec[h] => ReaderOrder(h)'
      /\ \A t \in Changers : held'[t] = held[t] /\ chg'[t] = chg[t] => ChangeOrder(t)'
      /\ \A w \in Workers : held'[w] = held[w] => SweepOrder(w)'
      /\ \A t \in Editors : held'[t] = held[t] /\ adm'[t] = adm[t] => EditOrder(t)'
  BY DEF LocksInOrder, ReaderOrder, ChangeOrder, SweepOrder, EditOrder, LeaseLocks,
         ResourceLocks, RowLocks
<1>3. CASE UNCHANGED <<held, sec, handlers>>
  BY <1>2, <1>3 DEF LocksInOrder, handlers
<1>4. CASE ChangeNext /\ UNCHANGED <<groups, secretVars, sec, swp, adm>>
  <2>1. PICK t \in Changers : ChangeBy(t)
    BY <1>4 DEF ChangeNext
  <2>2. ChangeOrder(t)'
    BY <1>1, <2>1, ChangeInOrder DEF LocksInOrder
  <2> QED
    BY <1>1, <1>2, <1>4, <2>1, <2>2, ChangeAlone, HandlersDisjoint DEF LocksInOrder
<1>5. CASE SweepNext /\ UNCHANGED <<groups, secretVars, sec, chg, adm>>
  <2>1. PICK w \in Workers : SweepBy(w)
    BY <1>5 DEF SweepNext
  <2>2. SweepOrder(w)' /\ \A u \in Transactions \ {w} : held'[u] = held[u]
    BY <1>1, <2>1, SweepInOrder DEF LocksInOrder
  <2> QED
    BY <1>2, <1>5, <2>2, HandlersDisjoint DEF LocksInOrder
<1>6. CASE EditNext /\ UNCHANGED <<groups, secretVars, sec, chg, swp>>
  <2>1. PICK t \in Editors : EditBy(t)
    BY <1>6 DEF EditNext
  <2>2. EditOrder(t)'
    BY <1>1, <2>1, EditInOrder DEF LocksInOrder
  <2> QED
    BY <1>1, <1>2, <1>6, <2>1, <2>2, EditAlone, HandlersDisjoint DEF LocksInOrder
<1>7. ASSUME NEW h \in Readers, ReaderBy(h), UNCHANGED handlers
      PROVE  LocksInOrder'
  <2>1. ReaderOrder(h)'
    BY <1>7, ReaderInOrder DEF LocksInOrder
  <2>2. h \in Transactions /\ ReaderLocks(h)
    BY <1>7, ReadersAssumption, ReaderEffect
  <2>3. \A t \in Transactions \ {h} : held'[t] = held[t]
    BY <1>1, <2>2, LocksStep DEF ReaderLocks
  <2>4. \A g \in Readers \ {h} : sec'[g] = sec[g]
    <3>1. PICK row : sec' = [sec EXCEPT ![h] = row]
      BY <1>7, ReaderEffect
    <3> QED
      BY <1>1, <3>1
  <2> QED
    BY <1>2, <1>7, <2>1, <2>3, <2>4, HandlersDisjoint DEF LocksInOrder, handlers
<1>8. ASSUME NEW added, NEW active, Restart(added, active), UNCHANGED handlers
      PROVE  LocksInOrder'
  <2>1. /\ \A h \in Readers : sec'[h].at = "idle" /\ held'[h] = {}
        /\ \A t \in Changers \cup Workers \cup Editors : held'[t] = held[t]
    BY <1>8, HandlersDisjoint DEF Restart, IdleReader
  <2>2. \A h \in Readers : ReaderOrder(h)'
    BY <2>1 DEF ReaderOrder
  <2> QED
    BY <1>2, <1>8, <2>1, <2>2 DEF LocksInOrder, handlers
<1> QED
  <2>1. GroupNext /\ UNCHANGED <<secretVars, sec, handlers>> => UNCHANGED <<held, sec, handlers>>
    <3>1. GroupNext => UNCHANGED held
      BY DEF GroupNext, ArchiveGroup, AddMember, RemoveMember, SetGroupGrant, Record
    <3> QED
      BY <3>1
  <2>2. Tick /\ UNCHANGED <<groups, secretVars, sec, handlers>> => UNCHANGED <<held, sec, handlers>>
    BY DEF Tick
  <2>3. \A k \in RingKeys : DecideRetire(k) /\ UNCHANGED handlers => UNCHANGED <<held, sec, handlers>>
    BY DEF DecideRetire, storeVars
  <2>4. UNCHANGED allVars => UNCHANGED <<held, sec, handlers>>
    BY DEF allVars, storeVars
  <2> QED
    BY <1>3, <1>4, <1>5, <1>6, <1>7, <1>8, <2>1, <2>2, <2>3, <2>4
       DEF Next, SecretNext, ReaderBy

(* What a transaction that waits for a lock holds meanwhile. *)
LEMMA WaitingHolds ==
  ASSUME Guarded, LocksInOrder, NEW t \in Transactions, DisclosureWaitsFor(t) # {}
  PROVE  \/ /\ t \in Readers \cup Changers
            /\ DisclosureWaitsFor(t) \subseteq LeaseLocks /\ held[t] = {}
         \/ /\ t \in Readers \cup Changers
            /\ DisclosureWaitsFor(t) \subseteq ResourceLocks /\ held[t] \subseteq LeaseLocks
         \/ /\ t \in Readers
            /\ DisclosureWaitsFor(t) \subseteq SecretLocks /\ held[t] \subseteq RowLocks
         \/ /\ t \in Workers
            /\ DisclosureWaitsFor(t) \subseteq ResourceLocks /\ held[t] \subseteq RowLocks
         \/ /\ t \in Editors
            /\ DisclosureWaitsFor(t) \subseteq ResourceLocks /\ held[t] = {}
<1>1. /\ StoreTypeOK /\ ChangeTypeOK /\ SweepTypeOK
      /\ \A u \in Changers : ChangeArgs(u)
      /\ \A w \in Workers : SweepArgs(w)
      /\ \A u \in Editors : EditArgs(u)
  BY DEF Guarded, Typed, ChangesTyped, SweepsTyped, EditsTyped
<1>2. CASE t \in Readers
  <2>1. DisclosureWaitsFor(t) = ReaderWaitsFor(t)
    BY <1>2, HandlersDisjoint DEF DisclosureWaitsFor
  <2>2. Knows(t, sec[t]) /\ sec[t] \in ReaderLocals /\ ReaderOrder(t)
    BY <1>2 DEF Guarded, Knows, LocksInOrder
  <2>3. CASE sec[t].at = "lease"
    <3>1. DisclosureWaitsFor(t) \subseteq {LeaseLock(sec[t].lease)} /\ sec[t].lease \in Nat
      BY <2>1, <2>2, <2>3 DEF ReaderWaitsFor, ReaderLocals
    <3> QED
      BY <1>2, <2>2, <2>3, <3>1, RowLockTypes DEF ReaderOrder
  <2>4. CASE sec[t].at = "resource"
    <3>1. DisclosureWaitsFor(t) \subseteq {ResourceLock(sec[t].resource)}
      BY <2>1, <2>4 DEF ReaderWaitsFor
    <3>2. sec[t].resource \in Resources
      BY <2>2, <2>4 DEF Knows
    <3> QED
      BY <1>2, <2>2, <2>4, <3>1, <3>2, RowLockTypes DEF ReaderOrder
  <2>5. CASE sec[t].at = "secret"
    <3>1. DisclosureWaitsFor(t) \subseteq {SecretLock(sec[t].secret)} /\ sec[t].secret \in Nat
      BY <2>1, <2>2, <2>5 DEF ReaderWaitsFor, ReaderLocals
    <3> QED
      BY <1>2, <2>2, <2>5, <3>1, SecretLockTypes DEF ReaderOrder
  <2> QED
    BY <2>1, <2>3, <2>4, <2>5 DEF ReaderWaitsFor
<1>3. CASE t \in Changers
  <2>1. DisclosureWaitsFor(t) = ChangeWaitsFor(t)
    BY <1>3, HandlersDisjoint DEF DisclosureWaitsFor
  <2>2. /\ chg[t].at \in {"lease", "resource"} /\ DisclosureWaitsFor(t) = {ChangeLock(t)}
        /\ ChangeOrder(t) /\ chg[t].lease \in DOMAIN leases /\ chg[t].lease \in Nat
    BY <1>1, <1>3, <2>1 DEF ChangeWaitsFor, LocksInOrder, ChangeArgs, ChangeTypeOK, ChangeLocals
  <2>3. CASE chg[t].at = "lease"
    BY <1>3, <2>2, <2>3, RowLockTypes DEF ChangeLock, ChangeOrder
  <2>4. CASE chg[t].at = "resource"
    <3>1. leases[chg[t].lease].resource \in Resources
      BY <1>1, <2>2, LeaseTyped DEF LeaseRow
    <3> QED
      BY <1>3, <2>2, <2>4, <3>1, RowLockTypes DEF ChangeLock, ChangeOrder
  <2> QED
    BY <2>2, <2>3, <2>4
<1>4. CASE t \in Workers
  <2>1. DisclosureWaitsFor(t) = SweepWaitsFor(t)
    BY <1>4, HandlersDisjoint DEF DisclosureWaitsFor
  <2>2. /\ swp[t].todo # <<>> /\ swp[t].todo \in Seq(Nat)
        /\ DisclosureWaitsFor(t) = {ResourceLock(leases[Head(swp[t].todo)].resource)}
    BY <1>1, <1>4, <2>1 DEF SweepWaitsFor, SweepTypeOK, SweepLocals
  <2>3. Head(swp[t].todo) \in DOMAIN leases
    BY <1>1, <1>4, <2>2 DEF SweepArgs
  <2>4. leases[Head(swp[t].todo)].resource \in Resources
    BY <1>1, <2>3, LeaseTyped DEF LeaseRow
  <2> QED
    BY <1>4, <2>2, <2>4, RowLockTypes DEF LocksInOrder, SweepOrder
<1>5. CASE t \in Editors
  <2>1. DisclosureWaitsFor(t) = EditWaitsFor(t)
    BY <1>5, HandlersDisjoint DEF DisclosureWaitsFor
  <2>2. adm[t].at = "lock" /\ DisclosureWaitsFor(t) = {ResourceLock(adm[t].resource)}
    BY <2>1 DEF EditWaitsFor
  <2>3. adm[t].resource \in Resources
    BY <1>1, <1>5, <2>2 DEF EditArgs
  <2> QED
    BY <1>5, <2>2, <2>3, RowLockTypes DEF LocksInOrder, EditOrder
<1> QED
  BY <1>2, <1>3, <1>4, <1>5, HandlersDisjoint

(* With one worker, requests about secrets wait in no circle with the      *)
(* others.  Only they hold secrets, and none that waits holds one; of      *)
(* those that wait, only the worker holds resources, and it does not wait  *)
(* for itself; those that are left wait for leases and hold nothing        *)
(* (_lock_leased_resource, _lock_secret, expire_due_leases).               *)
THEOREM NoSecretDeadlock ==
  ASSUME \A v, w \in Workers : v = w
  PROVE  Spec => []NoSecretLockCycle
<1>1. Guarded /\ LocksInOrder => NoSecretLockCycle
  <2> SUFFICES ASSUME Guarded, LocksInOrder, NEW S \in SUBSET Transactions,
                      \A t \in S : \E u \in S \ {t} : DisclosureWaitsFor(t) \cap held[u] # {}
               PROVE  S = {}
    BY DEF NoSecretLockCycle
  <2> DEFINE Stuck(t) ==
        \/ /\ t \in Readers \cup Changers
           /\ DisclosureWaitsFor(t) \subseteq LeaseLocks /\ held[t] = {}
        \/ /\ t \in Readers \cup Changers
           /\ DisclosureWaitsFor(t) \subseteq ResourceLocks /\ held[t] \subseteq LeaseLocks
        \/ /\ t \in Readers
           /\ DisclosureWaitsFor(t) \subseteq SecretLocks /\ held[t] \subseteq RowLocks
        \/ /\ t \in Workers
           /\ DisclosureWaitsFor(t) \subseteq ResourceLocks /\ held[t] \subseteq RowLocks
        \/ /\ t \in Editors
           /\ DisclosureWaitsFor(t) \subseteq ResourceLocks /\ held[t] = {}
  <2>1. ASSUME NEW t \in S PROVE Stuck(t)
    <3>1. DisclosureWaitsFor(t) # {} /\ t \in Transactions
      OBVIOUS
    <3> QED
      BY <3>1, WaitingHolds
  <2>2. \A s \in SecretLocks, l \in RowLocks : s # l
    BY SecretLockTypes
  <2>3. \A l \in LeaseLocks, r \in ResourceLocks : l # r
    BY RowLockTypes
  <2>4. \A t \in S : held[t] \subseteq RowLocks
    BY <2>1 DEF RowLocks
  <2>5. \A t \in S : ~(DisclosureWaitsFor(t) \subseteq SecretLocks)
    <3> SUFFICES ASSUME NEW t \in S, DisclosureWaitsFor(t) \subseteq SecretLocks PROVE FALSE
      OBVIOUS
    <3>1. PICK u \in S : DisclosureWaitsFor(t) \cap held[u] # {}
      OBVIOUS
    <3> QED
      BY <2>2, <2>4, <3>1
  <2>6. \A t \in S : t \notin Workers
    <3> SUFFICES ASSUME NEW t \in S, t \in Workers PROVE FALSE
      OBVIOUS
    <3>1. DisclosureWaitsFor(t) \subseteq ResourceLocks
      BY <2>1, HandlersDisjoint
    <3>2. PICK u \in S \ {t} : DisclosureWaitsFor(t) \cap held[u] # {}
      OBVIOUS
    <3>3. held[u] \subseteq LeaseLocks
      BY <2>1, <2>5
    <3> QED
      BY <2>3, <3>1, <3>2, <3>3
  <2>7. \A t \in S : held[t] \subseteq LeaseLocks
    BY <2>1, <2>5, <2>6
  <2>8. \A t \in S : ~(DisclosureWaitsFor(t) \subseteq ResourceLocks)
    <3> SUFFICES ASSUME NEW t \in S, DisclosureWaitsFor(t) \subseteq ResourceLocks PROVE FALSE
      OBVIOUS
    <3>1. PICK u \in S : DisclosureWaitsFor(t) \cap held[u] # {}
      OBVIOUS
    <3> QED
      BY <2>3, <2>7, <3>1
  <2>9. \A t \in S : held[t] = {}
    BY <2>1, <2>5, <2>8
  <2> QED
    BY <2>9
<1> QED
  BY AlwaysGuarded, InitInOrder, NextInOrder, <1>1, PTL DEF Spec
===============================================================================
