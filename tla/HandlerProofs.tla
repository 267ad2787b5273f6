---------------------------- MODULE HandlerProofs ----------------------------
(***************************************************************************)
(* What each handler that changes leases and resources keeps, whatever     *)
(* else runs beside it: the types of its rows, and the order in which it   *)
(* locks them.                                                             *)
(*                                                                         *)
(* A transaction's local variables have the types the tables need only     *)
(* once it has bound them, so a handler's type is that of its variable and *)
(* what each of its positions has bound.  The locks a transaction holds    *)
(* follow from its position in the same way: a lease before its resource,  *)
(* never two of a kind but in the worker.                                  *)
(***************************************************************************)
EXTENDS LeaseChange, ExpirationWorker, CatalogChange, FiniteSetTheorems, TLAPS

ChangeArgs(t) ==
  /\ chg[t].at # "idle" => chg[t].lease \in DOMAIN leases /\ chg[t].who \in Principals
  /\ chg[t].at = "end" => chg[t].op \in {"Released", "Revoked"}

SweepArgs(w) ==
  /\ \A n \in DOMAIN swp[w].todo : swp[w].todo[n] \in DOMAIN leases
  /\ swp[w].expired \subseteq DOMAIN leases

EditArgs(t) ==
  adm[t].at # "idle" =>
    /\ adm[t].who \in Admins /\ adm[t].resource \in Resources
    /\ adm[t].op \in GrantEdits => adm[t].principal \in Principals

ChangesTyped == ChangeTypeOK /\ \A t \in Changers : ChangeArgs(t)
SweepsTyped == SweepTypeOK /\ \A w \in Workers : SweepArgs(w)
EditsTyped == EditTypeOK /\ \A t \in Editors : EditArgs(t)

-------------------------------------------------------------------------------
(* Lemmas on the operators *)

(* What is recorded has a row more, or has occurred; the rest is as it was. *)
LEMMA RecordedRows ==
  ASSUME StoreTypeOK, NEW E
  PROVE  /\ DOMAIN Recorded(E) = DOMAIN audit \cup E
         /\ \A e \in DOMAIN Recorded(E) : Recorded(E)[e] \in Nat \ {0}
         /\ \A e \in DOMAIN audit \ E : Recorded(E)[e] = audit[e]
         /\ \A e \in E : Recorded(E)[e] = IF e.action \in EndActions THEN Rows(e) + 1 ELSE 1
<1>1. \A e \in DOMAIN audit : audit[e] \in Nat \ {0}
  BY DEF StoreTypeOK
<1>2. \A e : Rows(e) \in Nat
  BY <1>1 DEF Rows
<1>3. /\ DOMAIN Recorded(E) = DOMAIN audit \cup E
      /\ \A e \in DOMAIN audit \cup E :
           Recorded(E)[e] = IF e \notin E THEN audit[e]
                            ELSE IF e.action \in EndActions THEN Rows(e) + 1 ELSE 1
  BY DEF Recorded
<1> QED
  BY <1>1, <1>2, <1>3

LEMMA RecordedTyped ==
  ASSUME StoreTypeOK, audit' = audit \/ \E E : audit' = Recorded(E)
  PROVE  \A e \in DOMAIN audit' : audit'[e] \in Nat \ {0}
BY RecordedRows DEF StoreTypeOK

(* An expiration is a time or NULL. *)
LEMMA ExpiresAtType ==
  ASSUME NEW c \in Config, NEW ttl \in TtlIntents, NEW t \in Nat
  PROVE  ExpiresAt(t, c, ttl) \in Seconds
BY NullAssumption DEF ExpiresAt, Resolved, Seconds, Config, TtlIntents, Ttls

(* A batch is a sequence of leases that nobody has locked. *)
LEMMA BatchesType ==
  ASSUME StoreTypeOK, NEW w \in Workers, NEW s \in Batches(w)
  PROVE  /\ s \in Seq(Nat)
         /\ \A n \in DOMAIN s : s[n] \in Lockable(w)
<1>1. Lockable(w) \subseteq DOMAIN leases
  BY DEF Lockable
<1>2. Len(leases) \in Nat /\ DOMAIN leases = 1..Len(leases)
  BY DEF StoreTypeOK
<1>3. IsFiniteSet(1..Len(leases))
  BY <1>2, FS_Interval, 1 \in Int, Len(leases) \in Int
<1>4. IsFiniteSet(Lockable(w))
  BY <1>1, <1>2, <1>3, FS_Subset
<1>5. Cardinality(Lockable(w)) \in Nat
  BY <1>4, FS_CardinalityType
<1>6. Lockable(w) \subseteq Nat
  BY <1>1, <1>2
<1>7. PICK size \in Nat : s \in [1..size -> Lockable(w)]
  BY <1>5, BatchSizeAssumption DEF Batches
<1> QED
  BY <1>6, <1>7

-------------------------------------------------------------------------------
(* Lease changes *)

(* A row of the table has the type of rows. *)
LEMMA LeaseTyped ==
  ASSUME StoreTypeOK, NEW i \in DOMAIN leases
  PROVE  leases[i] \in LeaseRow
BY DEF StoreTypeOK

LEMMA ChangeTyped ==
  ASSUME StoreTypeOK, ChangesTyped, NEW t \in Changers, DOMAIN leases \subseteq DOMAIN leases',
         ChangeBy(t)
  PROVE  ChangeTypeOK' /\ \A u \in Changers : ChangeArgs(u)'
<1> DEFINE Goal == ChangeTypeOK' /\ \A u \in Changers : ChangeArgs(u)'
<1>1. /\ ChangeTypeOK /\ StoreTypeOK /\ \A u \in Changers : ChangeArgs(u)
      /\ clock \in Nat /\ 0 \in Nat /\ NULL \in Seconds /\ NULL \in TtlIntents
      /\ DOMAIN leases \subseteq Nat
  BY DEF ChangesTyped, StoreTypeOK, Seconds, TtlIntents, Ttls
<1>2. chg[t] \in ChangeLocals
  BY <1>1 DEF ChangeTypeOK
<1>3. ASSUME NEW op \in Operations, NEW p \in Principals, NEW i \in DOMAIN leases,
             NEW ttl \in TtlIntents, BeginChange(t, op, p, i, ttl)
      PROVE  Goal
  <2>1. ChangeTypeOK'
    BY <1>1, <1>3, Zenon DEF BeginChange, IdleChange, ChangeTypeOK, ChangeLocals
  <2>2. \A u \in Changers : ChangeArgs(u)'
    BY <1>1, <1>3 DEF BeginChange, IdleChange, ChangeTypeOK, ChangeLocals, ChangeArgs
  <2> QED
    BY <2>1, <2>2
<1>4. CASE EndChange(t)
  <2>0. IdleChange \in ChangeLocals
    BY <1>1 DEF IdleChange, ChangeLocals, Operations, TtlIntents, Ttls, Seconds
  <2>1. ChangeTypeOK'
    BY <1>1, <1>4, <2>0 DEF EndChange, ChangeTypeOK
  <2>2. \A u \in Changers : ChangeArgs(u)'
    BY <1>1, <1>4 DEF EndChange, IdleChange, ChangeTypeOK, ChangeLocals, ChangeArgs
  <2> QED
    BY <2>1, <2>2
<1>5. CASE LockLease(t) \/ LockLeasedResource(t) \/ FindActive(t)
  <2>1. PICK next \in {"resource", "check", "end", "policy"} :
          /\ chg[t].at # "idle" /\ chg' = [chg EXCEPT ![t].at = next]
          /\ next = "end" => chg[t].op \in {"Released", "Revoked"}
    BY <1>2, <1>5 DEF LockLease, LockLeasedResource, FindActive, ChangeLocals, Operations
  <2>0. [chg[t] EXCEPT !.at = next] \in ChangeLocals
    BY <1>2, <2>1 DEF ChangeLocals
  <2>2. ChangeTypeOK'
    BY <1>1, <2>0, <2>1 DEF ChangeTypeOK
  <2>3. \A u \in Changers : ChangeArgs(u)'
    BY <1>1, <2>1 DEF ChangeTypeOK, ChangeLocals, ChangeArgs
  <2> QED
    BY <2>2, <2>3
<1>6. CASE ComputeRenewal(t)
  <2> DEFINE e == ExpiresAt(clock, PolicyNow(t), chg[t].ttl)
  <2>1. chg[t].lease \in DOMAIN leases
    BY <1>1, <1>6 DEF ComputeRenewal, ChangeArgs
  <2>2. leases[chg[t].lease].resource \in Resources
    BY <1>1, <2>1, LeaseTyped DEF LeaseRow
  <2>3. PolicyNow(t) \in Config
    BY <1>1, <2>2, ConfigsAssumption DEF PolicyNow, StoreTypeOK, ResourceRow
  <2>4. e \in Seconds
    BY <1>1, <1>2, <2>3, ExpiresAtType DEF ChangeLocals
  <2>5. /\ chg[t].at = "policy"
        /\ chg' = [chg EXCEPT ![t] = [@ EXCEPT !.at = "renew", !.renewed = clock,
                                               !.expires = e]]
    BY <1>6 DEF ComputeRenewal
  <2> HIDE DEF e
  <2> [chg[t] EXCEPT !.at = "renew", !.renewed = clock, !.expires = e] \in ChangeLocals
    BY <1>1, <1>2, <2>4, Zenon DEF ChangeLocals
  <2>6. ChangeTypeOK'
    BY <1>1, <2>5 DEF ChangeTypeOK
  <2>7. \A u \in Changers : ChangeArgs(u)'
    BY <1>1, <2>1, <2>5 DEF ChangeTypeOK, ChangeLocals, ChangeArgs
  <2> QED
    BY <2>6, <2>7
<1> QED
  <2>1. ASSUME NEW p \in Principals, NEW i \in DOMAIN leases, NEW ttl \in RenewalTtls,
               BeginChange(t, "Renew", p, i, ttl)
        PROVE  Goal
    BY <2>1, <1>3, RenewalTtlsAssumption DEF Operations
  <2>2. ASSUME NEW op \in {"Released", "Revoked"}, NEW p \in Principals,
               NEW i \in DOMAIN leases, BeginChange(t, op, p, i, NULL)
        PROVE  Goal
    BY <2>2, <1>1, <1>3 DEF Operations
  <2> QED
    BY <2>1, <2>2, <1>4, <1>5, <1>6
       DEF ChangeBy, ChangeStep, NotFound, RefuseInactive, RefuseTtl, CommitRenewal, AlreadyEnded,
           CommitEnd, AbortChange

-------------------------------------------------------------------------------
(* The expiration worker *)

LEMMA SweepTyped ==
  ASSUME StoreTypeOK, SweepsTyped, NEW w \in Workers, DOMAIN leases \subseteq DOMAIN leases',
         SweepBy(w)
  PROVE  SweepTypeOK' /\ \A u \in Workers : SweepArgs(u)'
<1> DEFINE Goal == SweepTypeOK' /\ \A u \in Workers : SweepArgs(u)'
<1>1. /\ SweepTypeOK /\ StoreTypeOK /\ \A u \in Workers : SweepArgs(u)
      /\ clock \in Nat /\ 0 \in Nat /\ <<>> \in Seq(Nat) /\ {} \in SUBSET Nat
      /\ DOMAIN leases \subseteq Nat
  BY DEF SweepsTyped, StoreTypeOK
<1>2. swp[w] \in SweepLocals
  BY <1>1 DEF SweepTypeOK
<1>3. CASE BeginSweep(w)
  <2>1. SweepTypeOK'
    BY <1>1, <1>3, Zenon DEF BeginSweep, IdleSweep, SweepTypeOK, SweepLocals
  <2>2. \A u \in Workers : SweepArgs(u)'
    BY <1>1, <1>3 DEF BeginSweep, IdleSweep, SweepTypeOK, SweepLocals, SweepArgs
  <2> QED
    BY <2>1, <2>2
<1>4. CASE EndSweep(w)
  <2>1. SweepTypeOK'
    BY <1>1, <1>4, Zenon DEF EndSweep, IdleSweep, SweepTypeOK, SweepLocals
  <2>2. \A u \in Workers : SweepArgs(u)'
    BY <1>1, <1>4 DEF EndSweep, IdleSweep, SweepTypeOK, SweepLocals, SweepArgs
  <2> QED
    BY <2>1, <2>2
<1>5. CASE LockBatch(w)
  <2>1. PICK s \in Batches(w) : swp' = [swp EXCEPT ![w] = [@ EXCEPT !.at = "expire", !.todo = s]]
    BY <1>5 DEF LockBatch
  <2>2. s \in Seq(Nat) /\ \A n \in DOMAIN s : s[n] \in Lockable(w)
    BY <1>1, <2>1, BatchesType
  <2>3. Lockable(w) \subseteq DOMAIN leases
    BY DEF Lockable
  <2> [swp[w] EXCEPT !.at = "expire", !.todo = s] \in SweepLocals
    BY <1>1, <1>2, <2>2, Zenon DEF SweepLocals
  <2>4. SweepTypeOK'
    BY <1>1, <2>1 DEF SweepTypeOK
  <2>5. \A u \in Workers : SweepArgs(u)'
    BY <1>1, <2>1, <2>2, <2>3 DEF SweepTypeOK, SweepLocals, SweepArgs
  <2> QED
    BY <2>4, <2>5
<1>6. CASE ExpireNext(w)
  <2> DEFINE rest == Tail(swp[w].todo)
             expired == IF Due(Head(swp[w].todo), swp[w].now)
                        THEN swp[w].expired \cup {Head(swp[w].todo)} ELSE swp[w].expired
  <2>1. swp[w].todo # <<>> /\ swp[w].todo \in Seq(Nat) /\ swp[w].expired \in SUBSET Nat
    BY <1>2, <1>6 DEF ExpireNext, SweepLocals
  <2>0. swp' = [swp EXCEPT ![w] = [@ EXCEPT !.todo = rest, !.expired = expired]]
    BY <1>6, Zenon DEF ExpireNext
  <2>2. /\ rest \in Seq(Nat)
        /\ \A n \in DOMAIN rest : n + 1 \in DOMAIN swp[w].todo /\ rest[n] = swp[w].todo[n + 1]
    BY <2>1
  <2>3. 1 \in DOMAIN swp[w].todo /\ Head(swp[w].todo) = swp[w].todo[1]
    BY <2>1
  <2>4. Head(swp[w].todo) \in DOMAIN leases
    BY <1>1, <2>3 DEF SweepArgs
  <2>5. expired \subseteq DOMAIN leases /\ expired \in SUBSET Nat
    BY <1>1, <2>1, <2>4 DEF SweepArgs
  <2>6. \A n \in DOMAIN rest : rest[n] \in DOMAIN leases
    BY <1>1, <2>2 DEF SweepArgs
  <2> HIDE DEF rest, expired
  <2> [swp[w] EXCEPT !.todo = rest, !.expired = expired] \in SweepLocals
    BY <1>2, <2>2, <2>5, Zenon DEF SweepLocals
  <2>7. SweepTypeOK'
    BY <1>1, <2>0 DEF SweepTypeOK
  <2>8. \A u \in Workers : SweepArgs(u)'
    BY <1>1, <2>0, <2>5, <2>6 DEF SweepTypeOK, SweepLocals, SweepArgs
  <2> QED
    BY <2>7, <2>8
<1> QED
  BY <1>3, <1>4, <1>5, <1>6 DEF SweepBy, SweepStep, CommitSweep, CrashSweep

-------------------------------------------------------------------------------
(* Resource edits *)

LEMMA EditTyped ==
  ASSUME StoreTypeOK, EditsTyped, NEW t \in Editors,
         EditBy(t)
  PROVE  EditTypeOK' /\ \A u \in Editors : EditArgs(u)'
<1> DEFINE Goal == EditTypeOK' /\ \A u \in Editors : EditArgs(u)'
<1>1. /\ EditTypeOK /\ StoreTypeOK /\ \A u \in Editors : EditArgs(u)
      /\ clock \in Nat /\ 0 \in Nat
  BY DEF EditsTyped, StoreTypeOK
<1>2. ASSUME NEW op \in {"update", "archive"} \cup Transitions \cup GrantEdits,
             NEW a \in Admins, NEW r \in Resources, NEW c \in Configs \cup {NULL},
             NEW p \in Principals \cup {NULL}, op \in GrantEdits => p \in Principals,
             BeginEdit(t, op, a, r, c, p)
      PROVE  Goal
  <2>1. Representation(r) \in Representations
    BY <1>1 DEF Representation, Representations, StoreTypeOK, ResourceRow
  <2>2. EditTypeOK'
    BY <1>1, <1>2, <2>1, Zenon DEF BeginEdit, EditTypeOK, EditLocals
  <2>3. \A u \in Editors : EditArgs(u)'
    BY <1>1, <1>2 DEF BeginEdit, EditTypeOK, EditLocals, EditArgs
  <2> QED
    BY <2>2, <2>3
<1>3. CASE EndEdit(t)
  <2>1. NoBase \in Representations
    BY Zenon, <1>1 DEF NoBase, Representations, Statuses
  <2>0. IdleEdit \in EditLocals
    BY <1>1, <2>1 DEF IdleEdit, EditLocals
  <2>2. EditTypeOK'
    BY <1>1, <1>3, <2>0 DEF EndEdit, EditTypeOK
  <2>3. \A u \in Editors : EditArgs(u)'
    BY <1>1, <1>3 DEF EndEdit, IdleEdit, EditTypeOK, EditLocals, EditArgs
  <2> QED
    BY <2>2, <2>3
<1>4. CASE LockEdited(t)
  <2>0. [adm[t] EXCEPT !.at = "apply"] \in EditLocals
    BY <1>1 DEF EditTypeOK, EditLocals
  <2>1. EditTypeOK'
    BY <1>1, <1>4, <2>0 DEF LockEdited, EditTypeOK
  <2>2. \A u \in Editors : EditArgs(u)'
    BY <1>1, <1>4 DEF LockEdited, EditTypeOK, EditLocals, EditArgs
  <2> QED
    BY <2>1, <2>2
<1> QED
  BY <1>2, <1>3, <1>4
     DEF EditBy, EditStep, FindArchived, RefuseUpdate, UpdateResource, RefuseArchive,
         ArchiveResource, RefuseTransition, TransitionResource, SetGrant, AbortEdit,
         Transitions, GrantEdits

-------------------------------------------------------------------------------
(* The tables and the locks *)

Kept == StoreTypeOK' /\ DOMAIN leases \subseteq DOMAIN leases'

(* Different things have different locks. *)
LEMMA LocksDiffer ==
  /\ \A p, q, k, l : KeyLock(p, k) = KeyLock(q, l) <=> p = q /\ k = l
  /\ \A i, j : LeaseLock(i) = LeaseLock(j) <=> i = j
  /\ \A r, s : ResourceLock(r) = ResourceLock(s) <=> r = s
  /\ \A r, i : ResourceLock(r) # LeaseLock(i)
  /\ \A p, k, i : KeyLock(p, k) # LeaseLock(i) /\ KeyLock(p, k) # ResourceLock(i)
  /\ \A i, j : SecretLock(i) = SecretLock(j) <=> i = j
  /\ \A r, i : SecretLock(i) # ResourceLock(r) /\ SecretLock(i) # LeaseLock(r)
BY DEF KeyLock, LeaseLock, ResourceLock, SecretLock

(* The locks that handlers ask for are locks. *)
LEMMA LockTypes ==
  /\ \A p \in Principals, k \in Keys : KeyLock(p, k) \in Locks
  /\ \A i \in Nat : LeaseLock(i) \in Locks
  /\ \A r \in Resources : ResourceLock(r) \in Locks
  /\ \A i \in Nat : SecretLock(i) \in Locks
BY DEF Locks, KeyLock, LeaseLock, ResourceLock, SecretLock

(* A step that writes no row. *)
LEMMA NoWrite ==
  ASSUME StoreTypeOK, UNCHANGED <<clock, tables>>, NEW t \in Transactions,
         \/ \E lock \in Locks : Take(t, lock)
         \/ ReleaseAll(t)
         \/ UNCHANGED held
  PROVE  Kept
<1>1. held' \in [Transactions -> SUBSET Locks]
  BY DEF StoreTypeOK, Take, ReleaseAll
<1> QED
  BY <1>1 DEF StoreTypeOK, tables, Kept

(* A step that writes some rows of the table of leases in place. *)
LEMMA SomeRows ==
  ASSUME leases \in Seq(LeaseRow), NEW f, leases' = [i \in DOMAIN leases |-> f[i]],
         \A i \in DOMAIN leases : f[i] \in LeaseRow
  PROVE  leases' \in Seq(LeaseRow) /\ DOMAIN leases' = DOMAIN leases
<1>1. Len(leases) \in Nat /\ DOMAIN leases = 1..Len(leases)
  OBVIOUS
<1> QED
  BY <1>1

LEMMA ChangeStore ==
  ASSUME StoreTypeOK, ChangesTyped, NEW t \in Changers,
         ChangeBy(t)
  PROVE  Kept
<1> DEFINE c == chg[t]
<1>1. StoreTypeOK /\ ChangeArgs(t) /\ t \in Transactions /\ c \in ChangeLocals
  BY ChangersAssumption DEF ChangesTyped, ChangeTypeOK
<1>2. CASE UNCHANGED storeVars
  BY <1>1, <1>2, NoWrite DEF storeVars, tables
<1>3. CASE EndChange(t) /\ UNCHANGED <<clock, tables>>
  BY <1>1, <1>3, NoWrite DEF EndChange
<1>4. CASE LockLease(t) \/ LockLeasedResource(t)
  <2>1. c.lease \in DOMAIN leases /\ c.lease \in Nat
    BY <1>1, <1>4 DEF LockLease, LockLeasedResource, ChangeArgs, ChangeLocals
  <2>2. leases[c.lease].resource \in Resources
    BY <1>1, <2>1, LeaseTyped DEF LeaseRow
  <2>3. ChangeLock(t) \in Locks
    BY <2>1, <2>2, LockTypes DEF ChangeLock
  <2> QED
    BY <1>1, <1>4, <2>3, NoWrite DEF LockLease, LockLeasedResource
<1>5. CASE CommitRenewal(t) \/ CommitEnd(t)
  <2>1. /\ c.at # "idle" /\ EndChange(t) /\ UNCHANGED <<clock, resources, grants>>
        /\ \/ leases' = [leases EXCEPT ![c.lease] = [@ EXCEPT !.expires = c.expires,
                                                              !.renewed = c.renewed]]
           \/ /\ c.at = "end"
              /\ leases' = [leases EXCEPT ![c.lease] = [@ EXCEPT !.ended = c.now,
                                                                 !.reason = c.op]]
    BY <1>5 DEF CommitRenewal, CommitEnd
  <2>2. c.lease \in DOMAIN leases /\ leases[c.lease] \in LeaseRow
    BY <1>1, <2>1, LeaseTyped DEF ChangeArgs
  <2>3. /\ c.expires \in Seconds /\ c.renewed \in Seconds /\ c.now \in Seconds
    BY <1>1 DEF ChangeLocals, Seconds
  <2>4. c.at = "end" => c.op \in {"Released", "Revoked", "Expired", NULL}
    BY <1>1 DEF ChangeArgs, ChangeLocals, Operations
  <2>5. [leases[c.lease] EXCEPT !.expires = c.expires, !.renewed = c.renewed] \in LeaseRow
    BY <2>2, <2>3, Zenon DEF LeaseRow
  <2>6. c.at = "end" =>
          [leases[c.lease] EXCEPT !.ended = c.now, !.reason = c.op] \in LeaseRow
    BY <2>2, <2>3, <2>4, Zenon DEF LeaseRow
  <2> HIDE DEF c
  <2>7. PICK row \in LeaseRow : leases' = [leases EXCEPT ![c.lease] = row]
    <3>1. CASE leases' = [leases EXCEPT ![c.lease] = [@ EXCEPT !.expires = c.expires,
                                                               !.renewed = c.renewed]]
      BY <2>5, <3>1
    <3>2. CASE /\ c.at = "end"
               /\ leases' = [leases EXCEPT ![c.lease] = [@ EXCEPT !.ended = c.now,
                                                                  !.reason = c.op]]
      BY <2>6, <3>2
    <3> QED
      BY <2>1, <3>1, <3>2
  <2>8. leases \in Seq(LeaseRow)
    BY <1>1 DEF StoreTypeOK
  <2>9. leases' \in Seq(LeaseRow) /\ DOMAIN leases' = DOMAIN leases
    BY <2>2, <2>7, <2>8
  <2>10. held' \in [Transactions -> SUBSET Locks]
    BY <1>1, <2>1 DEF StoreTypeOK, EndChange, ReleaseAll
  <2>11. \A e \in DOMAIN audit' : audit'[e] \in Nat \ {0}
    BY <1>1, <1>5, RecordedTyped DEF CommitRenewal, CommitEnd
  <2> QED
    BY <1>1, <2>1, <2>9, <2>10, <2>11 DEF StoreTypeOK, Kept
<1> QED
  BY <1>2, <1>3, <1>4, <1>5
     DEF ChangeBy, BeginChange, ChangeStep, NotFound, RefuseInactive, FindActive, RefuseTtl,
         ComputeRenewal, AlreadyEnded, AbortChange

LEMMA SweepStore ==
  ASSUME StoreTypeOK, SweepsTyped, NEW w \in Workers, SweepBy(w)
  PROVE  Kept
<1>1. StoreTypeOK /\ SweepArgs(w) /\ w \in Transactions /\ swp[w] \in SweepLocals
  BY WorkersAssumption DEF SweepsTyped, SweepTypeOK
<1>2. CASE UNCHANGED storeVars
  BY <1>1, <1>2, NoWrite DEF storeVars, tables
<1>3. CASE EndSweep(w) /\ UNCHANGED <<clock, tables>>
  BY <1>1, <1>3, NoWrite DEF EndSweep
<1>4. CASE LockBatch(w)
  <2>1. PICK s \in Batches(w) :
          held' = [held EXCEPT ![w] = @ \cup {LeaseLock(s[n]) : n \in DOMAIN s}]
    BY <1>4 DEF LockBatch
  <2>2. s \in Seq(Nat)
    BY <1>1, <2>1, BatchesType
  <2>3. {LeaseLock(s[n]) : n \in DOMAIN s} \subseteq Locks
    BY <2>2, LockTypes
  <2>4. held' \in [Transactions -> SUBSET Locks]
    BY <1>1, <2>1, <2>3 DEF StoreTypeOK
  <2> QED
    BY <1>1, <1>4, <2>4 DEF LockBatch, StoreTypeOK, Kept, tables
<1>5. CASE ExpireNext(w)
  <2>1. 1 \in DOMAIN swp[w].todo /\ Head(swp[w].todo) = swp[w].todo[1]
    BY <1>1, <1>5 DEF ExpireNext, SweepLocals
  <2>2. Head(swp[w].todo) \in DOMAIN leases
    BY <1>1, <2>1 DEF SweepArgs
  <2>3. leases[Head(swp[w].todo)].resource \in Resources
    BY <1>1, <2>2, LeaseTyped DEF LeaseRow
  <2> QED
    BY <1>1, <1>5, <2>3, NoWrite, LockTypes DEF ExpireNext
<1>6. CASE CommitSweep(w)
  <2> DEFINE end(i) == [leases[i] EXCEPT !.ended = leases[i].expires, !.reason = "Expired"]
             f == [i \in DOMAIN leases |-> IF i \in swp[w].expired THEN end(i) ELSE leases[i]]
  <2>1. leases' = f /\ EndSweep(w) /\ UNCHANGED <<clock, resources, grants>>
    BY <1>6 DEF CommitSweep
  <2>2. ASSUME NEW i \in DOMAIN leases PROVE end(i) \in LeaseRow /\ leases[i] \in LeaseRow
    <3>1. leases[i] \in LeaseRow
      BY <1>1, LeaseTyped
    <3>2. leases[i].expires \in Seconds /\ "Expired" \in {"Released", "Revoked", "Expired", NULL}
      BY <3>1 DEF LeaseRow
    <3> QED
      BY <3>1, <3>2, Zenon DEF LeaseRow
  <2> HIDE DEF end
  <2>3. leases' = [i \in DOMAIN leases |-> f[i]] /\ \A i \in DOMAIN leases : f[i] \in LeaseRow
    BY <2>1, <2>2
  <2> HIDE DEF f
  <2>4. leases' \in Seq(LeaseRow) /\ DOMAIN leases' = DOMAIN leases
    BY <1>1, <2>3, SomeRows DEF StoreTypeOK
  <2>5. held' \in [Transactions -> SUBSET Locks]
    BY <1>1, <2>1 DEF StoreTypeOK, EndSweep, ReleaseAll
  <2>6. \A e \in DOMAIN audit' : audit'[e] \in Nat \ {0}
    BY <1>1, <1>6, RecordedTyped DEF CommitSweep
  <2> QED
    BY <1>1, <2>1, <2>4, <2>5, <2>6 DEF StoreTypeOK, Kept
<1> QED
  BY <1>2, <1>3, <1>4, <1>5, <1>6 DEF SweepBy, SweepStep, BeginSweep, CrashSweep

LEMMA EditStore ==
  ASSUME StoreTypeOK, EditsTyped, NEW t \in Editors,
         EditBy(t)
  PROVE  Kept
<1> DEFINE r == adm[t].resource
<1>1. StoreTypeOK /\ EditArgs(t) /\ t \in Transactions /\ adm[t] \in EditLocals
  BY EditorsAssumption DEF EditsTyped, EditTypeOK
<1>2. CASE UNCHANGED storeVars
  BY <1>1, <1>2, NoWrite DEF storeVars, tables
<1>3. CASE EndEdit(t) /\ UNCHANGED <<clock, tables>>
  BY <1>1, <1>3, NoWrite DEF EndEdit
<1>4. CASE LockEdited(t)
  BY <1>1, <1>4, NoWrite, LockTypes DEF LockEdited, EditArgs
<1>5. ASSUME NEW row \in ResourceRow, adm[t].at # "idle",
             resources' = [resources EXCEPT ![r] = row], EndEdit(t),
             UNCHANGED <<clock, grants, leases>>, audit' = audit \/ \E E : audit' = Recorded(E)
      PROVE  Kept
  <2>1. \A e \in DOMAIN audit' : audit'[e] \in Nat \ {0}
    BY <1>1, <1>5, RecordedTyped
  <2> QED
    BY <1>1, <1>5, <2>1 DEF EndEdit, ReleaseAll, StoreTypeOK, Kept, EditArgs
<1>6. adm[t].at # "idle" => /\ resources[r] \in ResourceRow
                            /\ resources[r].version + 1 \in Nat
  BY <1>1 DEF EditArgs, StoreTypeOK, ResourceRow
<1>7. CASE UpdateResource(t)
  <2>1. adm[t].config \in Configs /\ adm[t].at # "idle"
    BY <1>1, <1>7 DEF UpdateResource, UpdateAllowed, Applies, EditLocals
  <2>2. [resources[r] EXCEPT !.config = adm[t].config, !.version = @ + 1] \in ResourceRow
    BY <1>6, <2>1, Zenon DEF ResourceRow
  <2> QED
    BY <1>5, <1>7, <2>1, <2>2 DEF UpdateResource
<1>8. CASE ArchiveResource(t)
  <2>1. adm[t].at # "idle"
    BY <1>8 DEF ArchiveResource, Applies
  <2>2. [resources[r] EXCEPT !.archived = TRUE, !.version = @ + 1] \in ResourceRow
    BY <1>6, <2>1, Zenon DEF ResourceRow
  <2> QED
    BY <1>5, <1>8, <2>1, <2>2 DEF ArchiveResource
<1>9. CASE TransitionResource(t)
  <2>1. adm[t].at # "idle" /\ adm[t].op \in Transitions
    BY <1>9 DEF TransitionResource, Applies
  <2>2. TargetOf(adm[t].op) \in Statuses
    BY <2>1 DEF TargetOf, Transitions, Statuses
  <2>3. [resources[r] EXCEPT !.status = TargetOf(adm[t].op), !.version = @ + 1]
          \in ResourceRow
    BY <1>6, <2>1, <2>2, Zenon DEF ResourceRow
  <2> QED
    BY <1>5, <1>9, <2>1, <2>3 DEF TransitionResource
<1>10. CASE SetGrant(t)
  <2>1. adm[t].principal \in Principals /\ r \in Resources
    BY <1>1, <1>10 DEF SetGrant, Applies, EditArgs
  <2>2. grants' \subseteq Principals \X Resources
    BY <1>1, <1>10, <2>1 DEF SetGrant, StoreTypeOK
  <2>3. \A e \in DOMAIN audit' : audit'[e] \in Nat \ {0}
    BY <1>1, <1>10, RecordedTyped DEF SetGrant
  <2> QED
    BY <1>1, <1>10, <2>2, <2>3 DEF SetGrant, EndEdit, ReleaseAll, StoreTypeOK, Kept
<1> QED
  BY <1>2, <1>3, <1>4, <1>7, <1>8, <1>9, <1>10
     DEF EditBy, BeginEdit, EditStep, FindArchived, RefuseUpdate, RefuseArchive, RefuseTransition,
         AbortEdit

-------------------------------------------------------------------------------
(* Handlers at rest *)

LEMMA IdleTyped ==
  /\ chg = [t \in Changers |-> IdleChange] => ChangesTyped
  /\ swp = [w \in Workers |-> IdleSweep] => SweepsTyped
  /\ adm = [t \in Editors |-> IdleEdit] => EditsTyped
<1>1. 0 \in Nat /\ NULL \in Seconds /\ NULL \in TtlIntents /\ <<>> \in Seq(Nat)
  BY DEF Seconds, TtlIntents, Ttls
<1>2. IdleChange \in ChangeLocals
  BY <1>1, Zenon DEF IdleChange, ChangeLocals, Operations
<1>3. IdleSweep \in SweepLocals
  BY <1>1, Zenon DEF IdleSweep, SweepLocals
<1>4. NoBase \in Representations
  BY <1>1, Zenon DEF NoBase, Representations, Statuses
<1>5. IdleEdit \in EditLocals
  BY <1>1, <1>4, Zenon DEF IdleEdit, EditLocals
<1>6. /\ IdleChange.at = "idle" /\ IdleEdit.at = "idle"
      /\ IdleSweep.todo = <<>> /\ IdleSweep.expired = {}
  BY DEF IdleChange, IdleEdit, IdleSweep
<1>7. chg = [t \in Changers |-> IdleChange] => ChangesTyped
  BY <1>2, <1>6 DEF ChangesTyped, ChangeTypeOK, ChangeArgs
<1>8. swp = [w \in Workers |-> IdleSweep] => SweepsTyped
  BY <1>3, <1>6 DEF SweepsTyped, SweepTypeOK, SweepArgs
<1>9. adm = [t \in Editors |-> IdleEdit] => EditsTyped
  BY <1>5, <1>6 DEF EditsTyped, EditTypeOK, EditArgs
<1> QED
  BY <1>7, <1>8, <1>9

(* Leases are never deleted, so what a handler knows of them survives the  *)
(* steps of the others. *)
LEMMA StayTyped ==
  ASSUME DOMAIN leases \subseteq DOMAIN leases'
  PROVE  /\ ChangesTyped /\ UNCHANGED chg => ChangesTyped'
         /\ SweepsTyped /\ UNCHANGED swp => SweepsTyped'
         /\ EditsTyped /\ UNCHANGED adm => EditsTyped'
<1>1. ChangesTyped /\ UNCHANGED chg => ChangesTyped'
  BY DEF ChangesTyped, ChangeTypeOK, ChangeArgs
<1>2. SweepsTyped /\ UNCHANGED swp => SweepsTyped'
  BY DEF SweepsTyped, SweepTypeOK, SweepArgs
<1>3. EditsTyped /\ UNCHANGED adm => EditsTyped'
  BY DEF EditsTyped, EditTypeOK, EditArgs
<1> QED
  BY <1>1, <1>2, <1>3

-------------------------------------------------------------------------------
(* The order in which the handlers lock rows *)

LeaseLocks == {"lease"} \X Nat
ResourceLocks == {"resource"} \X Resources
RowLocks == LeaseLocks \cup ResourceLocks

(* A change locks a lease and then a resource; a sweep locks leases, and   *)
(* then resources one by one; an edit locks one resource.                  *)
ChangeOrder(t) ==
  /\ held[t] \subseteq RowLocks
  /\ chg[t].at \in {"idle", "lease"} => held[t] = {}
  /\ chg[t].at = "resource" => held[t] \subseteq LeaseLocks

SweepOrder(w) == held[w] \subseteq RowLocks

EditOrder(t) ==
  /\ held[t] \subseteq ResourceLocks
  /\ adm[t].at # "apply" => held[t] = {}

LEMMA RowLockTypes ==
  /\ \A i \in Nat : LeaseLock(i) \in LeaseLocks
  /\ \A r \in Resources : ResourceLock(r) \in ResourceLocks
  /\ \A l \in LeaseLocks, r \in ResourceLocks : l # r
BY DEF LeaseLock, ResourceLock, LeaseLocks, ResourceLocks

LEMMA ChangeInOrder ==
  ASSUME StoreTypeOK, ChangesTyped, NEW t \in Changers, ChangeBy(t), ChangeOrder(t)
  PROVE  ChangeOrder(t)'
<1>1. /\ held \in [Transactions -> SUBSET Locks] /\ t \in Transactions
      /\ chg \in [Changers -> ChangeLocals] /\ chg[t] \in ChangeLocals
  BY ChangersAssumption DEF StoreTypeOK, ChangesTyped, ChangeTypeOK
<1>2. CASE EndChange(t)
  BY <1>1, <1>2 DEF EndChange, ReleaseAll, IdleChange, ChangeOrder
<1>3. ASSUME NEW op, NEW p, NEW i, NEW ttl, BeginChange(t, op, p, i, ttl)
      PROVE  ChangeOrder(t)'
  BY <1>1, <1>3 DEF BeginChange, IdleChange, storeVars, ChangeOrder
<1>4. CASE LockLease(t)
  <2>1. chg[t].lease \in Nat
    BY <1>1 DEF ChangeLocals
  <2>2. /\ chg[t].at = "lease" /\ chg'[t] = [chg[t] EXCEPT !.at = "resource"]
        /\ held'[t] = held[t] \cup {LeaseLock(chg[t].lease)}
    BY <1>1, <1>4 DEF LockLease, Take, ChangeLock
  <2>3. chg'[t].at = "resource"
    BY <1>1, <2>2 DEF ChangeLocals
  <2> QED
    BY <2>1, <2>2, <2>3, RowLockTypes DEF ChangeOrder, RowLocks
<1>5. CASE LockLeasedResource(t)
  <2>1. chg[t].at = "resource" /\ chg[t].lease \in DOMAIN leases
    BY <1>5 DEF LockLeasedResource, ChangesTyped, ChangeArgs
  <2>2. leases[chg[t].lease].resource \in Resources
    BY <2>1, LeaseTyped DEF LeaseRow
  <2>3. /\ held'[t] = held[t] \cup {ResourceLock(leases[chg[t].lease].resource)}
        /\ chg'[t] = [chg[t] EXCEPT !.at = IF chg[t].op = "Renew" THEN "check" ELSE "end"]
    BY <1>1, <1>5, <2>1 DEF LockLeasedResource, Take, ChangeLock
  <2>4. chg'[t].at \in {"check", "end"}
    BY <1>1, <2>3 DEF ChangeLocals
  <2> QED
    BY <2>2, <2>3, <2>4, RowLockTypes DEF ChangeOrder, RowLocks
<1>6. CASE FindActive(t)
  <2>1. UNCHANGED held /\ chg'[t] = [chg[t] EXCEPT !.at = "policy"]
    BY <1>1, <1>6 DEF FindActive, storeVars
  <2>2. chg'[t].at = "policy"
    BY <1>1, <2>1 DEF ChangeLocals
  <2> QED
    BY <2>1, <2>2 DEF ChangeOrder
<1>7. CASE ComputeRenewal(t)
  <2>1. PICK e : /\ UNCHANGED held
                 /\ chg' = [chg EXCEPT ![t] = [@ EXCEPT !.at = "renew", !.renewed = clock,
                                                        !.expires = e]]
    BY <1>7 DEF ComputeRenewal, storeVars
  <2>2. chg'[t].at = "renew"
    BY <1>1, <2>1 DEF ChangeLocals
  <2> QED
    BY <2>1, <2>2 DEF ChangeOrder
<1> QED
  BY <1>2, <1>3, <1>4, <1>5, <1>6, <1>7
     DEF ChangeBy, ChangeStep, NotFound, RefuseInactive, RefuseTtl, CommitRenewal,
         AlreadyEnded, CommitEnd, AbortChange

LEMMA ChangeAlone ==
  ASSUME StoreTypeOK, ChangeTypeOK, NEW t \in Changers, ChangeBy(t)
  PROVE  /\ \A u \in Changers \ {t} : chg'[u] = chg[u]
         /\ \A u \in Transactions \ {t} : held'[u] = held[u]
<1>1. /\ held \in [Transactions -> SUBSET Locks] /\ t \in Transactions
      /\ chg \in [Changers -> ChangeLocals]
  BY ChangersAssumption DEF StoreTypeOK, ChangeTypeOK
<1>2. \A u \in Changers \ {t} : chg'[u] = chg[u]
  BY <1>1 DEF ChangeBy, BeginChange, ChangeStep, NotFound, LockLease, LockLeasedResource,
              RefuseInactive, FindActive, RefuseTtl, ComputeRenewal, CommitRenewal,
              AlreadyEnded, CommitEnd, AbortChange, EndChange
<1>3. (\E lock : Take(t, lock)) \/ ReleaseAll(t) \/ UNCHANGED held
  BY DEF ChangeBy, BeginChange, ChangeStep, NotFound, LockLease, LockLeasedResource,
         RefuseInactive, FindActive, RefuseTtl, ComputeRenewal, CommitRenewal,
         AlreadyEnded, CommitEnd, AbortChange, EndChange, storeVars
<1>4. \A u \in Transactions \ {t} : held'[u] = held[u]
  BY <1>1, <1>3 DEF Take, ReleaseAll
<1> QED
  BY <1>2, <1>4

LEMMA SweepInOrder ==
  ASSUME StoreTypeOK, SweepsTyped, NEW w \in Workers, SweepBy(w), SweepOrder(w)
  PROVE  /\ SweepOrder(w)'
         /\ \A u \in Transactions \ {w} : held'[u] = held[u]
<1>1. /\ held \in [Transactions -> SUBSET Locks] /\ w \in Transactions
      /\ DOMAIN leases \subseteq Nat
  BY WorkersAssumption DEF StoreTypeOK
<1>2. CASE LockBatch(w)
  <2>1. PICK s \in Batches(w) :
          held' = [held EXCEPT ![w] = @ \cup {LeaseLock(s[n]) : n \in DOMAIN s}]
    BY <1>2 DEF LockBatch
  <2>2. \A n \in DOMAIN s : s[n] \in Nat
    BY <1>1, BatchesType DEF Lockable
  <2> QED
    BY <1>1, <2>1, <2>2, RowLockTypes DEF SweepOrder, RowLocks
<1>3. CASE ExpireNext(w)
  <2>1. /\ swp[w].todo # <<>> /\ swp[w].todo \in Seq(Nat)
        /\ held' = [held EXCEPT ![w] = @ \cup {ResourceLock(leases[Head(swp[w].todo)].resource)}]
    BY <1>3 DEF ExpireNext, Take, SweepsTyped, SweepTypeOK, SweepLocals
  <2>2. Head(swp[w].todo) \in DOMAIN leases
    BY <2>1 DEF SweepsTyped, SweepArgs
  <2>3. leases[Head(swp[w].todo)].resource \in Resources
    BY <2>2, LeaseTyped DEF LeaseRow
  <2> QED
    BY <1>1, <2>1, <2>3, RowLockTypes DEF SweepOrder, RowLocks
<1>4. CASE ReleaseAll(w) \/ UNCHANGED held
  BY <1>1, <1>4 DEF ReleaseAll, SweepOrder
<1> QED
  BY <1>2, <1>3, <1>4
     DEF SweepBy, SweepStep, BeginSweep, CommitSweep, CrashSweep, EndSweep, storeVars

LEMMA EditInOrder ==
  ASSUME StoreTypeOK, EditsTyped, NEW t \in Editors, EditBy(t), EditOrder(t)
  PROVE  EditOrder(t)'
<1>1. /\ held \in [Transactions -> SUBSET Locks] /\ t \in Transactions
      /\ adm \in [Editors -> EditLocals] /\ adm[t] \in EditLocals
  BY EditorsAssumption DEF StoreTypeOK, EditsTyped, EditTypeOK
<1>2. CASE EndEdit(t)
  BY <1>1, <1>2 DEF EndEdit, ReleaseAll, IdleEdit, EditOrder
<1>3. ASSUME NEW op, NEW a, NEW r, NEW c, NEW p, BeginEdit(t, op, a, r, c, p)
      PROVE  EditOrder(t)'
  BY <1>1, <1>3 DEF BeginEdit, storeVars, EditOrder
<1>4. CASE LockEdited(t)
  <2>1. adm[t].resource \in Resources
    BY <1>4 DEF LockEdited, EditsTyped, EditArgs
  <2>2. /\ held'[t] = held[t] \cup {ResourceLock(adm[t].resource)}
        /\ adm'[t] = [adm[t] EXCEPT !.at = "apply"]
    BY <1>1, <1>4 DEF LockEdited, Take
  <2>3. adm'[t].at = "apply"
    BY <1>1, <2>2 DEF EditLocals
  <2> QED
    BY <2>1, <2>2, <2>3, RowLockTypes DEF EditOrder
<1> QED
  BY <1>2, <1>3, <1>4
     DEF EditBy, EditStep, FindArchived, RefuseUpdate, UpdateResource, RefuseArchive,
         ArchiveResource, RefuseTransition, TransitionResource, SetGrant, AbortEdit

LEMMA EditAlone ==
  ASSUME StoreTypeOK, EditTypeOK, NEW t \in Editors, EditBy(t)
  PROVE  /\ \A u \in Editors \ {t} : adm'[u] = adm[u]
         /\ \A u \in Transactions \ {t} : held'[u] = held[u]
<1>1. /\ held \in [Transactions -> SUBSET Locks] /\ t \in Transactions
      /\ adm \in [Editors -> EditLocals]
  BY EditorsAssumption DEF StoreTypeOK, EditTypeOK
<1>2. \A u \in Editors \ {t} : adm'[u] = adm[u]
  BY <1>1 DEF EditBy, BeginEdit, EditStep, LockEdited, FindArchived, RefuseUpdate,
              UpdateResource, RefuseArchive, ArchiveResource, RefuseTransition,
              TransitionResource, SetGrant, AbortEdit, EndEdit
<1>3. (\E lock : Take(t, lock)) \/ ReleaseAll(t) \/ UNCHANGED held
  BY DEF EditBy, BeginEdit, EditStep, LockEdited, FindArchived, RefuseUpdate,
         UpdateResource, RefuseArchive, ArchiveResource, RefuseTransition,
         TransitionResource, SetGrant, AbortEdit, EndEdit, storeVars
<1>4. \A u \in Transactions \ {t} : held'[u] = held[u]
  BY <1>1, <1>3 DEF Take, ReleaseAll
<1> QED
  BY <1>2, <1>4
===============================================================================
