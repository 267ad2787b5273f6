------------------------------ MODULE TypeProofs ------------------------------
(***************************************************************************)
(* Type correctness of Shepherd: the inductive invariant adds to TypeOK    *)
(* what each position of a handler has bound.                              *)
(***************************************************************************)
EXTENDS Shepherd, HandlerProofs

AcquireArgs(t) ==
  /\ acq[t].at # "idle" =>
       acq[t].who \in Principals /\ acq[t].key \in Keys /\ acq[t].request \in Requests
  /\ acq[t].at \in {"recheck", "insert", "commit"} => acq[t].target \in Resources

ArgumentsOK == /\ \A t \in Acquirers : AcquireArgs(t)
               /\ \A t \in Changers : ChangeArgs(t)
               /\ \A w \in Workers : SweepArgs(w)
               /\ \A t \in Editors : EditArgs(t)

Typed == TypeOK /\ ArgumentsOK

-------------------------------------------------------------------------------
(* Lemmas on the operators *)

(* The order in which candidates are tried is a sequence of resources. *)
LEMMA InPreferenceType ==
  ASSUME NEW S \in SUBSET Resources, NEW now, NEW s \in InPreference(S, now)
  PROVE  s \in Seq(Resources)
<1>1. IsFiniteSet(S)
  BY ResourcesAssumption, FS_Subset
<1>2. Cardinality(S) \in Nat
  BY <1>1, FS_CardinalityType
<1> QED
  BY <1>2 DEF InPreference

-------------------------------------------------------------------------------
(* Acquisition *)

LEMMA AcquireTyped ==
  ASSUME Typed, NEW t \in Acquirers,
         AcquireBy(t)
  PROVE  AcquireTypeOK' /\ \A u \in Acquirers : AcquireArgs(u)'
<1> DEFINE Goal == AcquireTypeOK' /\ \A u \in Acquirers : AcquireArgs(u)'
<1>1. /\ AcquireTypeOK /\ StoreTypeOK /\ \A u \in Acquirers : AcquireArgs(u)
      /\ clock \in Nat /\ 0 \in Nat /\ NULL \in Seconds
      /\ <<>> \in Seq(Resources)
      /\ acq[t].todo \in Seq(Resources)
  BY DEF Typed, TypeOK, ArgumentsOK, StoreTypeOK, AcquireTypeOK, AcquireLocals, Seconds
<1>2. ASSUME NEW p \in Principals, NEW k \in Keys, NEW q \in Requests, BeginAcquire(t, p, k, q)
      PROVE  Goal
  <2>1. AcquireTypeOK'
    BY <1>1, <1>2, Zenon DEF BeginAcquire, IdleAcquire, AcquireTypeOK, AcquireLocals
  <2>2. \A u \in Acquirers : AcquireArgs(u)'
    BY <1>1, <1>2 DEF BeginAcquire, IdleAcquire, AcquireTypeOK, AcquireLocals, AcquireArgs
  <2> QED
    BY <2>1, <2>2
<1>3. CASE EndAcquire(t)
  <2>1. AcquireTypeOK'
    BY <1>1, <1>3, Zenon DEF EndAcquire, IdleAcquire, AcquireTypeOK, AcquireLocals
  <2>2. \A u \in Acquirers : AcquireArgs(u)'
    BY <1>1, <1>3 DEF EndAcquire, IdleAcquire, AcquireTypeOK, AcquireLocals, AcquireArgs
  <2> QED
    BY <2>1, <2>2
<1>4. CASE LockKey(t)
  <2>0. [acq[t] EXCEPT !.at = "existing"] \in AcquireLocals
    BY <1>1 DEF AcquireTypeOK, AcquireLocals
  <2>1. AcquireTypeOK'
    BY <1>1, <1>4, <2>0 DEF LockKey, AcquireTypeOK
  <2>2. \A u \in Acquirers : AcquireArgs(u)'
    BY <1>1, <1>4 DEF LockKey, AcquireTypeOK, AcquireLocals, AcquireArgs
  <2> QED
    BY <2>1, <2>2
<1>5. CASE SelectCandidates(t)
  <2> DEFINE granted == GrantedTo(acq[t].who)
             matching == Matching(acq[t].request, granted, acq[t].now)
  <2>1. PICK s \in InPreference(matching, acq[t].now) :
          acq' = [acq EXCEPT ![t] =
                    [@ EXCEPT !.at = "lock", !.todo = s, !.granted = granted]]
    BY <1>5 DEF SelectCandidates
  <2>2. granted \in SUBSET Resources /\ matching \in SUBSET Resources
    BY DEF GrantedTo, Matching
  <2>3. s \in Seq(Resources)
    BY <2>2, InPreferenceType
  <2>4. acq[t].at = "existing"
    BY <1>5 DEF SelectCandidates
  <2> HIDE DEF granted, matching
  <2> acq[t] \in AcquireLocals
    BY <1>1 DEF AcquireTypeOK
  <2> [acq[t] EXCEPT !.at = "lock", !.todo = s, !.granted = granted] \in AcquireLocals
    BY <2>2, <2>3, Zenon DEF AcquireLocals
  <2>5. AcquireTypeOK'
    BY <1>1, <2>1 DEF AcquireTypeOK
  <2>6. \A u \in Acquirers : AcquireArgs(u)'
    BY <1>1, <2>1, <2>2, <2>3, <2>4 DEF AcquireTypeOK, AcquireLocals, AcquireArgs
  <2> QED
    BY <2>5, <2>6
<1>6. CASE SkipLocked(t) \/ PassOver(t)
  <2>1. /\ acq[t].at = "lock"
        /\ acq' = [acq EXCEPT ![t].todo = Tail(acq[t].todo)]
        /\ Tail(acq[t].todo) \in Seq(Resources)
    BY <1>1, <1>6 DEF SkipLocked, PassOver
  <2>0. [acq[t] EXCEPT !.todo = Tail(acq[t].todo)] \in AcquireLocals
    BY <1>1, <2>1 DEF AcquireTypeOK, AcquireLocals
  <2>2. AcquireTypeOK'
    BY <1>1, <2>0, <2>1 DEF AcquireTypeOK
  <2>3. \A u \in Acquirers : AcquireArgs(u)'
    BY <1>1, <2>1 DEF AcquireTypeOK, AcquireLocals, AcquireArgs
  <2> QED
    BY <2>2, <2>3
<1>7. CASE LockCandidate(t)
  <2> DEFINE r == Head(acq[t].todo)
             next == IF acq[t].request.mode = "Exclusive" THEN "recheck" ELSE "insert"
  <2>1. /\ acq[t].at = "lock"
        /\ acq' = [acq EXCEPT ![t] = [@ EXCEPT !.target = r, !.todo = <<>>, !.at = next]]
        /\ r \in Resources /\ next \in {"recheck", "insert"}
    BY <1>1, <1>7 DEF LockCandidate
  <2> HIDE DEF r, next
  <2> acq[t] \in AcquireLocals
    BY <1>1 DEF AcquireTypeOK
  <2> [acq[t] EXCEPT !.target = r, !.todo = <<>>, !.at = next] \in AcquireLocals
    BY <1>1, <2>1, Zenon DEF AcquireLocals
  <2>2. AcquireTypeOK'
    BY <1>1, <2>1 DEF AcquireTypeOK
  <2>3. \A u \in Acquirers : AcquireArgs(u)'
    BY <1>1, <2>1 DEF AcquireTypeOK, AcquireLocals, AcquireArgs
  <2> QED
    BY <2>2, <2>3
<1>8. CASE StillFree(t)
  <2>0. [acq[t] EXCEPT !.at = "insert"] \in AcquireLocals
    BY <1>1 DEF AcquireTypeOK, AcquireLocals
  <2>1. AcquireTypeOK'
    BY <1>1, <1>8, <2>0 DEF StillFree, AcquireTypeOK
  <2>2. \A u \in Acquirers : AcquireArgs(u)'
    BY <1>1, <1>8 DEF StillFree, AcquireTypeOK, AcquireLocals, AcquireArgs
  <2> QED
    BY <2>1, <2>2
<1>9. CASE InsertLease(t)
  <2> DEFINE e == ExpiresAt(clock, resources[acq[t].target].config, acq[t].request.ttl)
  <2>1. resources[acq[t].target].config \in Config /\ acq[t].request.ttl \in TtlIntents
    BY <1>1, <1>9, ConfigsAssumption, RequestsAssumption
       DEF InsertLease, StoreTypeOK, ResourceRow, Request, AcquireArgs
  <2>2. e \in Seconds
    BY <1>1, <2>1, ExpiresAtType
  <2>3. /\ acq[t].at = "insert"
        /\ acq' = [acq EXCEPT ![t] =
                     [@ EXCEPT !.at = "commit", !.acquired = clock, !.expires = e]]
    BY <1>9 DEF InsertLease
  <2> HIDE DEF e
  <2> acq[t] \in AcquireLocals
    BY <1>1 DEF AcquireTypeOK
  <2> [acq[t] EXCEPT !.at = "commit", !.acquired = clock, !.expires = e] \in AcquireLocals
    BY <1>1, <2>2, Zenon DEF AcquireLocals
  <2>4. AcquireTypeOK'
    BY <1>1, <2>3 DEF AcquireTypeOK
  <2>5. \A u \in Acquirers : AcquireArgs(u)'
    BY <1>1, <2>2, <2>3 DEF AcquireTypeOK, AcquireLocals, AcquireArgs
  <2> QED
    BY <2>4, <2>5
<1> QED
  BY <1>2, <1>3, <1>4, <1>5, <1>6, <1>7, <1>8, <1>9
     DEF AcquireBy, AcquireStep, AbortAcquire, AnswerFromExisting, NoneAvailable, StillActive, CommitAcquire

-------------------------------------------------------------------------------
-------------------------------------------------------------------------------
LEMMA AcquireStore ==
  ASSUME Typed, NEW t \in Acquirers,
         AcquireBy(t)
  PROVE  Kept
<1>1. /\ StoreTypeOK /\ AcquireArgs(t) /\ t \in Transactions /\ acq[t] \in AcquireLocals
      /\ NULL \in Seconds /\ NULL \in {"Released", "Revoked", "Expired", NULL}
  BY AcquirersAssumption
     DEF Typed, TypeOK, ArgumentsOK, AcquireTypeOK, Seconds
<1>2. ASSUME NEW p \in Principals, NEW k \in Keys, NEW q \in Requests, BeginAcquire(t, p, k, q)
      PROVE  Kept
  BY <1>1, <1>2, NoWrite DEF BeginAcquire, storeVars, tables
<1>3. CASE EndAcquire(t) /\ UNCHANGED <<clock, tables>>
  BY <1>1, <1>3, NoWrite DEF EndAcquire
<1>4. CASE LockKey(t)
  BY <1>1, <1>4, NoWrite, LockTypes DEF LockKey, AcquireArgs
<1>5. CASE PassOver(t) \/ LockCandidate(t)
  <2>1. Head(acq[t].todo) \in Resources
    BY <1>1, <1>5 DEF PassOver, LockCandidate, AcquireLocals
  <2> QED
    BY <1>1, <1>5, <2>1, NoWrite, LockTypes DEF PassOver, LockCandidate
<1>6. CASE SelectCandidates(t) \/ SkipLocked(t) \/ StillFree(t) \/ InsertLease(t)
  BY <1>1, <1>6, NoWrite
     DEF SelectCandidates, SkipLocked, StillFree, InsertLease, storeVars, tables
<1>7. CASE CommitAcquire(t)
  <2> DEFINE a == acq[t]
             row == [resource |-> a.target, owner |-> a.who, key |-> a.key,
                     request |-> a.request, acquired |-> a.acquired,
                     expires |-> a.expires, renewed |-> NULL, ended |-> NULL,
                     reason |-> NULL]
  <2>1. /\ a.at = "commit" /\ leases' = Append(leases, row)
        /\ resources' = [resources EXCEPT ![a.target].leasedAt = a.acquired]
        /\ EndAcquire(t) /\ UNCHANGED <<clock, grants>>
    BY <1>7 DEF CommitAcquire
  <2>2. /\ a.who \in Principals /\ a.key \in Keys /\ a.request \in Request
        /\ a.target \in Resources /\ a.acquired \in Nat /\ a.expires \in Seconds
    BY <1>1, <2>1, RequestsAssumption DEF AcquireArgs, AcquireLocals
  <2> HIDE DEF a
  <2>3. row \in LeaseRow
    BY <1>1, <2>2, Zenon DEF LeaseRow
  <2> HIDE DEF row
  <2>4. leases' \in Seq(LeaseRow) /\ DOMAIN leases \subseteq DOMAIN leases'
    BY <1>1, <2>1, <2>3 DEF StoreTypeOK
  <2>5. a.acquired \in Seconds
    BY <2>2 DEF Seconds
  <2>6. resources' \in [Resources -> ResourceRow]
    BY <1>1, <2>1, <2>2, <2>5, Zenon DEF StoreTypeOK, ResourceRow
  <2>7. held' \in [Transactions -> SUBSET Locks]
    BY <1>1, <2>1 DEF StoreTypeOK, EndAcquire, ReleaseAll
  <2>8. \A e \in DOMAIN audit' : audit'[e] \in Nat \ {0}
    BY <1>1, <1>7, RecordedTyped DEF CommitAcquire
  <2> QED
    BY <1>1, <2>1, <2>4, <2>6, <2>7, <2>8 DEF StoreTypeOK, Kept
<1> QED
  BY <1>2, <1>3, <1>4, <1>5, <1>6, <1>7
     DEF AcquireBy, AcquireStep, AbortAcquire, AnswerFromExisting, NoneAvailable, StillActive

-------------------------------------------------------------------------------
(* Type correctness *)

LEMMA InitTyped == Init => Typed
<1> SUFFICES ASSUME Init PROVE Typed
  OBVIOUS
<1>1. 0 \in Nat /\ NULL \in Seconds /\ <<>> \in Seq(Resources)
  BY DEF Seconds
<1>2. StoreTypeOK
  <2>1. ASSUME NEW c \in Configs PROVE Created(c) \in ResourceRow
    BY <1>1, Zenon DEF Created, ResourceRow, Statuses
  <2>2. resources \in [Resources -> ResourceRow]
    BY <2>1, InitialConfigsAssumption DEF Init
  <2> QED
    BY <1>1, <2>2 DEF Init, StoreTypeOK, NothingRecorded
<1>3. AcquireTypeOK
  BY <1>1, Zenon DEF Init, AcquireTypeOK, IdleAcquire, AcquireLocals
<1>4. ChangesTyped /\ SweepsTyped /\ EditsTyped
  BY IdleTyped DEF Init
<1>5. \A t \in Acquirers : AcquireArgs(t)
  BY DEF Init, AcquireArgs, IdleAcquire
<1> QED
  BY <1>2, <1>3, <1>4, <1>5
     DEF Typed, TypeOK, ArgumentsOK, ChangesTyped, SweepsTyped, EditsTyped

LEMMA NextTyped == Typed /\ [Next]_vars => Typed'
<1> SUFFICES ASSUME Typed, [Next]_vars PROVE Typed'
  OBVIOUS
<1>1. /\ StoreTypeOK /\ ChangesTyped /\ SweepsTyped /\ EditsTyped
      /\ AcquireTypeOK /\ \A t \in Acquirers : AcquireArgs(t)
  BY DEF Typed, TypeOK, ArgumentsOK, ChangesTyped, SweepsTyped, EditsTyped
<1> DEFINE AcquiresTyped == AcquireTypeOK /\ \A t \in Acquirers : AcquireArgs(t)
<1>2. UNCHANGED acq => AcquiresTyped'
  BY <1>1 DEF AcquireTypeOK, AcquireArgs
<1>3. ASSUME Kept, AcquiresTyped', ChangesTyped', SweepsTyped', EditsTyped'
      PROVE  Typed'
  BY <1>3 DEF Typed, TypeOK, ArgumentsOK, ChangesTyped, SweepsTyped, EditsTyped, Kept
<1> HIDE DEF AcquiresTyped
<1>4. CASE Tick /\ UNCHANGED <<acq, chg, swp, adm>>
  <2>1. Kept
    BY <1>1, <1>4 DEF Tick, tables, Kept, StoreTypeOK
  <2> QED
    BY <1>1, <1>2, <1>3, <1>4, <2>1, StayTyped DEF Kept
<1>5. CASE AcquireNext /\ UNCHANGED <<chg, swp, adm>>
  <2>1. PICK t \in Acquirers : AcquireBy(t)
    BY <1>5 DEF AcquireNext
  <2>2. Kept
    BY <2>1, AcquireStore
  <2>3. AcquiresTyped'
    BY <2>1, AcquireTyped DEF AcquiresTyped
  <2> QED
    BY <1>1, <1>3, <1>5, <2>2, <2>3, StayTyped DEF Kept
<1>6. CASE ChangeNext /\ UNCHANGED <<acq, swp, adm>>
  <2>1. PICK t \in Changers : ChangeBy(t)
    BY <1>6 DEF ChangeNext
  <2>2. Kept
    BY <1>1, <2>1, ChangeStore
  <2>3. ChangesTyped'
    BY <1>1, <2>1, <2>2, ChangeTyped DEF Kept, ChangesTyped
  <2> QED
    BY <1>1, <1>2, <1>3, <1>6, <2>2, <2>3, StayTyped DEF Kept
<1>7. CASE SweepNext /\ UNCHANGED <<acq, chg, adm>>
  <2>1. PICK w \in Workers : SweepBy(w)
    BY <1>7 DEF SweepNext
  <2>2. Kept
    BY <1>1, <2>1, SweepStore
  <2>3. SweepsTyped'
    BY <1>1, <2>1, <2>2, SweepTyped DEF Kept, SweepsTyped
  <2> QED
    BY <1>1, <1>2, <1>3, <1>7, <2>2, <2>3, StayTyped DEF Kept
<1>8. CASE EditNext /\ UNCHANGED <<acq, chg, swp>>
  <2>1. PICK t \in Editors : EditBy(t)
    BY <1>8 DEF EditNext
  <2>2. Kept
    BY <1>1, <2>1, EditStore
  <2>3. EditsTyped'
    BY <1>1, <2>1, EditTyped DEF EditsTyped
  <2> QED
    BY <1>1, <1>2, <1>3, <1>8, <2>2, <2>3, StayTyped DEF Kept
<1>9. CASE UNCHANGED vars
  <2>1. Kept
    BY <1>1, <1>9 DEF vars, Kept, StoreTypeOK
  <2> QED
    BY <1>1, <1>2, <1>3, <1>9, <2>1, StayTyped DEF vars, Kept
<1> QED
  BY <1>4, <1>5, <1>6, <1>7, <1>8, <1>9 DEF Next

(* In every reachable state each handler's local variables are bound as    *)
(* its position requires: no lease is granted on a resource that was not   *)
(* chosen, no change commits to a lease that does not exist (the order of  *)
(* the handlers' statements).                                              *)
THEOREM AlwaysTyped == Spec => []Typed
BY InitTyped, NextTyped, PTL DEF Spec

(* Every variable has its type: the rows that concurrent transactions      *)
(* commit are rows the tables' columns and constraints admit.              *)
THEOREM TypeCorrect == Spec => []TypeOK
<1>1. Typed => TypeOK
  BY DEF Typed
<1> QED
  BY AlwaysTyped, <1>1, PTL
===============================================================================
