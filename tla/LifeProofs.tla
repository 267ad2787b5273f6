------------------------------- MODULE LifeProofs -------------------------------
(***************************************************************************)
(* The life of a lease in Shepherd, from the policy it is granted under to *)
(* the audit event of its end, the refinement of the book of leases, and   *)
(* what a scrape beside the transactions may count, for any number of      *)
(* resources, requests, workers and editors.                               *)
(*                                                                         *)
(* The invariant adds to Safe what each handler has computed under its     *)
(* locks (AcquireLife, ChangeLife, SweepLife, EditLife) and what the rows  *)
(* owe to that (RowsLife).  As in SafetyProofs, a step changes only what   *)
(* its transaction has locked (Aging).                                     *)
(***************************************************************************)
EXTENDS Monitoring, SafetyProofs

(* A chosen resource fits the request, and the lease to be committed has   *)
(* the expiration that the resource's present policy gives it.             *)
AcquireLife(t) ==
  LET a == acq[t]
  IN  /\ a.at \in {"recheck", "insert", "commit"} => Selected(t)
      /\ a.at = "commit" =>
           /\ a.acquired <= clock
           /\ a.expires = ExpiresAt(a.acquired, resources[a.target].config, a.request.ttl)

(* A lease to be changed was acquired before the request, which comes from *)
(* somebody who may make it; a renewal obeys the present policy.           *)
ChangeLife(t) ==
  LET c == chg[t]
  IN  /\ c.at # "idle" =>
           /\ leases[c.lease].acquired <= c.now
           /\ c.now <= clock
           /\ c.op = "Revoked" => c.who \in Admins
      /\ c.at \in {"resource", "check", "policy", "renew", "end"} => MayChange(t)
      /\ c.at = "renew" =>
           /\ c.now <= c.renewed
           /\ ~TtlRefused(PolicyNow(t), c.ttl)
           /\ c.expires = ExpiresAt(c.renewed, PolicyNow(t), c.ttl)

(* The leases that a sweep ends have expired. *)
SweepLife(w) ==
  /\ swp[w].now <= clock
  /\ \A i \in swp[w].expired : leases[i].expires <= swp[w].now

(* What the sender of an edit has read is the row of that version. *)
EditLife(t) ==
  LET row == resources[adm[t].resource]
      base == adm[t].base
  IN  adm[t].at # "idle" =>
        /\ base.version <= row.version
        /\ base.version = row.version => base.config = row.config /\ base.status = row.status

(* Leases have been acquired, configured policies are consistent, and only *)
(* leases that exist have an end in the audit trail.                       *)
AlreadyAcquired == \A i \in DOMAIN leases : leases[i].acquired <= clock
PoliciesValid == \A r \in Resources : ValidExpiration(resources[r].config)
EndRows(i) == [e \in EndEvents(i) |-> audit[e]]
AuditedExist == \A i \in Nat : i \notin DOMAIN leases => DOMAIN EndRows(i) = {}

HandlersLife == /\ \A t \in Acquirers : AcquireLife(t)
                /\ \A t \in Changers : ChangeLife(t)
                /\ \A w \in Workers : SweepLife(w)
                /\ \A t \in Editors : EditLife(t)

RowsLife == /\ EndsWithinLife /\ AuditTellsTheEnd
            /\ AlreadyAcquired /\ AuditedExist /\ PoliciesValid

Life == Safe /\ RowsLife /\ HandlersLife

(* What a step of a transaction that holds the locks H does to the tables. *)
Aging(H) ==
  /\ Guarantee(H)
  /\ \A i \in DOMAIN leases : leases'[i].acquired = leases[i].acquired
  /\ \A r \in Resources :
       /\ resources[r].version <= resources'[r].version
       /\ \/ /\ resources'[r].config = resources[r].config
             /\ resources'[r].status = resources[r].status
          \/ ResourceLock(r) \in H /\ resources'[r].version # resources[r].version

-------------------------------------------------------------------------------
(* Lemmas on lease policy *)

LEMMA ResolvedType ==
  ASSUME NEW c \in Config, NEW ttl \in TtlIntents
  PROVE  Resolved(c, ttl) \in Ttls /\ c.max \in Ttls /\ c.expiration \in {"Required", "Optional"}
BY DEF Resolved, Config, TtlIntents

(* An expiration lies after the time it is counted from, and within the    *)
(* policy that did not refuse it. *)
LEMMA ExpirationFits ==
  ASSUME NEW c \in Config, NEW ttl \in TtlIntents, NEW t \in Nat
  PROVE  /\ ExpiresAt(t, c, ttl) # NULL => ExpiresAt(t, c, ttl) \in Nat /\ ExpiresAt(t, c, ttl) > t
         /\ ~TtlRefused(c, ttl) =>
              /\ ExpiresAt(t, c, ttl) = NULL => c.expiration = "Optional"
              /\ ExpiresAt(t, c, ttl) # NULL /\ c.max # NULL =>
                   ExpiresAt(t, c, ttl) - t <= c.max
<1>1. PICK s \in Ttls : s = Resolved(c, ttl)
  BY ResolvedType
<1>2. PICK m \in Ttls : m = c.max
  BY ResolvedType
<1>3. CASE s = NULL
  <2>1. ExpiresAt(t, c, ttl) = NULL
    BY <1>1, <1>3 DEF ExpiresAt
  <2> QED
    BY <1>1, <1>3, <2>1, ResolvedType DEF TtlRefused
<1>4. CASE s # NULL
  <2>1. s \in Nat \ {0} /\ ExpiresAt(t, c, ttl) = t + s
    BY <1>1, <1>4 DEF ExpiresAt, Ttls
  <2>2. t + s # NULL
    BY <2>1, NullAssumption
  <2>3. ~TtlRefused(c, ttl) /\ m # NULL => s <= m
    BY <1>1, <1>2, <1>4, <2>1 DEF TtlRefused, Ttls
  <2>4. m # NULL => m \in Nat
    BY DEF Ttls
  <2> QED
    BY <1>2, <2>1, <2>2, <2>3, <2>4
<1> QED
  BY <1>3, <1>4

(* The SELECT's filter on the ttl admits only what _resolve_ttl accepts.   *)
LEMMA AdmittedIsAccepted ==
  ASSUME NEW c \in Config, ValidExpiration(c), NEW ttl \in TtlIntents, TtlAdmitted(c, ttl)
  PROVE  ~TtlRefused(c, ttl)
<1>1. PICK m \in Ttls : m = c.max
  BY ResolvedType
<1>2. PICK d \in Ttls : d = c.default
  BY DEF Config
<1>3. c.expiration = "Optional" => c.expiration # "Required"
  OBVIOUS
<1>4. CASE ttl = OMITTED_TTL
  <2>1. Resolved(c, ttl) = d /\ ttl \notin Nat /\ ttl # NULL
    BY <1>2, <1>4, NullAssumption DEF Resolved
  <2>2. d # NULL /\ m # NULL => d \in Nat /\ m \in Nat /\ d <= m
    BY <1>1, <1>2 DEF ValidExpiration, Ttls
  <2>3. d = NULL => c.expiration = "Optional"
    BY <1>2, <1>4, <2>1 DEF TtlAdmitted
  <2> QED
    BY <1>1, <1>3, <2>1, <2>2, <2>3 DEF TtlRefused
<1>5. CASE ttl # OMITTED_TTL
  <2>1. Resolved(c, ttl) = ttl
    BY <1>5 DEF Resolved
  <2>2. CASE ttl = NULL
    BY <1>3, <1>5, <2>1, <2>2, NullAssumption DEF TtlRefused, TtlAdmitted
  <2>3. CASE ttl \in Nat
    <3>1. m # NULL => m \in Nat /\ m >= ttl
      BY <1>1, <1>5, <2>3, NullAssumption DEF TtlAdmitted, Ttls
    <3> QED
      BY <1>1, <2>1, <2>3, <3>1, NullAssumption DEF TtlRefused
  <2> QED
    BY <1>5, <2>2, <2>3 DEF TtlIntents, Ttls
<1> QED
  BY <1>4, <1>5

(* Rows and requests have the types that policy needs. *)
LEMMA PolicyTypes ==
  ASSUME Typed
  PROVE  /\ \A r \in Resources :
              /\ resources[r] \in ResourceRow /\ resources[r].config \in Config
              /\ resources[r].version \in Nat
         /\ \A t \in Acquirers : acq[t].at # "idle" => acq[t].request.ttl \in TtlIntents
         /\ \A t \in Changers : chg[t].ttl \in TtlIntents
<1>1. \A r \in Resources : resources[r] \in ResourceRow
  BY DEF Typed, TypeOK, StoreTypeOK
<1>2. \A r \in Resources : resources[r].config \in Config /\ resources[r].version \in Nat
  BY <1>1, ConfigsAssumption DEF ResourceRow
<1>3. \A t \in Acquirers : acq[t].at # "idle" => acq[t].request \in Request
  BY RequestsAssumption DEF Typed, ArgumentsOK, AcquireArgs
<1>4. \A t \in Changers : chg[t].ttl \in TtlIntents
  BY DEF Typed, TypeOK, ChangeTypeOK, ChangeLocals
<1> QED
  BY <1>1, <1>2, <1>3, <1>4 DEF Request

-------------------------------------------------------------------------------
(* What handlers have computed survives the steps of others *)

LEMMA AcquirersLife ==
  ASSUME Safe, Typed', NEW H, Aging(H), NEW t \in Acquirers,
         acq'[t] = acq[t], held[t] \cap H = {}, AcquireLife(t)
  PROVE  AcquireLife(t)'
<1> DEFINE a == acq[t]
<1>1. a' = a /\ Typed
  BY DEF Safe
<1>2. ASSUME a.at \in {"recheck", "insert", "commit"}
      PROVE  /\ resources'[a.target].config = resources[a.target].config
             /\ resources'[a.target].status = resources[a.target].status
             /\ resources'[a.target].archived = resources[a.target].archived
  <2>1. a.target \in Resources /\ ResourceLock(a.target) \in held[t]
    BY <1>2 DEF Safe, Typed, ArgumentsOK, AcquireArgs, LockedKnowledge, AcquireKnows
  <2>2. ResourceLock(a.target) \notin H
    BY <2>1
  <2> QED
    BY <2>1, <2>2 DEF Aging, Guarantee
<1>3. a.at \in {"recheck", "insert", "commit"} => Selected(t)'
  BY <1>1, <1>2 DEF AcquireLife, Selected, TtlRefused, Resolved
<1>4. a.at = "commit" => a.acquired <= clock'
  <2>1. clock \in Nat /\ clock' \in Nat /\ clock <= clock' /\ a.acquired \in Nat
    BY <1>1 DEF Aging, Guarantee, Typed, TypeOK, StoreTypeOK, AcquireTypeOK, AcquireLocals
  <2> QED
    BY <2>1 DEF AcquireLife
<1>5. a.at = "commit" =>
        a.expires = ExpiresAt(a.acquired, resources'[a.target].config, a.request.ttl)
  BY <1>2 DEF AcquireLife
<1> QED
  BY <1>1, <1>3, <1>4, <1>5 DEF AcquireLife

LEMMA ChangersLife ==
  ASSUME Safe, Typed', NEW H, Aging(H), NEW t \in Changers,
         chg'[t] = chg[t], held[t] \cap H = {}, ChangeLife(t)
  PROVE  ChangeLife(t)'
<1> DEFINE c == chg[t]
           i == c.lease
<1>1. /\ c' = c /\ Typed /\ StoreTypeOK
      /\ clock \in Nat /\ clock' \in Nat /\ clock <= clock' /\ c.now \in Nat
  BY DEF Safe, Aging, Guarantee, Typed, TypeOK, StoreTypeOK, ChangeTypeOK, ChangeLocals
<1>2. c.at # "idle" => i \in DOMAIN leases /\ i \in DOMAIN leases'
  BY <1>1 DEF Typed, ArgumentsOK, ChangeArgs, Aging, Guarantee
<1>3. c.at # "idle" => /\ leases'[i].acquired = leases[i].acquired
                       /\ leases'[i].owner = leases[i].owner
                       /\ leases'[i].resource = leases[i].resource
  BY <1>2 DEF Aging, Guarantee
<1>4. c.at # "idle" => c.now <= clock'
  BY <1>1 DEF ChangeLife
<1>5. c.at \in {"resource", "check", "policy", "renew", "end"} => MayChange(t)'
  BY <1>1, <1>3 DEF ChangeLife, MayChange
<1>6. c.at = "renew" => PolicyNow(t)' = PolicyNow(t)
  <2>1. SUFFICES ASSUME c.at = "renew" PROVE PolicyNow(t)' = PolicyNow(t)
    OBVIOUS
  <2>2. /\ leases[i].resource \in Resources /\ leases'[i].resource = leases[i].resource
        /\ ResourceLock(leases[i].resource) \in held[t]
    BY <1>1, <1>2, <1>3, <2>1, LeaseTyped DEF LeaseRow, Safe, LockedKnowledge, ChangeKnows
  <2>3. resources'[leases[i].resource].config = resources[leases[i].resource].config
    BY <2>2 DEF Aging
  <2> QED
    BY <1>1, <2>2, <2>3 DEF PolicyNow
<1>7. c.at # "idle" => leases'[i].acquired <= c.now
  BY <1>3 DEF ChangeLife
<1>8. c.at = "renew" => /\ ~TtlRefused(PolicyNow(t)', c.ttl)
                        /\ c.expires = ExpiresAt(c.renewed, PolicyNow(t)', c.ttl)
  BY <1>6 DEF ChangeLife
<1>9. ChangeLife(t)' <=>
        /\ c.at # "idle" => /\ leases'[i].acquired <= c.now
                            /\ c.now <= clock'
                            /\ c.op = "Revoked" => c.who \in Admins
        /\ c.at \in {"resource", "check", "policy", "renew", "end"} => MayChange(t)'
        /\ c.at = "renew" => /\ c.now <= c.renewed
                             /\ ~TtlRefused(PolicyNow(t)', c.ttl)
                             /\ c.expires = ExpiresAt(c.renewed, PolicyNow(t)', c.ttl)
  BY <1>1 DEF ChangeLife
<1> HIDE DEF c, i
<1> QED
  BY <1>4, <1>5, <1>7, <1>8, <1>9 DEF ChangeLife, c

LEMMA WorkersLife ==
  ASSUME Safe, Typed', NEW H, Aging(H), NEW w \in Workers,
         swp'[w] = swp[w], held[w] \cap H = {}, SweepLife(w)
  PROVE  SweepLife(w)'
<1>1. clock \in Nat /\ clock' \in Nat /\ clock <= clock' /\ swp[w].now \in Nat
  BY DEF Safe, Aging, Guarantee, Typed, TypeOK, StoreTypeOK, SweepTypeOK, SweepLocals
<1>2. \A i \in swp[w].expired : i \in DOMAIN leases /\ LeaseLock(i) \in held[w]
  BY DEF Safe, Typed, ArgumentsOK, SweepArgs, LockedKnowledge, SweepKnows
<1>3. \A i \in swp[w].expired : leases'[i] = leases[i]
  BY <1>2 DEF Aging, Guarantee
<1> QED
  BY <1>1, <1>3 DEF SweepLife

LEMMA EditorsLife ==
  ASSUME Safe, Typed', NEW H, Aging(H), NEW t \in Editors,
         adm'[t] = adm[t], EditLife(t)
  PROVE  EditLife(t)'
<1> DEFINE r == adm[t].resource
           base == adm[t].base
<1>1. SUFFICES ASSUME adm[t].at # "idle"
               PROVE  /\ base.version <= resources'[r].version
                      /\ base.version = resources'[r].version =>
                           base.config = resources'[r].config /\ base.status = resources'[r].status
  BY DEF EditLife
<1>2. r \in Resources /\ base \in Representations /\ Typed
  BY <1>1 DEF Safe, Typed, TypeOK, ArgumentsOK, EditArgs, EditTypeOK, EditLocals
<1>3. base.version \in Nat /\ resources[r].version \in Nat /\ resources'[r].version \in Nat
  BY <1>2, PolicyTypes DEF Representations, Typed, TypeOK, StoreTypeOK, ResourceRow
<1>4. /\ base.version <= resources[r].version
      /\ base.version = resources[r].version =>
           base.config = resources[r].config /\ base.status = resources[r].status
  BY <1>1 DEF EditLife
<1>5. /\ resources[r].version <= resources'[r].version
      /\ \/ /\ resources'[r].config = resources[r].config
            /\ resources'[r].status = resources[r].status
         \/ resources'[r].version # resources[r].version
  BY <1>2 DEF Aging
<1> HIDE DEF r, base
<1> QED
  BY <1>3, <1>4, <1>5

(* A step of one transaction leaves what the others have computed valid. *)
LEMMA OthersLife ==
  ASSUME Life, Typed', NEW u \in Transactions, NEW H \in SUBSET held[u], Aging(H),
         \A t \in Acquirers \ {u} : acq'[t] = acq[t],
         \A t \in Changers \ {u} : chg'[t] = chg[t],
         \A w \in Workers \ {u} : swp'[w] = swp[w],
         \A t \in Editors \ {u} : adm'[t] = adm[t],
         u \in Acquirers => AcquireLife(u)',
         u \in Changers => ChangeLife(u)',
         u \in Workers => SweepLife(u)',
         u \in Editors => EditLife(u)'
  PROVE  HandlersLife'
<1>1. \A t \in Transactions \ {u} : held[t] \cap H = {}
  BY DEF Life, Safe, LockedKnowledge, LocksExclude
<1>2. /\ \A t \in Acquirers : AcquireLife(t)
      /\ \A t \in Changers : ChangeLife(t)
      /\ \A w \in Workers : SweepLife(w)
      /\ \A t \in Editors : EditLife(t)
      /\ Safe
  BY DEF Life, HandlersLife
<1>3. /\ Acquirers \subseteq Transactions /\ Changers \subseteq Transactions
      /\ Workers \subseteq Transactions /\ Editors \subseteq Transactions
  BY TransactionsAssumption
<1>4. \A t \in Acquirers : AcquireLife(t)'
  BY <1>1, <1>2, <1>3, AcquirersLife
<1>5. \A t \in Changers : ChangeLife(t)'
  BY <1>1, <1>2, <1>3, ChangersLife
<1>6. \A w \in Workers : SweepLife(w)'
  BY <1>1, <1>2, <1>3, WorkersLife
<1>7. \A t \in Editors : EditLife(t)'
  BY <1>1, <1>2, <1>3, EditorsLife
<1> QED
  BY <1>4, <1>5, <1>6, <1>7 DEF HandlersLife

-------------------------------------------------------------------------------
(* What a handler computes in its own steps *)

LEMMA AcquirerLife ==
  ASSUME Life, NEW u \in Acquirers, AcquireBy(u)
  PROVE  AcquireLife(u)'
<1>1. /\ acq \in [Acquirers -> AcquireLocals] /\ acq[u] \in AcquireLocals /\ clock \in Nat
      /\ AcquireLife(u) /\ AcquireArgs(u) /\ Typed /\ PoliciesValid
  BY DEF Life, HandlersLife, RowsLife, Safe, Typed, TypeOK, ArgumentsOK, StoreTypeOK, AcquireTypeOK
<1>2. CASE acq'[u].at \in {"idle", "key", "existing", "lock"}
  BY <1>2 DEF AcquireLife
<1>3. CASE EndAcquire(u)
  BY <1>1, <1>2, <1>3 DEF EndAcquire, IdleAcquire
<1>4. ASSUME NEW p \in Principals, NEW k \in Keys, NEW q \in Requests, BeginAcquire(u, p, k, q)
      PROVE  AcquireLife(u)'
  BY <1>1, <1>2, <1>4 DEF BeginAcquire, IdleAcquire
<1>5. CASE LockKey(u) \/ SelectCandidates(u) \/ SkipLocked(u) \/ PassOver(u)
  <2>1. acq'[u].at \in {"existing", "lock"}
    BY <1>1, <1>5 DEF LockKey, SelectCandidates, SkipLocked, PassOver, AcquireLocals
  <2> QED
    BY <1>2, <2>1
<1>6. CASE LockCandidate(u)
  <2>1. PICK r : r = Head(acq[u].todo)
    OBVIOUS
  <2>2. /\ acq[u].at = "lock" /\ UNCHANGED resources /\ acq[u].todo # <<>>
        /\ RowMatches(r, acq[u].request, acq[u].granted)
        /\ acq' = [acq EXCEPT ![u] = [@ EXCEPT !.target = r, !.todo = <<>>,
                     !.at = IF acq[u].request.mode = "Exclusive" THEN "recheck" ELSE "insert"]]
    BY <1>6, <2>1 DEF LockCandidate, tables
  <2>3. /\ acq'[u].at \in {"recheck", "insert"} /\ acq'[u].target = r
        /\ acq'[u].request = acq[u].request /\ acq'[u].granted = acq[u].granted
    BY <1>1, <2>2 DEF AcquireLocals
  <2>4. r \in Resources
    BY <1>1, <2>1, <2>2 DEF AcquireLocals
  <2>5. PICK c \in Config : c = resources[r].config
    BY <1>1, <2>4, PolicyTypes
  <2>6. PICK ttl \in TtlIntents : ttl = acq[u].request.ttl
    BY <1>1, <2>2, PolicyTypes
  <2>7. ValidExpiration(c) /\ TtlAdmitted(c, ttl)
    BY <1>1, <2>2, <2>4, <2>5, <2>6 DEF PoliciesValid, RowMatches
  <2>8. ~TtlRefused(c, ttl)
    BY <2>7, AdmittedIsAccepted
  <2>9. Selected(u)'
    BY <2>2, <2>3, <2>5, <2>6, <2>8 DEF Selected, RowMatches
  <2> QED
    BY <2>3, <2>9 DEF AcquireLife
<1>7. CASE StillFree(u)
  <2>1. /\ acq[u].at = "recheck" /\ UNCHANGED resources /\ acq' = [acq EXCEPT ![u].at = "insert"]
    BY <1>7 DEF StillFree, storeVars, tables
  <2>2. /\ acq'[u].at = "insert" /\ acq'[u].target = acq[u].target
        /\ acq'[u].request = acq[u].request /\ acq'[u].granted = acq[u].granted
    BY <1>1, <2>1 DEF AcquireLocals
  <2> QED
    BY <1>1, <2>1, <2>2 DEF AcquireLife, Selected
<1>8. CASE InsertLease(u)
  <2>1. PICK e : e = ExpiresAt(clock, resources[acq[u].target].config, acq[u].request.ttl)
    OBVIOUS
  <2>2. /\ acq[u].at = "insert" /\ UNCHANGED <<clock, resources>>
        /\ acq' = [acq EXCEPT ![u] = [@ EXCEPT !.at = "commit", !.acquired = clock, !.expires = e]]
    BY <1>8, <2>1 DEF InsertLease, storeVars, tables
  <2>3. /\ acq'[u].at = "commit" /\ acq'[u].target = acq[u].target
        /\ acq'[u].request = acq[u].request /\ acq'[u].granted = acq[u].granted
        /\ acq'[u].acquired = clock /\ acq'[u].expires = e
    BY <1>1, <2>2 DEF AcquireLocals
  <2>4. Selected(u)'
    BY <1>1, <2>2, <2>3 DEF AcquireLife, Selected
  <2> QED
    BY <1>1, <2>1, <2>2, <2>3, <2>4 DEF AcquireLife
<1> QED
  BY <1>3, <1>4, <1>5, <1>6, <1>7, <1>8
     DEF AcquireBy, AcquireStep, AbortAcquire, AnswerFromExisting, NoneAvailable, StillActive,
         CommitAcquire

LEMMA ChangerLife ==
  ASSUME Life, NEW u \in Changers, ChangeBy(u)
  PROVE  ChangeLife(u)'
<1>1. /\ chg \in [Changers -> ChangeLocals] /\ chg[u] \in ChangeLocals /\ clock \in Nat
      /\ ChangeLife(u) /\ ChangeArgs(u) /\ Typed /\ AlreadyAcquired
  BY DEF Life, HandlersLife, RowsLife, Safe, Typed, TypeOK, ArgumentsOK, StoreTypeOK, ChangeTypeOK
<1>2. CASE EndChange(u)
  BY <1>1, <1>2 DEF EndChange, IdleChange, ChangeLife
<1>3. ASSUME NEW op, NEW p, NEW i \in DOMAIN leases, NEW ttl, BeginChange(u, op, p, i, ttl)
      PROVE  ChangeLife(u)'
  <2>1. /\ chg'[u].at = "lease" /\ chg'[u].op = op /\ chg'[u].who = p /\ chg'[u].lease = i
        /\ chg'[u].now = clock /\ UNCHANGED <<clock, leases>>
    BY <1>1, <1>3 DEF BeginChange, IdleChange, storeVars, tables
  <2>2. op = "Revoked" => p \in Admins
    BY <1>3 DEF BeginChange
  <2>3. leases'[i].acquired <= clock /\ clock <= clock'
    BY <1>1, <2>1 DEF AlreadyAcquired
  <2> QED
    BY <2>1, <2>2, <2>3 DEF ChangeLife
<1>4. CASE LockLease(u) \/ LockLeasedResource(u) \/ FindActive(u)
  <2>1. PICK next \in {"resource", "check", "end", "policy"} :
          /\ chg[u].at # "idle" /\ chg' = [chg EXCEPT ![u].at = next]
          /\ MayChange(u) /\ UNCHANGED <<clock, leases>>
    BY <1>1, <1>4 DEF LockLease, LockLeasedResource, FindActive, ChangeLife, storeVars, tables
  <2>2. /\ chg'[u].at = next /\ chg'[u].op = chg[u].op /\ chg'[u].who = chg[u].who
        /\ chg'[u].lease = chg[u].lease /\ chg'[u].now = chg[u].now
    BY <1>1, <2>1 DEF ChangeLocals
  <2> QED
    BY <1>1, <2>1, <2>2 DEF ChangeLife, MayChange
<1>5. CASE ComputeRenewal(u)
  <2>1. PICK c : c = PolicyNow(u)
    OBVIOUS
  <2>2. PICK e : e = ExpiresAt(clock, c, chg[u].ttl)
    OBVIOUS
  <2>3. /\ chg[u].at = "policy" /\ ~TtlRefused(c, chg[u].ttl)
        /\ UNCHANGED <<clock, leases, resources>>
        /\ chg' = [chg EXCEPT ![u] = [@ EXCEPT !.at = "renew", !.renewed = clock, !.expires = e]]
    BY <1>5, <2>1, <2>2 DEF ComputeRenewal, storeVars, tables
  <2>4. /\ chg'[u].at = "renew" /\ chg'[u].op = chg[u].op /\ chg'[u].who = chg[u].who
        /\ chg'[u].lease = chg[u].lease /\ chg'[u].now = chg[u].now
        /\ chg'[u].ttl = chg[u].ttl /\ chg'[u].renewed = clock /\ chg'[u].expires = e
    BY <1>1, <2>3 DEF ChangeLocals
  <2>5. PolicyNow(u)' = c
    BY <2>1, <2>3, <2>4 DEF PolicyNow
  <2>6. MayChange(u)'
    BY <1>1, <2>3, <2>4 DEF ChangeLife, MayChange
  <2> QED
    BY <1>1, <2>2, <2>3, <2>4, <2>5, <2>6 DEF ChangeLife
<1> QED
  BY <1>2, <1>3, <1>4, <1>5
     DEF ChangeBy, ChangeStep, NotFound, RefuseInactive, RefuseTtl, CommitRenewal,
         AlreadyEnded, CommitEnd, AbortChange

LEMMA WorkerLife ==
  ASSUME Life, NEW w \in Workers, SweepBy(w)
  PROVE  SweepLife(w)'
<1>1. /\ swp \in [Workers -> SweepLocals] /\ swp[w] \in SweepLocals /\ clock \in Nat
      /\ SweepLife(w)
  BY DEF Life, HandlersLife, Safe, Typed, TypeOK, StoreTypeOK, SweepTypeOK
<1>2. CASE EndSweep(w) /\ UNCHANGED clock
  <2>1. swp'[w].now = 0 /\ swp'[w].expired = {}
    BY <1>1, <1>2 DEF EndSweep, IdleSweep
  <2> QED
    BY <1>1, <1>2, <2>1 DEF SweepLife
<1>3. CASE BeginSweep(w)
  <2>1. swp'[w].now = clock /\ swp'[w].expired = {} /\ UNCHANGED clock
    BY <1>1, <1>3 DEF BeginSweep, IdleSweep, storeVars
  <2> QED
    BY <1>1, <2>1 DEF SweepLife
<1>4. CASE LockBatch(w)
  <2>1. PICK s : swp' = [swp EXCEPT ![w] = [@ EXCEPT !.at = "expire", !.todo = s]]
    BY <1>4 DEF LockBatch
  <2>2. swp'[w].now = swp[w].now /\ swp'[w].expired = swp[w].expired
    BY <1>1, <2>1 DEF SweepLocals
  <2>3. UNCHANGED <<clock, leases>>
    BY <1>4 DEF LockBatch, tables
  <2> QED
    BY <1>1, <2>2, <2>3 DEF SweepLife
<1>5. CASE ExpireNext(w)
  <2>1. PICK i : i = Head(swp[w].todo)
    OBVIOUS
  <2>2. /\ UNCHANGED <<clock, leases>>
        /\ swp' = [swp EXCEPT ![w] = [swp[w] EXCEPT
             !.todo = Tail(@),
             !.expired = IF Due(i, swp[w].now) THEN @ \cup {i} ELSE @]]
    BY <1>5, <2>1 DEF ExpireNext, tables
  <2>3. /\ swp'[w].now = swp[w].now
        /\ swp'[w].expired \subseteq swp[w].expired \cup {i}
        /\ i \in swp'[w].expired => i \in swp[w].expired \/ Due(i, swp[w].now)
    BY <1>1, <2>2 DEF SweepLocals
  <2> QED
    BY <1>1, <2>2, <2>3 DEF SweepLife, Due
<1> QED
  BY <1>2, <1>3, <1>4, <1>5 DEF SweepBy, SweepStep, CommitSweep, CrashSweep

LEMMA EditorLife ==
  ASSUME Life, NEW u \in Editors, EditBy(u)
  PROVE  EditLife(u)'
<1>1. adm \in [Editors -> EditLocals] /\ adm[u] \in EditLocals /\ EditLife(u) /\ Typed
  BY DEF Life, HandlersLife, Safe, Typed, TypeOK, EditTypeOK
<1>2. CASE EndEdit(u)
  BY <1>1, <1>2 DEF EndEdit, IdleEdit, EditLife
<1>3. ASSUME NEW op, NEW a, NEW r \in Resources, NEW c, NEW p, BeginEdit(u, op, a, r, c, p)
      PROVE  EditLife(u)'
  <2>1. adm'[u].resource = r /\ adm'[u].base = Representation(r) /\ UNCHANGED resources
    BY <1>1, <1>3 DEF BeginEdit, storeVars, tables
  <2>2. resources[r].version \in Nat
    BY <1>1, PolicyTypes
  <2> QED
    BY <2>1, <2>2 DEF EditLife, Representation
<1>4. CASE LockEdited(u)
  <2>1. adm[u].at = "lock" /\ adm' = [adm EXCEPT ![u].at = "apply"] /\ UNCHANGED resources
    BY <1>4 DEF LockEdited, tables
  <2>2. adm'[u].resource = adm[u].resource /\ adm'[u].base = adm[u].base
    BY <1>1, <2>1 DEF EditLocals
  <2> QED
    BY <1>1, <2>1, <2>2 DEF EditLife
<1> QED
  BY <1>2, <1>3, <1>4
     DEF EditBy, EditStep, FindArchived, RefuseUpdate, UpdateResource, RefuseArchive,
         ArchiveResource, RefuseTransition, TransitionResource, SetGrant, AbortEdit

-------------------------------------------------------------------------------
(* The rows *)

(* What EndsWithinLife and AlreadyAcquired say of one lease at time t. *)
LivesWell(l, t) ==
  /\ l.acquired <= t
  /\ l.expires # NULL => l.expires > l.acquired
  /\ l.ended # NULL <=> l.reason # NULL
  /\ l.ended # NULL => l.acquired <= l.ended /\ l.ended <= t
  /\ l.reason = "Expired" => l.ended = l.expires

(* What AuditTellsTheEnd says of lease i, of whose end the rows tell. *)
TellOnce(rows, e) == DOMAIN rows = {e} /\ rows[e] = 1

EndIsTold(l, i, rows) ==
  /\ l.reason = NULL => DOMAIN rows = {}
  /\ l.reason = "Released" => TellOnce(rows, Event("lease.released", i, l.owner))
  /\ l.reason = "Expired" => TellOnce(rows, Event("lease.expired", i, NULL))
  /\ l.reason = "Revoked" => \E a \in Admins : TellOnce(rows, Event("lease.revoked", i, a))

LEMMA RowsOneByOne ==
  RowsLife <=> /\ \A i \in DOMAIN leases : LivesWell(leases[i], clock)
               /\ \A i \in DOMAIN leases : EndIsTold(leases[i], i, EndRows(i))
               /\ AuditedExist /\ PoliciesValid
<1>1. EndsWithinLife /\ AlreadyAcquired <=>
        \A i \in DOMAIN leases : LivesWell(leases[i], clock)
  BY DEF EndsWithinLife, AlreadyAcquired, LivesWell
<1>2. AuditTellsTheEnd <=> \A i \in DOMAIN leases : EndIsTold(leases[i], i, EndRows(i))
  BY DEF AuditTellsTheEnd, EndIsTold, EndRows, OneRowTells, TellOnce
<1> QED
  BY <1>1, <1>2 DEF RowsLife

LEMMA RowsOneByOneNext ==
  ASSUME \A i \in DOMAIN leases' : LivesWell(leases'[i], clock'),
         \A i \in DOMAIN leases' : EndIsTold(leases'[i], i, EndRows(i)'),
         AuditedExist', PoliciesValid'
  PROVE  RowsLife'
<1>1. EndsWithinLife' /\ AlreadyAcquired'
  BY DEF EndsWithinLife, AlreadyAcquired, LivesWell
<1>2. AuditTellsTheEnd'
  BY DEF AuditTellsTheEnd, EndIsTold, EndRows, OneRowTells, TellOnce
<1> QED
  BY <1>1, <1>2 DEF RowsLife

(* What is recorded of other events does not touch the ends ... *)
LEMMA OtherRows ==
  ASSUME StoreTypeOK, NEW E, audit' = Recorded(E), NEW i,
         \A e \in E : e.entity = i => e.action \notin EndActions
  PROVE  EndRows(i)' = EndRows(i)
<1>1. /\ DOMAIN audit' = DOMAIN audit \cup E
      /\ \A e \in DOMAIN audit \ E : audit'[e] = audit[e]
  BY RecordedRows
<1>2. EndEvents(i)' = EndEvents(i) /\ \A e \in EndEvents(i) : audit'[e] = audit[e]
  BY <1>1 DEF EndEvents
<1> QED
  BY <1>2 DEF EndRows

LEMMA OtherEvent ==
  ASSUME StoreTypeOK, NEW a, a \notin EndActions, NEW x, NEW p,
         audit' = audit \/ audit' = Recorded({Event(a, x, p)})
  PROVE  \A i : EndRows(i)' = EndRows(i)
<1>1. CASE audit' = audit
  BY <1>1 DEF EndRows, EndEvents
<1>2. CASE audit' = Recorded({Event(a, x, p)})
  <2>1. \A e \in {Event(a, x, p)} : e.action \notin EndActions
    BY DEF Event
  <2> QED
    BY <1>2, <2>1, OtherRows
<1> QED
  BY <1>1, <1>2

(* ... and the first row of an end is the only one.                        *)
LEMMA FirstRow ==
  ASSUME StoreTypeOK, NEW E, audit' = Recorded(E), NEW i, DOMAIN EndRows(i) = {},
         NEW e \in E, e.entity = i, e.action \in EndActions,
         \A x \in E : x.entity = i => x = e
  PROVE  TellOnce(EndRows(i)', e)
<1>1. EndEvents(i) = {}
  BY DEF EndRows
<1>2. Rows(e) = 0
  BY <1>1 DEF Rows, EndEvents
<1>3. DOMAIN audit' = DOMAIN audit \cup E /\ audit'[e] = Rows(e) + 1
  BY RecordedRows
<1>4. EndEvents(i)' = {e}
  BY <1>1, <1>3 DEF EndEvents
<1>5. audit'[e] = 1
  BY <1>2, <1>3
<1> QED
  BY <1>4, <1>5 DEF EndRows, TellOnce

(* The end of a lease is recorded of that lease, and of no other. *)
LEMMA EndingEvent ==
  ASSUME StoreTypeOK, NEW a \in EndActions, NEW x, NEW p, audit' = Recorded({Event(a, x, p)})
  PROVE  /\ \A i : i # x => EndRows(i)' = EndRows(i)
         /\ DOMAIN EndRows(x) = {} => TellOnce(EndRows(x)', Event(a, x, p))
<1>1. PICK e : e = Event(a, x, p) /\ e.entity = x /\ e.action = a
  <2>1. Event(a, x, p).entity = x /\ Event(a, x, p).action = a
    BY DEF Event
  <2> QED
    BY <2>1
<1>2. audit' = Recorded({e})
  BY <1>1
<1>3. ASSUME NEW i, i # x PROVE EndRows(i)' = EndRows(i)
  BY <1>1, <1>2, <1>3, OtherRows
<1>4. ASSUME DOMAIN EndRows(x) = {} PROVE TellOnce(EndRows(x)', e)
  <2>1. e \in {e} /\ \A y \in {e} : y.entity = x => y = e
    OBVIOUS
  <2> QED
    BY <1>1, <1>2, <1>4, <2>1, FirstRow
<1> QED
  BY <1>1, <1>3, <1>4

LEMMA SweepEvents ==
  ASSUME StoreTypeOK, NEW S, audit' = Recorded({Event("lease.expired", i, NULL) : i \in S})
  PROVE  /\ \A i : i \notin S => EndRows(i)' = EndRows(i)
         /\ \A i \in S : DOMAIN EndRows(i) = {} =>
                          TellOnce(EndRows(i)', Event("lease.expired", i, NULL))
<1> DEFINE event(i) == Event("lease.expired", i, NULL)
<1>1. \A i : event(i).entity = i /\ event(i).action \in EndActions
  BY DEF Event, EndActions
<1>2. PICK E : E = {event(i) : i \in S}
  OBVIOUS
<1>3. audit' = Recorded(E)
  BY <1>2
<1> HIDE DEF event
<1>4. \A e \in E : e.entity \in S /\ e = event(e.entity)
  BY <1>1, <1>2
<1>5. ASSUME NEW i, i \notin S PROVE EndRows(i)' = EndRows(i)
  BY <1>3, <1>4, <1>5, OtherRows
<1>6. ASSUME NEW i \in S, DOMAIN EndRows(i) = {} PROVE TellOnce(EndRows(i)', event(i))
  <2>1. PICK e \in E : e = event(i) /\ e.entity = i /\ e.action \in EndActions
    BY <1>1, <1>2
  <2>2. \A x \in E : x.entity = i => x = e
    BY <1>4, <2>1
  <2> QED
    BY <1>3, <1>6, <2>1, <2>2, FirstRow
<1> QED
  BY <1>5, <1>6 DEF event

(* Nothing is written to resources but the time of the last lease. *)
LEMMA ResourcesAge ==
  ASSUME Typed, \A r \in Resources : /\ resources'[r].config = resources[r].config
                                     /\ resources'[r].status = resources[r].status
                                     /\ resources'[r].version = resources[r].version,
         NEW H, Guarantee(H), \A i \in DOMAIN leases : leases'[i].acquired = leases[i].acquired
  PROVE  Aging(H) /\ (PoliciesValid => PoliciesValid')
<1>1. \A r \in Resources : resources[r].version <= resources'[r].version
  BY PolicyTypes
<1> QED
  BY <1>1 DEF Aging, PoliciesValid

LEMMA NoWriteLife ==
  ASSUME Life, UNCHANGED <<clock, tables>>
  PROVE  Aging({}) /\ RowsLife'
<1>1. Typed /\ RowsLife
  BY DEF Life, Safe
<1>2. Guarantee({})
  BY <1>1, NoWriteGuarantee
<1>3. Aging({})
  BY <1>1, <1>2, ResourcesAge DEF tables
<1>4. RowsLife'
  BY <1>1 DEF RowsLife, EndsWithinLife, AuditTellsTheEnd, EndEvents, OneRowTells,
              AlreadyAcquired, EndRows,
              AuditedExist, PoliciesValid, tables
<1> QED
  BY <1>3, <1>4

LEMMA CommitAcquireLife ==
  ASSUME Life, Typed', NEW u \in Acquirers, CommitAcquire(u)
  PROVE  Aging(held[u]) /\ RowsLife'
<1>0. Guarantee(held[u])
  BY CommitAcquireSafe DEF Life
<1>1. PICK a \in AcquireLocals : a = acq[u]
  BY DEF Life, Safe, Typed, TypeOK, AcquireTypeOK
<1>2. PICK n : n = Len(leases) + 1
  OBVIOUS
<1>3. /\ leases \in Seq(LeaseRow) /\ clock \in Nat /\ a.target \in Resources
      /\ resources \in [Resources -> ResourceRow] /\ Typed /\ StoreTypeOK
      /\ a.at = "commit" /\ clock' = clock /\ a.request.ttl \in TtlIntents
      /\ AcquireLife(u) /\ RowsLife
  BY <1>1, PolicyTypes
     DEF Life, Safe, Typed, TypeOK, StoreTypeOK, ArgumentsOK, AcquireArgs, HandlersLife, CommitAcquire
<1>4. /\ n \in Nat /\ DOMAIN leases' = DOMAIN leases \cup {n} /\ n \notin DOMAIN leases
      /\ \A i \in DOMAIN leases : leases'[i] = leases[i]
      /\ leases'[n].acquired = a.acquired /\ leases'[n].expires = a.expires
      /\ leases'[n].ended = NULL /\ leases'[n].reason = NULL
      /\ audit' = Recorded({Event("lease.acquired", n, a.who)})
      /\ resources' = [resources EXCEPT ![a.target].leasedAt = a.acquired]
  BY <1>1, <1>2, <1>3 DEF CommitAcquire
<1>5. PICK c \in Config : c = resources[a.target].config
  BY <1>3, PolicyTypes
<1>6. PICK ttl \in TtlIntents : ttl = a.request.ttl
  BY <1>3
<1>7. /\ a.acquired \in Nat /\ a.acquired <= clock
      /\ a.expires = ExpiresAt(a.acquired, c, ttl)
  BY <1>1, <1>3, <1>5, <1>6 DEF AcquireLife, AcquireLocals
<1>8. a.expires # NULL => a.expires > a.acquired
  BY <1>7, ExpirationFits
<1>9. LivesWell(leases'[n], clock')
  BY <1>3, <1>4, <1>7, <1>8, NullAssumption DEF LivesWell
<1>10. \A i : EndRows(i)' = EndRows(i)
  <2>1. "lease.acquired" \notin EndActions
    BY DEF EndActions
  <2> QED
    BY <1>3, <1>4, <2>1, OtherEvent
<1>11. DOMAIN EndRows(n) = {} /\ \A i \in DOMAIN leases : EndIsTold(leases[i], i, EndRows(i))
  BY <1>3, <1>4, RowsOneByOne DEF AuditedExist
<1>12. EndIsTold(leases'[n], n, EndRows(n)')
  BY <1>4, <1>10, <1>11, NullAssumption DEF EndIsTold
<1>13. \A i \in DOMAIN leases : LivesWell(leases[i], clock)
  BY <1>3, RowsOneByOne
<1>14. /\ \A i \in DOMAIN leases' : LivesWell(leases'[i], clock')
       /\ \A i \in DOMAIN leases' : EndIsTold(leases'[i], i, EndRows(i)')
  BY <1>3, <1>4, <1>9, <1>10, <1>11, <1>12, <1>13
<1>15. AuditedExist'
  BY <1>3, <1>4, <1>10 DEF AuditedExist, RowsLife
<1>16. \A r \in Resources : /\ resources'[r].config = resources[r].config
                            /\ resources'[r].status = resources[r].status
                            /\ resources'[r].version = resources[r].version
  BY <1>3, <1>4 DEF ResourceRow
<1>17. \A i \in DOMAIN leases : leases'[i].acquired = leases[i].acquired
  BY <1>4
<1>18. Aging(held[u]) /\ PoliciesValid'
  BY <1>0, <1>3, <1>16, <1>17, ResourcesAge DEF RowsLife
<1> QED
  BY <1>14, <1>15, <1>18, RowsOneByOneNext

LEMMA CommitRenewalLife ==
  ASSUME Life, NEW u \in Changers, CommitRenewal(u)
  PROVE  Aging(held[u]) /\ RowsLife'
<1>0. Guarantee(held[u])
  BY CommitRenewalSafe DEF Life
<1>1. PICK c \in ChangeLocals : c = chg[u]
  BY DEF Life, Safe, Typed, TypeOK, ChangeTypeOK
<1>2. PICK n \in DOMAIN leases : n = c.lease
  BY <1>1 DEF Life, Safe, Typed, ArgumentsOK, ChangeArgs, CommitRenewal
<1>3. /\ leases \in Seq(LeaseRow) /\ clock \in Nat /\ Typed /\ StoreTypeOK
      /\ c.at = "renew" /\ clock' = clock /\ resources' = resources
      /\ ChangeLife(u) /\ ChangeKnows(u) /\ RowsLife
  BY <1>1 DEF Life, Safe, Typed, TypeOK, StoreTypeOK, LockedKnowledge, HandlersLife, CommitRenewal
<1>4. PICK l \in LeaseRow : l = leases[n]
  BY <1>3, LeaseTyped
<1>5. PICK row : row = [l EXCEPT !.expires = c.expires, !.renewed = c.renewed]
  OBVIOUS
<1>6. /\ row.acquired = l.acquired /\ row.ended = l.ended /\ row.reason = l.reason
      /\ row.owner = l.owner /\ row.expires = c.expires
  BY <1>4, <1>5 DEF LeaseRow
<1>7. /\ leases' = [leases EXCEPT ![n] = row]
      /\ audit' = Recorded({Event("lease.renewed", c.lease, c.who)})
  BY <1>1, <1>2, <1>4, <1>5 DEF CommitRenewal
<1>8. PICK p \in Config : p = PolicyNow(u)
  BY <1>2, <1>1, <1>3, <1>4, PolicyTypes DEF PolicyNow, LeaseRow
<1>9. c.ttl \in TtlIntents /\ c.now \in Nat /\ c.renewed \in Nat
  BY <1>1 DEF ChangeLocals
<1>10. l.ended = NULL /\ l.acquired \in Nat
  BY <1>1, <1>2, <1>3, <1>4 DEF ChangeKnows, LeaseRow
<1>11. /\ l.acquired <= c.now /\ c.now <= c.renewed
       /\ c.expires = ExpiresAt(c.renewed, p, c.ttl)
  BY <1>1, <1>2, <1>3, <1>4, <1>8 DEF ChangeLife
<1>12. c.expires # NULL => c.expires \in Nat /\ c.expires > c.renewed
  BY <1>9, <1>11, ExpirationFits
<1>13. c.expires # NULL => c.expires > l.acquired
  BY <1>9, <1>10, <1>11, <1>12
<1>14. /\ \A i \in DOMAIN leases : LivesWell(leases[i], clock)
       /\ \A i \in DOMAIN leases : EndIsTold(leases[i], i, EndRows(i))
  BY <1>3, RowsOneByOne
<1>15. LivesWell(row, clock)
  BY <1>4, <1>6, <1>10, <1>13, <1>14, NullAssumption DEF LivesWell
<1>16. EndIsTold(row, n, EndRows(n))
  BY <1>4, <1>6, <1>14 DEF EndIsTold
<1>17. \A i : EndRows(i)' = EndRows(i)
  <2>1. "lease.renewed" \notin EndActions
    BY DEF EndActions
  <2> QED
    BY <1>3, <1>7, <2>1, OtherEvent
<1>18. DOMAIN leases' = DOMAIN leases /\ leases'[n] = row
       /\ \A i \in DOMAIN leases \ {n} : leases'[i] = leases[i]
  BY <1>3, <1>7
<1>19. /\ \A i \in DOMAIN leases' : LivesWell(leases'[i], clock')
       /\ \A i \in DOMAIN leases' : EndIsTold(leases'[i], i, EndRows(i)')
  BY <1>3, <1>14, <1>15, <1>16, <1>17, <1>18
<1>20. AuditedExist'
  BY <1>3, <1>17, <1>18 DEF AuditedExist, RowsLife
<1>21. \A i \in DOMAIN leases : leases'[i].acquired = leases[i].acquired
  BY <1>4, <1>6, <1>18
<1>22. Aging(held[u]) /\ PoliciesValid'
  BY <1>0, <1>3, <1>21, ResourcesAge DEF RowsLife
<1> QED
  BY <1>19, <1>20, <1>22, RowsOneByOneNext

LEMMA CommitEndLife ==
  ASSUME Life, NEW u \in Changers, CommitEnd(u)
  PROVE  Aging(held[u]) /\ RowsLife'
<1>0. Guarantee(held[u])
  BY CommitEndSafe DEF Life
<1>1. PICK c \in ChangeLocals : c = chg[u]
  BY DEF Life, Safe, Typed, TypeOK, ChangeTypeOK
<1>2. PICK n \in DOMAIN leases : n = c.lease
  BY <1>1 DEF Life, Safe, Typed, ArgumentsOK, ChangeArgs, CommitEnd
<1>3. /\ leases \in Seq(LeaseRow) /\ clock \in Nat /\ Typed /\ StoreTypeOK
      /\ c.at = "end" /\ clock' = clock /\ resources' = resources
      /\ ChangeLife(u) /\ RowsLife /\ c.op \in {"Released", "Revoked"}
  BY <1>1 DEF Life, Safe, Typed, TypeOK, StoreTypeOK, ArgumentsOK, ChangeArgs, HandlersLife,
              CommitEnd
<1>4. PICK l \in LeaseRow : l = leases[n]
  BY <1>3, LeaseTyped
<1>5. PICK row : row = [l EXCEPT !.ended = c.now, !.reason = c.op]
  OBVIOUS
<1>6. /\ row.acquired = l.acquired /\ row.ended = c.now /\ row.reason = c.op
      /\ row.owner = l.owner /\ row.expires = l.expires
  BY <1>4, <1>5 DEF LeaseRow
<1>7. PICK action \in {"lease.released", "lease.revoked"} :
        /\ action = EndEvent(c.op)
        /\ c.op = "Released" <=> action = "lease.released"
  BY <1>3 DEF EndEvent
<1>8. /\ leases' = [leases EXCEPT ![n] = row]
      /\ audit' = Recorded({Event(action, n, c.who)})
      /\ l.ended = NULL
  BY <1>1, <1>2, <1>4, <1>5, <1>7 DEF CommitEnd
<1>9. /\ \A i \in DOMAIN leases : LivesWell(leases[i], clock)
      /\ \A i \in DOMAIN leases : EndIsTold(leases[i], i, EndRows(i))
  BY <1>3, RowsOneByOne
<1>10. /\ l.acquired <= c.now /\ c.now <= clock /\ c.now \in Nat
       /\ c.op = "Revoked" => c.who \in Admins
       /\ c.op = "Released" => c.who = l.owner
  BY <1>1, <1>2, <1>3, <1>4 DEF ChangeLife, MayChange, ChangeLocals
<1>11. LivesWell(row, clock)
  BY <1>3, <1>4, <1>6, <1>8, <1>9, <1>10, NullAssumption DEF LivesWell
<1>12. /\ \A i : i # n => EndRows(i)' = EndRows(i)
       /\ DOMAIN EndRows(n) = {} => TellOnce(EndRows(n)', Event(action, n, c.who))
  <2>1. action \in EndActions
    BY <1>7 DEF EndActions
  <2> QED
    BY <1>3, <1>8, <2>1, EndingEvent
<1>13. l.reason = NULL
  BY <1>4, <1>8, <1>9 DEF LivesWell
<1>14. DOMAIN EndRows(n) = {}
  BY <1>4, <1>9, <1>13 DEF EndIsTold
<1>15. TellOnce(EndRows(n)', Event(action, n, c.who))
  BY <1>12, <1>14
<1>16. EndIsTold(row, n, EndRows(n)')
  BY <1>3, <1>6, <1>7, <1>10, <1>15, NullAssumption DEF EndIsTold
<1>17. DOMAIN leases' = DOMAIN leases /\ leases'[n] = row
       /\ \A i \in DOMAIN leases \ {n} : leases'[i] = leases[i]
  BY <1>3, <1>8
<1>18. /\ \A i \in DOMAIN leases' : LivesWell(leases'[i], clock')
       /\ \A i \in DOMAIN leases' : EndIsTold(leases'[i], i, EndRows(i)')
  BY <1>3, <1>9, <1>11, <1>12, <1>16, <1>17
<1>19. AuditedExist'
  BY <1>3, <1>12, <1>17 DEF AuditedExist, RowsLife
<1>20. \A i \in DOMAIN leases : leases'[i].acquired = leases[i].acquired
  BY <1>4, <1>6, <1>17
<1>21. Aging(held[u]) /\ PoliciesValid'
  BY <1>0, <1>3, <1>20, ResourcesAge DEF RowsLife
<1> QED
  BY <1>18, <1>19, <1>21, RowsOneByOneNext

LEMMA CommitSweepLife ==
  ASSUME Life, NEW w \in Workers, CommitSweep(w)
  PROVE  Aging(held[w]) /\ RowsLife'
<1>0. Guarantee(held[w])
  BY CommitSweepSafe DEF Life
<1>1. PICK s \in SweepLocals : s = swp[w]
  BY DEF Life, Safe, Typed, TypeOK, SweepTypeOK
<1>2. /\ leases \in Seq(LeaseRow) /\ clock \in Nat /\ Typed /\ StoreTypeOK /\ s.now \in Nat
      /\ clock' = clock /\ resources' = resources /\ SweepLife(w) /\ SweepKnows(w) /\ RowsLife
      /\ s.expired \subseteq DOMAIN leases
  BY <1>1 DEF Life, Safe, Typed, TypeOK, StoreTypeOK, ArgumentsOK, SweepArgs, SweepLocals,
              LockedKnowledge, HandlersLife, CommitSweep
<1>3. /\ leases' = [i \in DOMAIN leases |->
                      IF i \in s.expired
                      THEN [leases[i] EXCEPT !.ended = leases[i].expires, !.reason = "Expired"]
                      ELSE leases[i]]
      /\ audit' = Recorded({Event("lease.expired", i, NULL) : i \in s.expired})
  BY <1>1 DEF CommitSweep
<1>4. /\ \A i \in DOMAIN leases : LivesWell(leases[i], clock)
      /\ \A i \in DOMAIN leases : EndIsTold(leases[i], i, EndRows(i))
  BY <1>2, RowsOneByOne
<1>5. DOMAIN leases' = DOMAIN leases
  BY <1>3
<1>6. \A i : i \notin s.expired => EndRows(i)' = EndRows(i)
  BY <1>2, <1>3, SweepEvents
<1>7. ASSUME NEW n \in s.expired
      PROVE  /\ LivesWell(leases'[n], clock') /\ EndIsTold(leases'[n], n, EndRows(n)')
             /\ leases'[n].acquired = leases[n].acquired
  <2>1. n \in DOMAIN leases
    BY <1>2
  <2>2. PICK l \in LeaseRow : l = leases[n]
    BY <1>2, <2>1, LeaseTyped
  <2>3. PICK row : row = [l EXCEPT !.ended = l.expires, !.reason = "Expired"]
    OBVIOUS
  <2>4. leases'[n] = row
    BY <1>3, <2>1, <2>2, <2>3
  <2>5. /\ row.acquired = l.acquired /\ row.expires = l.expires /\ row.ended = l.expires
        /\ row.reason = "Expired"
    BY <2>2, <2>3 DEF LeaseRow
  <2>6. l.ended = NULL /\ l.expires # NULL /\ l.expires <= s.now /\ s.now <= clock
    BY <1>1, <1>2, <2>2 DEF SweepKnows, SweepLife
  <2>7. l.acquired \in Nat /\ l.expires \in Nat
    BY <2>2, <2>6 DEF LeaseRow, Seconds
  <2>8. LivesWell(l, clock) /\ EndIsTold(l, n, EndRows(n))
    BY <1>4, <2>1, <2>2
  <2>9. l.expires > l.acquired /\ l.reason = NULL
    BY <2>6, <2>8 DEF LivesWell
  <2>10. LivesWell(row, clock)
    BY <1>2, <2>5, <2>6, <2>7, <2>9, NullAssumption DEF LivesWell
  <2>11. DOMAIN EndRows(n) = {}
    BY <2>8, <2>9 DEF EndIsTold
  <2>12. TellOnce(EndRows(n)', Event("lease.expired", n, NULL))
    BY <1>2, <1>3, <2>11, SweepEvents
  <2>13. EndIsTold(row, n, EndRows(n)')
    BY <2>5, <2>12, NullAssumption DEF EndIsTold
  <2> QED
    BY <1>2, <2>2, <2>4, <2>5, <2>10, <2>13
<1>8. \A i \in DOMAIN leases \ s.expired : leases'[i] = leases[i]
  BY <1>3
<1>9. /\ \A i \in DOMAIN leases' : LivesWell(leases'[i], clock')
      /\ \A i \in DOMAIN leases' : EndIsTold(leases'[i], i, EndRows(i)')
      /\ \A i \in DOMAIN leases : leases'[i].acquired = leases[i].acquired
  BY <1>2, <1>4, <1>5, <1>6, <1>7, <1>8
<1>10. AuditedExist'
  BY <1>2, <1>5, <1>6 DEF AuditedExist, RowsLife
<1>11. Aging(held[w]) /\ PoliciesValid'
  BY <1>0, <1>2, <1>9, ResourcesAge DEF RowsLife
<1> QED
  BY <1>9, <1>10, <1>11, RowsOneByOneNext

(* An edit of the row r replaces it by a later version with a policy that  *)
(* is valid if the row's was. *)
LEMMA CommitEditLife ==
  ASSUME Life, NEW u \in Editors,
         UpdateResource(u) \/ ArchiveResource(u) \/ TransitionResource(u) \/ SetGrant(u)
  PROVE  Aging(held[u]) /\ RowsLife'
<1>0. Guarantee(held[u])
  BY CommitEditSafe DEF Life
<1>1. PICK e \in EditLocals : e = adm[u]
  BY DEF Life, Safe, Typed, TypeOK, EditTypeOK
<1>2. PICK r \in Resources : r = e.resource
  BY <1>1 DEF Life, Safe, Typed, ArgumentsOK, EditArgs, UpdateResource, ArchiveResource,
              TransitionResource, SetGrant, Applies
<1>3. /\ Typed /\ resources \in [Resources -> ResourceRow] /\ UNCHANGED <<clock, leases>>
      /\ RowsLife /\ ResourceLock(r) \in held[u]
  BY <1>1, <1>2 DEF Life, Safe, Typed, TypeOK, StoreTypeOK, LockedKnowledge, EditKnows, Applies,
                    UpdateResource, ArchiveResource, TransitionResource, SetGrant
<1>4. PICK old \in ResourceRow : old = resources[r]
  BY <1>3
<1>5. PICK new :
        /\ resources' = [resources EXCEPT ![r] = new]
        /\ \/ new = old
           \/ /\ new.version = old.version + 1
              /\ ValidExpiration(old.config) => ValidExpiration(new.config)
  <2>1. CASE UpdateResource(u)
    <3>1. PICK new : new = [old EXCEPT !.config = e.config, !.version = @ + 1]
      OBVIOUS
    <3>2. new.version = old.version + 1 /\ new.config = e.config
      BY <1>4, <3>1 DEF ResourceRow
    <3>3. ValidExpiration(e.config)
      BY <1>1, <2>1 DEF UpdateResource, UpdateAllowed
    <3>4. resources' = [resources EXCEPT ![r] = new]
      BY <1>1, <1>2, <1>4, <2>1, <3>1 DEF UpdateResource
    <3> QED
      BY <3>2, <3>3, <3>4
  <2>2. CASE ArchiveResource(u)
    <3>1. PICK new : new = [old EXCEPT !.archived = TRUE, !.version = @ + 1]
      OBVIOUS
    <3>2. new.version = old.version + 1 /\ new.config = old.config
      BY <1>4, <3>1 DEF ResourceRow
    <3>3. resources' = [resources EXCEPT ![r] = new]
      BY <1>1, <1>2, <1>4, <2>2, <3>1 DEF ArchiveResource
    <3> QED
      BY <3>2, <3>3
  <2>3. CASE TransitionResource(u)
    <3>1. PICK new : new = [old EXCEPT !.status = TargetOf(e.op), !.version = @ + 1]
      OBVIOUS
    <3>2. new.version = old.version + 1 /\ new.config = old.config
      BY <1>4, <3>1 DEF ResourceRow
    <3>3. resources' = [resources EXCEPT ![r] = new]
      BY <1>1, <1>2, <1>4, <2>3, <3>1 DEF TransitionResource
    <3> QED
      BY <3>2, <3>3
  <2>4. CASE SetGrant(u)
    BY <1>3, <1>4, <2>4 DEF SetGrant
  <2> QED
    BY <2>1, <2>2, <2>3, <2>4
<1>6. old.version \in Nat /\ \A s \in Resources : resources[s].version \in Nat
  BY <1>4, <1>3, PolicyTypes DEF ResourceRow
<1>7. /\ resources'[r] = new /\ \A s \in Resources \ {r} : resources'[s] = resources[s]
  BY <1>3, <1>5
<1>8. Aging(held[u])
  <2>1. \A i \in DOMAIN leases : leases'[i].acquired = leases[i].acquired
    BY <1>3
  <2>2. new = old \/ (old.version <= new.version /\ new.version # old.version)
    BY <1>5, <1>6
  <2>3. \A s \in Resources :
          /\ resources[s].version <= resources'[s].version
          /\ \/ /\ resources'[s].config = resources[s].config
                /\ resources'[s].status = resources[s].status
             \/ ResourceLock(s) \in held[u] /\ resources'[s].version # resources[s].version
    BY <1>3, <1>4, <1>6, <1>7, <2>2
  <2> QED
    BY <1>0, <2>1, <2>3 DEF Aging
<1>9. PoliciesValid'
  BY <1>3, <1>4, <1>5, <1>7 DEF PoliciesValid, RowsLife
<1>10. PICK a, x, p : /\ a \notin EndActions
                      /\ audit' = audit \/ audit' = Recorded({Event(a, x, p)})
  <2>1. CASE TransitionResource(u)
    <3>1. e.op \in Transitions
      BY <1>1, <2>1 DEF TransitionResource, Applies
    <3>2. EventOf(e.op) \notin EndActions
      BY <3>1 DEF EventOf, Transitions, EndActions
    <3>3. audit' = Recorded({Event(EventOf(e.op), r, e.who)})
      BY <1>1, <1>2, <2>1 DEF TransitionResource
    <3> QED
      BY <3>2, <3>3
  <2>2. CASE UpdateResource(u) \/ ArchiveResource(u)
    BY <2>2 DEF UpdateResource, ArchiveResource, EndActions
  <2>3. CASE SetGrant(u)
    BY <2>3 DEF SetGrant, EndActions
  <2> QED
    BY <2>1, <2>2, <2>3
<1>11. \A i : EndRows(i)' = EndRows(i)
  <2>1. StoreTypeOK
    BY DEF Life, Safe, Typed, TypeOK
  <2> QED
    BY <1>10, <2>1, OtherEvent
<1>12. RowsLife'
  BY <1>3, <1>9, <1>11
     DEF RowsLife, EndsWithinLife, AuditTellsTheEnd, OneRowTells, EndRows, AlreadyAcquired,
         AuditedExist
<1> QED
  BY <1>8, <1>12

-------------------------------------------------------------------------------
(* The invariant *)

(* A step of one transaction changes its own local variables; it writes    *)
(* rows only when it commits. *)
LEMMA AcquireFrame ==
  ASSUME Typed, NEW u \in Acquirers, AcquireBy(u)
  PROVE  /\ \A t \in Acquirers \ {u} : acq'[t] = acq[t]
         /\ UNCHANGED <<clock, tables>> \/ CommitAcquire(u)
<1>1. acq \in [Acquirers -> AcquireLocals]
  BY DEF Typed, TypeOK, AcquireTypeOK
<1> QED
  BY <1>1 DEF AcquireBy, AcquireStep, BeginAcquire, LockKey, SelectCandidates, SkipLocked,
              LockCandidate, PassOver, StillFree, InsertLease, AbortAcquire, EndAcquire,
              AnswerFromExisting, NoneAvailable, StillActive, CommitAcquire, storeVars

LEMMA ChangeFrame ==
  ASSUME Typed, NEW u \in Changers, ChangeBy(u)
  PROVE  /\ \A t \in Changers \ {u} : chg'[t] = chg[t]
         /\ UNCHANGED <<clock, tables>> \/ CommitRenewal(u) \/ CommitEnd(u)
<1>1. chg \in [Changers -> ChangeLocals]
  BY DEF Typed, TypeOK, ChangeTypeOK
<1> QED
  BY <1>1 DEF ChangeBy, ChangeStep, BeginChange, NotFound, LockLease, LockLeasedResource,
              RefuseInactive, FindActive, RefuseTtl, ComputeRenewal, CommitRenewal,
              AlreadyEnded, CommitEnd, AbortChange, EndChange, storeVars

LEMMA SweepFrame ==
  ASSUME Typed, NEW w \in Workers, SweepBy(w)
  PROVE  /\ \A t \in Workers \ {w} : swp'[t] = swp[t]
         /\ UNCHANGED <<clock, tables>> \/ CommitSweep(w)
<1>1. swp \in [Workers -> SweepLocals]
  BY DEF Typed, TypeOK, SweepTypeOK
<1> QED
  BY <1>1 DEF SweepBy, SweepStep, BeginSweep, LockBatch, ExpireNext, CommitSweep, CrashSweep,
              EndSweep, storeVars

LEMMA EditFrame ==
  ASSUME Typed, NEW u \in Editors, EditBy(u)
  PROVE  /\ \A t \in Editors \ {u} : adm'[t] = adm[t]
         /\ \/ UNCHANGED <<clock, tables>>
            \/ UpdateResource(u) \/ ArchiveResource(u) \/ TransitionResource(u) \/ SetGrant(u)
<1>1. adm \in [Editors -> EditLocals]
  BY DEF Typed, TypeOK, EditTypeOK
<1> QED
  BY <1>1 DEF EditBy, EditStep, BeginEdit, LockEdited, FindArchived, RefuseUpdate,
              UpdateResource, RefuseArchive, ArchiveResource, RefuseTransition,
              TransitionResource, SetGrant, AbortEdit, EndEdit, storeVars

LEMMA AcquireKeepsLife ==
  ASSUME Life, Typed', NEW u \in Acquirers, AcquireBy(u), UNCHANGED <<chg, swp, adm>>
  PROVE  HandlersLife' /\ RowsLife'
<1>1. /\ Typed /\ u \in Transactions /\ AcquireLife(u)'
      /\ u \notin Changers /\ u \notin Workers /\ u \notin Editors
  BY TransactionsAssumption, AcquirerLife DEF Life, Safe
<1>2. PICK H \in SUBSET held[u] : Aging(H) /\ RowsLife'
  BY <1>1, AcquireFrame, NoWriteLife, CommitAcquireLife
<1>3. HandlersLife'
  BY <1>1, <1>2, AcquireFrame, OthersLife
<1> QED
  BY <1>2, <1>3

LEMMA ChangeKeepsLife ==
  ASSUME Life, Typed', NEW u \in Changers, ChangeBy(u), UNCHANGED <<acq, swp, adm>>
  PROVE  HandlersLife' /\ RowsLife'
<1>1. /\ Typed /\ u \in Transactions /\ ChangeLife(u)'
      /\ u \notin Acquirers /\ u \notin Workers /\ u \notin Editors
  BY TransactionsAssumption, ChangerLife DEF Life, Safe
<1>2. PICK H \in SUBSET held[u] : Aging(H) /\ RowsLife'
  BY <1>1, ChangeFrame, NoWriteLife, CommitRenewalLife, CommitEndLife
<1>3. HandlersLife'
  BY <1>1, <1>2, ChangeFrame, OthersLife
<1> QED
  BY <1>2, <1>3

LEMMA SweepKeepsLife ==
  ASSUME Life, Typed', NEW u \in Workers, SweepBy(u), UNCHANGED <<acq, chg, adm>>
  PROVE  HandlersLife' /\ RowsLife'
<1>1. /\ Typed /\ u \in Transactions /\ SweepLife(u)'
      /\ u \notin Acquirers /\ u \notin Changers /\ u \notin Editors
  BY TransactionsAssumption, WorkerLife DEF Life, Safe
<1>2. PICK H \in SUBSET held[u] : Aging(H) /\ RowsLife'
  BY <1>1, SweepFrame, NoWriteLife, CommitSweepLife
<1>3. HandlersLife'
  BY <1>1, <1>2, SweepFrame, OthersLife
<1> QED
  BY <1>2, <1>3

LEMMA EditKeepsLife ==
  ASSUME Life, Typed', NEW u \in Editors, EditBy(u), UNCHANGED <<acq, chg, swp>>
  PROVE  HandlersLife' /\ RowsLife'
<1>1. /\ Typed /\ u \in Transactions /\ EditLife(u)'
      /\ u \notin Acquirers /\ u \notin Changers /\ u \notin Workers
  BY TransactionsAssumption, EditorLife DEF Life, Safe
<1>2. PICK H \in SUBSET held[u] : Aging(H) /\ RowsLife'
  BY <1>1, EditFrame, NoWriteLife, CommitEditLife
<1>3. HandlersLife'
  BY <1>1, <1>2, EditFrame, OthersLife
<1> QED
  BY <1>2, <1>3

(* A step that no handler takes. *)
LEMMA IdleKeepsLife ==
  ASSUME Life, Typed', Aging({}), UNCHANGED <<acq, chg, swp, adm>>
  PROVE  HandlersLife'
<1>1. /\ \A t \in Acquirers : AcquireLife(t)
      /\ \A t \in Changers : ChangeLife(t)
      /\ \A w \in Workers : SweepLife(w)
      /\ \A t \in Editors : EditLife(t)
      /\ Safe
  BY DEF Life, HandlersLife
<1>2. /\ \A t \in Acquirers : AcquireLife(t)'
      /\ \A t \in Changers : ChangeLife(t)'
      /\ \A w \in Workers : SweepLife(w)'
      /\ \A t \in Editors : EditLife(t)'
  BY <1>1, AcquirersLife, ChangersLife, WorkersLife, EditorsLife
<1> QED
  BY <1>2 DEF HandlersLife

LEMMA TickKeepsLife ==
  ASSUME Life, Tick
  PROVE  Aging({}) /\ RowsLife'
<1>1. /\ Typed /\ RowsLife /\ leases \in Seq(LeaseRow) /\ clock \in Nat /\ clock' = clock + 1
      /\ UNCHANGED <<resources, leases, audit>> /\ StoreTypeOK
  BY DEF Life, Safe, Typed, TypeOK, StoreTypeOK, Tick, tables
<1>2. \A i \in DOMAIN leases : Active(leases'[i], clock') => Active(leases[i], clock)
  BY <1>1, ActiveEarlier
<1>3. Guarantee({})
  BY <1>1, <1>2 DEF Guarantee
<1>4. Aging({}) /\ PoliciesValid'
  BY <1>1, <1>3, ResourcesAge DEF RowsLife
<1>5. ASSUME NEW i \in DOMAIN leases PROVE LivesWell(leases'[i], clock')
  <2>1. PICK l \in LeaseRow : l = leases[i]
    BY <1>1, LeaseTyped
  <2>2. LivesWell(l, clock)
    BY <1>1, <1>5, <2>1, RowsOneByOne
  <2>3. l.acquired \in Nat /\ (l.ended # NULL => l.ended \in Nat)
    BY <2>1 DEF LeaseRow, Seconds
  <2>4. LivesWell(l, clock + 1)
    BY <1>1, <2>2, <2>3 DEF LivesWell
  <2> QED
    BY <1>1, <2>1, <2>4
<1>6. /\ \A i : EndRows(i)' = EndRows(i)
      /\ \A i \in DOMAIN leases : EndIsTold(leases[i], i, EndRows(i))
      /\ AuditedExist
  BY <1>1, RowsOneByOne DEF EndEvents, EndRows
<1>7. AuditedExist'
  BY <1>1, <1>6 DEF AuditedExist
<1>8. /\ \A i \in DOMAIN leases' : LivesWell(leases'[i], clock')
      /\ \A i \in DOMAIN leases' : EndIsTold(leases'[i], i, EndRows(i)')
  BY <1>1, <1>5, <1>6
<1> QED
  BY <1>4, <1>7, <1>8, RowsOneByOneNext

LEMMA InitLife == Init => Life
<1> SUFFICES ASSUME Init PROVE Life
  OBVIOUS
<1>1. Safe
  BY InitSafe
<1>2. leases = <<>> /\ DOMAIN audit = {} /\ clock = 0
  BY DEF Init, NothingRecorded
<1>3. \A r \in Resources : \E c \in InitialConfigs : resources[r] = Created(c)
  BY DEF Init
<1>4. PoliciesValid
  <2>1. \A c \in InitialConfigs : ValidExpiration(c) /\ Created(c).config = c
    BY InitialConfigsAssumption DEF Created
  <2> QED
    BY <1>3, <2>1 DEF PoliciesValid
<1>5. RowsLife
  BY <1>2, <1>4 DEF RowsLife, EndsWithinLife, AuditTellsTheEnd, AlreadyAcquired, AuditedExist,
                    EndEvents, EndRows
<1>6. HandlersLife
  BY DEF Init, HandlersLife, AcquireLife, ChangeLife, SweepLife, EditLife, IdleAcquire,
         IdleChange, IdleSweep, IdleEdit
<1> QED
  BY <1>1, <1>5, <1>6 DEF Life

LEMMA NextLife == Life /\ [Next]_vars => Life'
<1> SUFFICES ASSUME Life, [Next]_vars PROVE Life'
  OBVIOUS
<1>1. Safe' /\ Typed'
  BY NextSafe DEF Life, Safe
<1>2. CASE Tick /\ UNCHANGED <<acq, chg, swp, adm>>
  BY <1>1, <1>2, TickKeepsLife, IdleKeepsLife DEF Life
<1>3. CASE AcquireNext /\ UNCHANGED <<chg, swp, adm>>
  BY <1>1, <1>3, AcquireKeepsLife DEF AcquireNext, Life
<1>4. CASE ChangeNext /\ UNCHANGED <<acq, swp, adm>>
  BY <1>1, <1>4, ChangeKeepsLife DEF ChangeNext, Life
<1>5. CASE SweepNext /\ UNCHANGED <<acq, chg, adm>>
  BY <1>1, <1>5, SweepKeepsLife DEF SweepNext, Life
<1>6. CASE EditNext /\ UNCHANGED <<acq, chg, swp>>
  BY <1>1, <1>6, EditKeepsLife DEF EditNext, Life
<1>7. CASE UNCHANGED vars
  <2>1. Aging({}) /\ RowsLife' /\ UNCHANGED <<acq, chg, swp, adm>>
    BY <1>7, NoWriteLife DEF vars, tables
  <2> QED
    BY <1>1, <2>1, IdleKeepsLife DEF Life
<1> QED
  BY <1>2, <1>3, <1>4, <1>5, <1>6, <1>7 DEF Next

(* What handlers have computed fits the rows when they commit it, and the  *)
(* rows tell one story with the audit trail.                               *)
THEOREM AlwaysAlive == Spec => []Life
BY InitLife, NextLife, PTL DEF Spec

(* The resource chosen for a lease still matches when the lease is         *)
(* inserted, whatever was edited since the SELECT's snapshot               *)
(* (acquire_lease).                                                        *)
THEOREM SelectionIsCurrent == Spec => []SelectionHolds
<1>1. Life => SelectionHolds
  BY DEF Life, HandlersLife, AcquireLife, SelectionHolds
<1> QED
  BY AlwaysAlive, <1>1, PTL

(* A lease ends within its life, an expired one at its expiration          *)
(* (end_lease, expire_due_leases).                                         *)
THEOREM LivesEndInTime == Spec => []EndsWithinLife
<1>1. Life => EndsWithinLife
  BY DEF Life, RowsLife
<1> QED
  BY AlwaysAlive, <1>1, PTL

(* The audit trail tells how each lease ended, in exactly one row, and by  *)
(* whom (record_audit_event in end_lease and expire_due_leases).           *)
THEOREM AuditTells == Spec => []AuditTellsTheEnd
<1>1. Life => AuditTellsTheEnd
  BY DEF Life, RowsLife
<1> QED
  BY AlwaysAlive, <1>1, PTL

-------------------------------------------------------------------------------
(* Action properties *)

(* The steps that write rows. *)
LEMMA WritingSteps ==
  ASSUME Safe, Next
  PROVE  \/ UNCHANGED <<clock, tables>>
         \/ Tick
         \/ \E u \in Acquirers : CommitAcquire(u)
         \/ \E u \in Changers : CommitRenewal(u) \/ CommitEnd(u)
         \/ \E w \in Workers : CommitSweep(w)
         \/ \E u \in Editors :
              UpdateResource(u) \/ ArchiveResource(u) \/ TransitionResource(u) \/ SetGrant(u)
<1>1. Typed
  BY DEF Safe
<1> QED
  BY <1>1, AcquireFrame, ChangeFrame, SweepFrame, EditFrame
     DEF Next, AcquireNext, ChangeNext, SweepNext, EditNext

(* Every step keeps to its locks. *)
LEMMA StepAges ==
  ASSUME Life, Typed', Next
  PROVE  \E H : Aging(H)
<1>1. Safe
  BY DEF Life
<1> QED
  BY <1>1, WritingSteps, NoWriteLife, TickKeepsLife, CommitAcquireLife, CommitRenewalLife,
     CommitEndLife, CommitSweepLife, CommitEditLife

(* A row that differs in nothing but its life. *)
LEMMA LifeFields ==
  ASSUME NEW l \in LeaseRow, NEW row \in LeaseRow,
         row.resource = l.resource, row.owner = l.owner, row.key = l.key,
         row.request = l.request, row.acquired = l.acquired
  PROVE  row = [l EXCEPT !.expires = row.expires, !.renewed = row.renewed,
                         !.ended = row.ended, !.reason = row.reason]
BY DEF LeaseRow

(* What each commit does to the leases. *)
LEMMA LeaseWrites ==
  ASSUME Safe, Safe', Next
  PROVE  /\ Len(leases') >= Len(leases)
         /\ \A i \in DOMAIN leases :
              \/ leases'[i] = leases[i]
              \/ /\ leases[i].ended = NULL
                 /\ leases'[i].acquired = leases[i].acquired
<1>1. /\ leases \in Seq(LeaseRow) /\ StoreTypeOK /\ Typed
      /\ \A i \in DOMAIN leases : leases[i] \in LeaseRow
  BY LeaseTyped DEF Safe, Typed, TypeOK, StoreTypeOK
<1>2. CASE UNCHANGED leases
  BY <1>1, <1>2
<1>3. ASSUME NEW u \in Acquirers, CommitAcquire(u)
      PROVE  /\ Len(leases') >= Len(leases)
             /\ \A i \in DOMAIN leases : leases'[i] = leases[i]
  BY <1>1, <1>3 DEF CommitAcquire
<1>4. ASSUME NEW u \in Changers, CommitRenewal(u) \/ CommitEnd(u)
      PROVE  /\ Len(leases') >= Len(leases)
             /\ \A i \in DOMAIN leases :
                  \/ leases'[i] = leases[i]
                  \/ leases[i].ended = NULL /\ leases'[i].acquired = leases[i].acquired
  <2>1. PICK n \in DOMAIN leases : n = chg[u].lease
    BY <1>1, <1>4 DEF Typed, ArgumentsOK, ChangeArgs, CommitRenewal, CommitEnd
  <2>2. PICK l \in LeaseRow : l = leases[n]
    BY <1>1
  <2>3. PICK row :
          leases' = [leases EXCEPT ![n] = row] /\ row.acquired = l.acquired
    <3>1. CASE CommitRenewal(u)
      <4>1. PICK row : row = [l EXCEPT !.expires = chg[u].expires, !.renewed = chg[u].renewed]
        OBVIOUS
      <4>2. row.acquired = l.acquired
        BY <2>2, <4>1 DEF LeaseRow
      <4>3. leases' = [leases EXCEPT ![n] = row]
        BY <2>1, <2>2, <3>1, <4>1 DEF CommitRenewal
      <4> QED
        BY <4>2, <4>3
    <3>2. CASE CommitEnd(u)
      <4>1. PICK row : row = [l EXCEPT !.ended = chg[u].now, !.reason = chg[u].op]
        OBVIOUS
      <4>2. row.acquired = l.acquired
        BY <2>2, <4>1 DEF LeaseRow
      <4>3. leases' = [leases EXCEPT ![n] = row]
        BY <2>1, <2>2, <3>2, <4>1 DEF CommitEnd
      <4> QED
        BY <4>2, <4>3
    <3> QED
      BY <1>4, <3>1, <3>2
  <2>4. leases[n].ended = NULL
    BY <1>4, <2>1 DEF Safe, LockedKnowledge, ChangeKnows, CommitRenewal, CommitEnd
  <2>5. Len(leases') = Len(leases) /\ Len(leases) \in Nat
    BY <1>1, <2>3
  <2>6. leases'[n].acquired = leases[n].acquired
        /\ \A i \in DOMAIN leases \ {n} : leases'[i] = leases[i]
    BY <1>1, <2>2, <2>3
  <2> QED
    BY <2>4, <2>5, <2>6
<1>5. ASSUME NEW w \in Workers, CommitSweep(w)
      PROVE  /\ Len(leases') >= Len(leases)
             /\ \A i \in DOMAIN leases :
                  \/ leases'[i] = leases[i]
                  \/ leases[i].ended = NULL /\ leases'[i].acquired = leases[i].acquired
  <2>1. DOMAIN leases' = DOMAIN leases /\ leases' \in Seq(LeaseRow)
    BY <1>5 DEF CommitSweep, Safe, Typed, TypeOK, StoreTypeOK
  <2>2. Len(leases') = Len(leases) /\ Len(leases) \in Nat
    BY <1>1, <2>1
  <2>3. ASSUME NEW n \in DOMAIN leases, n \in swp[w].expired
        PROVE  leases[n].ended = NULL /\ leases'[n].acquired = leases[n].acquired
    <3>1. PICK l \in LeaseRow : l = leases[n]
      BY <1>1, <2>3
    <3>2. PICK row : row = [l EXCEPT !.ended = l.expires, !.reason = "Expired"]
      OBVIOUS
    <3>3. row.acquired = l.acquired
      BY <3>1, <3>2 DEF LeaseRow
    <3>4. leases'[n] = row
      BY <1>5, <2>3, <3>1, <3>2 DEF CommitSweep
    <3> QED
      BY <2>3, <3>1, <3>3, <3>4 DEF Safe, LockedKnowledge, SweepKnows
  <2>4. \A i \in DOMAIN leases : i \notin swp[w].expired => leases'[i] = leases[i]
    BY <1>5 DEF CommitSweep
  <2> QED
    BY <2>2, <2>3, <2>4
<1>6. \/ UNCHANGED leases
      \/ \E u \in Acquirers : CommitAcquire(u)
      \/ \E u \in Changers : CommitRenewal(u) \/ CommitEnd(u)
      \/ \E w \in Workers : CommitSweep(w)
  BY WritingSteps DEF tables, Tick, UpdateResource, ArchiveResource, TransitionResource, SetGrant
<1> QED
  BY <1>2, <1>3, <1>4, <1>5, <1>6

(* A lease that has ended stays as it is, what was granted never changes,  *)
(* and no lease disappears (acquire_lease, renew_lease, end_lease,         *)
(* expire_due_leases).                                                     *)
THEOREM HistoryIsKept == Spec => History
<1>1. Life /\ Life' /\ [Next]_vars => [OnlyLifeChanges]_leases
  <2>1. SUFFICES ASSUME Life, Life', Next PROVE OnlyLifeChanges
    BY DEF vars
  <2>2. /\ Safe /\ Safe' /\ StoreTypeOK /\ StoreTypeOK' /\ leases \in Seq(LeaseRow)
        /\ leases' \in Seq(LeaseRow)
    BY <2>1 DEF Life, Safe, Typed, TypeOK, StoreTypeOK
  <2>3. ASSUME NEW i \in DOMAIN leases
        PROVE  \/ leases'[i] = leases[i]
               \/ /\ leases[i].ended = NULL
                  /\ leases'[i] = [leases[i] EXCEPT !.expires = leases'[i].expires,
                                                   !.renewed = leases'[i].renewed,
                                                   !.ended = leases'[i].ended,
                                                   !.reason = leases'[i].reason]
    <3>1. PICK H : Guarantee(H)
      BY <2>1, <2>2, StepAges DEF Aging, Safe
    <3>2. i \in DOMAIN leases'
      BY <2>3, <3>1 DEF Guarantee
    <3>3. leases[i] \in LeaseRow /\ leases'[i] \in LeaseRow
      BY <2>2, <2>3, <3>2
    <3>4. /\ leases'[i].resource = leases[i].resource /\ leases'[i].owner = leases[i].owner
          /\ leases'[i].key = leases[i].key /\ leases'[i].request = leases[i].request
      BY <2>3, <3>1 DEF Guarantee
    <3>5. \/ leases'[i] = leases[i]
          \/ leases[i].ended = NULL /\ leases'[i].acquired = leases[i].acquired
      BY <2>1, <2>2, <2>3, LeaseWrites
    <3> QED
      BY <3>3, <3>4, <3>5, LifeFields
  <2> QED
    BY <2>1, <2>2, <2>3, LeaseWrites DEF OnlyLifeChanges
<1> QED
  BY AlwaysAlive, <1>1, PTL DEF Spec, History


(* A grant obeys the policy of the resource it is a grant of. *)
LEMMA GrantObeys ==
  ASSUME Life, Life', NEW u \in Acquirers, CommitAcquire(u)
  PROVE  WithinPolicy
<1>1. PICK a \in AcquireLocals : a = acq[u]
  BY DEF Life, Safe, Typed, TypeOK, AcquireTypeOK
<1>2. /\ a.at = "commit" /\ AcquireArgs(u) /\ AcquireLife(u) /\ Typed /\ leases \in Seq(LeaseRow)
      /\ resources \in [Resources -> ResourceRow]
  BY <1>1 DEF Life, Safe, Typed, TypeOK, StoreTypeOK, ArgumentsOK, HandlersLife, CommitAcquire
<1>3. PICK r \in Resources : r = a.target
  BY <1>1, <1>2 DEF AcquireArgs
<1>4. PICK c \in Config : c = resources[r].config
  BY <1>2, PolicyTypes
<1>5. PICK ttl \in TtlIntents : ttl = a.request.ttl
  BY <1>1, <1>2, PolicyTypes
<1>6. PICK at \in Nat : at = a.acquired
  BY DEF AcquireLocals
<1>7. a.expires = ExpiresAt(at, c, ttl) /\ ~TtlRefused(c, ttl)
  BY <1>1, <1>2, <1>3, <1>4, <1>5, <1>6 DEF AcquireLife, Selected
<1>8. PICK n : n = Len(leases) + 1
  OBVIOUS
<1>9. PICK row : row = [resource |-> r, owner |-> a.who, key |-> a.key, request |-> a.request,
                        acquired |-> at, expires |-> a.expires, renewed |-> NULL,
                        ended |-> NULL, reason |-> NULL]
  OBVIOUS
<1>10. leases' = Append(leases, row)
  BY <1>1, <1>3, <1>6, <1>9 DEF CommitAcquire
<1>11. /\ leases'[n] = row /\ DOMAIN leases' = DOMAIN leases \cup {n}
       /\ \A i \in DOMAIN leases : leases'[i] = leases[i]
  BY <1>2, <1>8, <1>10
<1> SUFFICES ASSUME NEW i \in DOMAIN leases',
                    i \notin DOMAIN leases \/ leases'[i].expires # leases[i].expires
             PROVE  LET l == leases'[i]
                        p == resources[l.resource].config
                        start == IF l.renewed = NULL THEN l.acquired ELSE l.renewed
                    IN  /\ l.expires = NULL => p.expiration = "Optional"
                        /\ l.expires # NULL /\ p.max # NULL => l.expires - start <= p.max
  BY DEF WithinPolicy
<1>12. i = n /\ row.renewed = NULL /\ row.acquired = at /\ row.resource = r
       /\ row.expires = a.expires
  BY <1>9, <1>11
<1> QED
  BY <1>4, <1>7, <1>11, <1>12, ExpirationFits

(* A renewal obeys the policy that the resource has when it commits. *)
LEMMA RenewalObeys ==
  ASSUME Life, NEW u \in Changers, CommitRenewal(u)
  PROVE  WithinPolicy
<1>1. PICK c \in ChangeLocals : c = chg[u]
  BY DEF Life, Safe, Typed, TypeOK, ChangeTypeOK
<1>2. /\ c.at = "renew" /\ ChangeArgs(u) /\ ChangeLife(u) /\ Typed /\ leases \in Seq(LeaseRow)
      /\ resources \in [Resources -> ResourceRow]
  BY <1>1 DEF Life, Safe, Typed, TypeOK, StoreTypeOK, ArgumentsOK, HandlersLife, CommitRenewal
<1>3. PICK n \in DOMAIN leases : n = c.lease
  BY <1>1, <1>2 DEF ChangeArgs
<1>4. PICK l \in LeaseRow : l = leases[n]
  BY <1>2, LeaseTyped
<1>5. PICK p \in Config : p = resources[l.resource].config
  BY <1>2, PolicyTypes DEF LeaseRow
<1>6. PICK ttl \in TtlIntents : ttl = c.ttl
  BY DEF ChangeLocals
<1>7. PICK at \in Nat : at = c.renewed
  BY DEF ChangeLocals
<1>8. p = PolicyNow(u)
  BY <1>1, <1>3, <1>4, <1>5 DEF PolicyNow
<1>9. c.expires = ExpiresAt(at, p, ttl) /\ ~TtlRefused(p, ttl)
  BY <1>1, <1>2, <1>6, <1>7, <1>8 DEF ChangeLife
<1>10. PICK row : row = [l EXCEPT !.expires = c.expires, !.renewed = at]
  OBVIOUS
<1>11. row.expires = c.expires /\ row.renewed = at /\ row.resource = l.resource
  BY <1>4, <1>10 DEF LeaseRow
<1>12. leases' = [leases EXCEPT ![n] = row]
  BY <1>1, <1>3, <1>4, <1>7, <1>10 DEF CommitRenewal
<1>13. /\ DOMAIN leases' = DOMAIN leases /\ leases'[n] = row
       /\ \A i \in DOMAIN leases \ {n} : leases'[i] = leases[i]
  BY <1>2, <1>12
<1> SUFFICES ASSUME NEW i \in DOMAIN leases',
                    i \notin DOMAIN leases \/ leases'[i].expires # leases[i].expires
             PROVE  LET m == leases'[i]
                        q == resources[m.resource].config
                        start == IF m.renewed = NULL THEN m.acquired ELSE m.renewed
                    IN  /\ m.expires = NULL => q.expiration = "Optional"
                        /\ m.expires # NULL /\ q.max # NULL => m.expires - start <= q.max
  BY DEF WithinPolicy
<1>14. i = n
  BY <1>13
<1>15. at # NULL
  BY NullAssumption
<1> QED
  BY <1>5, <1>9, <1>11, <1>13, <1>14, <1>15, ExpirationFits

(* No other step grants or changes an expiration. *)
LEMMA OthersKeepExpirations ==
  ASSUME Life, Next, \A u \in Acquirers : ~CommitAcquire(u), \A u \in Changers : ~CommitRenewal(u)
  PROVE  DOMAIN leases' = DOMAIN leases
         /\ \A i \in DOMAIN leases : leases'[i].expires = leases[i].expires
<1>1. /\ Safe /\ Typed /\ leases \in Seq(LeaseRow) /\ \A i \in DOMAIN leases : leases[i] \in LeaseRow
  BY LeaseTyped DEF Life, Safe, Typed, TypeOK, StoreTypeOK
<1>2. ASSUME NEW u \in Changers, CommitEnd(u)
      PROVE  DOMAIN leases' = DOMAIN leases
             /\ \A i \in DOMAIN leases : leases'[i].expires = leases[i].expires
  <2>1. PICK n \in DOMAIN leases : n = chg[u].lease
    BY <1>1, <1>2 DEF Typed, ArgumentsOK, ChangeArgs, CommitEnd
  <2>2. PICK l \in LeaseRow : l = leases[n]
    BY <1>1
  <2>3. PICK row : row = [l EXCEPT !.ended = chg[u].now, !.reason = chg[u].op]
    OBVIOUS
  <2>4. row.expires = l.expires
    BY <2>2, <2>3 DEF LeaseRow
  <2>5. leases' = [leases EXCEPT ![n] = row]
    BY <1>2, <2>1, <2>2, <2>3 DEF CommitEnd
  <2> QED
    BY <1>1, <2>2, <2>4, <2>5
<1>3. ASSUME NEW w \in Workers, CommitSweep(w)
      PROVE  DOMAIN leases' = DOMAIN leases
             /\ \A i \in DOMAIN leases : leases'[i].expires = leases[i].expires
  <2>1. ASSUME NEW i \in DOMAIN leases PROVE leases'[i].expires = leases[i].expires
    <3>1. PICK l \in LeaseRow : l = leases[i]
      BY <1>1
    <3>2. PICK row : row = [l EXCEPT !.ended = l.expires, !.reason = "Expired"]
      OBVIOUS
    <3>3. row.expires = l.expires
      BY <3>1, <3>2 DEF LeaseRow
    <3>4. leases'[i] = row \/ leases'[i] = l
      BY <1>3, <3>1, <3>2 DEF CommitSweep
    <3> QED
      BY <3>1, <3>3, <3>4
  <2> QED
    BY <1>3, <2>1 DEF CommitSweep
<1>4. \/ UNCHANGED leases
      \/ \E u \in Changers : CommitEnd(u)
      \/ \E w \in Workers : CommitSweep(w)
  BY <1>1, WritingSteps DEF tables, Tick, UpdateResource, ArchiveResource, TransitionResource, SetGrant
<1> QED
  BY <1>2, <1>3, <1>4

(* Every expiration that is granted or extended obeys the policy that the  *)
(* resource has when the transaction commits (acquire_lease, renew_lease). *)
THEOREM PolicyIsObeyed == Spec => PolicyObeyed
<1>1. Life /\ Life' /\ [Next]_vars => [WithinPolicy]_leases
  <2>1. SUFFICES ASSUME Life, Life', Next PROVE WithinPolicy
    BY DEF vars
  <2>2. CASE \E u \in Acquirers : CommitAcquire(u)
    BY <2>1, <2>2, GrantObeys
  <2>3. CASE \E u \in Changers : CommitRenewal(u)
    BY <2>1, <2>3, RenewalObeys
  <2>4. CASE ~(\E u \in Acquirers : CommitAcquire(u)) /\ ~(\E u \in Changers : CommitRenewal(u))
    BY <2>1, <2>4, OthersKeepExpirations DEF WithinPolicy
  <2> QED
    BY <2>2, <2>3, <2>4
<1> QED
  BY AlwaysAlive, <1>1, PTL DEF Spec, PolicyObeyed

(* A configuration changes only by an update made from the row as it was. *)
LEMMA ConfigsAreUpdated ==
  ASSUME Life, Next, NEW r \in Resources, resources'[r].config # resources[r].config
  PROVE  \E u \in Editors : UpdateResource(u) /\ adm[u].resource = r
<1>1. /\ Safe /\ Typed /\ resources \in [Resources -> ResourceRow]
  BY DEF Life, Safe, Typed, TypeOK, StoreTypeOK
<1>2. PICK old \in ResourceRow : old = resources[r]
  BY <1>1
<1>3. ASSUME NEW u \in Acquirers, CommitAcquire(u) PROVE FALSE
  <2>1. PICK new : new = [old EXCEPT !.leasedAt = acq[u].acquired]
    OBVIOUS
  <2>2. new.config = old.config
    BY <1>2, <2>1 DEF ResourceRow
  <2>3. resources'[r] = new \/ resources'[r] = old
    BY <1>1, <1>2, <1>3, <2>1 DEF CommitAcquire
  <2> QED
    BY <1>2, <2>2, <2>3
<1>4. ASSUME NEW u \in Editors, ArchiveResource(u) PROVE FALSE
  <2>1. PICK new : new = [old EXCEPT !.archived = TRUE, !.version = @ + 1]
    OBVIOUS
  <2>2. new.config = old.config
    BY <1>2, <2>1 DEF ResourceRow
  <2>3. resources'[r] = new \/ resources'[r] = old
    BY <1>1, <1>2, <1>4, <2>1 DEF ArchiveResource
  <2> QED
    BY <1>2, <2>2, <2>3
<1>5. ASSUME NEW u \in Editors, TransitionResource(u) PROVE FALSE
  <2>1. PICK new : new = [old EXCEPT !.status = TargetOf(adm[u].op), !.version = @ + 1]
    OBVIOUS
  <2>2. new.config = old.config
    BY <1>2, <2>1 DEF ResourceRow
  <2>3. resources'[r] = new \/ resources'[r] = old
    BY <1>1, <1>2, <1>5, <2>1 DEF TransitionResource
  <2> QED
    BY <1>2, <2>2, <2>3
<1>6. ASSUME NEW u \in Editors, UpdateResource(u) PROVE adm[u].resource = r
  BY <1>1, <1>6 DEF UpdateResource
<1>7. ~UNCHANGED resources
  OBVIOUS
<1> QED
  BY <1>1, <1>3, <1>4, <1>5, <1>6, <1>7, WritingSteps
     DEF tables, Tick, CommitRenewal, CommitEnd, CommitSweep, SetGrant

(* No update of a resource is lost: it replaces the configuration that its *)
(* sender had read, in the status it had read (update_resource).           *)
THEOREM UpdatesAreNotLost == Spec => NoLostUpdate
<1>1. Life /\ Life' /\ [Next]_vars => [ReadBefore]_resources
  <2>1. SUFFICES ASSUME Life, Life', Next PROVE ReadBefore
    BY DEF vars
  <2>2. SUFFICES ASSUME NEW r \in Resources, resources'[r].config # resources[r].config
                 PROVE  \E t \in Editors : /\ adm[t].at = "apply" /\ adm[t].resource = r
                                           /\ adm[t].base.config = resources[r].config
                                           /\ adm[t].base.status = resources[r].status
    BY DEF ReadBefore
  <2>3. PICK u \in Editors : UpdateResource(u) /\ adm[u].resource = r
    BY <2>1, <2>2, ConfigsAreUpdated
  <2>4. adm[u].at = "apply" /\ adm[u].base.version = resources[r].version
    BY <2>3 DEF UpdateResource, UpdateAllowed, Applies
  <2>5. EditLife(u)
    BY <2>1 DEF Life, HandlersLife
  <2> QED
    BY <2>3, <2>4, <2>5 DEF EditLife
<1> QED
  BY AlwaysAlive, <1>1, PTL DEF Spec, NoLostUpdate
-------------------------------------------------------------------------------
(* Shepherd implements the book of leases: under the invariant Life every *)
(* step of its transactions is a step of the book or changes nothing in    *)
(* it.  A lease row is seen in the book as a page.                         *)

Page(l) == [resource |-> l.resource, exclusive |-> l.request.mode = "Exclusive",
            from |-> l.acquired, until |-> l.expires, ended |-> l.ended]

Pages == [i \in DOMAIN leases |-> Page(leases[i])]

Retired == {r \in Resources : resources[r].archived}

LEMMA PageTyped ==
  ASSUME NEW l \in LeaseRow
  PROVE  Page(l) \in Book!Entry
<1>1. PICK x \in BOOLEAN : x = (l.request.mode = "Exclusive")
  OBVIOUS
<1>2. PICK e \in Seconds : e = l.expires
  BY DEF LeaseRow
<1>3. PICK d \in Seconds : d = l.ended
  BY DEF LeaseRow
<1>4. PICK f \in Nat : f = l.acquired
  BY DEF LeaseRow
<1>5. PICK r \in Resources : r = l.resource
  BY DEF LeaseRow
<1>6. Page(l) = [resource |-> r, exclusive |-> x, from |-> f, until |-> e, ended |-> d]
  BY <1>1, <1>2, <1>3, <1>4, <1>5 DEF Page
<1> QED
  BY <1>6 DEF Book!Entry, Seconds

LEMMA PagesTyped ==
  ASSUME NEW s \in Seq(LeaseRow), NEW p, p = [i \in DOMAIN s |-> Page(s[i])]
  PROVE  /\ p \in Seq(Book!Entry) /\ Len(p) = Len(s)
         /\ DOMAIN p = DOMAIN s
         /\ \A i \in DOMAIN s : p[i] = Page(s[i])
<1>1. Len(s) \in Nat /\ DOMAIN s = 1..Len(s)
  OBVIOUS
<1>2. \A i \in 1..Len(s) : Page(s[i]) \in Book!Entry
  BY <1>1, PageTyped
<1>3. p = [i \in 1..Len(s) |-> Page(s[i])]
  BY <1>1
<1>4. p \in [1..Len(s) -> Book!Entry]
  BY <1>2, <1>3
<1>5. p \in Seq(Book!Entry)
  BY <1>1, <1>4
<1> QED
  BY <1>1, <1>3, <1>5

(* A page is live exactly while its lease is active. *)
LEMMA LiveIsActive ==
  ASSUME NEW l, NEW t
  PROVE  Book!Live(Page(l), t) <=> Active(l, t)
BY DEF Page, Active, Book!Live

LEMMA LiveOnIsActive ==
  ASSUME NEW r
  PROVE  Book!LiveOn(r) = ActiveLeases(r, clock)
<1>1. Book!LiveOn(r) = {i \in DOMAIN Pages : Pages[i].resource = r /\ Book!Live(Pages[i], clock)}
  BY DEF Book!LiveOn, Pages, Page
<1>2. DOMAIN Pages = DOMAIN leases /\ \A i \in DOMAIN leases : Pages[i] = Page(leases[i])
  BY DEF Pages
<1>3. \A i \in DOMAIN leases : Page(leases[i]).resource = leases[i].resource
  BY DEF Page
<1> QED
  BY <1>1, <1>2, <1>3, LiveIsActive DEF ActiveLeases

-------------------------------------------------------------------------------
(* The steps of the book *)

(* The book stays as it is when the pages and the retired resources do. *)
LEMMA BookStays ==
  ASSUME clock' = clock, leases' = leases, Retired' = Retired
  PROVE  UNCHANGED Book!bookVars
BY DEF Book!bookVars, Retired

(* Time passes in both. *)
LEMMA TickPasses ==
  ASSUME Tick
  PROVE  Book!TimePasses
BY DEF Tick, tables, Book!TimePasses

(* A sequence that is longer by one element. *)
LEMMA Longer ==
  ASSUME NEW S, NEW s \in Seq(S), NEW t \in Seq(S), NEW e,
         DOMAIN t = 1..(Len(s) + 1), t[Len(s) + 1] = e, \A i \in 1..Len(s) : t[i] = s[i]
  PROVE  t = Append(s, e) /\ Len(t) = Len(s) + 1
<1>1. Len(s) \in Nat /\ Len(t) \in Nat /\ DOMAIN t = 1..Len(t)
  OBVIOUS
<1>2. Len(t) = Len(s) + 1
  BY <1>1
<1>3. e \in S
  BY <1>1, <1>2
<1> QED
  BY <1>1, <1>2, <1>3

(* A committed acquisition is a grant. *)
LEMMA AcquireGrants ==
  ASSUME Life, Typed', NEW u \in Acquirers, CommitAcquire(u)
  PROVE  Book!Grant
<1>1. PICK a \in AcquireLocals : a = acq[u]
  BY DEF Life, Safe, Typed, TypeOK, AcquireTypeOK
<1>2. /\ a.at = "commit" /\ AcquireArgs(u) /\ AcquireLife(u) /\ AcquireKnows(u) /\ Typed
      /\ leases \in Seq(LeaseRow) /\ leases' \in Seq(LeaseRow) /\ clock \in Nat
      /\ resources \in [Resources -> ResourceRow] /\ clock' = clock
  BY <1>1 DEF Life, Safe, Typed, TypeOK, StoreTypeOK, ArgumentsOK, HandlersLife, LockedKnowledge,
              CommitAcquire
<1>3. PICK r \in Resources : r = a.target
  BY <1>1, <1>2 DEF AcquireArgs
<1>4. PICK c \in Config : c = resources[r].config
  BY <1>2, PolicyTypes
<1>5. PICK ttl \in TtlIntents : ttl = a.request.ttl
  BY <1>1, <1>2, PolicyTypes
<1>6. PICK at \in Nat : at = a.acquired
  BY DEF AcquireLocals
<1>7. PICK n : n = Len(leases) + 1
  OBVIOUS
<1>8. PICK row : row = [resource |-> r, owner |-> a.who, key |-> a.key, request |-> a.request,
                        acquired |-> at, expires |-> a.expires, renewed |-> NULL,
                        ended |-> NULL, reason |-> NULL]
  OBVIOUS
<1>9. leases' = Append(leases, row)
  BY <1>1, <1>3, <1>6, <1>8 DEF CommitAcquire
<1>10. n \in DOMAIN leases' /\ leases'[n] = row
  BY <1>2, <1>7, <1>9
<1>11. PICK e : e = Page(row)
  OBVIOUS
<1>12. /\ e.resource = r /\ e.exclusive = (a.request.mode = "Exclusive") /\ e.ended = NULL
       /\ e.from = at /\ e.until = a.expires
  BY <1>8, <1>11 DEF Page
<1>13. e \in Book!Entry
  BY <1>2, <1>10, <1>11, PageTyped
<1>14. Pages' = Append(Pages, e) /\ Len(Pages') = Len(Pages) + 1 /\ Pages'[Len(Pages) + 1] = e
  <2>1. /\ Pages' \in Seq(Book!Entry) /\ DOMAIN Pages' = DOMAIN leases'
        /\ \A i \in DOMAIN leases' : Pages'[i] = Page(leases'[i])
    BY <1>2, PagesTyped DEF Pages
  <2>2. /\ Pages \in Seq(Book!Entry) /\ Len(Pages) = Len(leases)
        /\ DOMAIN Pages = DOMAIN leases
        /\ \A i \in DOMAIN leases : Pages[i] = Page(leases[i])
    BY <1>2, PagesTyped DEF Pages
  <2>3. /\ DOMAIN leases' = 1..n /\ \A i \in 1..Len(leases) : leases'[i] = leases[i]
        /\ DOMAIN leases = 1..Len(leases) /\ Len(leases) \in Nat
    BY <1>2, <1>7, <1>9
  <2>4. \A i \in 1..Len(leases) : i \in DOMAIN leases' /\ Pages'[i] = Pages[i]
    BY <1>7, <2>1, <2>2, <2>3
  <2>5. Pages'[n] = e
    BY <1>10, <1>11, <2>1
  <2> QED
    BY <1>7, <2>1, <2>2, <2>3, <2>4, <2>5, Longer
<1>15. r \notin Retired /\ Retired' = Retired
  <2>1. r \notin Retired
    BY <1>1, <1>2, <1>3 DEF AcquireKnows, Retired
  <2>2. PICK old \in ResourceRow : old = resources[r]
    BY <1>2
  <2>3. PICK new : new = [old EXCEPT !.leasedAt = at]
    OBVIOUS
  <2>4. new.archived = old.archived
    BY <2>2, <2>3 DEF ResourceRow
  <2>5. resources' = [resources EXCEPT ![r] = new]
    BY <1>1, <1>2, <1>3, <1>6, <2>2, <2>3 DEF CommitAcquire
  <2>6. \A s \in Resources : resources'[s].archived = resources[s].archived
    BY <1>2, <2>2, <2>4, <2>5
  <2> QED
    BY <2>1, <2>6 DEF Retired
<1>16. e.exclusive => Book!LiveOn(r) = {}
  BY <1>1, <1>2, <1>3, <1>12, LiveOnIsActive DEF AcquireKnows
<1>17. at <= clock /\ a.expires = ExpiresAt(at, c, ttl)
  BY <1>1, <1>2, <1>3, <1>4, <1>5, <1>6 DEF AcquireLife
<1>18. e.until # NULL => e.until > e.from
  BY <1>12, <1>17, ExpirationFits
<1> QED
  BY <1>2, <1>12, <1>13, <1>14, <1>15, <1>16, <1>17, <1>18 DEF Book!Grant, Pages, Page, Retired

(* A committed renewal is an extension. *)
LEMMA RenewalExtends ==
  ASSUME Life, Typed', NEW u \in Changers, CommitRenewal(u)
  PROVE  \E i \in DOMAIN Pages : Book!Extend(i)
<1>1. PICK c \in ChangeLocals : c = chg[u]
  BY DEF Life, Safe, Typed, TypeOK, ChangeTypeOK
<1>2. /\ c.at = "renew" /\ ChangeArgs(u) /\ ChangeKnows(u) /\ Typed
      /\ leases \in Seq(LeaseRow) /\ leases' \in Seq(LeaseRow)
      /\ clock' = clock /\ resources' = resources
  BY <1>1 DEF Life, Safe, Typed, TypeOK, StoreTypeOK, ArgumentsOK, LockedKnowledge, CommitRenewal
<1>3. PICK n \in DOMAIN leases : n = c.lease
  BY <1>1, <1>2 DEF ChangeArgs
<1>4. PICK l \in LeaseRow : l = leases[n]
  BY <1>2, LeaseTyped
<1>5. PICK e \in Seconds : e = c.expires
  BY DEF ChangeLocals
<1>6. PICK row : row = [l EXCEPT !.expires = e, !.renewed = c.renewed]
  OBVIOUS
<1>7. /\ row.resource = l.resource /\ row.request = l.request /\ row.acquired = l.acquired
      /\ row.expires = e /\ row.ended = l.ended
  BY <1>4, <1>6 DEF LeaseRow
<1>8. leases' = [leases EXCEPT ![n] = row]
  BY <1>1, <1>3, <1>4, <1>5, <1>6 DEF CommitRenewal
<1>9. /\ l.ended = NULL /\ l.resource \notin Retired
      /\ \A j \in DOMAIN leases :
           j > n /\ leases[j].resource = l.resource => leases[j].request.mode # "Exclusive"
  BY <1>1, <1>2, <1>3, <1>4 DEF ChangeKnows, Retired
<1>10. Page(row) = [Page(l) EXCEPT !.until = e]
  BY <1>7 DEF Page
<1>11. /\ DOMAIN Pages' = DOMAIN Pages /\ DOMAIN Pages = DOMAIN leases
       /\ Pages[n] = Page(l) /\ Pages'[n] = Page(row)
       /\ \A i \in DOMAIN leases : i # n => Pages'[i] = Pages[i]
       /\ \A i \in DOMAIN leases : Pages[i] = Page(leases[i])
  BY <1>2, <1>4, <1>8 DEF Pages
<1>12. Pages' = [Pages EXCEPT ![n] = Page(row)]
  BY <1>11 DEF Pages
<1>13. Pages' = [Pages EXCEPT ![n].until = e]
  BY <1>10, <1>11, <1>12
<1>14. Pages'[n].until = e
  BY <1>7, <1>11 DEF Page
<1>15. /\ Pages[n].ended = NULL /\ Pages[n].resource \notin Retired
       /\ \A j \in DOMAIN Pages : j > n /\ Pages[j].resource = Pages[n].resource
                                    => ~Pages[j].exclusive
  <2>1. \A x : /\ Page(x).resource = x.resource /\ Page(x).ended = x.ended
               /\ Page(x).exclusive <=> x.request.mode = "Exclusive"
    BY DEF Page
  <2> QED
    BY <1>9, <1>11, <2>1
<1>16. Retired' = Retired
  BY <1>2 DEF Retired
<1>17. Book!Extend(n) <=>
         /\ Pages[n].ended = NULL
         /\ Pages[n].resource \notin Retired
         /\ \A j \in DOMAIN Pages : j > n /\ Pages[j].resource = Pages[n].resource
                                    => ~Pages[j].exclusive
         /\ DOMAIN Pages' = DOMAIN Pages
         /\ Pages'[n].until \in Nat \cup {NULL}
         /\ Pages' = [Pages EXCEPT ![n].until = Pages'[n].until]
         /\ clock' = clock /\ Retired' = Retired
  BY DEF Book!Extend, Pages, Page, Retired
<1>18. Book!Extend(n)
  BY <1>2, <1>5, <1>11, <1>13, <1>14, <1>15, <1>16, <1>17 DEF Seconds
<1> QED
  BY <1>3, <1>11, <1>18

(* What it is for the book to close the grants S. *)
LEMMA CloseMeans ==
  ASSUME NEW S, DOMAIN Pages' = DOMAIN Pages, clock' = clock, Retired' = Retired,
         \A i \in S : Pages[i].ended = NULL,
         \A i \in S : Pages'[i].ended \in Pages[i].from .. clock,
         \A i \in DOMAIN Pages :
           Pages'[i] = IF i \in S THEN [Pages[i] EXCEPT !.ended = Pages'[i].ended] ELSE Pages[i]
  PROVE  Book!Close(S)
<1>1. Pages' = [i \in DOMAIN Pages |->
                  IF i \in S THEN [Pages[i] EXCEPT !.ended = Pages'[i].ended] ELSE Pages[i]]
  BY DEF Pages
<1>2. Book!Close(S) <=>
        /\ \A i \in S : Pages[i].ended = NULL
        /\ DOMAIN Pages' = DOMAIN Pages
        /\ Pages' = [i \in DOMAIN Pages |->
                       IF i \in S THEN [Pages[i] EXCEPT !.ended = Pages'[i].ended] ELSE Pages[i]]
        /\ \A i \in S : Pages'[i].ended \in Pages[i].from .. clock
        /\ clock' = clock /\ Retired' = Retired
  BY DEF Book!Close, Pages, Page, Retired
<1> QED
  BY <1>1, <1>2

(* A release or a revocation closes one grant. *)
LEMMA EndCloses ==
  ASSUME Life, Typed', NEW u \in Changers, CommitEnd(u)
  PROVE  \E S \in SUBSET DOMAIN Pages : Book!Close(S)
<1>1. PICK c \in ChangeLocals : c = chg[u]
  BY DEF Life, Safe, Typed, TypeOK, ChangeTypeOK
<1>2. /\ c.at = "end" /\ ChangeArgs(u) /\ ChangeLife(u) /\ Typed /\ clock \in Nat
      /\ leases \in Seq(LeaseRow) /\ leases' \in Seq(LeaseRow)
      /\ clock' = clock /\ resources' = resources
  BY <1>1 DEF Life, Safe, Typed, TypeOK, StoreTypeOK, ArgumentsOK, HandlersLife, CommitEnd
<1>3. PICK n \in DOMAIN leases : n = c.lease
  BY <1>1, <1>2 DEF ChangeArgs
<1>4. PICK l \in LeaseRow : l = leases[n]
  BY <1>2, LeaseTyped
<1>5. PICK at \in Nat : at = c.now
  BY DEF ChangeLocals
<1>6. PICK row : row = [l EXCEPT !.ended = at, !.reason = c.op]
  OBVIOUS
<1>7. /\ row.resource = l.resource /\ row.request = l.request /\ row.acquired = l.acquired
      /\ row.expires = l.expires /\ row.ended = at
  BY <1>4, <1>6 DEF LeaseRow
<1>8. leases' = [leases EXCEPT ![n] = row] /\ l.ended = NULL
  BY <1>1, <1>3, <1>4, <1>5, <1>6 DEF CommitEnd
<1>9. l.acquired \in Nat /\ l.acquired <= at /\ at <= clock
  BY <1>1, <1>2, <1>3, <1>4, <1>5 DEF ChangeLife, LeaseRow
<1>10. Page(row) = [Page(l) EXCEPT !.ended = at] /\ Page(row).ended = at
  BY <1>7 DEF Page
<1>11. /\ DOMAIN Pages' = DOMAIN Pages /\ DOMAIN Pages = DOMAIN leases
       /\ Pages[n] = Page(l) /\ Pages'[n] = Page(row)
       /\ \A i \in DOMAIN leases : i # n => Pages'[i] = Pages[i]
  BY <1>2, <1>4, <1>8 DEF Pages
<1>12. PICK S : S = {n}
  OBVIOUS
<1>13. /\ \A i \in S : Pages[i].ended = NULL
       /\ \A i \in S : Pages'[i].ended \in Pages[i].from .. clock
  BY <1>2, <1>8, <1>9, <1>10, <1>11, <1>12 DEF Page
<1>14. \A i \in DOMAIN Pages :
         Pages'[i] = IF i \in S THEN [Pages[i] EXCEPT !.ended = Pages'[i].ended] ELSE Pages[i]
  BY <1>10, <1>11, <1>12
<1>15. Retired' = Retired
  BY <1>2 DEF Retired
<1>16. Book!Close(S)
  BY <1>2, <1>11, <1>13, <1>14, <1>15, CloseMeans
<1> QED
  BY <1>3, <1>11, <1>12, <1>16

(* A sweep closes the grants that have expired. *)
LEMMA SweepCloses ==
  ASSUME Life, Typed', NEW w \in Workers, CommitSweep(w)
  PROVE  \E S \in SUBSET DOMAIN Pages : Book!Close(S)
<1>1. PICK s \in SweepLocals : s = swp[w]
  BY DEF Life, Safe, Typed, TypeOK, SweepTypeOK
<1>2. /\ leases \in Seq(LeaseRow) /\ clock \in Nat /\ Typed /\ s.now \in Nat
      /\ clock' = clock /\ resources' = resources /\ SweepLife(w) /\ SweepKnows(w) /\ RowsLife
      /\ s.expired \subseteq DOMAIN leases
  BY <1>1 DEF Life, Safe, Typed, TypeOK, StoreTypeOK, ArgumentsOK, SweepArgs, SweepLocals,
              LockedKnowledge, HandlersLife, CommitSweep
<1>3. leases' = [i \in DOMAIN leases |->
                   IF i \in s.expired
                   THEN [leases[i] EXCEPT !.ended = leases[i].expires, !.reason = "Expired"]
                   ELSE leases[i]]
  BY <1>1 DEF CommitSweep
<1>4. /\ DOMAIN Pages = DOMAIN leases /\ DOMAIN Pages' = DOMAIN Pages
      /\ \A i \in DOMAIN leases : Pages[i] = Page(leases[i])
      /\ \A i \in DOMAIN leases : i \notin s.expired => Pages'[i] = Pages[i]
  BY <1>3 DEF Pages
<1>5. ASSUME NEW n \in s.expired
      PROVE  /\ Pages[n].ended = NULL
             /\ Pages'[n].ended \in Pages[n].from .. clock
             /\ Pages'[n] = [Pages[n] EXCEPT !.ended = Pages'[n].ended]
  <2>1. n \in DOMAIN leases
    BY <1>2
  <2>2. PICK l \in LeaseRow : l = leases[n]
    BY <1>2, <2>1, LeaseTyped
  <2>3. PICK row : row = [l EXCEPT !.ended = l.expires, !.reason = "Expired"]
    OBVIOUS
  <2>4. /\ row.resource = l.resource /\ row.request = l.request /\ row.acquired = l.acquired
        /\ row.expires = l.expires /\ row.ended = l.expires
    BY <2>2, <2>3 DEF LeaseRow
  <2>5. l.ended = NULL /\ l.expires # NULL /\ l.expires <= s.now /\ s.now <= clock
    BY <1>1, <1>2, <2>2 DEF SweepKnows, SweepLife
  <2>6. l.acquired \in Nat /\ l.expires \in Nat
    BY <2>2, <2>5 DEF LeaseRow, Seconds
  <2>7. l.expires > l.acquired
    BY <1>2, <2>1, <2>2, <2>5 DEF RowsLife, EndsWithinLife
  <2>8. Pages[n] = Page(l) /\ Pages'[n] = Page(row)
    BY <1>3, <1>4, <2>1, <2>2, <2>3 DEF Pages
  <2>9. Page(row) = [Page(l) EXCEPT !.ended = l.expires] /\ Page(row).ended = l.expires
    BY <2>4 DEF Page
  <2>10. Page(l).ended = NULL /\ Page(l).from = l.acquired
    BY <2>5 DEF Page
  <2>11. l.expires \in l.acquired .. clock
    BY <1>2, <2>5, <2>6, <2>7
  <2> QED
    BY <2>8, <2>9, <2>10, <2>11
<1>6. PICK S : S = s.expired
  OBVIOUS
<1>7. \A i \in DOMAIN Pages :
        Pages'[i] = IF i \in S THEN [Pages[i] EXCEPT !.ended = Pages'[i].ended] ELSE Pages[i]
  BY <1>4, <1>5, <1>6
<1>8. Retired' = Retired
  BY <1>2 DEF Retired
<1>9. S \subseteq DOMAIN Pages
  BY <1>2, <1>4, <1>6
<1>10. \A i \in S : Pages[i].ended = NULL /\ Pages'[i].ended \in Pages[i].from .. clock
  BY <1>5, <1>6
<1>11. Book!Close(S)
  BY <1>2, <1>4, <1>7, <1>8, <1>10, CloseMeans
<1> QED
  BY <1>9, <1>11

(* Archiving retires a resource that nobody uses. *)
LEMMA ArchiveRetires ==
  ASSUME Life, Typed', NEW u \in Editors, ArchiveResource(u)
  PROVE  \E r \in Resources : Book!Retire(r)
<1>1. /\ Typed /\ leases \in Seq(LeaseRow) /\ clock \in Nat /\ adm[u] \in EditLocals
      /\ resources \in [Resources -> ResourceRow] /\ EditKnows(u) /\ EditArgs(u)
      /\ UNCHANGED <<clock, leases>> /\ adm[u].at = "apply"
  BY DEF Life, Safe, Typed, TypeOK, StoreTypeOK, EditTypeOK, ArgumentsOK, LockedKnowledge,
         ArchiveResource, Applies
<1>2. PICK r \in Resources : r = adm[u].resource
  BY <1>1 DEF EditArgs
<1>3. adm[u].now \in Nat /\ adm[u].now <= clock /\ ActiveLeases(r, adm[u].now) = {}
  BY <1>1, <1>2 DEF EditLocals, EditKnows, ArchiveResource
<1>4. ActiveLeases(r, clock) = {}
  BY <1>1, <1>3, LeaseTyped, ActiveEarlier DEF ActiveLeases
<1>5. PICK old \in ResourceRow : old = resources[r]
  BY <1>1
<1>6. PICK new : new = [old EXCEPT !.archived = TRUE, !.version = @ + 1]
  OBVIOUS
<1>7. new.archived
  BY <1>5, <1>6 DEF ResourceRow
<1>8. resources' = [resources EXCEPT ![r] = new]
  BY <1>2, <1>5, <1>6 DEF ArchiveResource
<1>9. resources'[r] = new /\ \A s \in Resources \ {r} : resources'[s] = resources[s]
  BY <1>1, <1>8
<1>10. Retired' = Retired \cup {r}
  BY <1>7, <1>9 DEF Retired
<1>11. Book!LiveOn(r) = {}
  BY <1>4, LiveOnIsActive
<1>12. Book!Retire(r)
  BY <1>1, <1>10, <1>11 DEF Book!Retire, Retired
<1> QED
  BY <1>12

(* The other edits leave the book alone. *)
LEMMA EditsStay ==
  ASSUME Life, NEW u \in Editors, UpdateResource(u) \/ TransitionResource(u) \/ SetGrant(u)
  PROVE  UNCHANGED Book!bookVars
<1>1. Typed /\ resources \in [Resources -> ResourceRow] /\ UNCHANGED <<clock, leases>>
  BY DEF Life, Safe, Typed, TypeOK, StoreTypeOK, UpdateResource, TransitionResource, SetGrant
<1>2. ASSUME NEW r \in Resources PROVE resources'[r].archived = resources[r].archived
  <2>1. PICK old \in ResourceRow : old = resources[r]
    BY <1>1
  <2>2. CASE UpdateResource(u)
    <3>1. PICK new : new = [old EXCEPT !.config = adm[u].config, !.version = @ + 1]
      OBVIOUS
    <3>2. new.archived = old.archived
      BY <2>1, <3>1 DEF ResourceRow
    <3>3. resources'[r] = new \/ resources'[r] = old
      BY <1>1, <2>1, <2>2, <3>1 DEF UpdateResource
    <3> QED
      BY <2>1, <3>2, <3>3
  <2>3. CASE TransitionResource(u)
    <3>1. PICK new : new = [old EXCEPT !.status = TargetOf(adm[u].op), !.version = @ + 1]
      OBVIOUS
    <3>2. new.archived = old.archived
      BY <2>1, <3>1 DEF ResourceRow
    <3>3. resources'[r] = new \/ resources'[r] = old
      BY <1>1, <2>1, <2>3, <3>1 DEF TransitionResource
    <3> QED
      BY <2>1, <3>2, <3>3
  <2>4. CASE SetGrant(u)
    BY <2>4 DEF SetGrant
  <2> QED
    BY <2>2, <2>3, <2>4
<1>3. Retired' = Retired
  BY <1>2 DEF Retired
<1> QED
  BY <1>1, <1>3, BookStays

(* Shepherd's concurrent transactions implement the book of leases: each   *)
(* step is a step of the book or changes nothing in it (acquire_lease,     *)
(* renew_lease, end_lease, expire_due_leases, archive_resource).           *)
THEOREM ShepherdImplementsBook == Spec => ImplementsBook
<1>1. Init => Book!BookInit
  BY DEF Init, Created, Book!BookInit
<1>2. Life /\ Life' /\ [Next]_vars => [Book!BookNext]_(Book!bookVars)
  <2>1. SUFFICES ASSUME Life, Life', [Next]_vars
                 PROVE  Book!BookNext \/ UNCHANGED Book!bookVars
    OBVIOUS
  <2>2. Typed' /\ Safe
    BY <2>1 DEF Life, Safe
  <2>3. CASE UNCHANGED <<clock, tables>> \/ UNCHANGED vars
    <3>1. clock' = clock /\ leases' = leases /\ Retired' = Retired
      BY <2>3 DEF tables, vars, Retired
    <3> QED
      BY <3>1, BookStays
  <2>4. CASE Tick
    BY <2>4, TickPasses DEF Book!BookNext
  <2>5. ASSUME NEW u \in Acquirers, CommitAcquire(u) PROVE Book!BookNext
    BY <2>1, <2>2, <2>5, AcquireGrants DEF Book!BookNext
  <2>6. ASSUME NEW u \in Changers, CommitRenewal(u) PROVE Book!BookNext
    BY <2>1, <2>2, <2>6, RenewalExtends DEF Book!BookNext, Pages
  <2>7. ASSUME NEW u \in Changers, CommitEnd(u) PROVE Book!BookNext
    BY <2>1, <2>2, <2>7, EndCloses DEF Book!BookNext, Pages
  <2>8. ASSUME NEW w \in Workers, CommitSweep(w) PROVE Book!BookNext
    BY <2>1, <2>2, <2>8, SweepCloses DEF Book!BookNext, Pages
  <2>9. ASSUME NEW u \in Editors, ArchiveResource(u) PROVE Book!BookNext
    BY <2>1, <2>2, <2>9, ArchiveRetires DEF Book!BookNext
  <2>10. ASSUME NEW u \in Editors, UpdateResource(u) \/ TransitionResource(u) \/ SetGrant(u)
         PROVE  UNCHANGED Book!bookVars
    BY <2>1, <2>10, EditsStay
  <2> QED
    BY <2>1, <2>2, <2>3, <2>4, <2>5, <2>6, <2>7, <2>8, <2>9, <2>10, WritingSteps
<1> QED
  BY AlwaysAlive, <1>1, <1>2, PTL DEF Spec, ImplementsBook, Book!BookSpec

-------------------------------------------------------------------------------
(* A scrape beside the transactions *)

(* What the first statement has counted is true of the leases that have    *)
(* not changed since.                                                      *)
ActiveCounted ==
  scrape.at = "backlog" =>
    \A i \in DOMAIN leases \ touched : i \in scrape.active <=> Active(leases[i], scrape.now)

ScrapeFields == {"at", "now", "active", "available", "utilized", "backlog", "lag"}

Monitored == /\ Typed
             /\ DOMAIN scrape = ScrapeFields
             /\ scrape.now \in Nat
             /\ ActiveCounted /\ UntouchedCountedOnce

(* A lease that has not ended is active or due, and never both. *)
LEMMA ActiveOrDue ==
  ASSUME StoreTypeOK, NEW i \in DOMAIN leases, NEW t \in Nat
  PROVE  /\ leases[i].ended = NULL <=> Active(leases[i], t) \/ Due(i, t)
         /\ ~(Active(leases[i], t) /\ Due(i, t))
<1>1. leases[i] \in LeaseRow
  BY LeaseTyped
<1>2. PICK e \in Seconds : e = leases[i].expires
  BY <1>1 DEF LeaseRow
<1> QED
  BY <1>2 DEF Active, Due, Seconds

LEMMA InitMonitored == MonitoringInit => Monitored
<1> SUFFICES ASSUME MonitoringInit PROVE Monitored
  OBVIOUS
<1>1. scrape = NoScrape /\ Typed
  BY InitTyped DEF MonitoringInit
<1>2. DOMAIN scrape = ScrapeFields /\ scrape.now \in Nat /\ scrape.at = "idle"
  BY <1>1 DEF NoScrape, ScrapeFields
<1> QED
  BY <1>1, <1>2 DEF Monitored, ActiveCounted, UntouchedCountedOnce

LEMMA ScrapeMonitored ==
  ASSUME Monitored, Typed', ScrapeStep, UNCHANGED vars
  PROVE  Monitored'
<1>1. /\ DOMAIN scrape = ScrapeFields /\ scrape.now \in Nat
      /\ clock \in Nat /\ StoreTypeOK /\ UNCHANGED leases
  BY DEF Monitored, Typed, TypeOK, StoreTypeOK, vars
<1>2. CASE BeginScrape
  <2>1. /\ DOMAIN scrape' = ScrapeFields /\ scrape'.now = clock /\ scrape'.at = "sharing"
    BY <1>2 DEF BeginScrape, NoScrape, ScrapeFields
  <2> QED
    BY <1>1, <2>1 DEF Monitored, ActiveCounted, UntouchedCountedOnce
<1>3. CASE ReadSharing
  <2> DEFINE active == UNION {ActiveLeases(r, scrape.now) : r \in Resources}
  <2>1. /\ DOMAIN scrape' = ScrapeFields /\ scrape'.now = scrape.now
        /\ scrape'.at = "backlog" /\ scrape'.active = active
    BY <1>1, <1>3 DEF ReadSharing, ScrapeFields
  <2>2. \A i \in DOMAIN leases : i \in active <=> Active(leases[i], scrape.now)
    <3>1. \A i \in DOMAIN leases : leases[i].resource \in Resources
      BY <1>1, LeaseTyped DEF LeaseRow
    <3> QED
      BY <3>1 DEF ActiveLeases
  <2> QED
    BY <1>1, <2>1, <2>2 DEF Monitored, ActiveCounted, UntouchedCountedOnce
<1>4. CASE ReadBacklog
  <2> DEFINE backlog == {i \in DOMAIN leases : Due(i, scrape.now)}
  <2>1. /\ DOMAIN scrape' = ScrapeFields /\ scrape'.now = scrape.now
        /\ scrape'.at = "done" /\ scrape'.backlog = backlog
        /\ scrape'.active = scrape.active /\ touched' = touched
    BY <1>1, <1>4 DEF ReadBacklog, ScrapeFields
  <2>2. ASSUME NEW i \in DOMAIN leases \ touched
        PROVE  /\ leases[i].ended = NULL <=> i \in scrape.active \cup backlog
               /\ i \notin scrape.active \cap backlog
    <3>1. i \in scrape.active <=> Active(leases[i], scrape.now)
      BY <1>4, <2>2 DEF ReadBacklog, Monitored, ActiveCounted
    <3> QED
      BY <1>1, <3>1, ActiveOrDue
  <2> QED
    BY <1>1, <2>1, <2>2 DEF Monitored, ActiveCounted, UntouchedCountedOnce
<1> QED
  BY <1>2, <1>3, <1>4 DEF ScrapeStep

LEMMA NextMonitored == Monitored /\ [MonitoringNext]_monitoringVars => Monitored'
<1> SUFFICES ASSUME Monitored, [MonitoringNext]_monitoringVars PROVE Monitored'
  OBVIOUS
<1>1. Typed'
  BY NextTyped DEF Monitored, MonitoringNext, monitoringVars
<1>2. CASE ScrapeStep /\ UNCHANGED vars
  BY <1>1, <1>2, ScrapeMonitored
<1>3. ASSUME UNCHANGED scrape, NEW A,
             \A i \in DOMAIN leases' \ A : i \in DOMAIN leases \ touched /\ leases'[i] = leases[i],
             touched' = A
      PROVE  Monitored'
  BY <1>1, <1>3 DEF Monitored, ActiveCounted, UntouchedCountedOnce
<1>4. CASE Next /\ UNCHANGED scrape /\ scrape.at # "idle" /\ Touch
  BY <1>3, <1>4 DEF Touch
<1>5. CASE UNCHANGED scrape /\ scrape.at = "idle"
  BY <1>1, <1>5 DEF Monitored, ActiveCounted, UntouchedCountedOnce
<1>6. CASE UNCHANGED monitoringVars
  BY <1>1, <1>6 DEF monitoringVars, vars, Monitored, ActiveCounted, UntouchedCountedOnce
<1> QED
  BY <1>2, <1>4, <1>5, <1>6 DEF MonitoringNext

(* A lease that no transaction changes during a scrape is counted once: as *)
(* active, as overdue, or not at all if it has ended, though the two       *)
(* statements see different snapshots (collect_database_metrics).          *)
THEOREM ScrapesAreConsistent == MonitoringSpec => []UntouchedCountedOnce
<1>1. Monitored => UntouchedCountedOnce
  BY DEF Monitored
<1> QED
  BY InitMonitored, NextMonitored, <1>1, PTL DEF MonitoringSpec
===============================================================================
