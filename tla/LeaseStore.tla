------------------------------ MODULE LeaseStore ------------------------------
(***************************************************************************)
(* The PostgreSQL tables the leasing code shares, the row and advisory     *)
(* locks its transactions hold, and the rules on time and lease policy     *)
(* that acquisition, renewal and expiration all apply.                     *)
(*                                                                         *)
(* A table holds COMMITTED rows only: under READ COMMITTED every statement *)
(* sees the rows committed when it starts, so a component keeps what its   *)
(* transaction has computed in its own variable and applies it in its      *)
(* commit step.  `held' is the set of locks each transaction holds; a lock *)
(* is kept until the transaction commits or rolls back.                    *)
(***************************************************************************)
EXTENDS Integers, Sequences, FiniteSets

CONSTANTS
  Resources,     \* resource ids; their order is the order of their ids
  Principals,    \* users and services that call the API
  Admins,        \* the principals with the Administrator role
  Keys,          \* values of the Idempotency-Key header
  Configs,       \* the configurations a resource can be given
  Transactions,  \* every request handler or worker that can be in a transaction
  NULL,          \* SQL NULL and JSON null
  OMITTED_TTL,   \* the ttl_seconds of a body that has no such field
  MaxClock       \* bound: the last second of the model

ASSUME ResourcesAssumption == Resources \subseteq Nat /\ IsFiniteSet(Resources)
ASSUME AdminsAssumption == Admins \subseteq Principals
ASSUME NullAssumption == /\ NULL \notin Nat
                         /\ OMITTED_TTL \notin Nat
                         /\ NULL # OMITTED_TTL
                         /\ NULL \notin {"Released", "Revoked", "Expired"}
ASSUME MaxClockAssumption == MaxClock \in Nat

VARIABLES
  clock,      \* the host's time in seconds: datetime.now(UTC) and now()
  resources,  \* table resources
  grants,     \* table resource_principal_grants: <<p, r>>; groups are left out
  leases,     \* table leases in insertion order; the index stands for the id
  audit,      \* table audit_events, without times: the rows of each event
  held        \* the locks each transaction holds

tables == <<resources, grants, leases, audit>>
storeVars == <<clock, tables, held>>

-------------------------------------------------------------------------------
(* Rows *)

SharingModes == {"Exclusive", "Shared"}
Seconds == Nat \cup {NULL}
Ttls == (Nat \ {0}) \cup {NULL}
TtlIntents == Ttls \cup {OMITTED_TTL}

(* What an administrator configures: matching, visibility and expiration. *)
Config == [mode : SharingModes, visibility : {"Public", "Restricted"},
           expiration : {"Required", "Optional"}, default : Ttls, max : Ttls]

ASSUME ConfigsAssumption == Configs \subseteq Config

Statuses == {"Active", "Quarantined", "Disabled"}

ResourceRow == [config : Configs, status : Statuses, archived : BOOLEAN,
                version : Nat, leasedAt : Seconds]

(* The body of POST /v1/leases; two bodies with one digest are one request. *)
Request == [mode : SharingModes, ttl : TtlIntents]

LeaseRow == [resource : Resources, owner : Principals, key : Keys, request : Request,
             acquired : Nat, expires : Seconds, renewed : Seconds, ended : Seconds,
             reason : {"Released", "Revoked", "Expired", NULL}]

Event(action, entity, actor) ==
  [action |-> action, entity |-> entity, actor |-> actor]

EndActions == {"lease.released", "lease.revoked", "lease.expired"}

Rows(e) == IF e \in DOMAIN audit THEN audit[e] ELSE 0

(* One INSERT for each event of E.  The rows of an event that ends a lease *)
(* are counted; of the others, which clients may repeat without bound, the *)
(* table only tells which have occurred.                                   *)
Recorded(E) ==
  [e \in DOMAIN audit \cup E |->
     IF e \notin E THEN audit[e]
     ELSE IF e.action \in EndActions THEN Rows(e) + 1 ELSE 1]

NothingRecorded == [e \in {} |-> 0]

-------------------------------------------------------------------------------
(* Time and lease policy *)

(* ACTIVE_LEASE judged at time t: not ended and not past its expiration. *)
Active(lease, t) == /\ lease.ended = NULL
                    /\ lease.expires # NULL => lease.expires > t

ActiveLeases(r, t) ==
  {i \in DOMAIN leases : leases[i].resource = r /\ Active(leases[i], t)}

(* validate_expiration_policy, and the CHECK constraints on the columns. *)
ValidExpiration(c) ==
  /\ c.expiration = "Required" => c.default # NULL
  /\ c.default # NULL /\ c.max # NULL => c.default <= c.max

Resolved(c, ttl) == IF ttl = OMITTED_TTL THEN c.default ELSE ttl

(* _resolve_ttl raises: an indefinite lease, or one longer than the maximum. *)
TtlRefused(c, ttl) ==
  \/ Resolved(c, ttl) = NULL /\ c.expiration = "Required"
  \/ /\ Resolved(c, ttl) # NULL
     /\ c.max # NULL
     /\ Resolved(c, ttl) > c.max

ExpiresAt(t, c, ttl) ==
  IF Resolved(c, ttl) = NULL THEN NULL ELSE t + Resolved(c, ttl)

-------------------------------------------------------------------------------
(* Locks *)

KeyLock(p, k) == <<"key", <<p, k>>>>
LeaseLock(i) == <<"lease", i>>
ResourceLock(r) == <<"resource", r>>
SecretLock(i) == <<"secret", i>>

Locks == ({"key"} \X (Principals \X Keys)) \cup ({"lease"} \X Nat)
           \cup ({"resource"} \X Resources) \cup ({"secret"} \X Nat)

Free(t, lock) == \A u \in Transactions \ {t} : lock \notin held[u]

(* FOR UPDATE and pg_advisory_xact_lock: the step waits for a free lock. *)
Take(t, lock) == /\ Free(t, lock)
                 /\ held' = [held EXCEPT ![t] = @ \cup {lock}]

ReleaseAll(t) == held' = [held EXCEPT ![t] = {}]

-------------------------------------------------------------------------------

(* Types of the shared state. *)
StoreTypeOK ==
  /\ clock \in Nat
  /\ resources \in [Resources -> ResourceRow]
  /\ grants \subseteq Principals \X Resources
  /\ leases \in Seq(LeaseRow)
  /\ \A e \in DOMAIN audit : audit[e] \in Nat \ {0}
  /\ held \in [Transactions -> SUBSET Locks]

(* Time passes. *)
Tick == /\ clock < MaxClock
        /\ clock' = clock + 1
        /\ UNCHANGED <<tables, held>>
===============================================================================
