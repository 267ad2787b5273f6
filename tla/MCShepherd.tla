------------------------------ MODULE MCShepherd ------------------------------
(***************************************************************************)
(* Instances of Shepherd for TLC: the values its configurations give to    *)
(* the constants that a .cfg cannot write.                                 *)
(***************************************************************************)
EXTENDS Shepherd, TLC

CONSTANTS a1, a2, a3, c1, c2, w1, w2, e1, e2  \* transactions
CONSTANTS root, alice                         \* principals; root is an administrator
CONSTANTS k1, k2, k3                          \* idempotency keys

(* A lease lasts one second unless its request says otherwise. *)
Flexible(mode) == [mode |-> mode, visibility |-> "Public", expiration |-> "Optional",
                   default |-> 1, max |-> NULL]
Strict(mode) == [mode |-> mode, visibility |-> "Public", expiration |-> "Required",
                 default |-> 1, max |-> 1]
Restricted(mode) == [Flexible(mode) EXCEPT !.visibility = "Restricted"]
(* A policy that no resource can have. *)
Invalid(mode) == [Strict(mode) EXCEPT !.default = NULL]

FlexibleExclusive == {Flexible("Exclusive")}
FlexibleShared == {Flexible("Shared")}
ExclusiveConfigs == {Flexible("Exclusive"), Strict("Exclusive")}
EditedConfigs == ExclusiveConfigs \cup {Invalid("Exclusive")}
BothModes == {Flexible("Exclusive"), Flexible("Shared")}
EitherMode == {Flexible("Shared"), Restricted("Exclusive")}

Body(mode, ttl) == [mode |-> mode, ttl |-> ttl]

DefaultExclusive == {Body("Exclusive", OMITTED_TTL)}
DefaultShared == {Body("Shared", OMITTED_TTL)}
ExclusiveBodies == {Body("Exclusive", ttl) : ttl \in {OMITTED_TTL, 2}}
BothBodies == DefaultExclusive \cup DefaultShared
EitherBody == {Body("Shared", OMITTED_TTL), Body("Exclusive", NULL)}

(* Handlers of one kind are interchangeable, and so are keys. *)
Interchangeable == Permutations(Acquirers) \cup Permutations(Changers)
                     \cup Permutations(Editors) \cup Permutations(Keys)
===============================================================================
