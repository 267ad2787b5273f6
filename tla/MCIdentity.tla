------------------------------ MODULE MCIdentity ------------------------------
(***************************************************************************)
(* Instances of Identity for TLC.                                          *)
(***************************************************************************)
EXTENDS Identity, TLC

CONSTANTS m1, m2, s1, s2   \* managers and sessions
CONSTANTS ann, bob, robot  \* two people and a service identity
CONSTANT team              \* a group

Row(role) == [role |-> role, archived |-> FALSE]
Everyone == [u \in Users |-> 1]
Nobody == [u \in Users |-> 0]

(* Two administrators with passwords, and a service that administers. *)
TwoAdmins == [principals |-> [p \in Names |-> Row("Admin")], passwords |-> Everyone,
              owners |-> <<ann, bob, robot>>]
(* Nobody is there. *)
Empty == [principals |-> [p \in Names |-> NoPrincipal], passwords |-> Nobody, owners |-> <<>>]
(* An administrator and a user, and a service that administers. *)
AnnAndBob == [principals |-> [p \in Names |-> IF p = bob THEN Row("User") ELSE Row("Admin")],
              passwords |-> Everyone, owners |-> <<ann, bob, robot>>]
(* An administrator and a user only. *)
AnnAndBobOnly == [AnnAndBob EXCEPT !.principals[robot] = NoPrincipal, !.owners = <<ann, bob>>]

(* Two administrators only. *)
TwoAdminsOnly == [TwoAdmins EXCEPT !.owners = <<ann, bob>>]

AllInstallations == {TwoAdmins, Empty, AnnAndBob, AnnAndBobOnly}
People == {TwoAdminsOnly}

Twins == Permutations(Managers)
===============================================================================
