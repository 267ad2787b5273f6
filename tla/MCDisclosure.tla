----------------------------- MODULE MCDisclosure -----------------------------
(***************************************************************************)
(* An instance of Disclosure for TLC that explores several scenarios in    *)
(* one run: the first state chooses one, and with it what there is and     *)
(* which requests may begin.  All other steps are Disclosure's.            *)
(***************************************************************************)
EXTENDS Disclosure, TLC

CONSTANTS h1, h2, c1, w1, e1  \* transactions
CONSTANTS root, alice, key    \* principals, and an idempotency key
CONSTANTS old, new            \* deployment keys
CONSTANT team                 \* a group
CONSTANT Scenarios            \* those that a run explores

VARIABLE scenario

Configured(visibility) ==
  [mode |-> "Exclusive", visibility |-> visibility, expiration |-> "Optional",
   default |-> NULL, max |-> NULL]
PublicOnly == {Configured("Public")}
RestrictedOnly == {Configured("Restricted")}
EitherVisibility == PublicOnly \cup RestrictedOnly

(* Alice holds the first resource until the end of the first second. *)
AliceLeased == <<[resource |-> 1, owner |-> alice, key |-> key,
                  request |-> [mode |-> "Exclusive", ttl |-> 1], acquired |-> 0,
                  expires |-> 1, renewed |-> NULL, ended |-> NULL, reason |-> NULL]>>

Secret(r) == [resource |-> r, material |-> [mode |-> "Managed", key |-> old],
              version |-> 1, deleted |-> FALSE]

Plain == [configs |-> PublicOnly, grants |-> {}, leases |-> <<>>, secrets |-> <<Secret(1)>>,
          ring |-> [keys |-> {old}, active |-> old]]
Leased == [Plain EXCEPT !.leases = AliceLeased]

(* A secret is read while its lease ends, its resource is edited or Alice  *)
(* loses her grant ...                                                     *)
Granted == [Leased EXCEPT !.configs = EitherVisibility, !.grants = {<<alice, 1>>}]
(* ... or while she joins, leaves or loses a group that has been granted.  *)
Grouped == [Leased EXCEPT !.configs = RestrictedOnly, !.secrets = <<Secret(1), Secret(2)>>]

(* "rotation": two requests about a secret while keys are rotated.         *)
(* "archived": requests that write while the resource is archived.         *)
(* "locks": everybody who locks a lease and its resource.                  *)
(* "late": the same, and time passes only while requests of the lease's    *)
(* owner wait for a row.                                                   *)
ASSUME ScenariosAssumption ==
  Scenarios \subseteq {"ended", "groups", "rotation", "archived", "locks", "late"}

Locking == scenario \in {"locks", "late"}

OwnersRequests == {h \in Readers : sec[h].lease # 0 /\ sec[h].who \notin Admins}
OwnersWait == /\ OwnersRequests # {}
              /\ \A h \in OwnersRequests : \E lock \in ReaderWaitsFor(h) : ~Free(h, lock)

Beginning == CASE scenario = "ended" -> Granted
               [] scenario = "groups" -> Grouped
               [] scenario \in {"rotation", "archived"} -> Plain
               [] Locking -> Leased
AllBeginnings == {Granted, Grouped, Plain, Leased}

OpsHere == CASE scenario = "ended" -> {"access", "delete"}
             [] scenario = "groups" -> {"list", "get", "access"}
             [] scenario = "rotation" -> {"update", "delete", "access"}
             [] scenario = "archived" -> {"create", "update", "delete"}
             [] Locking -> {"access"}
EditsHere == CASE scenario = "ended" -> {"archive", "update", "revoke"}
               [] scenario = "archived" -> {"archive"}
               [] OTHER -> {}

ReadHere ==
  \E h \in Readers :
    \/ /\ scenario = "rotation" \/ Locking \/ \A g \in Readers : sec[g].at = "idle"
       /\ BeginReader(h)
       /\ sec'[h].op \in OpsHere
       /\ sec'[h].resource = 2 => scenario = "groups"
    \/ ReaderStep(h) \/ AbortReader(h)

RotateHere ==
  /\ scenario \in {"rotation", "archived"}
  /\ \/ \E k \in RingKeys : DecideRetire(k)
     \/ \E added \in SUBSET RingKeys, active \in RingKeys \cup {NULL} : Restart(added, active)

EditHere ==
  \E t \in Editors :
    \/ /\ EditsHere # {} /\ adm[t].at = "idle" /\ EditBy(t)
       /\ adm'[t].op \in EditsHere /\ adm'[t].resource = 1
       /\ adm'[t].config \in EitherVisibility \cup {NULL}
    \/ EditStep(t) \/ AbortEdit(t)

ScenarioInit == scenario \in Scenarios /\ Begun(Beginning)

ScenarioNext ==
  /\ \/ /\ Locking /\ (scenario = "late" => OwnersWait)
        /\ Tick /\ UNCHANGED <<groups, secretVars, sec, handlers>>
     \/ (scenario = "ended" \/ Locking) /\ ChangeNext
        /\ UNCHANGED <<groups, secretVars, sec, swp, adm>>
     \/ Locking /\ SweepNext /\ UNCHANGED <<groups, secretVars, sec, chg, adm>>
     \/ EditHere /\ UNCHANGED <<groups, secretVars, sec, chg, swp>>
     \/ scenario = "groups" /\ GroupNext /\ UNCHANGED <<secretVars, sec, handlers>>
     \/ (ReadHere \/ RotateHere) /\ UNCHANGED handlers
  /\ UNCHANGED scenario

ScenarioSpec == ScenarioInit /\ [][ScenarioNext]_<<allVars, scenario>>

Interchangeable == Permutations(Readers)
===============================================================================
