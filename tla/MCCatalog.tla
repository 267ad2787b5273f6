------------------------------- MODULE MCCatalog -------------------------------
(***************************************************************************)
(* An instance of Shepherd for TLC in which administrators edit resources  *)
(* while these are leased.  One run explores several scenarios: the first  *)
(* state chooses one, and the requests that begin afterwards are those     *)
(* that it permits.  All else is Shepherd's.                               *)
(***************************************************************************)
EXTENDS MCShepherd

VARIABLE scenario

(* The policy of a resource changes under an acquisition and a renewal. *)
PolicyScenario ==
  [people |-> {root}, edited |-> {1}, first |-> <<Flexible("Exclusive"), Flexible("Shared")>>,
   handlers |-> {a1, c1, e1}, requests |-> ExclusiveBodies,
   configs |-> ExclusiveConfigs, edits |-> {"update", "archive"}, versions |-> 3, last |-> 2]

(* Mode, visibility and grants change under two acquisitions. *)
SharingScenario ==
  [people |-> {alice}, edited |-> {1, 2}, first |-> <<Flexible("Shared"), Flexible("Shared")>>,
   handlers |-> {a1, a2, e1}, requests |-> EitherBody,
   configs |-> EitherMode, edits |-> {"update", "grant"}, versions |-> 2, last |-> 0]

(* Two administrators edit one resource in every way. *)
EditScenario ==
  [people |-> {root}, edited |-> {1}, first |-> <<Flexible("Exclusive"), Flexible("Shared")>>,
   handlers |-> {e1, e2}, requests |-> {},
   configs |-> EditedConfigs, edits |-> Edits, versions |-> 4, last |-> 0]

Here(kind) == kind \cap scenario.handlers

(* The requests that a scenario permits; once begun they take every step. *)
BeginHere(t) ==
  \/ \E p \in scenario.people, k \in Keys, q \in scenario.requests :
       t \in Acquirers /\ BeginAcquire(t, p, k, q)
  \/ \E p \in scenario.people, i \in DOMAIN leases : t \in Changers /\
       \/ \E ttl \in RenewalTtls : BeginChange(t, "Renew", p, i, ttl)
       \/ \E op \in {"Released", "Revoked"} : BeginChange(t, op, p, i, NULL)
  \/ \E a \in Admins, r \in scenario.edited : t \in Editors /\
       \/ /\ resources[r].version < scenario.versions
          /\ \/ \E c \in scenario.configs \cup {NULL} : BeginEdit(t, "update", a, r, c, NULL)
             \/ \E op \in scenario.edits \cap ({"archive"} \cup Transitions) :
                  BeginEdit(t, op, a, r, NULL, NULL)
       \/ \E op \in scenario.edits \cap GrantEdits, p \in scenario.people :
            BeginEdit(t, op, a, r, NULL, p)

ScenarioNext ==
  \/ clock < scenario.last /\ Tick /\ UNCHANGED <<acq, chg, swp, adm>>
  \/ \E t \in Here(Acquirers) : /\ BeginHere(t) \/ AcquireStep(t) \/ AbortAcquire(t)
                                /\ UNCHANGED <<chg, swp, adm>>
  \/ \E t \in Here(Changers) : /\ BeginHere(t) \/ ChangeStep(t) \/ AbortChange(t)
                               /\ UNCHANGED <<acq, swp, adm>>
  \/ \E t \in Here(Editors) : /\ BeginHere(t) \/ EditStep(t) \/ AbortEdit(t)
                              /\ UNCHANGED <<acq, chg, swp>>

Twins == Permutations(Acquirers)

AllRequests == ExclusiveBodies \cup EitherBody
AllConfigs == EditedConfigs \cup EitherMode
FirstConfigs == {Flexible("Exclusive"), Flexible("Shared")}

ScenarioInit ==
  /\ Init
  /\ scenario \in {PolicyScenario, SharingScenario, EditScenario}
  /\ resources = [r \in Resources |-> Created(scenario.first[r])]

ScenarioSpec == ScenarioInit /\ [][ScenarioNext /\ UNCHANGED scenario]_<<vars, scenario>>
===============================================================================
