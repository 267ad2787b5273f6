-------------------------- MODULE MCIdentityScenarios --------------------------
(***************************************************************************)
(* An instance of Identity that explores several scenarios in one run: the *)
(* first state chooses one, and with it an installation and the requests   *)
(* that may begin.  All other steps are Identity's.                        *)
(***************************************************************************)
EXTENDS MCIdentity

VARIABLE scenario

Installation ==
  CASE scenario = "removals" -> TwoAdmins
    [] scenario = "bootstrap" -> Empty
    [] scenario = "sessions" -> AnnAndBob
    [] scenario = "logins" -> AnnAndBobOnly

Removals == {q \in Requests : q.op \in {"archive", "update"}}
Bootstraps == {q \in Requests : /\ q.op = "update" => q.role = "User"
                                /\ q.target \in Users}
Archivals == {q \in Requests : q.op = "archive"}

(* Two requests that remove administrators; two commands that bootstrap,   *)
(* and what the first administrator does next to them; an archival next to *)
(* logins.                                                                 *)
BeginHere(t) ==
  \/ scenario = "bootstrap" /\ \E q \in Bootstraps : q.op = "bootstrap" /\ Begin(t, q, NULL)
  \/ \E a \in Names, q \in CASE scenario = "removals" -> Removals
                            [] scenario = "bootstrap" -> Bootstraps
                            [] scenario = "sessions" -> {}
                            [] scenario = "logins" -> Archivals :
       /\ q.op # "bootstrap"
       /\ scenario = "logins" => \A u \in Managers : adm[u].at = "idle"
       /\ Administrator(a)
       /\ Begin(t, q, a)

(* A request of any kind, the logins of those who have just been created,  *)
(* or two requests about passwords.                                        *)
ArriveHere(t) ==
  \/ scenario = "sessions" /\ t = s1 /\ ArriveAny(t)
  \/ scenario = "bootstrap" /\ Len(tokens) < 2 /\ t = s1 /\ ArriveAny(t)
       /\ ses'[t].use = "login"
  \/ /\ scenario = "logins" /\ ArriveAny(t)
     /\ ses'[t].use \in {"login", "change password", "reset password"}
     /\ ses'[t].use = "login" =>
          Len(tokens) = 2 /\ \A s \in Sessions : ses[s].at # "idle" => ses[s].use # "login"

ScenarioInit == /\ scenario \in {"removals", "bootstrap", "sessions", "logins"}
                /\ Installed(Installation)

ScenarioNext ==
  /\ \/ /\ \E t \in Managers : BeginHere(t) \/ ManageStep(t) \/ AbortManage(t)
        /\ UNCHANGED <<ses, memberships>>
     \/ /\ \E t \in Sessions : ArriveHere(t) \/ SessionStep(t) \/ AbortSession(t)
        /\ UNCHANGED <<adm, bootstrapped>>
     \/ Expiration /\ UNCHANGED <<adm, bootstrapped, ses, memberships>>
  /\ UNCHANGED scenario

ScenarioSpec == ScenarioInit /\ [][ScenarioNext]_<<idVars, scenario>>
===============================================================================
