----------------------------- MODULE MCMonitoring -----------------------------
(***************************************************************************)
(* An instance of Monitoring for TLC with two scenarios: leases that are   *)
(* granted and end while nobody scrapes, and a scrape while the first of   *)
(* them is renewed and ends.                                               *)
(***************************************************************************)
EXTENDS Monitoring, MCShepherd

VARIABLE scraped

ScenarioInit == MonitoringInit /\ scraped \in BOOLEAN

ScenarioNext ==
  /\ UNCHANGED scraped
  /\ MonitoringNext
  /\ scraped /\ leases # <<>> => UNCHANGED acq
  /\ scrape'.at # "idle" => scraped /\ leases # <<>>

ScenarioSpec == ScenarioInit /\ [][ScenarioNext]_<<monitoringVars, scraped>>
===============================================================================
