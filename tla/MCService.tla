------------------------------- MODULE MCService -------------------------------
(***************************************************************************)
(* Instances for TLC of three parts of the service that share no state:    *)
(* the rate limits, the worker's telemetry and the request pipeline.  One  *)
(* of them runs, chosen in the first state, and the others rest.           *)
(***************************************************************************)
EXTENDS RateLimit, WorkerTelemetry, RequestPipeline, TLC

VARIABLE running

serviceVars == <<limiterVars, telemetryVars, pipelineVars, running>>

Parts == {"limiter", "telemetry", "pipeline"}

ServiceInit == /\ running \in Parts
               /\ LimiterInit /\ TelemetryInit /\ PipelineInit

ServiceNext ==
  /\ \/ running = "limiter" /\ LimiterNext /\ UNCHANGED <<telemetryVars, pipelineVars>>
     \/ running = "telemetry" /\ TelemetryNext /\ UNCHANGED <<limiterVars, pipelineVars>>
     \/ running = "pipeline" /\ PipelineNext /\ UNCHANGED <<limiterVars, telemetryVars>>
  /\ UNCHANGED running

ServiceSpec == ServiceInit /\ [][ServiceNext]_serviceVars

(* Every variable of the three parts has its type: the rows and locks of   *)
(* the limiter, the workers and their file, the requests, their contexts,  *)
(* counts and events.                                                      *)
ServiceTypeOK == running \in Parts /\ LimiterTypeOK /\ TelemetryTypeOK /\ PipelineTypeOK

Interchangeable == Permutations(Attempts) \cup Permutations(Subjects)
===============================================================================
