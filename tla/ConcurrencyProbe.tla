--------------------------- MODULE ConcurrencyProbe ---------------------------
(***************************************************************************)
(* run_concurrency_probe of scripts/release_acceptance.py: one client      *)
(* sends one exclusive request per idempotency key, all of them at once,   *)
(* to a set of free resources that nobody else uses, and counts the        *)
(* answers.  Requests are neither lost nor aborted.                        *)
(***************************************************************************)
EXTENDS MCShepherd, FiniteSetsExt

VARIABLE sent  \* the keys of the requests that have been sent

ProbeInit == Init /\ sent = {}

Send(t, p, k, q) == /\ k \notin sent
                    /\ sent' = sent \cup {k}
                    /\ BeginAcquire(t, p, k, q)

ProbeNext ==
  /\ \E t \in Acquirers :
       \/ \E p \in Principals, k \in Keys, q \in Requests : Send(t, p, k, q)
       \/ AcquireStep(t) /\ UNCHANGED sent
  /\ UNCHANGED <<chg, swp, adm>>

ProbeSpec == ProbeInit /\ [][ProbeNext]_<<vars, sent>>

Answered == sent = Keys /\ \A t \in Acquirers : acq[t].at = "idle"

(* The probe's assertion: as many requests succeed as there are resources, *)
(* as long as there are requests for them, and only the others are refused *)
(* (acquire_lease).                                                        *)
EveryResourceUsed ==
  Answered => Len(leases) = Min({Cardinality(Resources), Cardinality(Keys)})
===============================================================================
