------------------------------ MODULE Monitoring ------------------------------
(***************************************************************************)
(* A scrape of /metrics next to the transactions that change leases:       *)
(* collect_database_metrics of observability.py reads in one transaction,  *)
(* which is READ COMMITTED, with two statements: each sees what has been   *)
(* committed when it starts, and both judge expiration by the start of the *)
(* transaction.  It takes no lock.                                         *)
(***************************************************************************)
EXTENDS Shepherd

VARIABLES
  scrape,  \* where the scrape is, and what it has read
  touched  \* the leases that have changed since it began

monitoringVars == <<vars, scrape, touched>>

NoScrape == [at |-> "idle", now |-> 0, active |-> {}, available |-> {}, utilized |-> {},
             backlog |-> {}, lag |-> 0]

MonitoringInit == Init /\ scrape = NoScrape /\ touched = {}

(* At any moment.  One scrape is enough, since none leaves anything behind. *)
BeginScrape ==
  /\ scrape.at = "idle"
  /\ scrape' = [NoScrape EXCEPT !.at = "sharing", !.now = clock]
  /\ touched' = {}

(* Active leases, available resources, and those of them that are in use, *)
(* for each sharing mode.                                                  *)
ReadSharing ==
  LET available == {r \in Resources : /\ ~resources[r].archived
                                      /\ resources[r].status = "Active"}
  IN  /\ scrape.at = "sharing"
      /\ scrape' = [scrape EXCEPT
           !.at = "backlog",
           !.active = UNION {ActiveLeases(r, scrape.now) : r \in Resources},
           !.available = available,
           !.utilized = {r \in available : ActiveLeases(r, scrape.now) # {}}]
      /\ UNCHANGED touched

(* Mutant: the backlog is judged by clock_timestamp(). *)
ReadBacklogNow ==
  /\ scrape.at = "backlog"
  /\ scrape' = [scrape EXCEPT !.at = "done", !.backlog = {i \in DOMAIN leases : Due(i, clock)}]
  /\ UNCHANGED touched

(* Overdue leases, and how long the oldest has been. *)
ReadBacklog ==
  LET backlog == {i \in DOMAIN leases : Due(i, scrape.now)}
  IN  /\ scrape.at = "backlog"
      /\ scrape' = [scrape EXCEPT
           !.at = "done", !.backlog = backlog,
           !.lag = IF backlog = {} THEN 0
                   ELSE CHOOSE d \in 0..scrape.now :
                          /\ \A i \in backlog : leases[i].expires >= scrape.now - d
                          /\ \E i \in backlog : leases[i].expires = scrape.now - d]
      /\ UNCHANGED touched

ScrapeStep == BeginScrape \/ ReadSharing \/ ReadBacklog

Touch == touched' = touched \cup {i \in DOMAIN leases' :
                                  i \notin DOMAIN leases \/ leases'[i] # leases[i]}

MonitoringNext ==
  \/ ScrapeStep /\ UNCHANGED vars
  \/ Next /\ UNCHANGED scrape /\ IF scrape.at = "idle" THEN UNCHANGED touched ELSE Touch

MonitoringSpec == MonitoringInit /\ [][MonitoringNext]_monitoringVars

-------------------------------------------------------------------------------

(* A lease that nobody touches during the scrape is counted once: in the   *)
(* active leases, in the backlog, or not at all if it has ended, though it *)
(* may expire between the two statements (collect_database_metrics).       *)
UntouchedCountedOnce ==
  scrape.at = "done" =>
    \A i \in DOMAIN leases \ touched :
      /\ leases[i].ended = NULL <=> i \in scrape.active \cup scrape.backlog
      /\ i \notin scrape.active \cap scrape.backlog
===============================================================================
