------------------------------- MODULE RateLimit -------------------------------
(***************************************************************************)
(* The fixed-window limiter of rate_limits.py, which logins and secret     *)
(* accesses pass.  One transaction first deletes windows that have run     *)
(* out, of any subject, and then counts its own attempt with an INSERT ... *)
(* ON CONFLICT DO UPDATE; the attempt is refused after the commit.         *)
(***************************************************************************)
EXTENDS Values, Integers, Sequences, FiniteSets

CONSTANTS
  Subjects,      \* pairs of a scope and a subject_hash
  Attempts,      \* attempts whose transactions can overlap
  Allowed,       \* the attempts allowed in a window
  Window,        \* the length of a window, in seconds
  CleanupLimit,  \* at most so many windows are deleted at once: LIMIT 100
  MaxDelay,      \* a transaction lasts so many seconds at most
  MaxClock,      \* bound: the last second
  MaxHistory     \* bound: the attempts ever made

ASSUME LimitsAssumption == /\ Allowed \in Nat \ {0} /\ Window \in Nat \ {0}
                           /\ CleanupLimit \in Nat \ {0}
                           /\ MaxDelay \in Nat /\ MaxClock \in Nat /\ MaxHistory \in Nat

VARIABLES
  clock,     \* the clock of PostgreSQL
  windows,   \* table rate_limit_windows; NULL: no row
  holder,    \* per subject: the transaction that has its row locked
  lim,       \* per attempt: the statement it is at and what it has read
  history    \* per subject: the attempts that have been counted, in order

limiterVars == <<clock, windows, holder, lim, history>>

WindowRow == [started : Nat, expires : Nat, attempts : Nat \ {0}]
Counted == [number : Nat \ {0}, expires : Nat, at : Nat]

ASSUME RateNullAssumption == NULL \notin Subjects \cup Attempts \cup WindowRow

IdleAttempt == [at |-> "idle", subject |-> NULL, now |-> 0, todo |-> {}, dropped |-> {},
                row |-> NULL]

LimiterInit ==
  /\ clock = 0
  /\ windows = [s \in Subjects |-> NULL]
  /\ holder = [s \in Subjects |-> NULL]
  /\ lim = [t \in Attempts |-> IdleAttempt]
  /\ history = [s \in Subjects |-> <<>>]

(* Nothing in the code bounds a transaction: MaxDelay is an assumption.    *)
Tick == /\ clock < MaxClock
        /\ \A t \in Attempts : lim[t].at # "idle" => clock < lim[t].now + MaxDelay
        /\ clock' = clock + 1
        /\ UNCHANGED <<windows, holder, lim, history>>

CountedAttempts == UNION {{s} \X DOMAIN history[s] : s \in Subjects}

Busy == {t \in Attempts : lim[t].at # "idle"}

(* CURRENT_TIMESTAMP is the start of the transaction. *)
BeginAttempt(t, s) ==
  /\ lim[t].at = "idle"
  /\ Cardinality(CountedAttempts) + Cardinality(Busy) < MaxHistory
  /\ lim' = [lim EXCEPT ![t] = [IdleAttempt EXCEPT !.at = "select", !.subject = s,
                                                   !.now = clock]]
  /\ UNCHANGED <<clock, windows, holder, history>>

(* A row that has been written since is another row (its ctid differs).    *)
Version(s) == Len(history[s])

RunOut(t) == {s \in Subjects : windows[s] # NULL /\ windows[s].expires <= lim[t].now}

(* The subquery: the windows that ran out first, at most CleanupLimit. *)
SelectExpired(t) ==
  /\ lim[t].at = "select"
  /\ \E S \in SUBSET RunOut(t) :
       /\ Cardinality(S) <= CleanupLimit
       /\ S # RunOut(t) => Cardinality(S) = CleanupLimit
       /\ \A s \in S, u \in RunOut(t) \ S : windows[s].expires <= windows[u].expires
       /\ lim' = [lim EXCEPT ![t] = [lim[t] EXCEPT
                    !.at = "delete", !.todo = {<<s, Version(s)>> : s \in S}]]
  /\ UNCHANGED <<clock, windows, holder, history>>

(* The row is waited for; it is left alone if it is no longer the one that *)
(* was found.  DELETE promises no order.                                   *)
Unlocked(t, s) == holder[s] \in {NULL, t}

(* Mutant: the DELETE finds the subject's row again, whatever it is now. *)
StillThereByKey(s, version) == windows[s] # NULL

StillThere(s, version) == windows[s] # NULL /\ Version(s) = version

DeleteWindow(t, s) ==
  /\ lim[t].at = "delete"
  /\ Unlocked(t, s)
  /\ \E version \in {x[2] : x \in {y \in lim[t].todo : y[1] = s}} :
       LET there == StillThere(s, version)
       IN  /\ lim' = [lim EXCEPT ![t] = [lim[t] EXCEPT
                        !.todo = @ \ {<<s, version>>},
                        !.dropped = IF there THEN @ \cup {s} ELSE @]]
           /\ holder' = IF there THEN [holder EXCEPT ![s] = t] ELSE holder
  /\ UNCHANGED <<clock, windows, history>>

(* Mutant: on a conflict the row takes EXCLUDED.attempts, which is 1. *)
CountedRowExcluded(t) ==
  LET s == lim[t].subject
      now == lim[t].now
  IN  IF windows[s] = NULL \/ s \in lim[t].dropped \/ windows[s].expires <= now
      THEN [started |-> now, expires |-> now + Window, attempts |-> 1]
      ELSE [windows[s] EXCEPT !.attempts = 1]

(* Mutant: a new window has counted no attempt. *)
CountedRowFromZero(t) ==
  LET s == lim[t].subject
      now == lim[t].now
  IN  IF windows[s] = NULL \/ s \in lim[t].dropped \/ windows[s].expires <= now
      THEN [started |-> now, expires |-> now + Window, attempts |-> 0]
      ELSE [windows[s] EXCEPT !.attempts = @ + 1]

(* ON CONFLICT waits for whoever writes the subject's row, and then sees   *)
(* the row as it is, not the statement's snapshot.                         *)
CountedRow(t) ==
  LET s == lim[t].subject
      now == lim[t].now
  IN  IF windows[s] = NULL \/ s \in lim[t].dropped \/ windows[s].expires <= now
      THEN [started |-> now, expires |-> now + Window, attempts |-> 1]
      ELSE [windows[s] EXCEPT !.attempts = @ + 1]

(* Mutant: a plain SELECT and a write of what it found. *)
CountUnlocked(t) ==
  /\ lim[t].at = "delete" /\ lim[t].todo = {}
  /\ lim' = [lim EXCEPT ![t] = [lim[t] EXCEPT !.at = "commit", !.row = CountedRow(t)]]
  /\ UNCHANGED <<clock, windows, holder, history>>

CountAttempt(t) ==
  /\ lim[t].at = "delete" /\ lim[t].todo = {}
  /\ Unlocked(t, lim[t].subject)
  /\ holder' = [holder EXCEPT ![lim[t].subject] = t]
  /\ lim' = [lim EXCEPT ![t] = [lim[t] EXCEPT !.at = "commit", !.row = CountedRow(t)]]
  /\ UNCHANGED <<clock, windows, history>>

EndAttempt(t) ==
  /\ lim' = [lim EXCEPT ![t] = IdleAttempt]
  /\ holder' = [s \in Subjects |-> IF holder[s] = t THEN NULL ELSE holder[s]]
  /\ UNCHANGED clock

(* A refused attempt is counted too: the exception comes after the commit. *)
CommitAttempt(t) ==
  LET s == lim[t].subject
      row == lim[t].row
  IN  /\ lim[t].at = "commit"
      /\ windows' = [u \in Subjects |-> IF u = s THEN row
                                        ELSE IF u \in lim[t].dropped THEN NULL
                                        ELSE windows[u]]
      /\ history' = [history EXCEPT ![s] =
                       Append(@, [number |-> row.attempts, expires |-> row.expires,
                                  at |-> clock])]
      /\ EndAttempt(t)

(* A lost connection, or a deadlock that PostgreSQL ends. *)
AbortAttempt(t) == /\ lim[t].at # "idle"
                   /\ EndAttempt(t)
                   /\ UNCHANGED <<windows, history>>

LimiterNext ==
  \/ Tick
  \/ \E t \in Attempts :
       \/ \E s \in Subjects : BeginAttempt(t, s) \/ DeleteWindow(t, s)
       \/ SelectExpired(t) \/ CountAttempt(t) \/ CommitAttempt(t) \/ AbortAttempt(t)

LimiterSpec == LimiterInit /\ [][LimiterNext]_limiterVars

-------------------------------------------------------------------------------

LimiterLocals ==
  [at : {"idle", "select", "delete", "commit"}, subject : Subjects \cup {NULL}, now : Nat,
   todo : SUBSET (Subjects \X Nat), dropped : SUBSET Subjects, row : WindowRow \cup {NULL}]

(* Every variable has its type. *)
LimiterTypeOK == /\ clock \in Nat
          /\ windows \in [Subjects -> WindowRow \cup {NULL}]
          /\ holder \in [Subjects -> Attempts \cup {NULL}]
          /\ lim \in [Attempts -> LimiterLocals]
          /\ history \in [Subjects -> Seq(Counted)]

(* No two attempts of a window count as one, and none is lost: an attempt  *)
(* is the next of its window, or the first of a window that begins when    *)
(* the one before has run out.  So a window admits Allowed attempts and no *)
(* more, and refuses none before it has (enforce_rate_limit: the upsert    *)
(* against overlapping attempts and cleanups).                             *)
EveryAttemptCounted ==
  \A s \in Subjects : \A j \in 2..Len(history[s]) :
    LET last == history[s][j - 1]
        next == history[s][j]
    IN  \/ next.number = last.number + 1 /\ next.expires = last.expires
        \/ next.number = 1 /\ last.expires <= next.at

AdmittedIn(s, from, length) ==
  {j \in DOMAIN history[s] : /\ history[s][j].number <= Allowed
                             /\ from <= history[s][j].at /\ history[s][j].at < from + length}

(* Around the boundary of two windows more than the allowed attempts are   *)
(* admitted, but fewer than twice as many within a window's length less    *)
(* the delay of a transaction: a window runs from the start of the         *)
(* transaction that opens it, when attempts of the window before may yet   *)
(* commit.  A second more admits twice as many (enforce_rate_limit).       *)
AtMostTwoWindows ==
  \A s \in Subjects, from \in 0..clock :
    Cardinality(AdmittedIn(s, from, Window - MaxDelay)) < 2 * Allowed

(* A live window is never deleted: the row that counts a subject's latest  *)
(* attempts is there until they have run out (the cleanup's ctid against a *)
(* row that another attempt has just reset).                               *)
LiveWindowStays ==
  \A s \in Subjects :
    LET n == Len(history[s])
    IN  n > 0 /\ history[s][n].expires > clock =>
          /\ windows[s] # NULL
          /\ windows[s].attempts = history[s][n].number
===============================================================================
