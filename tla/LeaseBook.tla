------------------------------ MODULE LeaseBook ------------------------------
(***************************************************************************)
(* What Shepherd promises the holders of leases: a book of grants in which *)
(* every change is one step.  There are no transactions, locks, snapshots  *)
(* or retries here; Shepherd is shown to implement this specification.     *)
(***************************************************************************)
EXTENDS Integers, Sequences

CONSTANTS
  Resources,  \* what can be leased
  NULL        \* no expiration, or not ended; no time is NULL

VARIABLES
  now,     \* the time
  book,    \* the grants, in the order they were made
  retired  \* the resources that have been archived

bookVars == <<now, book, retired>>

Entry == [resource : Resources, exclusive : BOOLEAN, from : Nat,
          until : Nat \cup {NULL}, ended : Nat \cup {NULL}]

(* The holder of entry e may use its resource at time t. *)
Live(e, t) == e.ended = NULL /\ (e.until # NULL => e.until > t)

LiveOn(r) == {i \in DOMAIN book : book[i].resource = r /\ Live(book[i], now)}

BookInit == now = 0 /\ book = <<>> /\ retired = {}

TimePasses == now' = now + 1 /\ UNCHANGED <<book, retired>>

(* A grant: exclusive only if the resource is in nobody's use. *)
Grant ==
  LET e == book'[Len(book) + 1]
  IN  /\ Len(book') = Len(book) + 1
      /\ book' = Append(book, e)
      /\ e \in Entry
      /\ e.resource \notin retired
      /\ e.exclusive => LiveOn(e.resource) = {}
      /\ e.ended = NULL
      /\ e.from <= now
      /\ e.until # NULL => e.until > e.from
      /\ UNCHANGED <<now, retired>>

(* An extension: not after somebody else got the resource exclusively. *)
Extend(i) ==
  /\ book[i].ended = NULL
  /\ book[i].resource \notin retired
  /\ \A j \in DOMAIN book : j > i /\ book[j].resource = book[i].resource
                              => ~book[j].exclusive
  /\ DOMAIN book' = DOMAIN book
  /\ book'[i].until \in Nat \cup {NULL}
  /\ book' = [book EXCEPT ![i].until = book'[i].until]
  /\ UNCHANGED <<now, retired>>

(* The end of one or more grants, each at a time within its life. *)
Close(S) ==
  /\ \A i \in S : book[i].ended = NULL
  /\ DOMAIN book' = DOMAIN book
  /\ book' = [i \in DOMAIN book |->
                IF i \in S THEN [book[i] EXCEPT !.ended = book'[i].ended] ELSE book[i]]
  /\ \A i \in S : book'[i].ended \in book[i].from .. now
  /\ UNCHANGED <<now, retired>>

(* A resource is retired when nobody uses it. *)
Retire(r) ==
  /\ LiveOn(r) = {}
  /\ retired' = retired \cup {r}
  /\ UNCHANGED <<now, book>>

BookNext ==
  \/ TimePasses
  \/ Grant
  \/ \E i \in DOMAIN book : Extend(i)
  \/ \E S \in SUBSET DOMAIN book : Close(S)
  \/ \E r \in Resources : Retire(r)

BookSpec == BookInit /\ [][BookNext]_bookVars

-------------------------------------------------------------------------------

(* What the book is for: while a grant is live, no exclusive grant of the  *)
(* same resource has been made after it, and nobody uses a retired one.    *)
ExclusiveUse ==
  /\ \A i, j \in DOMAIN book :
       i < j /\ book[i].resource = book[j].resource /\ book[j].exclusive
         => ~Live(book[i], now)
  /\ \A r \in retired : LiveOn(r) = {}
===============================================================================
