---------------------------- MODULE LeaseBookProofs ----------------------------
(***************************************************************************)
(* What the abstract book of leases guarantees: no step of the book gives  *)
(* two holders the use of a resource that one of them has exclusively.     *)
(***************************************************************************)
EXTENDS LeaseBook, TLAPS

BookTyped == /\ now \in Nat
             /\ book \in Seq(Entry)

BookInv == BookTyped /\ ExclusiveUse

(* Time only takes liveness away. *)
LEMMA LiveEarlier ==
  ASSUME NULL \notin Nat, NEW e \in Entry, NEW t \in Nat, Live(e, t + 1)
  PROVE  Live(e, t)
BY DEF Live, Entry

(* An ended grant is not live. *)
LEMMA EndedIsNotLive ==
  ASSUME NULL \notin Nat, NEW e, NEW t, e.ended \in Nat
  PROVE  ~Live(e, t)
BY DEF Live

LEMMA TimeKeeps ==
  ASSUME NULL \notin Nat, BookInv, TimePasses
  PROVE  BookInv'
<1>1. now \in Nat /\ book \in Seq(Entry) /\ now' = now + 1 /\ UNCHANGED <<book, retired>>
  BY DEF BookInv, BookTyped, TimePasses
<1>2. \A i \in DOMAIN book : Live(book[i], now') => Live(book[i], now)
  BY <1>1, LiveEarlier
<1> QED
  BY <1>1, <1>2 DEF BookInv, BookTyped, ExclusiveUse, LiveOn

LEMMA GrantKeeps ==
  ASSUME BookInv, Grant
  PROVE  BookInv'
<1> DEFINE n == Len(book) + 1
           e == book'[n]
<1>1. /\ now \in Nat /\ book \in Seq(Entry) /\ e \in Entry /\ book' = Append(book, e)
      /\ UNCHANGED <<now, retired>> /\ e.resource \notin retired
      /\ e.exclusive => LiveOn(e.resource) = {}
  BY DEF BookInv, BookTyped, Grant
<1>2. /\ DOMAIN book' = DOMAIN book \cup {n} /\ n \notin DOMAIN book
      /\ \A i \in DOMAIN book : book'[i] = book[i] /\ i < n
  BY <1>1
<1>3. book' \in Seq(Entry)
  BY <1>1
<1>4. ASSUME NEW i \in DOMAIN book', NEW j \in DOMAIN book', i < j,
             book'[i].resource = book'[j].resource, book'[j].exclusive
      PROVE  ~Live(book'[i], now')
  <2>1. i \in DOMAIN book
    BY <1>1, <1>2, <1>4
  <2>2. CASE j = n
    BY <1>1, <1>2, <1>4, <2>1, <2>2 DEF LiveOn
  <2>3. CASE j # n
    BY <1>1, <1>2, <1>4, <2>1, <2>3 DEF BookInv, ExclusiveUse
  <2> QED
    BY <2>2, <2>3
<1>5. \A r \in retired' : LiveOn(r)' = {}
  BY <1>1, <1>2 DEF BookInv, ExclusiveUse, LiveOn
<1> QED
  BY <1>1, <1>3, <1>4, <1>5 DEF BookInv, BookTyped, ExclusiveUse

LEMMA ExtendKeeps ==
  ASSUME BookInv, NEW i \in DOMAIN book, Extend(i)
  PROVE  BookInv'
<1> DEFINE u == book'[i].until
<1>1. /\ now \in Nat /\ book \in Seq(Entry) /\ book[i] \in Entry /\ u \in Nat \cup {NULL}
      /\ book' = [book EXCEPT ![i].until = u] /\ UNCHANGED <<now, retired>>
      /\ book[i].resource \notin retired
      /\ \A j \in DOMAIN book : j > i /\ book[j].resource = book[i].resource => ~book[j].exclusive
  BY DEF BookInv, BookTyped, Extend
<1> HIDE DEF u
<1>2. [book[i] EXCEPT !.until = u] \in Entry
  BY <1>1, Zenon DEF Entry
<1>3. book' = [book EXCEPT ![i] = [book[i] EXCEPT !.until = u]]
  BY <1>1, Zenon
<1>4. /\ book' \in Seq(Entry) /\ DOMAIN book' = DOMAIN book
      /\ \A j \in DOMAIN book \ {i} : book'[j] = book[j]
      /\ book'[i].resource = book[i].resource /\ book'[i].exclusive = book[i].exclusive
  BY <1>1, <1>2, <1>3 DEF Entry
<1>5. ASSUME NEW j \in DOMAIN book, NEW k \in DOMAIN book, j < k,
             book'[j].resource = book'[k].resource, book'[k].exclusive
      PROVE  ~Live(book'[j], now')
  <2>1. j # i
    BY <1>1, <1>4, <1>5
  <2> QED
    BY <1>1, <1>4, <1>5, <2>1 DEF BookInv, ExclusiveUse
<1>6. \A r \in retired' : LiveOn(r)' = {}
  BY <1>1, <1>4 DEF BookInv, ExclusiveUse, LiveOn
<1> QED
  BY <1>1, <1>4, <1>5, <1>6 DEF BookInv, BookTyped, ExclusiveUse

LEMMA CloseKeeps ==
  ASSUME NULL \notin Nat, BookInv, NEW S \in SUBSET DOMAIN book, Close(S), book' \in Seq(Entry)
  PROVE  BookInv'
<1>1. /\ DOMAIN book' = DOMAIN book /\ UNCHANGED <<now, retired>> /\ now \in Nat
      /\ book \in Seq(Entry)
  BY DEF BookInv, BookTyped, Close
<1>2. ASSUME NEW i \in DOMAIN book
      PROVE  /\ book'[i].resource = book[i].resource
             /\ book'[i].exclusive = book[i].exclusive
             /\ Live(book'[i], now) => Live(book[i], now)
  <2>1. CASE i \in S
    <3>1. /\ book'[i] = [book[i] EXCEPT !.ended = book'[i].ended] /\ book[i] \in Entry
          /\ book'[i].ended \in book[i].from .. now
      BY <1>1, <2>1 DEF Close
    <3>2. book'[i].ended \in Nat
      BY <1>1, <3>1 DEF Entry
    <3>3. ~Live(book'[i], now)
      BY <3>2, EndedIsNotLive
    <3> QED
      BY <3>1, <3>3 DEF Entry
  <2>2. CASE i \notin S
    BY <2>2 DEF Close
  <2> QED
    BY <2>1, <2>2
<1> QED
  BY <1>1, <1>2 DEF BookInv, BookTyped, ExclusiveUse, LiveOn

(* Closing grants keeps the type of the book. *)
LEMMA CloseTyped ==
  ASSUME BookTyped, NEW S \in SUBSET DOMAIN book, Close(S)
  PROVE  book' \in Seq(Entry)
<1> SUFFICES ASSUME NEW i \in DOMAIN book PROVE book'[i] \in Entry
  <2> DEFINE f == [i \in DOMAIN book |->
                     IF i \in S THEN [book[i] EXCEPT !.ended = book'[i].ended] ELSE book[i]]
  <2>1. book' = f /\ DOMAIN book = 1..Len(book) /\ Len(book) \in Nat
    BY DEF Close, BookTyped
  <2>2. book' = [i \in 1..Len(book) |-> f[i]] /\ \A i \in 1..Len(book) : book'[i] = f[i]
    BY <2>1
  <2> HIDE DEF f
  <2> QED
    BY <2>1, <2>2
<1> DEFINE e == book'[i].ended
<1>1. book[i] \in Entry /\ now \in Nat
  BY DEF BookTyped
<1>2. CASE i \in S
  <2>1. book'[i] = [book[i] EXCEPT !.ended = e] /\ e \in book[i].from .. now
    BY <1>2 DEF Close
  <2>2. e \in Nat \cup {NULL}
    BY <1>1, <2>1 DEF Entry
  <2> HIDE DEF e
  <2> QED
    BY <1>1, <2>1, <2>2, Zenon DEF Entry
<1>3. CASE i \notin S
  BY <1>1, <1>3 DEF Close
<1> QED
  BY <1>2, <1>3

(* The book keeps its promise: exclusive grants stand alone, and retired   *)
(* resources are in nobody's use.                                          *)
THEOREM BookIsExclusive ==
  ASSUME NULL \notin Nat
  PROVE  BookSpec => []ExclusiveUse
<1>1. BookInit => BookInv
  BY DEF BookInit, BookInv, BookTyped, ExclusiveUse
<1>2. BookInv /\ [BookNext]_bookVars => BookInv'
  <2> SUFFICES ASSUME BookInv, [BookNext]_bookVars PROVE BookInv'
    OBVIOUS
  <2>1. CASE TimePasses
    BY <2>1, TimeKeeps
  <2>2. CASE Grant
    BY <2>2, GrantKeeps
  <2>3. CASE \E i \in DOMAIN book : Extend(i)
    BY <2>3, ExtendKeeps
  <2>4. ASSUME NEW S \in SUBSET DOMAIN book, Close(S) PROVE BookInv'
    <3>1. book' \in Seq(Entry)
      BY <2>4, CloseTyped DEF BookInv
    <3> QED
      BY <2>4, <3>1, CloseKeeps
  <2>5. CASE \E r \in Resources : Retire(r)
    BY <2>5 DEF Retire, BookInv, BookTyped, ExclusiveUse, LiveOn
  <2>6. CASE UNCHANGED bookVars
    BY <2>6 DEF bookVars, BookInv, BookTyped, ExclusiveUse, LiveOn
  <2> QED
    BY <2>1, <2>2, <2>3, <2>4, <2>5, <2>6 DEF BookNext
<1>3. BookInv => ExclusiveUse
  BY DEF BookInv
<1> QED
  BY <1>1, <1>2, <1>3, PTL DEF BookSpec
===============================================================================
