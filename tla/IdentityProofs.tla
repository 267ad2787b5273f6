----------------------------- MODULE IdentityProofs -----------------------------
(***************************************************************************)
(* Theorems about Identity, for any number of users, services, managers    *)
(* and sessions.                                                           *)
(*                                                                         *)
(* The argument is one of rely and guarantee: a step of one transaction    *)
(* changes only what its locks let it change (Guarantee), and what the     *)
(* others have seen under their locks is therefore left alone.             *)
(***************************************************************************)
EXTENDS Identity, SequenceTheorems, TLAPS

-------------------------------------------------------------------------------
(* The inductive invariant *)

HoldsAdministration(t) == <<Administration, "FOR UPDATE">> \in held[t]

(* A request that takes an administrator away, if its target is one. *)
Removal(m) == /\ m.target \in Users
              /\ m.op = "archive" \/ (m.op = "update" /\ m.role = "User")

Somebody == \E p \in Names : Exists(p)

(* What a manager's position says of its request. *)
Asked(t) ==
  LET m == adm[t]
  IN  /\ m.at = "idle" => m.todo = {} /\ m.found = {}
      /\ m.at # "idle" => m.target \in Names
      /\ m.at # "idle" /\ m.op # "bootstrap" => m.actor \in Names /\ Somebody
      /\ m.at # "idle" /\ m.op = "bootstrap" => m.target \in Users /\ m.role = "Admin"
      /\ m.at # "idle" /\ m.op = "create" => m.role # NULL
      /\ m.at = "advisory" => m.op = "bootstrap" \/ Removal(m)
      /\ m.at = "target" => m.op = "archive"
      /\ m.at \in {"scan", "lock"} => Removal(m)
      /\ m.at = "row" => m.op = "update"
      /\ m.at = "check" => m.op = "bootstrap"
      /\ m.todo \cup m.found # {} => m.at \in {"lock", "row", "write"} /\ Removal(m)

(* Removals and bootstraps hold the lock on the administration. *)
Serialised(t) ==
  LET m == adm[t]
  IN  m.at \notin {"idle", "advisory"} /\ (Removal(m) \/ m.op = "bootstrap")
        => HoldsAdministration(t)

(* What a manager has seen, and stays so. *)
Seen(t) ==
  LET m == adm[t]
  IN  /\ \A u \in m.todo \cup m.found : ActiveAdministrator(u)
      /\ \A u \in m.found : <<u, "FOR UPDATE">> \in held[t]
      /\ m.at = "lock" => m.todo \cup m.found # {}
      /\ m.at \in {"row", "write"} /\ m.op = "update" /\ Removal(m) =>
           m.found \ {m.target} # {}
      /\ m.at = "write" /\ m.op = "archive" /\ Removal(m) =>
           \/ m.found \ {m.target} # {}
           \/ principals[m.target].role # "Admin"
      /\ m.at \in {"scan", "lock", "write"} /\ m.op = "archive" =>
           Exists(m.target) /\ <<m.target, "FOR UPDATE">> \in held[t]
      /\ m.at = "write" /\ m.op = "update" => <<m.target, "UPDATE">> \in held[t]
      /\ m.at = "write" /\ m.op = "bootstrap" => ~Somebody

ManagerInv(t) == Asked(t) /\ Serialised(t) /\ Seen(t)

(* What a session's position says of its request, and what it has seen. *)
ForService == {"create service token", "revoke service token"}
OfUser == {"change password", "reset password", "add member", "remove member", "login"}

Requested(t) ==
  LET m == ses[t]
  IN  m.at # "idle" =>
        /\ m.target \in Names /\ m.actor \in Names
        /\ m.use \in SelfService \cup {"login"} => m.actor = m.target
        /\ m.use \in ForService => m.target \in Services
        /\ m.use \in OfUser => m.target \in Users
        /\ m.use \in {"revoke token", "revoke service token"} => m.object \in DOMAIN tokens
        /\ m.use \in {"create group", "archive group", "add member", "remove member"} =>
             m.object \in Groups
        /\ m.at \in {"lock", "verify"} => m.use = "login"

Presented(t) ==
  LET m == ses[t]
  IN  /\ m.at # "idle" /\ m.target \in Users => m.current <= passwords[m.target]
      /\ m.at \in {"lock", "verify"} => m.current <= m.hash
      /\ m.at = "verify" => /\ <<m.target, "FOR UPDATE">> \in held[t]
                            /\ ~principals[m.target].archived

SessionInv(t) == Requested(t) /\ Presented(t)

Founded == /\ \A u \in Users : passwords[u] > 0 => Exists(u)
           /\ \A u \in bootstrapped : Exists(u)

IdentityInv ==
  /\ TypeOK
  /\ LocksCompatible
  /\ NeverOrphaned
  /\ BootstrapOnce
  /\ Founded
  /\ \A t \in Managers : ManagerInv(t)
  /\ \A t \in Sessions : SessionInv(t)

-------------------------------------------------------------------------------
(* What a step may change, and what others may rely on *)

Guarantee(t) ==
  /\ \A u \in Transactions \ {t} : held'[u] = held[u]
  /\ \A u \in Users : passwords'[u] \in Nat /\ passwords'[u] >= passwords[u]
  /\ DOMAIN tokens \subseteq DOMAIN tokens'
  /\ \A p \in Names : Exists(p) => Exists(p)'
  /\ \A p \in Names : ~principals[p].archived /\ principals'[p].archived
                        => <<p, "FOR UPDATE">> \in held[t]
  /\ \A p \in Names : Exists(p) /\ principals'[p].role # principals[p].role
                        => <<p, "UPDATE">> \in held[t]
  /\ \A u \in Users : ActiveAdministrator(u) /\ ~ActiveAdministrator(u)'
                        => HoldsAdministration(t)
  /\ Somebody' /\ ~Somebody => HoldsAdministration(t)

Rely(u) ==
  /\ held'[u] = held[u]
  /\ \A v \in Users : passwords'[v] \in Nat /\ passwords'[v] >= passwords[v]
  /\ DOMAIN tokens \subseteq DOMAIN tokens'
  /\ \A p \in Names : Exists(p) => Exists(p)'
  /\ \A p \in Names : <<p, "FOR UPDATE">> \in held[u] /\ ~principals[p].archived
                        => ~principals'[p].archived
  /\ \A p \in Names : <<p, "FOR UPDATE">> \in held[u] /\ Exists(p)
                        => principals'[p].role = principals[p].role
  /\ HoldsAdministration(u) =>
       /\ \A v \in Users : ActiveAdministrator(v) => ActiveAdministrator(v)'
       /\ Somebody' => Somebody

(* Locks that conflict are not held by two: what one may change, the other *)
(* does not rely on.                                                       *)
LEMMA GuaranteesSuffice ==
  ASSUME IdentityInv, NEW t \in Transactions, NEW u \in Transactions, t # u, Guarantee(t)
  PROVE  Rely(u)
<1>1. ASSUME NEW what, NEW mode, <<what, "FOR UPDATE">> \in held[u]
      PROVE  <<what, mode>> \notin held[t]
  <2> SUFFICES ASSUME <<what, mode>> \in held[t] PROVE FALSE
    OBVIOUS
  <2>1. LocksCompatible
    BY DEF IdentityInv
  <2>2. ~Conflict("FOR UPDATE", mode)
    BY <1>1, <2>1 DEF LocksCompatible
  <2> QED
    BY <2>2 DEF Conflict
<1>2. /\ held'[u] = held[u]
      /\ \A v \in Users : passwords'[v] \in Nat /\ passwords'[v] >= passwords[v]
      /\ DOMAIN tokens \subseteq DOMAIN tokens'
      /\ \A p \in Names : Exists(p) => Exists(p)'
  BY DEF Guarantee
<1>3. \A p \in Names : <<p, "FOR UPDATE">> \in held[u] /\ ~principals[p].archived
                         => ~principals'[p].archived
  BY <1>1 DEF Guarantee
<1>4. \A p \in Names : <<p, "FOR UPDATE">> \in held[u] /\ Exists(p)
                         => principals'[p].role = principals[p].role
  BY <1>1 DEF Guarantee
<1>5. HoldsAdministration(u) => ~HoldsAdministration(t)
  BY <1>1 DEF HoldsAdministration
<1>6. ASSUME HoldsAdministration(u)
      PROVE  /\ \A v \in Users : ActiveAdministrator(v) => ActiveAdministrator(v)'
             /\ Somebody' => Somebody
  BY <1>5, <1>6 DEF Guarantee
<1> QED
  BY <1>2, <1>3, <1>4, <1>6 DEF Rely

LEMMA ManagersRely ==
  ASSUME IdentityInv, NEW u \in Managers, adm'[u] = adm[u], Rely(u)
  PROVE  ManagerInv(u)'
<1>1. Asked(u) /\ Serialised(u) /\ Seen(u)
  BY DEF IdentityInv, ManagerInv
<1>2. Somebody => Somebody'
  BY DEF Rely, Somebody
<1>3. Asked(u)'
  BY <1>1, <1>2 DEF Asked, Removal
<1>4. Serialised(u)'
  BY <1>1 DEF Serialised, Removal, HoldsAdministration, Rely
<1>5. adm[u].todo \cup adm[u].found # {} => HoldsAdministration(u)
  BY <1>1 DEF Asked, Serialised
<1>6. \A v \in adm[u].todo \cup adm[u].found : ActiveAdministrator(v)'
  <2>1. adm[u].todo \cup adm[u].found \subseteq Users
    BY DEF IdentityInv, TypeOK, ManageTypeOK, ManagerLocals
  <2>2. \A v \in adm[u].todo \cup adm[u].found : ActiveAdministrator(v)
    BY <1>1 DEF Seen
  <2> QED
    BY <1>5, <2>1, <2>2 DEF Rely
<1>7. adm[u].at # "idle" => adm[u].target \in Names
  BY <1>1 DEF Asked
<1>8. adm[u].at \in {"scan", "lock", "write"} /\ adm[u].op = "archive" =>
        /\ Exists(adm[u].target)' /\ <<adm[u].target, "FOR UPDATE">> \in held'[u]
        /\ principals'[adm[u].target].role = principals[adm[u].target].role
  <2> SUFFICES ASSUME adm[u].at \in {"scan", "lock", "write"}, adm[u].op = "archive"
               PROVE  /\ Exists(adm[u].target)' /\ <<adm[u].target, "FOR UPDATE">> \in held'[u]
                      /\ principals'[adm[u].target].role = principals[adm[u].target].role
    OBVIOUS
  <2>1. Exists(adm[u].target) /\ <<adm[u].target, "FOR UPDATE">> \in held[u]
    BY <1>1 DEF Seen
  <2>2. adm[u].target \in Names
    BY <1>7
  <2>3. principals'[adm[u].target].role = principals[adm[u].target].role
    BY <2>1, <2>2 DEF Rely
  <2> QED
    BY <2>1, <2>3 DEF Rely, Exists
<1>9. adm[u].at = "write" /\ adm[u].op = "bootstrap" => ~Somebody'
  <2>1. adm[u].at = "write" /\ adm[u].op = "bootstrap" => HoldsAdministration(u) /\ ~Somebody
    BY <1>1 DEF Serialised, Seen
  <2> QED
    BY <2>1 DEF Rely
<1>10. Seen(u)'
  BY <1>1, <1>6, <1>8, <1>9 DEF Seen, Removal, Rely
<1> QED
  BY <1>3, <1>4, <1>10 DEF ManagerInv

LEMMA SessionsRely ==
  ASSUME IdentityInv, NEW u \in Sessions, ses'[u] = ses[u], Rely(u)
  PROVE  SessionInv(u)'
<1>1. Requested(u) /\ Presented(u)
  BY DEF IdentityInv, SessionInv
<1>2. Requested(u)'
  BY <1>1 DEF Requested, Rely
<1>3. /\ ses[u].current \in Nat
      /\ \A v \in Users : passwords[v] \in Nat /\ passwords'[v] \in Nat
                           /\ passwords'[v] >= passwords[v]
  BY DEF IdentityInv, TypeOK, SessionTypeOK, SessionLocals, IdentityTypeOK, Rely
<1>4. ses[u].at = "verify" => /\ <<ses[u].target, "FOR UPDATE">> \in held'[u]
                              /\ ~principals'[ses[u].target].archived
  BY <1>1 DEF Requested, Presented, Rely
<1>5. ses[u].at # "idle" /\ ses[u].target \in Users => ses[u].current <= passwords'[ses[u].target]
  <2> SUFFICES ASSUME ses[u].at # "idle", ses[u].target \in Users
               PROVE  ses[u].current <= passwords'[ses[u].target]
    OBVIOUS
  <2>1. ses[u].current <= passwords[ses[u].target]
    BY <1>1 DEF Presented
  <2>2. passwords'[ses[u].target] >= passwords[ses[u].target]
    BY <1>3
  <2> QED
    BY <1>3, <2>1, <2>2
<1> QED
  BY <1>1, <1>2, <1>4, <1>5 DEF SessionInv, Presented

-------------------------------------------------------------------------------
(* Locks *)

LEMMA TransactionsNamed ==
  /\ \A t \in Managers : t \in Transactions
  /\ \A t \in Sessions : t \in Transactions
  /\ \A t \in Managers, u \in Sessions : t # u
BY ManagersAssumption, SessionsAssumption, HandlersAssumption

LEMMA LockTaken ==
  ASSUME IdentityInv, NEW t \in Transactions, NEW what \in Names \cup {Administration},
         NEW mode \in Modes, Lock(t, what, mode)
  PROVE  /\ held' \in [Transactions -> SUBSET ((Names \cup {Administration}) \X Modes)]
         /\ \A u \in Transactions \ {t} : held'[u] = held[u]
         /\ held'[t] = held[t] \cup {<<what, mode>>}
         /\ LocksCompatible'
<1>1. held \in [Transactions -> SUBSET ((Names \cup {Administration}) \X Modes)]
  BY DEF IdentityInv, TypeOK, IdentityTypeOK
<1>2. held' = [held EXCEPT ![t] = held[t] \cup {<<what, mode>>}]
  BY DEF Lock
<1>3. /\ \A u \in Transactions \ {t} : held'[u] = held[u]
      /\ held'[t] = held[t] \cup {<<what, mode>>}
  BY <1>1, <1>2
<1>4. held[t] \cup {<<what, mode>>} \in SUBSET ((Names \cup {Administration}) \X Modes)
  BY <1>1
<1>5. held' \in [Transactions -> SUBSET ((Names \cup {Administration}) \X Modes)]
  BY <1>1, <1>2, <1>4
<1>6. ASSUME NEW v \in Transactions, NEW u \in Transactions, v # u,
             NEW l \in held'[v], NEW m \in held'[u], l[1] = m[1]
      PROVE  ~Conflict(l[2], m[2])
  <2>1. CASE l \in held[v] /\ m \in held[u]
    BY <1>6, <2>1 DEF IdentityInv, LocksCompatible
  <2>2. CASE l \notin held[v]
    <3>1. v = t /\ l = <<what, mode>> /\ m \in held[u]
      BY <1>3, <1>6, <2>2
    <3>2. ~Conflict(m[2], mode)
      BY <1>6, <3>1 DEF Lock, CanLock
    <3> QED
      BY <3>1, <3>2 DEF Conflict
  <2>3. CASE m \notin held[u]
    <3>1. u = t /\ m = <<what, mode>> /\ l \in held[v]
      BY <1>3, <1>6, <2>3
    <3>2. ~Conflict(l[2], mode)
      BY <1>6, <3>1 DEF Lock, CanLock
    <3> QED
      BY <3>1, <3>2
  <2> QED
    BY <2>1, <2>2, <2>3
<1> QED
  BY <1>3, <1>5, <1>6 DEF LocksCompatible

LEMMA LocksGiven ==
  ASSUME IdentityInv, NEW t \in Transactions, Unlock(t)
  PROVE  /\ held' \in [Transactions -> SUBSET ((Names \cup {Administration}) \X Modes)]
         /\ \A u \in Transactions \ {t} : held'[u] = held[u]
         /\ LocksCompatible'
<1>1. held \in [Transactions -> SUBSET ((Names \cup {Administration}) \X Modes)]
  BY DEF IdentityInv, TypeOK, IdentityTypeOK
<1>2. held' = [held EXCEPT ![t] = {}]
  BY DEF Unlock
<1>3. \A u \in Transactions : held'[u] = IF u = t THEN {} ELSE held[u]
  BY <1>1, <1>2
<1>4. held' \in [Transactions -> SUBSET ((Names \cup {Administration}) \X Modes)]
  BY <1>1, <1>2
<1>5. LocksCompatible
  BY DEF IdentityInv
<1>6. LocksCompatible'
  BY <1>3, <1>5 DEF LocksCompatible
<1> QED
  BY <1>3, <1>4, <1>6

(* Steps that change neither principals nor passwords nor tokens. *)
LEMMA Quiet ==
  ASSUME IdentityInv, UNCHANGED <<identity, bootstrapped>>, NEW t \in Transactions,
         \A u \in Transactions \ {t} : held'[u] = held[u]
  PROVE  NeverOrphaned' /\ BootstrapOnce' /\ Founded' /\ Guarantee(t)
<1>1. UNCHANGED <<principals, passwords, tokens, bootstrapped>>
  BY DEF identity
<1>2. /\ \A p \in Names : Exists(p)' = Exists(p)
      /\ \A u \in Users : ActiveAdministrator(u)' = ActiveAdministrator(u)
      /\ Somebody' = Somebody
  BY <1>1 DEF Exists, ActiveAdministrator, Somebody
<1>3. \A u \in Users : passwords[u] \in Nat
  BY DEF IdentityInv, TypeOK, IdentityTypeOK
<1>4. NeverOrphaned' /\ BootstrapOnce'
  BY <1>1, <1>2 DEF IdentityInv, NeverOrphaned, BootstrapOnce
<1>5. Founded'
  BY <1>1 DEF IdentityInv, Founded, Exists
<1>6. Guarantee(t)
  <2>1. \A u \in Users : passwords'[u] \in Nat /\ passwords'[u] >= passwords[u]
    BY <1>1, <1>3
  <2>2. DOMAIN tokens \subseteq DOMAIN tokens'
    BY <1>1
  <2>3. \A p \in Names : principals'[p] = principals[p]
    BY <1>1
  <2> QED
    BY <1>2, <2>1, <2>2, <2>3 DEF Guarantee
<1> QED
  BY <1>4, <1>5, <1>6

-------------------------------------------------------------------------------
(* What a manager's step achieves *)

ManagerOutcome(t) ==
  /\ adm' \in [Managers -> ManagerLocals]
  /\ \A u \in Managers \ {t} : adm'[u] = adm[u]
  /\ bootstrapped' \subseteq Users
  /\ IdentityTypeOK'
  /\ LocksCompatible'
  /\ NeverOrphaned' /\ BootstrapOnce' /\ Founded'
  /\ ManagerInv(t)'
  /\ Guarantee(t)

Positions == {"idle", "advisory", "target", "scan", "lock", "row", "check", "write"}

LEMMA RowKept ==
  ASSUME IdentityInv, NEW t \in Managers, NEW row \in ManagerLocals,
         adm' = [adm EXCEPT ![t] = row]
  PROVE  /\ adm' \in [Managers -> ManagerLocals]
         /\ adm'[t] = row
         /\ \A u \in Managers \ {t} : adm'[u] = adm[u]
BY DEF IdentityInv, TypeOK, ManageTypeOK

LEMMA Goes ==
  ASSUME IdentityInv, NEW t \in Managers, NEW at \in Positions, Go(t, at)
  PROVE  /\ adm' \in [Managers -> ManagerLocals]
         /\ \A u \in Managers \ {t} : adm'[u] = adm[u]
         /\ adm'[t].at = at
         /\ adm'[t].op = adm[t].op /\ adm'[t].actor = adm[t].actor
         /\ adm'[t].target = adm[t].target /\ adm'[t].role = adm[t].role
         /\ adm'[t].todo = adm[t].todo /\ adm'[t].found = adm[t].found
<1> DEFINE row == [adm[t] EXCEPT !.at = at]
<1>1. adm[t] \in ManagerLocals
  BY DEF IdentityInv, TypeOK, ManageTypeOK
<1>2. row \in ManagerLocals
  BY <1>1, Zenon DEF ManagerLocals, Positions
<1>3. /\ row.at = at
      /\ row.op = adm[t].op /\ row.actor = adm[t].actor
      /\ row.target = adm[t].target /\ row.role = adm[t].role
      /\ row.todo = adm[t].todo /\ row.found = adm[t].found
  BY <1>1 DEF ManagerLocals
<1>4. adm' = [adm EXCEPT ![t] = row]
  BY DEF Go
<1> HIDE DEF row
<1> QED
  BY <1>2, <1>3, <1>4, RowKept

LEMMA Ended ==
  ASSUME IdentityInv, NEW t \in Managers, EndManage(t)
  PROVE  /\ adm' \in [Managers -> ManagerLocals]
         /\ \A u \in Managers \ {t} : adm'[u] = adm[u]
         /\ held' \in [Transactions -> SUBSET ((Names \cup {Administration}) \X Modes)]
         /\ \A u \in Transactions \ {t} : held'[u] = held[u]
         /\ LocksCompatible'
         /\ ManagerInv(t)'
<1>1. IdleManager \in ManagerLocals
  BY DEF IdleManager, ManagerLocals
<1>2. adm' = [adm EXCEPT ![t] = IdleManager] /\ Unlock(t)
  BY DEF EndManage
<1>3. /\ adm' \in [Managers -> ManagerLocals]
      /\ adm'[t] = IdleManager
      /\ \A u \in Managers \ {t} : adm'[u] = adm[u]
  BY <1>1, <1>2, RowKept
<1>4. ManagerInv(t)'
  BY <1>3 DEF ManagerInv, Asked, Serialised, Seen, IdleManager
<1> QED
  BY <1>2, <1>3, <1>4, LocksGiven, TransactionsNamed

(* An answer without a change: 404, 409, a lost connection. *)
LEMMA RefusalKeeps ==
  ASSUME IdentityInv, NEW t \in Managers, EndManage(t), UNCHANGED <<identity, bootstrapped>>
  PROVE  ManagerOutcome(t)
<1>1. /\ adm' \in [Managers -> ManagerLocals]
      /\ \A u \in Managers \ {t} : adm'[u] = adm[u]
      /\ held' \in [Transactions -> SUBSET ((Names \cup {Administration}) \X Modes)]
      /\ \A u \in Transactions \ {t} : held'[u] = held[u]
      /\ LocksCompatible'
      /\ ManagerInv(t)'
  BY Ended
<1>2. t \in Transactions
  BY TransactionsNamed
<1>3. NeverOrphaned' /\ BootstrapOnce' /\ Founded' /\ Guarantee(t)
  BY <1>1, <1>2, Quiet
<1>4. IdentityTypeOK' /\ bootstrapped' \subseteq Users
  BY <1>1 DEF IdentityInv, TypeOK, IdentityTypeOK, ManageTypeOK, identity
<1> QED
  BY <1>1, <1>3, <1>4 DEF ManagerOutcome

(* A step that only moves on, with the locks it has or one more. *)
LEMMA MoveKeeps ==
  ASSUME IdentityInv, NEW t \in Managers, UNCHANGED <<identity, bootstrapped>>,
         \/ UNCHANGED held
         \/ \E what \in Names \cup {Administration}, mode \in Modes : Lock(t, what, mode)
  PROVE  /\ bootstrapped' \subseteq Users
         /\ IdentityTypeOK'
         /\ LocksCompatible'
         /\ NeverOrphaned' /\ BootstrapOnce' /\ Founded' /\ Guarantee(t)
         /\ held[t] \subseteq held'[t]
<1>1. t \in Transactions
  BY TransactionsNamed
<1>2. /\ held' \in [Transactions -> SUBSET ((Names \cup {Administration}) \X Modes)]
      /\ \A u \in Transactions \ {t} : held'[u] = held[u]
      /\ held[t] \subseteq held'[t]
      /\ LocksCompatible'
  <2>1. CASE UNCHANGED held
    BY <2>1 DEF IdentityInv, TypeOK, IdentityTypeOK, LocksCompatible
  <2>2. CASE \E what \in Names \cup {Administration}, mode \in Modes : Lock(t, what, mode)
    <3>1. PICK what \in Names \cup {Administration}, mode \in Modes : Lock(t, what, mode)
      BY <2>2
    <3> QED
      BY <1>1, <3>1, LockTaken
  <2> QED
    BY <2>1, <2>2
<1>3. NeverOrphaned' /\ BootstrapOnce' /\ Founded' /\ Guarantee(t)
  BY <1>1, <1>2, Quiet
<1>4. IdentityTypeOK' /\ bootstrapped' \subseteq Users
  BY <1>2 DEF IdentityInv, TypeOK, IdentityTypeOK, ManageTypeOK, identity
<1> QED
  BY <1>2, <1>3, <1>4

-------------------------------------------------------------------------------
(* The steps of a manager that only look and lock *)

LEMMA ManagerMoves ==
  ASSUME IdentityInv, NEW t \in Managers, UNCHANGED <<identity, bootstrapped>>,
         \/ UNCHANGED held
         \/ \E what \in Names \cup {Administration}, mode \in Modes : Lock(t, what, mode),
         adm' \in [Managers -> ManagerLocals],
         \A u \in Managers \ {t} : adm'[u] = adm[u],
         ManagerInv(t)'
  PROVE  ManagerOutcome(t)
BY MoveKeeps DEF ManagerOutcome

(* What is seen of the tables does not change in such a step. *)
LEMMA SameTables ==
  ASSUME UNCHANGED <<identity, bootstrapped>>
  PROVE  /\ principals' = principals
         /\ \A p : Exists(p)' = Exists(p)
         /\ \A u : ActiveAdministrator(u)' = ActiveAdministrator(u)
         /\ Somebody' = Somebody
BY DEF identity, Exists, ActiveAdministrator, Somebody

LEMMA BeginKeeps ==
  ASSUME IdentityInv, NEW t \in Managers, NEW q \in Requests, NEW a,
         \/ q.op # "bootstrap" /\ a \in Names /\ Administrator(a)
         \/ q.op = "bootstrap" /\ a = NULL,
         Begin(t, q, a)
  PROVE  ManagerOutcome(t)
<1> DEFINE row == [at |-> FirstStep(q), op |-> q.op, actor |-> a, target |-> q.target,
                   role |-> q.role, todo |-> {}, found |-> {}]
<1>1. /\ q.op \in {"archive", "update", "create", "bootstrap"}
      /\ q.target \in Names /\ q.role \in Roles \cup {NULL}
      /\ q.op = "create" => q.role # NULL
      /\ q.op = "bootstrap" => q.target \in Users /\ q.role = "Admin"
  BY OperationsAssumption DEF Requests
<1>2. /\ FirstStep(q) \in Positions \ {"idle"}
      /\ FirstStep(q) = "advisory" => q.op = "bootstrap" \/ Removal(q)
      /\ FirstStep(q) = "target" => q.op = "archive" /\ ~Removal(q)
      /\ FirstStep(q) = "row" => q.op = "update" /\ ~Removal(q)
      /\ FirstStep(q) = "write" => q.op = "create"
      /\ FirstStep(q) \in {"advisory", "target", "row", "write"}
  BY <1>1 DEF FirstStep, Positions, Removal
<1>3. row \in ManagerLocals
  BY <1>1, <1>2 DEF ManagerLocals, Positions
<1>4. q.op # "bootstrap" => a \in Names /\ Somebody
  BY NullAssumption DEF Administrator, Exists, Somebody
<1>5. adm' = [adm EXCEPT ![t] = row] /\ UNCHANGED <<identity, bootstrapped, held>>
  BY DEF Begin
<1>6. /\ row.at = FirstStep(q) /\ row.op = q.op /\ row.actor = a /\ row.target = q.target
      /\ row.role = q.role /\ row.todo = {} /\ row.found = {}
  OBVIOUS
<1> HIDE DEF row
<1>7. /\ adm' \in [Managers -> ManagerLocals]
      /\ adm'[t] = row
      /\ \A u \in Managers \ {t} : adm'[u] = adm[u]
  BY <1>3, <1>5, RowKept
<1>8. Somebody' = Somebody
  BY <1>5, SameTables
<1>9. Removal(row) = Removal(q)
  BY <1>6 DEF Removal
<1>10. Asked(t)'
  BY <1>1, <1>2, <1>4, <1>6, <1>7, <1>8, <1>9 DEF Asked
<1>11. Serialised(t)'
  BY <1>2, <1>6, <1>7, <1>9 DEF Serialised, Removal
<1>12. Seen(t)'
  BY <1>2, <1>6, <1>7, <1>9 DEF Seen
<1>13. ManagerInv(t)'
  BY <1>10, <1>11, <1>12 DEF ManagerInv
<1> QED
  BY <1>5, <1>7, <1>13, ManagerMoves

LEMMA LockAdministrationKeeps ==
  ASSUME IdentityInv, NEW t \in Managers, LockAdministration(t)
  PROVE  ManagerOutcome(t)
<1> DEFINE next == CASE adm[t].op = "archive" -> "target"
                     [] adm[t].op = "update" -> "scan"
                     [] adm[t].op = "bootstrap" -> "check"
<1>1. /\ adm[t].at = "advisory"
      /\ Lock(t, Administration, "FOR UPDATE")
      /\ Go(t, next)
      /\ UNCHANGED <<identity, bootstrapped>>
  BY DEF LockAdministration
<1>2. Asked(t)
  BY DEF IdentityInv, ManagerInv
<1>3. \/ adm[t].op = "archive" /\ next = "target" /\ Removal(adm[t])
      \/ adm[t].op = "update" /\ next = "scan" /\ Removal(adm[t])
      \/ adm[t].op = "bootstrap" /\ next = "check"
  BY <1>1, <1>2 DEF Asked, Removal
<1> HIDE DEF next
<1>4. next \in Positions
  BY <1>3 DEF Positions
<1>5. /\ adm' \in [Managers -> ManagerLocals]
      /\ \A u \in Managers \ {t} : adm'[u] = adm[u]
      /\ adm'[t].at = next
      /\ adm'[t].op = adm[t].op /\ adm'[t].actor = adm[t].actor
      /\ adm'[t].target = adm[t].target /\ adm'[t].role = adm[t].role
      /\ adm'[t].todo = adm[t].todo /\ adm'[t].found = adm[t].found
  BY <1>1, <1>4, Goes
<1>6. HoldsAdministration(t)'
  <2>1. "FOR UPDATE" \in Modes /\ Administration \in Names \cup {Administration}
    BY DEF Modes
  <2>2. t \in Transactions
    BY TransactionsNamed
  <2>3. held'[t] = held[t] \cup {<<Administration, "FOR UPDATE">>}
    BY <1>1, <2>1, <2>2, LockTaken
  <2> QED
    BY <2>3 DEF HoldsAdministration
<1>7. adm[t].todo = {} /\ adm[t].found = {}
  BY <1>1, <1>2 DEF Asked
<1>8. Somebody' = Somebody
  BY <1>1, SameTables
<1>9. Asked(t)'
  BY <1>1, <1>2, <1>3, <1>5, <1>7, <1>8 DEF Asked, Removal
<1>10. Serialised(t)'
  BY <1>6 DEF Serialised
<1>11. Seen(t)'
  BY <1>3, <1>5, <1>7 DEF Seen
<1>12. ManagerInv(t)'
  BY <1>9, <1>10, <1>11 DEF ManagerInv
<1> QED
  BY <1>1, <1>5, <1>12, ManagerMoves DEF Modes

LEMMA LockTargetKeeps ==
  ASSUME IdentityInv, NEW t \in Managers, LockTarget(t)
  PROVE  ManagerOutcome(t)
<1> DEFINE p == adm[t].target
           next == IF p \in Users /\ principals[p].role = "Admin" THEN "scan" ELSE "write"
<1>1. /\ adm[t].at = "target"
      /\ Exists(p)
      /\ Lock(t, p, "FOR UPDATE")
      /\ Go(t, next)
      /\ UNCHANGED <<identity, bootstrapped>>
  BY DEF LockTarget
<1>2. Asked(t) /\ Serialised(t)
  BY DEF IdentityInv, ManagerInv
<1>3. adm[t].op = "archive" /\ p \in Names /\ adm[t].todo = {} /\ adm[t].found = {}
  BY <1>1, <1>2 DEF Asked
<1>4. next \in Positions
  BY DEF Positions
<1>5. /\ adm' \in [Managers -> ManagerLocals]
      /\ \A u \in Managers \ {t} : adm'[u] = adm[u]
      /\ adm'[t].at = next
      /\ adm'[t].op = adm[t].op /\ adm'[t].actor = adm[t].actor
      /\ adm'[t].target = adm[t].target /\ adm'[t].role = adm[t].role
      /\ adm'[t].todo = adm[t].todo /\ adm'[t].found = adm[t].found
  <2> HIDE DEF next
  <2> QED
    BY <1>1, <1>4, Goes
<1>6. <<p, "FOR UPDATE">> \in held'[t] /\ held[t] \subseteq held'[t]
  <2>1. "FOR UPDATE" \in Modes /\ p \in Names \cup {Administration}
    BY <1>3 DEF Modes
  <2>2. t \in Transactions
    BY TransactionsNamed
  <2>3. held'[t] = held[t] \cup {<<p, "FOR UPDATE">>}
    BY <1>1, <2>1, <2>2, LockTaken
  <2> QED
    BY <2>3
<1>7. /\ principals' = principals /\ Somebody' = Somebody
      /\ \A x : Exists(x)' = Exists(x)
  BY <1>1, SameTables
<1>8. /\ next \in {"scan", "write"}
      /\ next = "scan" => p \in Users
      /\ next = "write" => p \notin Users \/ principals[p].role # "Admin"
  OBVIOUS
<1> HIDE DEF next
<1>9. (Removal(adm'[t]) <=> p \in Users) /\ (Removal(adm[t]) <=> p \in Users)
  BY <1>3, <1>5 DEF Removal
<1>10. Asked(t)'
  BY <1>1, <1>2, <1>3, <1>5, <1>7, <1>8, <1>9 DEF Asked
<1>11. Serialised(t)'
  BY <1>1, <1>2, <1>3, <1>5, <1>6, <1>9 DEF Serialised, HoldsAdministration
<1>12. Seen(t)'
  <2>1. principals'[p].role # NULL
    BY <1>1, <1>7 DEF Exists
  <2> QED
    BY <1>3, <1>5, <1>6, <1>7, <1>8, <1>9, <2>1 DEF Seen, Exists
<1>13. ManagerInv(t)'
  BY <1>10, <1>11, <1>12 DEF ManagerInv
<1>14. \E what \in Names \cup {Administration}, mode \in Modes : Lock(t, what, mode)
  BY <1>1, <1>3 DEF Modes
<1> QED
  BY <1>1, <1>5, <1>13, <1>14, ManagerMoves

LEMMA ScanKeeps ==
  ASSUME IdentityInv, NEW t \in Managers, ScanAdministrators(t)
  PROVE  ManagerOutcome(t)
<1> DEFINE row == [adm[t] EXCEPT !.at = "lock", !.todo = Administrators]
<1>1. /\ adm[t].at = "scan"
      /\ adm' = [adm EXCEPT ![t] = row]
      /\ UNCHANGED <<identity, bootstrapped, held>>
  BY DEF ScanAdministrators
<1>2. Asked(t) /\ Serialised(t) /\ Seen(t) /\ adm[t] \in ManagerLocals
  BY DEF IdentityInv, ManagerInv, TypeOK, ManageTypeOK
<1>3. Administrators \subseteq Users /\ \A u \in Administrators : ActiveAdministrator(u)
  BY DEF Administrators
<1>4. row \in ManagerLocals
  <2>1. "lock" \in Positions /\ Administrators \in SUBSET Users
    BY <1>3 DEF Positions
  <2> HIDE DEF Administrators
  <2> QED
    BY <1>2, <2>1, Zenon DEF ManagerLocals, Positions
<1>5. /\ row.at = "lock" /\ row.todo = Administrators /\ row.found = adm[t].found
      /\ row.op = adm[t].op /\ row.actor = adm[t].actor
      /\ row.target = adm[t].target /\ row.role = adm[t].role
  BY <1>2 DEF ManagerLocals
<1> HIDE DEF row
<1>6. /\ adm' \in [Managers -> ManagerLocals]
      /\ adm'[t] = row
      /\ \A u \in Managers \ {t} : adm'[u] = adm[u]
  BY <1>1, <1>4, RowKept
<1>7. adm[t].found = {} /\ Removal(adm[t]) /\ adm[t].op # "bootstrap"
  BY <1>1, <1>2 DEF Asked, Removal
<1>8. Administrators # {}
  BY <1>1, <1>2, <1>7 DEF Asked, IdentityInv, NeverOrphaned, Somebody, Administrators
<1>9. /\ principals' = principals /\ Somebody' = Somebody /\ held' = held
      /\ \A u : ActiveAdministrator(u)' = ActiveAdministrator(u)
  BY <1>1, SameTables
<1>10. Removal(row)
  BY <1>5, <1>7 DEF Removal
<1>11. Asked(t)'
  BY <1>1, <1>2, <1>5, <1>6, <1>7, <1>9, <1>10 DEF Asked
<1>12. Serialised(t)'
  BY <1>1, <1>2, <1>5, <1>6, <1>7, <1>9, <1>10 DEF Serialised, HoldsAdministration
<1>13. Seen(t)'
  <2>1. /\ \A u \in row.todo \cup row.found : ActiveAdministrator(u)'
        /\ row.todo \cup row.found # {}
        /\ row.found = {}
    BY <1>3, <1>5, <1>7, <1>8, <1>9
  <2>2. adm[t].op = "archive" =>
          principals'[row.target].role # NULL /\ <<row.target, "FOR UPDATE">> \in held'[t]
    BY <1>1, <1>2, <1>5, <1>9 DEF Seen, Exists
  <2> QED
    BY <1>5, <1>6, <1>9, <2>1, <2>2 DEF Seen, Exists
<1>14. ManagerInv(t)'
  BY <1>11, <1>12, <1>13 DEF ManagerInv
<1> QED
  BY <1>1, <1>6, <1>14, ManagerMoves

LEMMA LockAdministratorKeeps ==
  ASSUME IdentityInv, NEW t \in Managers, NEW u \in Users, LockAdministrator(t, u)
  PROVE  ManagerOutcome(t)
<1> DEFINE todo == adm[t].todo \ {u}
           found == adm[t].found \cup {u}
           row == [adm[t] EXCEPT !.todo = todo, !.found = found]
<1>1. Asked(t) /\ Serialised(t) /\ Seen(t) /\ adm[t] \in ManagerLocals
  BY DEF IdentityInv, ManagerInv, TypeOK, ManageTypeOK
<1>2. /\ adm[t].at = "lock" /\ u \in adm[t].todo
      /\ Lock(t, u, "FOR UPDATE")
      /\ UNCHANGED <<identity, bootstrapped>>
  BY DEF LockAdministrator
<1>3. u \in Administrators
  BY <1>1, <1>2 DEF Seen, Administrators
<1>4. adm' = [adm EXCEPT ![t] = row]
  BY <1>3 DEF LockAdministrator
<1>5. row \in ManagerLocals
  <2>1. todo \in SUBSET Users /\ found \in SUBSET Users
    BY <1>1 DEF ManagerLocals
  <2> HIDE DEF todo, found
  <2> QED
    BY <1>1, <2>1, Zenon DEF ManagerLocals
<1>6. /\ row.at = "lock" /\ row.todo = todo /\ row.found = found
      /\ row.op = adm[t].op /\ row.actor = adm[t].actor
      /\ row.target = adm[t].target /\ row.role = adm[t].role
  BY <1>1, <1>2 DEF ManagerLocals
<1> HIDE DEF row
<1>7. /\ adm' \in [Managers -> ManagerLocals]
      /\ adm'[t] = row
      /\ \A v \in Managers \ {t} : adm'[v] = adm[v]
  BY <1>4, <1>5, RowKept
<1>8. /\ principals' = principals /\ Somebody' = Somebody
      /\ \A v : ActiveAdministrator(v)' = ActiveAdministrator(v)
  BY <1>2, SameTables
<1>9. held'[t] = held[t] \cup {<<u, "FOR UPDATE">>}
  <2>1. "FOR UPDATE" \in Modes /\ u \in Names \cup {Administration} /\ t \in Transactions
    BY TransactionsNamed DEF Modes, Names
  <2> QED
    BY <1>2, <2>1, LockTaken
<1>10. Removal(adm[t]) /\ Removal(row)
  BY <1>1, <1>2, <1>6 DEF Asked, Removal
<1>11. Asked(t)'
  BY <1>1, <1>2, <1>6, <1>7, <1>8, <1>10 DEF Asked
<1>12. Serialised(t)'
  BY <1>1, <1>2, <1>6, <1>7, <1>9, <1>10 DEF Serialised, HoldsAdministration
<1>13. Seen(t)'
  <2>1. /\ \A v \in row.todo \cup row.found : ActiveAdministrator(v)'
        /\ row.todo \cup row.found # {}
        /\ \A v \in row.found : <<v, "FOR UPDATE">> \in held'[t]
    BY <1>1, <1>2, <1>6, <1>8, <1>9 DEF Seen
  <2>2. adm[t].op = "archive" =>
          principals'[row.target].role # NULL /\ <<row.target, "FOR UPDATE">> \in held'[t]
    BY <1>1, <1>2, <1>6, <1>8, <1>9 DEF Seen, Exists
  <2> QED
    BY <1>6, <1>7, <1>8, <2>1, <2>2 DEF Seen, Exists
<1>14. ManagerInv(t)'
  BY <1>11, <1>12, <1>13 DEF ManagerInv
<1>15. \E what \in Names \cup {Administration}, mode \in Modes : Lock(t, what, mode)
  BY <1>2 DEF Modes, Names
<1> QED
  BY <1>2, <1>7, <1>14, <1>15, ManagerMoves

LEMMA NotFinalKeeps ==
  ASSUME IdentityInv, NEW t \in Managers, NotFinal(t)
  PROVE  ManagerOutcome(t)
<1> DEFINE next == IF adm[t].op = "archive" THEN "write" ELSE "row"
<1>1. /\ adm[t].at = "lock" /\ adm[t].todo = {}
      /\ adm[t].found # {adm[t].target}
      /\ Go(t, next)
      /\ UNCHANGED <<identity, bootstrapped, held>>
  BY DEF NotFinal, Scanned
<1>2. Asked(t) /\ Serialised(t) /\ Seen(t)
  BY DEF IdentityInv, ManagerInv
<1>3. Removal(adm[t]) /\ adm[t].op \in {"archive", "update"}
  BY <1>1, <1>2 DEF Asked, Removal
<1>4. next \in Positions /\ (next = "write" <=> adm[t].op = "archive") /\ next \in {"write", "row"}
  BY DEF Positions
<1> HIDE DEF next
<1>5. /\ adm' \in [Managers -> ManagerLocals]
      /\ \A u \in Managers \ {t} : adm'[u] = adm[u]
      /\ adm'[t].at = next
      /\ adm'[t].op = adm[t].op /\ adm'[t].actor = adm[t].actor
      /\ adm'[t].target = adm[t].target /\ adm'[t].role = adm[t].role
      /\ adm'[t].todo = adm[t].todo /\ adm'[t].found = adm[t].found
  BY <1>1, <1>4, Goes
<1>6. adm[t].found \ {adm[t].target} # {}
  <2>1. adm[t].found # {}
    BY <1>1, <1>2 DEF Seen
  <2> QED
    BY <1>1, <2>1
<1>7. /\ principals' = principals /\ Somebody' = Somebody /\ held' = held
      /\ \A u : ActiveAdministrator(u)' = ActiveAdministrator(u)
  BY <1>1, SameTables
<1>8. Removal(adm'[t])
  BY <1>3, <1>5 DEF Removal
<1>9. Asked(t)'
  BY <1>1, <1>2, <1>3, <1>4, <1>5, <1>7, <1>8 DEF Asked
<1>10. Serialised(t)'
  BY <1>1, <1>2, <1>3, <1>5, <1>7 DEF Serialised, HoldsAdministration
<1>11. Seen(t)'
  <2>1. /\ \A u \in adm[t].found : ActiveAdministrator(u)'
        /\ \A u \in adm[t].found : <<u, "FOR UPDATE">> \in held'[t]
    BY <1>2, <1>7 DEF Seen
  <2>2. adm[t].op = "archive" =>
          /\ principals'[adm[t].target].role # NULL
          /\ <<adm[t].target, "FOR UPDATE">> \in held'[t]
    BY <1>1, <1>2, <1>7 DEF Seen, Exists
  <2> QED
    BY <1>1, <1>3, <1>4, <1>5, <1>6, <2>1, <2>2 DEF Seen, Exists
<1>12. ManagerInv(t)'
  BY <1>9, <1>10, <1>11 DEF ManagerInv
<1> QED
  BY <1>1, <1>5, <1>12, ManagerMoves

LEMMA LockRowKeeps ==
  ASSUME IdentityInv, NEW t \in Managers, LockRow(t)
  PROVE  ManagerOutcome(t)
<1>1. /\ adm[t].at = "row"
      /\ Lock(t, adm[t].target, "UPDATE")
      /\ Go(t, "write")
      /\ UNCHANGED <<identity, bootstrapped>>
  BY DEF LockRow
<1>2. Asked(t) /\ Serialised(t) /\ Seen(t)
  BY DEF IdentityInv, ManagerInv
<1>3. adm[t].op = "update" /\ adm[t].target \in Names
  BY <1>1, <1>2 DEF Asked
<1>4. "write" \in Positions
  BY DEF Positions
<1>5. /\ adm' \in [Managers -> ManagerLocals]
      /\ \A u \in Managers \ {t} : adm'[u] = adm[u]
      /\ adm'[t].at = "write"
      /\ adm'[t].op = adm[t].op /\ adm'[t].actor = adm[t].actor
      /\ adm'[t].target = adm[t].target /\ adm'[t].role = adm[t].role
      /\ adm'[t].todo = adm[t].todo /\ adm'[t].found = adm[t].found
  BY <1>1, <1>4, Goes
<1>6. held'[t] = held[t] \cup {<<adm[t].target, "UPDATE">>}
  <2>1. "UPDATE" \in Modes /\ adm[t].target \in Names \cup {Administration} /\ t \in Transactions
    BY <1>3, TransactionsNamed DEF Modes
  <2> QED
    BY <1>1, <2>1, LockTaken
<1>7. /\ Somebody' = Somebody
      /\ \A u : ActiveAdministrator(u)' = ActiveAdministrator(u)
  BY <1>1, SameTables
<1>8. Removal(adm'[t]) <=> Removal(adm[t])
  BY <1>5 DEF Removal
<1>9. Asked(t)'
  BY <1>1, <1>2, <1>3, <1>5, <1>7, <1>8 DEF Asked
<1>10. Serialised(t)'
  BY <1>1, <1>2, <1>3, <1>5, <1>6, <1>8 DEF Serialised, HoldsAdministration
<1>11. Seen(t)'
  BY <1>1, <1>2, <1>3, <1>5, <1>6, <1>7, <1>8 DEF Seen
<1>12. ManagerInv(t)'
  BY <1>9, <1>10, <1>11 DEF ManagerInv
<1>13. \E what \in Names \cup {Administration}, mode \in Modes : Lock(t, what, mode)
  BY <1>1, <1>3 DEF Modes
<1> QED
  BY <1>1, <1>5, <1>12, <1>13, ManagerMoves

LEMMA FindNoAdministratorKeeps ==
  ASSUME IdentityInv, NEW t \in Managers, FindNoAdministrator(t)
  PROVE  ManagerOutcome(t)
<1>1. /\ adm[t].at = "check" /\ Administrators = {}
      /\ Go(t, "write")
      /\ UNCHANGED <<identity, bootstrapped, held>>
  BY DEF FindNoAdministrator
<1>2. Asked(t) /\ Serialised(t)
  BY DEF IdentityInv, ManagerInv
<1>3. adm[t].op = "bootstrap" /\ adm[t].todo = {} /\ adm[t].found = {}
  BY <1>1, <1>2 DEF Asked
<1>4. "write" \in Positions
  BY DEF Positions
<1>5. /\ adm' \in [Managers -> ManagerLocals]
      /\ \A u \in Managers \ {t} : adm'[u] = adm[u]
      /\ adm'[t].at = "write"
      /\ adm'[t].op = adm[t].op /\ adm'[t].actor = adm[t].actor
      /\ adm'[t].target = adm[t].target /\ adm'[t].role = adm[t].role
      /\ adm'[t].todo = adm[t].todo /\ adm'[t].found = adm[t].found
  BY <1>1, <1>4, Goes
<1>6. ~Somebody
  BY <1>1 DEF IdentityInv, NeverOrphaned, Somebody, Administrators
<1>7. Somebody' = Somebody /\ held' = held
  BY <1>1, SameTables
<1>8. Asked(t)'
  BY <1>1, <1>2, <1>3, <1>5, <1>7 DEF Asked
<1>9. Serialised(t)'
  BY <1>1, <1>2, <1>3, <1>7 DEF Serialised, HoldsAdministration
<1>10. Seen(t)'
  BY <1>3, <1>5, <1>6, <1>7 DEF Seen
<1>11. ManagerInv(t)'
  BY <1>8, <1>9, <1>10 DEF ManagerInv
<1> QED
  BY <1>1, <1>5, <1>11, ManagerMoves

-------------------------------------------------------------------------------
(* The commits of a manager *)

LEMMA ArchiveKeeps ==
  ASSUME IdentityInv, NEW t \in Managers, CommitArchive(t)
  PROVE  ManagerOutcome(t)
<1> DEFINE p == adm[t].target
           row == [principals[p] EXCEPT !.archived = TRUE]
<1>1. /\ adm[t].at = "write" /\ adm[t].op = "archive"
      /\ EndManage(t)
      /\ principals' = [principals EXCEPT ![p] = row]
      /\ UNCHANGED <<passwords, tokens, bootstrapped>>
  BY DEF CommitArchive, Write
<1>2. /\ Asked(t) /\ Serialised(t) /\ Seen(t)
      /\ IdentityTypeOK /\ bootstrapped \subseteq Users /\ Founded /\ BootstrapOnce
  BY DEF IdentityInv, ManagerInv, TypeOK, ManageTypeOK
<1>3. p \in Names /\ Somebody /\ <<p, "FOR UPDATE">> \in held[t]
  BY <1>1, <1>2 DEF Asked, Seen
<1>4. principals[p] \in PrincipalRow
  BY <1>2, <1>3 DEF IdentityTypeOK
<1>5. row \in PrincipalRow /\ row.role = principals[p].role
  <2>1. row \in PrincipalRow
    BY <1>4, Zenon DEF PrincipalRow
  <2> QED
    BY <1>4, <2>1 DEF PrincipalRow
<1> HIDE DEF row
<1>6. /\ principals' \in [Names -> PrincipalRow]
      /\ principals'[p] = row
      /\ \A x \in Names \ {p} : principals'[x] = principals[x]
  BY <1>1, <1>2, <1>3, <1>5 DEF IdentityTypeOK
<1>7. \A x \in Names : principals'[x].role = principals[x].role
  BY <1>5, <1>6
<1>8. /\ adm' \in [Managers -> ManagerLocals]
      /\ \A u \in Managers \ {t} : adm'[u] = adm[u]
      /\ held' \in [Transactions -> SUBSET ((Names \cup {Administration}) \X Modes)]
      /\ \A u \in Transactions \ {t} : held'[u] = held[u]
      /\ LocksCompatible'
      /\ ManagerInv(t)'
  BY <1>1, Ended
<1>9. /\ \A x \in Names : Exists(x)' <=> Exists(x)
      /\ Somebody' <=> Somebody
  BY <1>7 DEF Exists, Somebody
<1>10. \A u \in Users \ {p} : ActiveAdministrator(u) => ActiveAdministrator(u)'
  BY <1>1, <1>6 DEF ActiveAdministrator, Names
<1>11. IdentityTypeOK' /\ bootstrapped' \subseteq Users
  BY <1>1, <1>2, <1>6, <1>8 DEF IdentityTypeOK
<1>12. NeverOrphaned'
  <2>1. \E u \in Users : u # p /\ ActiveAdministrator(u)
    <3>1. CASE p \in Users /\ adm[t].found \ {p} # {}
      <4>1. PICK u \in adm[t].found : u # p
        BY <3>1
      <4>2. adm[t].found \subseteq Users
        BY DEF IdentityInv, TypeOK, ManageTypeOK, ManagerLocals
      <4> QED
        BY <1>2, <4>1, <4>2 DEF Seen
    <3>2. CASE p \notin Users \/ principals[p].role # "Admin"
      <4>1. PICK u \in Users : ActiveAdministrator(u)
        BY <1>3 DEF IdentityInv, NeverOrphaned, Somebody
      <4> QED
        BY <3>2, <4>1 DEF ActiveAdministrator
    <3> QED
      BY <1>1, <1>2, <3>1, <3>2 DEF Seen, Removal
  <2> QED
    BY <1>10, <2>1 DEF NeverOrphaned
<1>13. BootstrapOnce' /\ Founded'
  BY <1>1, <1>2, <1>9 DEF BootstrapOnce, Founded, Names
<1>14. Guarantee(t)
  <2>1. \A u \in Users : passwords'[u] \in Nat /\ passwords'[u] >= passwords[u]
    BY <1>1, <1>2 DEF IdentityTypeOK
  <2>2. DOMAIN tokens \subseteq DOMAIN tokens'
    BY <1>1
  <2>3. \A x \in Names : ~principals[x].archived /\ principals'[x].archived
                           => <<x, "FOR UPDATE">> \in held[t]
    BY <1>3, <1>6
  <2>4. p \in Users => HoldsAdministration(t)
    BY <1>1, <1>2 DEF Serialised, Removal
  <2>5. \A u \in Users : ActiveAdministrator(u) /\ ~ActiveAdministrator(u)'
                           => HoldsAdministration(t)
    BY <1>10, <2>4
  <2> QED
    BY <1>7, <1>8, <1>9, <2>1, <2>2, <2>3, <2>5 DEF Guarantee
<1> QED
  BY <1>8, <1>11, <1>12, <1>13, <1>14 DEF ManagerOutcome

LEMMA UpdateKeeps ==
  ASSUME IdentityInv, NEW t \in Managers, CommitUpdate(t)
  PROVE  ManagerOutcome(t)
<1> DEFINE p == adm[t].target
           role == IF adm[t].role = NULL THEN principals[p].role ELSE adm[t].role
           row == [principals[p] EXCEPT !.role = role]
<1>1. /\ adm[t].at = "write" /\ adm[t].op = "update"
      /\ EndManage(t)
      /\ principals' = [principals EXCEPT ![p] = row]
      /\ UNCHANGED <<passwords, tokens, bootstrapped>>
  BY DEF CommitUpdate, Write
<1>2. /\ Asked(t) /\ Serialised(t) /\ Seen(t) /\ adm[t] \in ManagerLocals
      /\ IdentityTypeOK /\ bootstrapped \subseteq Users /\ Founded /\ BootstrapOnce
  BY DEF IdentityInv, ManagerInv, TypeOK, ManageTypeOK
<1>3. p \in Names /\ Somebody /\ <<p, "UPDATE">> \in held[t]
  BY <1>1, <1>2 DEF Asked, Seen
<1>4. principals[p] \in PrincipalRow /\ adm[t].role \in Roles \cup {NULL}
  BY <1>2, <1>3 DEF IdentityTypeOK, ManagerLocals
<1>5. role \in Roles \cup {NULL} /\ (Exists(p) => role # NULL)
  BY <1>4 DEF PrincipalRow, Exists
<1>6. /\ row \in PrincipalRow
      /\ row.role = role /\ row.archived = principals[p].archived
  <2> HIDE DEF role
  <2>1. row \in PrincipalRow
    BY <1>4, <1>5, Zenon DEF PrincipalRow
  <2> QED
    BY <1>4, <2>1 DEF PrincipalRow
<1> HIDE DEF row
<1>7. /\ principals' \in [Names -> PrincipalRow]
      /\ principals'[p] = row
      /\ \A x \in Names \ {p} : principals'[x] = principals[x]
  BY <1>1, <1>2, <1>3, <1>6 DEF IdentityTypeOK
<1>8. \A x \in Names : principals'[x].archived = principals[x].archived
  BY <1>6, <1>7
<1>9. /\ adm' \in [Managers -> ManagerLocals]
      /\ \A u \in Managers \ {t} : adm'[u] = adm[u]
      /\ held' \in [Transactions -> SUBSET ((Names \cup {Administration}) \X Modes)]
      /\ \A u \in Transactions \ {t} : held'[u] = held[u]
      /\ LocksCompatible'
      /\ ManagerInv(t)'
  BY <1>1, Ended
<1>10. \A x \in Names : Exists(x) => Exists(x)'
  BY <1>5, <1>6, <1>7 DEF Exists
<1>11. \A u \in Users \ {p} : ActiveAdministrator(u) => ActiveAdministrator(u)'
  BY <1>1, <1>7 DEF ActiveAdministrator, Names
<1>12. ~Removal(adm[t]) => \A u \in Users : ActiveAdministrator(u) => ActiveAdministrator(u)'
  <2> SUFFICES ASSUME ~Removal(adm[t]), p \in Users, principals[p].role = "Admin",
                      ~principals[p].archived, passwords[p] > 0
               PROVE  principals'[p].role = "Admin"
    BY <1>1, <1>6, <1>7, <1>11 DEF ActiveAdministrator
  <2>1. adm[t].role # "User"
    BY <1>1 DEF Removal
  <2> QED
    BY <1>4, <1>6, <1>7, <2>1 DEF Roles
<1>13. IdentityTypeOK' /\ bootstrapped' \subseteq Users
  BY <1>1, <1>2, <1>7, <1>9 DEF IdentityTypeOK
<1>14. NeverOrphaned'
  <2>1. CASE ~Removal(adm[t])
    BY <1>3, <1>12, <2>1 DEF IdentityInv, NeverOrphaned, Somebody
  <2>2. CASE Removal(adm[t])
    <3>1. PICK u \in adm[t].found : u # p
      BY <1>1, <1>2, <2>2 DEF Seen
    <3>2. u \in Users /\ ActiveAdministrator(u)
      BY <1>2, <3>1 DEF Seen, ManagerLocals
    <3> QED
      BY <1>11, <3>1, <3>2 DEF NeverOrphaned
  <2> QED
    BY <2>1, <2>2
<1>15. BootstrapOnce' /\ Founded'
  BY <1>1, <1>2, <1>10 DEF BootstrapOnce, Founded, Names
<1>16. Guarantee(t)
  <2>1. \A u \in Users : passwords'[u] \in Nat /\ passwords'[u] >= passwords[u]
    BY <1>1, <1>2 DEF IdentityTypeOK
  <2>2. DOMAIN tokens \subseteq DOMAIN tokens'
    BY <1>1
  <2>3. \A x \in Names : Exists(x) /\ principals'[x].role # principals[x].role
                           => <<x, "UPDATE">> \in held[t]
    BY <1>3, <1>7
  <2>4. \A u \in Users : ActiveAdministrator(u) /\ ~ActiveAdministrator(u)'
                           => HoldsAdministration(t)
    BY <1>1, <1>2, <1>12 DEF Serialised
  <2> QED
    BY <1>3, <1>8, <1>9, <1>10, <2>1, <2>2, <2>3, <2>4 DEF Guarantee
<1> QED
  BY <1>9, <1>13, <1>14, <1>15, <1>16 DEF ManagerOutcome

(* A principal that is inserted takes no row of another. *)
LEMMA InsertKeeps ==
  ASSUME IdentityInv, NEW p \in Names, NEW role \in Roles, Insert(p, role)
  PROVE  /\ ~Exists(p) /\ Somebody'
         /\ principals' \in [Names -> PrincipalRow] /\ passwords' \in [Users -> Nat]
         /\ \A u \in Users : passwords'[u] \in Nat /\ passwords'[u] >= passwords[u]
         /\ \A x \in Names : Exists(x) => Exists(x)'
         /\ \A x \in Names : Exists(x) => principals'[x] = principals[x]
         /\ \A x \in Names : ~principals[x].archived => ~principals'[x].archived
         /\ \A u \in Users : ActiveAdministrator(u) => ActiveAdministrator(u)'
         /\ \A u \in Users : passwords'[u] > 0 => Exists(u)'
         /\ p \in Users /\ role = "Admin" => ActiveAdministrator(p)'
<1> DEFINE row == [role |-> role, archived |-> FALSE]
<1>1. /\ ~Exists(p)
      /\ principals' = [principals EXCEPT ![p] = row]
      /\ passwords' = [u \in Users |-> IF u = p THEN 1 ELSE passwords[u]]
  BY DEF Insert
<1>2. IdentityTypeOK /\ Founded
  BY DEF IdentityInv, TypeOK
<1>3. /\ row \in PrincipalRow /\ row.role = role /\ ~row.archived
      /\ role # NULL
  BY NullAssumption DEF PrincipalRow, Roles
<1> HIDE DEF row
<1>4. /\ principals' \in [Names -> PrincipalRow]
      /\ principals'[p] = row
      /\ \A x \in Names \ {p} : principals'[x] = principals[x]
  BY <1>1, <1>2, <1>3 DEF IdentityTypeOK
<1>5. /\ passwords' \in [Users -> Nat]
      /\ \A u \in Users \ {p} : passwords'[u] = passwords[u]
      /\ p \in Users => passwords'[p] = 1
  BY <1>1, <1>2 DEF IdentityTypeOK
<1>6. \A u \in Users : passwords[u] \in Nat
  BY <1>2 DEF IdentityTypeOK
<1>7. p \in Users => passwords[p] = 0
  BY <1>1, <1>2, <1>6 DEF Founded
<1>8. \A u \in Users : passwords'[u] \in Nat /\ passwords'[u] >= passwords[u]
  BY <1>5, <1>6, <1>7
<1>9. Exists(p)'
  BY <1>3, <1>4 DEF Exists
<1>10. Somebody'
  BY <1>9 DEF Somebody
<1>11. \A x \in Names : Exists(x) => principals'[x] = principals[x] /\ Exists(x)'
  BY <1>1, <1>4 DEF Exists
<1>12. \A x \in Names : ~principals[x].archived => ~principals'[x].archived
  BY <1>3, <1>4
<1>13. \A u \in Users : ActiveAdministrator(u) => ActiveAdministrator(u)'
  <2>1. \A u \in Users : principals[u].role = "Admin" => Exists(u)
    BY NullAssumption DEF Exists
  <2>2. \A u \in Users : ActiveAdministrator(u) => u # p
    BY <1>1, <2>1 DEF ActiveAdministrator
  <2> QED
    BY <1>4, <1>5, <2>2 DEF ActiveAdministrator, Names
<1>14. \A u \in Users : passwords'[u] > 0 => Exists(u)'
  BY <1>2, <1>5, <1>9, <1>11 DEF Founded, Names
<1>15. p \in Users /\ role = "Admin" => ActiveAdministrator(p)'
  BY <1>3, <1>4, <1>5 DEF ActiveAdministrator
<1> QED
  BY <1>1, <1>4, <1>5, <1>8, <1>10, <1>11, <1>12, <1>13, <1>14, <1>15

LEMMA CreateKeeps ==
  ASSUME IdentityInv, NEW t \in Managers, CommitCreate(t)
  PROVE  ManagerOutcome(t)
<1> DEFINE p == adm[t].target
           role == adm[t].role
<1>1. /\ adm[t].at = "write" /\ adm[t].op = "create"
      /\ EndManage(t)
      /\ Insert(p, role)
      /\ UNCHANGED <<tokens, bootstrapped>>
  BY DEF CommitCreate, Write
<1>2. Asked(t) /\ adm[t] \in ManagerLocals /\ IdentityTypeOK /\ bootstrapped \subseteq Users
  BY DEF IdentityInv, ManagerInv, TypeOK, ManageTypeOK
<1>3. p \in Names /\ role \in Roles /\ Somebody
  <2>1. p \in Names /\ role # NULL /\ Somebody
    BY <1>1, <1>2 DEF Asked
  <2>2. role \in Roles \cup {NULL}
    BY <1>2 DEF ManagerLocals
  <2> QED
    BY <2>1, <2>2
<1> HIDE DEF p, role
<1>4. /\ principals' \in [Names -> PrincipalRow] /\ passwords' \in [Users -> Nat]
      /\ \A u \in Users : passwords'[u] \in Nat /\ passwords'[u] >= passwords[u]
      /\ \A x \in Names : Exists(x) => Exists(x)'
      /\ \A x \in Names : Exists(x) => principals'[x] = principals[x]
      /\ \A x \in Names : ~principals[x].archived => ~principals'[x].archived
      /\ \A u \in Users : ActiveAdministrator(u) => ActiveAdministrator(u)'
      /\ \A u \in Users : passwords'[u] > 0 => Exists(u)'
  BY <1>1, <1>3, InsertKeeps
<1>5. /\ adm' \in [Managers -> ManagerLocals]
      /\ \A u \in Managers \ {t} : adm'[u] = adm[u]
      /\ held' \in [Transactions -> SUBSET ((Names \cup {Administration}) \X Modes)]
      /\ \A u \in Transactions \ {t} : held'[u] = held[u]
      /\ LocksCompatible'
      /\ ManagerInv(t)'
  BY <1>1, Ended
<1>6. IdentityTypeOK' /\ bootstrapped' \subseteq Users
  BY <1>1, <1>2, <1>4, <1>5 DEF IdentityTypeOK
<1>7. NeverOrphaned'
  BY <1>3, <1>4 DEF IdentityInv, NeverOrphaned, Somebody
<1>8. BootstrapOnce' /\ Founded'
  BY <1>1, <1>2, <1>4 DEF IdentityInv, BootstrapOnce, Founded, Names
<1>9. Guarantee(t)
  BY <1>1, <1>3, <1>4, <1>5 DEF Guarantee
<1> QED
  BY <1>5, <1>6, <1>7, <1>8, <1>9 DEF ManagerOutcome

(* Nobody was there: the new administrator is the only one of its kind. *)
LEMMA BootstrapKeeps ==
  ASSUME IdentityInv, NEW t \in Managers, CommitBootstrap(t)
  PROVE  ManagerOutcome(t)
<1> PICK p : p = adm[t].target
  OBVIOUS
<1>1. /\ adm[t].at = "write" /\ adm[t].op = "bootstrap"
      /\ EndManage(t)
      /\ Insert(p, "Admin")
      /\ bootstrapped' = bootstrapped \cup {p}
      /\ UNCHANGED tokens
  BY DEF CommitBootstrap, Write
<1>2. /\ Asked(t) /\ Serialised(t) /\ Seen(t)
      /\ IdentityTypeOK /\ bootstrapped \subseteq Users /\ Founded
  BY DEF IdentityInv, ManagerInv, TypeOK, ManageTypeOK
<1>3. p \in Users /\ p \in Names /\ "Admin" \in Roles
  BY <1>1, <1>2 DEF Asked, Names, Roles
<1>4. ~Somebody /\ HoldsAdministration(t)
  BY <1>1, <1>2 DEF Seen, Serialised
<1>5. bootstrapped = {}
  BY <1>2, <1>4 DEF Founded, Somebody, Names
<1>6. /\ principals' \in [Names -> PrincipalRow] /\ passwords' \in [Users -> Nat]
      /\ \A u \in Users : passwords'[u] \in Nat /\ passwords'[u] >= passwords[u]
      /\ \A x \in Names : Exists(x) => Exists(x)'
      /\ \A x \in Names : Exists(x) => principals'[x] = principals[x]
      /\ \A x \in Names : ~principals[x].archived => ~principals'[x].archived
      /\ \A u \in Users : ActiveAdministrator(u) => ActiveAdministrator(u)'
      /\ \A u \in Users : passwords'[u] > 0 => Exists(u)'
      /\ ActiveAdministrator(p)'
  BY <1>1, <1>3, InsertKeeps
<1>7. /\ adm' \in [Managers -> ManagerLocals]
      /\ \A u \in Managers \ {t} : adm'[u] = adm[u]
      /\ held' \in [Transactions -> SUBSET ((Names \cup {Administration}) \X Modes)]
      /\ \A u \in Transactions \ {t} : held'[u] = held[u]
      /\ LocksCompatible'
      /\ ManagerInv(t)'
  BY <1>1, Ended
<1>8. IdentityTypeOK' /\ bootstrapped' \subseteq Users
  BY <1>1, <1>2, <1>3, <1>6, <1>7 DEF IdentityTypeOK
<1>9. NeverOrphaned'
  <2>1. \E u \in Users : ActiveAdministrator(u)'
    BY <1>3, <1>6
  <2> QED
    BY <2>1 DEF NeverOrphaned
<1>10. BootstrapOnce'
  BY <1>1, <1>5 DEF BootstrapOnce
<1>11. Founded'
  <2>1. Exists(p)'
    BY <1>6, NullAssumption DEF ActiveAdministrator, Exists
  <2>2. \A u \in bootstrapped' : u = p
    BY <1>1, <1>5
  <2> QED
    BY <1>6, <2>1, <2>2 DEF Founded
<1>12. Guarantee(t)
  BY <1>1, <1>4, <1>6, <1>7 DEF Guarantee
<1> QED
  BY <1>7, <1>8, <1>9, <1>10, <1>11, <1>12 DEF ManagerOutcome

LEMMA ManagersKeep ==
  ASSUME IdentityInv, ManageNext, UNCHANGED <<ses, memberships>>
  PROVE  IdentityInv'
<1>1. \E t \in Managers : ManagerOutcome(t)
  <2>1. PICK t \in Managers : BeginManage(t) \/ ManageStep(t) \/ AbortManage(t)
    BY DEF ManageNext
  <2>2. CASE BeginManage(t)
    BY <2>2, BeginKeeps DEF BeginManage
  <2>3. CASE AbortManage(t)
    BY <2>3, RefusalKeeps DEF AbortManage
  <2>4. CASE ManageStep(t)
    <3>1. CASE LockAdministration(t)
      BY <3>1, LockAdministrationKeeps
    <3>2. CASE LockTarget(t)
      BY <3>2, LockTargetKeeps
    <3>3. CASE NotFound(t) \/ RefuseFinal(t) \/ NameTaken(t) \/ RefuseBootstrap(t)
      BY <3>3, RefusalKeeps DEF NotFound, RefuseFinal, NameTaken, RefuseBootstrap
    <3>4. CASE ScanAdministrators(t)
      BY <3>4, ScanKeeps
    <3>5. CASE \E u \in Users : LockAdministrator(t, u)
      BY <3>5, LockAdministratorKeeps
    <3>6. CASE NotFinal(t)
      BY <3>6, NotFinalKeeps
    <3>7. CASE LockRow(t)
      BY <3>7, LockRowKeeps
    <3>8. CASE CommitArchive(t)
      BY <3>8, ArchiveKeeps
    <3>9. CASE CommitUpdate(t)
      BY <3>9, UpdateKeeps
    <3>10. CASE CommitCreate(t)
      BY <3>10, CreateKeeps
    <3>11. CASE FindNoAdministrator(t)
      BY <3>11, FindNoAdministratorKeeps
    <3>12. CASE CommitBootstrap(t)
      BY <3>12, BootstrapKeeps
    <3> QED
      BY <2>4, <3>1, <3>2, <3>3, <3>4, <3>5, <3>6, <3>7, <3>8, <3>9, <3>10, <3>11, <3>12
         DEF ManageStep
  <2> QED
    BY <2>1, <2>2, <2>3, <2>4
<1>2. PICK t \in Managers : ManagerOutcome(t)
  BY <1>1
<1>3. t \in Transactions
  BY TransactionsNamed
<1>4. \A u \in Managers : ManagerInv(u)'
  <2> SUFFICES ASSUME NEW u \in Managers, u # t PROVE ManagerInv(u)'
    BY <1>2 DEF ManagerOutcome
  <2>1. Rely(u)
    BY <1>2, <1>3, GuaranteesSuffice, TransactionsNamed DEF ManagerOutcome
  <2> QED
    BY <1>2, <2>1, ManagersRely DEF ManagerOutcome
<1>5. \A u \in Sessions : SessionInv(u)'
  <2> SUFFICES ASSUME NEW u \in Sessions PROVE SessionInv(u)'
    OBVIOUS
  <2>1. Rely(u)
    BY <1>2, <1>3, GuaranteesSuffice, TransactionsNamed DEF ManagerOutcome
  <2> QED
    BY <2>1, SessionsRely
<1>6. TypeOK'
  BY <1>2 DEF ManagerOutcome, IdentityInv, TypeOK, ManageTypeOK, SessionTypeOK, memberships
<1> QED
  BY <1>2, <1>4, <1>5, <1>6 DEF ManagerOutcome, IdentityInv

-------------------------------------------------------------------------------
(* The steps of a session *)

SessionOutcome(t) ==
  /\ SessionTypeOK' /\ IdentityTypeOK'
  /\ \A u \in Sessions \ {t} : ses'[u] = ses[u]
  /\ LocksCompatible'
  /\ NeverOrphaned' /\ BootstrapOnce' /\ Founded'
  /\ SessionInv(t)'
  /\ Guarantee(t)

LEMMA SessionRowKept ==
  ASSUME IdentityInv, NEW t \in Sessions, NEW row \in SessionLocals,
         ses' = [ses EXCEPT ![t] = row]
  PROVE  /\ ses' \in [Sessions -> SessionLocals]
         /\ ses'[t] = row
         /\ \A u \in Sessions \ {t} : ses'[u] = ses[u]
BY DEF IdentityInv, TypeOK, SessionTypeOK

(* Sessions leave principals as they are, and passwords where they are. *)
LEMMA PrincipalsStay ==
  ASSUME IdentityInv, NEW t \in Sessions, UNCHANGED <<principals, bootstrapped>>,
         \A u \in Transactions \ {t} : held'[u] = held[u],
         \A u \in Users : /\ passwords'[u] \in Nat /\ passwords'[u] >= passwords[u]
                          /\ passwords'[u] > 0 => passwords[u] > 0,
         DOMAIN tokens \subseteq DOMAIN tokens'
  PROVE  NeverOrphaned' /\ BootstrapOnce' /\ Founded' /\ Guarantee(t)
<1>1. /\ \A p : Exists(p)' <=> Exists(p)
      /\ Somebody' <=> Somebody
  BY DEF Exists, Somebody
<1>2. \A u \in Users : ActiveAdministrator(u) => ActiveAdministrator(u)'
  <2>1. \A u \in Users : passwords[u] \in Nat
    BY DEF IdentityInv, TypeOK, IdentityTypeOK
  <2> QED
    BY <2>1 DEF ActiveAdministrator
<1>3. NeverOrphaned'
  BY <1>1, <1>2 DEF IdentityInv, NeverOrphaned, Somebody
<1>4. BootstrapOnce'
  BY DEF IdentityInv, BootstrapOnce
<1>5. Founded'
  BY <1>1 DEF IdentityInv, Founded
<1>6. \A p \in Names : principals'[p] = principals[p]
  OBVIOUS
<1>7. Guarantee(t)
  BY <1>1, <1>2, <1>6 DEF Guarantee
<1> QED
  BY <1>3, <1>4, <1>5, <1>7

LEMMA SessionEnded ==
  ASSUME IdentityInv, NEW t \in Sessions, EndSession(t)
  PROVE  /\ ses' \in [Sessions -> SessionLocals]
         /\ \A u \in Sessions \ {t} : ses'[u] = ses[u]
         /\ held' \in [Transactions -> SUBSET ((Names \cup {Administration}) \X Modes)]
         /\ \A u \in Transactions \ {t} : held'[u] = held[u]
         /\ LocksCompatible'
         /\ SessionInv(t)'
<1>1. IdleSession \in SessionLocals
  BY DEF IdleSession, SessionLocals, Use
<1>2. ses' = [ses EXCEPT ![t] = IdleSession] /\ Unlock(t)
  BY DEF EndSession
<1>3. /\ ses' \in [Sessions -> SessionLocals]
      /\ ses'[t] = IdleSession
      /\ \A u \in Sessions \ {t} : ses'[u] = ses[u]
  BY <1>1, <1>2, SessionRowKept
<1>4. SessionInv(t)'
  BY <1>3 DEF SessionInv, Requested, Presented, IdleSession
<1> QED
  BY <1>2, <1>3, <1>4, LocksGiven, TransactionsNamed

(* A commit that writes tokens, passwords, groups or memberships. *)
LEMMA SessionCommits ==
  ASSUME IdentityInv, NEW t \in Sessions, EndSession(t), UNCHANGED <<principals, bootstrapped>>,
         passwords' \in [Users -> Nat],
         \A u \in Users : /\ passwords'[u] >= passwords[u]
                          /\ passwords'[u] > 0 => passwords[u] > 0,
         tokens' \in Seq(TokenRow), DOMAIN tokens \subseteq DOMAIN tokens',
         groups' \in [Groups -> {"none", "active", "archived"}],
         members' \subseteq Groups \X Users
  PROVE  SessionOutcome(t)
<1>1. /\ ses' \in [Sessions -> SessionLocals]
      /\ \A u \in Sessions \ {t} : ses'[u] = ses[u]
      /\ held' \in [Transactions -> SUBSET ((Names \cup {Administration}) \X Modes)]
      /\ \A u \in Transactions \ {t} : held'[u] = held[u]
      /\ LocksCompatible'
      /\ SessionInv(t)'
  BY SessionEnded
<1>2. \A u \in Users : /\ passwords'[u] \in Nat /\ passwords'[u] >= passwords[u]
                       /\ passwords'[u] > 0 => passwords[u] > 0
  OBVIOUS
<1>3. NeverOrphaned' /\ BootstrapOnce' /\ Founded' /\ Guarantee(t)
  BY <1>1, <1>2, PrincipalsStay
<1>4. SessionTypeOK' /\ IdentityTypeOK'
  BY <1>1 DEF SessionTypeOK, IdentityInv, TypeOK, IdentityTypeOK
<1> QED
  BY <1>1, <1>3, <1>4 DEF SessionOutcome

LEMMA SessionRefusal ==
  ASSUME IdentityInv, NEW t \in Sessions, EndSession(t),
         UNCHANGED <<identity, memberships, bootstrapped>>
  PROVE  SessionOutcome(t)
<1>1. /\ passwords \in [Users -> Nat] /\ tokens \in Seq(TokenRow)
      /\ groups \in [Groups -> {"none", "active", "archived"}]
      /\ members \subseteq Groups \X Users
  BY DEF IdentityInv, TypeOK, IdentityTypeOK, SessionTypeOK
<1>2. \A u \in Users : passwords[u] >= passwords[u]
  BY <1>1
<1>3. UNCHANGED <<principals, passwords, tokens, groups, members, bootstrapped>>
  BY DEF identity, memberships
<1> QED
  BY <1>1, <1>2, <1>3, SessionCommits

(* A step that only moves on, with the locks it has or one more. *)
LEMMA SessionMoves ==
  ASSUME IdentityInv, NEW t \in Sessions, UNCHANGED <<identity, memberships, bootstrapped>>,
         \/ UNCHANGED held
         \/ \E what \in Names \cup {Administration}, mode \in Modes : Lock(t, what, mode),
         NEW row \in SessionLocals, ses' = [ses EXCEPT ![t] = row],
         SessionInv(t)'
  PROVE  SessionOutcome(t)
<1>1. t \in Transactions
  BY TransactionsNamed
<1>2. /\ held' \in [Transactions -> SUBSET ((Names \cup {Administration}) \X Modes)]
      /\ \A u \in Transactions \ {t} : held'[u] = held[u]
      /\ LocksCompatible'
  <2>1. CASE UNCHANGED held
    BY <2>1 DEF IdentityInv, TypeOK, IdentityTypeOK, LocksCompatible
  <2>2. CASE \E what \in Names \cup {Administration}, mode \in Modes : Lock(t, what, mode)
    <3>1. PICK what \in Names \cup {Administration}, mode \in Modes : Lock(t, what, mode)
      BY <2>2
    <3> QED
      BY <1>1, <3>1, LockTaken
  <2> QED
    BY <2>1, <2>2
<1>3. NeverOrphaned' /\ BootstrapOnce' /\ Founded' /\ Guarantee(t)
  BY <1>1, <1>2, Quiet
<1>4. /\ ses' \in [Sessions -> SessionLocals]
      /\ \A u \in Sessions \ {t} : ses'[u] = ses[u]
  BY SessionRowKept
<1>5. SessionTypeOK' /\ IdentityTypeOK'
  BY <1>2, <1>4 DEF IdentityInv, TypeOK, IdentityTypeOK, SessionTypeOK, identity, memberships
<1> QED
  BY <1>2, <1>3, <1>4, <1>5 DEF SessionOutcome

LEMMA PasswordsCompare ==
  ASSUME IdentityInv, NEW u \in Users PROVE passwords[u] <= passwords[u]
BY DEF IdentityInv, TypeOK, IdentityTypeOK

LEMMA ArriveKeeps ==
  ASSUME IdentityInv, NEW t \in Sessions, NEW use \in Use,
         NEW actor \in Names, NEW target \in Names,
         NEW object \in Nat \cup Groups \cup {NULL}, NEW presented \in Nat,
         use \in SelfService \cup {"login"} => actor = target,
         use \in ForService => target \in Services,
         use \in OfUser => target \in Users,
         use \in {"revoke token", "revoke service token"} => object \in DOMAIN tokens,
         use \in {"create group", "archive group", "add member", "remove member"} =>
           object \in Groups,
         Arrive(t, use, actor, target, object, presented), UNCHANGED bootstrapped
  PROVE  SessionOutcome(t)
<1> DEFINE at == IF use \in {"login", "add member"} THEN "read" ELSE "write"
           current == IF target \in Users THEN passwords[target] ELSE 0
           row == [at |-> at, use |-> use, actor |-> actor, target |-> target,
                   object |-> object, presented |-> presented, current |-> current,
                   hash |-> 0]
<1>1. ses' = [ses EXCEPT ![t] = row] /\ UNCHANGED <<identity, memberships, held>>
  BY DEF Arrive
<1>2. \A u \in Users : passwords[u] \in Nat
  BY DEF IdentityInv, TypeOK, IdentityTypeOK
<1>3. at \in {"read", "write"} /\ current \in Nat
  BY <1>2
<1>4. target \in Users => current <= passwords[target]
  <2> SUFFICES ASSUME target \in Users PROVE current <= passwords[target]
    OBVIOUS
  <2>1. current = passwords[target]
    OBVIOUS
  <2>2. passwords[target] <= passwords[target]
    BY PasswordsCompare
  <2> HIDE DEF current
  <2> QED
    BY <2>1, <2>2, Zenon
<1> HIDE DEF at, current
<1>5. row \in SessionLocals
  BY <1>3 DEF SessionLocals
<1>6. /\ row.at = at /\ row.use = use /\ row.actor = actor /\ row.target = target
      /\ row.object = object /\ row.current = current
  OBVIOUS
<1> HIDE DEF row
<1>7. ses'[t] = row
  BY <1>1, <1>5, SessionRowKept
<1>8. UNCHANGED <<tokens, passwords>>
  BY <1>1 DEF identity
<1>9. Requested(t)'
  BY <1>3, <1>6, <1>7, <1>8 DEF Requested
<1>10. Presented(t)'
  BY <1>3, <1>4, <1>6, <1>7, <1>8 DEF Presented
<1>11. SessionInv(t)'
  BY <1>9, <1>10 DEF SessionInv
<1> QED
  BY <1>1, <1>5, <1>11, SessionMoves

LEMMA ReadCredentialKeeps ==
  ASSUME IdentityInv, NEW t \in Sessions, ReadCredential(t), UNCHANGED bootstrapped
  PROVE  SessionOutcome(t)
<1> DEFINE hash == passwords[ses[t].target]
           row == [ses[t] EXCEPT !.at = "lock", !.hash = hash]
<1>1. /\ ses[t].at = "read" /\ ses[t].use = "login"
      /\ ses' = [ses EXCEPT ![t] = row]
      /\ UNCHANGED <<identity, memberships, held>>
  BY DEF ReadCredential
<1>2. Requested(t) /\ Presented(t) /\ ses[t] \in SessionLocals /\ IdentityTypeOK
  BY DEF IdentityInv, SessionInv, TypeOK, SessionTypeOK
<1>3. ses[t].target \in Users
  BY <1>1, <1>2 DEF Requested, OfUser
<1>4. hash \in Nat /\ ses[t].current <= hash
  BY <1>1, <1>2, <1>3 DEF IdentityTypeOK, Presented
<1> HIDE DEF hash
<1>5. row \in SessionLocals
  BY <1>2, <1>4, Zenon DEF SessionLocals
<1>6. /\ row.at = "lock" /\ row.hash = hash /\ row.use = ses[t].use
      /\ row.actor = ses[t].actor /\ row.target = ses[t].target
      /\ row.object = ses[t].object /\ row.current = ses[t].current
  BY <1>2 DEF SessionLocals
<1> HIDE DEF row
<1>7. ses'[t] = row
  BY <1>1, <1>5, SessionRowKept
<1>8. UNCHANGED <<tokens, passwords>>
  BY <1>1 DEF identity
<1>9. Requested(t)'
  BY <1>1, <1>2, <1>6, <1>7, <1>8 DEF Requested
<1>10. Presented(t)'
  BY <1>1, <1>2, <1>4, <1>6, <1>7, <1>8 DEF Presented
<1>11. SessionInv(t)'
  BY <1>9, <1>10 DEF SessionInv
<1> QED
  BY <1>1, <1>5, <1>11, SessionMoves

LEMMA LockLoginKeeps ==
  ASSUME IdentityInv, NEW t \in Sessions, LockLogin(t), UNCHANGED bootstrapped
  PROVE  SessionOutcome(t)
<1> DEFINE row == [ses[t] EXCEPT !.at = "verify"]
<1>1. /\ ses[t].at = "lock" /\ ~principals[ses[t].target].archived
      /\ Lock(t, ses[t].target, "FOR UPDATE")
      /\ ses' = [ses EXCEPT ![t] = row]
      /\ UNCHANGED <<identity, memberships>>
  BY DEF LockLogin
<1>2. Requested(t) /\ Presented(t) /\ ses[t] \in SessionLocals
  BY DEF IdentityInv, SessionInv, TypeOK, SessionTypeOK
<1>3. ses[t].target \in Names
  BY <1>1, <1>2 DEF Requested
<1>4. row \in SessionLocals
  BY <1>2, Zenon DEF SessionLocals
<1>5. /\ row.at = "verify" /\ row.hash = ses[t].hash /\ row.use = ses[t].use
      /\ row.actor = ses[t].actor /\ row.target = ses[t].target
      /\ row.object = ses[t].object /\ row.current = ses[t].current
  BY <1>2 DEF SessionLocals
<1> HIDE DEF row
<1>6. ses'[t] = row
  BY <1>1, <1>4, SessionRowKept
<1>7. held'[t] = held[t] \cup {<<ses[t].target, "FOR UPDATE">>}
  <2>1. "FOR UPDATE" \in Modes /\ ses[t].target \in Names \cup {Administration} /\ t \in Transactions
    BY <1>3, TransactionsNamed DEF Modes
  <2> QED
    BY <1>1, <2>1, LockTaken
<1>8. UNCHANGED <<tokens, passwords, principals>>
  BY <1>1 DEF identity
<1>9. Requested(t)'
  BY <1>1, <1>2, <1>5, <1>6, <1>8 DEF Requested
<1>10. Presented(t)'
  BY <1>1, <1>2, <1>5, <1>6, <1>7, <1>8 DEF Presented
<1>11. SessionInv(t)'
  BY <1>9, <1>10 DEF SessionInv
<1>12. \E what \in Names \cup {Administration}, mode \in Modes : Lock(t, what, mode)
  BY <1>1, <1>3 DEF Modes
<1> QED
  BY <1>1, <1>4, <1>11, <1>12, SessionMoves

LEMMA CheckJoinerKeeps ==
  ASSUME IdentityInv, NEW t \in Sessions, CheckJoiner(t), UNCHANGED bootstrapped
  PROVE  SessionOutcome(t)
<1> DEFINE row == [ses[t] EXCEPT !.at = "write"]
<1>1. /\ ses[t].at = "read" /\ ses' = [ses EXCEPT ![t] = row]
      /\ UNCHANGED <<identity, memberships, held>>
  BY DEF CheckJoiner
<1>2. Requested(t) /\ Presented(t) /\ ses[t] \in SessionLocals
  BY DEF IdentityInv, SessionInv, TypeOK, SessionTypeOK
<1>3. row \in SessionLocals
  BY <1>2, Zenon DEF SessionLocals
<1>4. /\ row.at = "write" /\ row.use = ses[t].use
      /\ row.actor = ses[t].actor /\ row.target = ses[t].target
      /\ row.object = ses[t].object /\ row.current = ses[t].current
  BY <1>2 DEF SessionLocals
<1> HIDE DEF row
<1>5. ses'[t] = row
  BY <1>1, <1>3, SessionRowKept
<1>6. UNCHANGED <<tokens, passwords>>
  BY <1>1 DEF identity
<1>7. SessionInv(t)'
  BY <1>1, <1>2, <1>4, <1>5, <1>6 DEF SessionInv, Requested, Presented
<1> QED
  BY <1>1, <1>3, <1>7, SessionMoves

-------------------------------------------------------------------------------
(* The commits of a session *)

LEMMA TokenIssued ==
  ASSUME IdentityInv, NEW p \in Names, NEW name \in {"login", "api"}, IssueToken(p, name)
  PROVE  /\ tokens' \in Seq(TokenRow)
         /\ DOMAIN tokens \subseteq DOMAIN tokens'
         /\ \A i \in DOMAIN tokens : tokens'[i] = tokens[i]
         /\ \A i \in DOMAIN tokens' \ DOMAIN tokens :
              tokens'[i].owner = p /\ tokens'[i].name = name
<1> DEFINE row == [owner |-> p, name |-> name, state |-> "valid"]
<1>1. tokens' = Append(tokens, row) /\ tokens \in Seq(TokenRow)
  BY DEF IssueToken, IdentityInv, TypeOK, IdentityTypeOK
<1>2. row \in TokenRow /\ row.owner = p /\ row.name = name
  BY DEF TokenRow
<1> HIDE DEF row
<1> QED
  BY <1>1, <1>2

LEMMA TokenRevoked ==
  ASSUME IdentityInv, NEW i \in DOMAIN tokens, NEW state \in {"valid", "revoked", "expired"},
         tokens' = [tokens EXCEPT ![i].state = state]
  PROVE  /\ tokens' \in Seq(TokenRow)
         /\ DOMAIN tokens' = DOMAIN tokens
         /\ \A j \in DOMAIN tokens : /\ tokens'[j].owner = tokens[j].owner
                                     /\ tokens'[j].name = tokens[j].name
         /\ \A j \in DOMAIN tokens : j # i => tokens'[j] = tokens[j]
<1> DEFINE row == [tokens[i] EXCEPT !.state = state]
           n == Len(tokens)
<1>1. tokens \in Seq(TokenRow) /\ tokens \in [1..n -> TokenRow] /\ n \in Nat
  BY DEF IdentityInv, TypeOK, IdentityTypeOK
<1>2. tokens[i] \in TokenRow
  BY <1>1
<1>3. row \in TokenRow
  BY <1>2, Zenon DEF TokenRow
<1>4. row.owner = tokens[i].owner /\ row.name = tokens[i].name
  BY <1>2 DEF TokenRow
<1>5. tokens' = [tokens EXCEPT ![i] = row]
  OBVIOUS
<1> HIDE DEF row, n
<1>6. tokens' \in [1..n -> TokenRow]
  BY <1>1, <1>3, <1>5
<1>7. tokens' \in Seq(TokenRow)
  BY <1>1, <1>6, SeqDef
<1> QED
  BY <1>1, <1>4, <1>5, <1>6, <1>7

(* What a session's commits leave as they are has its type already. *)
LEMMA SessionTables ==
  ASSUME IdentityInv
  PROVE  /\ passwords \in [Users -> Nat] /\ tokens \in Seq(TokenRow)
         /\ \A u \in Users : passwords[u] >= passwords[u]
         /\ groups \in [Groups -> {"none", "active", "archived"}]
         /\ members \subseteq Groups \X Users
BY DEF IdentityInv, TypeOK, IdentityTypeOK, SessionTypeOK

LEMMA TokenNumbers == IdentityInv => DOMAIN tokens \subseteq Nat
<1> SUFFICES ASSUME IdentityInv PROVE DOMAIN tokens \subseteq Nat
  OBVIOUS
<1>1. tokens \in Seq(TokenRow)
  BY SessionTables
<1>2. DOMAIN tokens = 1..Len(tokens) /\ Len(tokens) \in Nat
  BY <1>1
<1> QED
  BY <1>2

LEMMA TokenCommits ==
  ASSUME IdentityInv, NEW t \in Sessions, CommitLogin(t) \/ CommitToken(t),
         UNCHANGED bootstrapped
  PROVE  SessionOutcome(t)
<1>1. ses[t].target \in Names
  BY DEF IdentityInv, SessionInv, Requested, CommitLogin, CommitToken, Writes
<1>2. \E name \in {"login", "api"} : IssueToken(ses[t].target, name)
  BY DEF CommitLogin, CommitToken
<1>3. /\ EndSession(t) /\ UNCHANGED <<principals, passwords, groups, members>>
  BY DEF CommitLogin, CommitToken, Commit, memberships
<1>4. tokens' \in Seq(TokenRow) /\ DOMAIN tokens \subseteq DOMAIN tokens'
  BY <1>1, <1>2, TokenIssued
<1> QED
  BY <1>3, <1>4, SessionTables, SessionCommits

LEMMA RevokeKeeps ==
  ASSUME IdentityInv, NEW t \in Sessions, CommitRevoke(t), UNCHANGED bootstrapped
  PROVE  SessionOutcome(t)
<1>1. ses[t].object \in DOMAIN tokens
  BY DEF IdentityInv, SessionInv, Requested, CommitRevoke, Writes
<1>2. tokens' = [tokens EXCEPT ![ses[t].object].state = "revoked"]
  BY DEF CommitRevoke
<1>3. EndSession(t) /\ UNCHANGED <<principals, passwords, groups, members>>
  BY DEF CommitRevoke, Commit, memberships
<1>4. tokens' \in Seq(TokenRow) /\ DOMAIN tokens \subseteq DOMAIN tokens'
  BY <1>1, <1>2, TokenRevoked
<1> QED
  BY <1>3, <1>4, SessionTables, SessionCommits

LEMMA PasswordKeeps ==
  ASSUME IdentityInv, NEW t \in Sessions, CommitPassword(t), UNCHANGED bootstrapped
  PROVE  SessionOutcome(t)
<1> DEFINE u == ses[t].target
<1>1. u \in Users
  BY DEF IdentityInv, SessionInv, Requested, OfUser, CommitPassword, Writes
<1>2. /\ passwords[u] > 0
      /\ passwords' = [passwords EXCEPT ![u] = passwords[u] + 1]
      /\ EndSession(t) /\ UNCHANGED <<principals, tokens, groups, members>>
  <2>1. passwords[u] \in 1..(MaxPassword - 1)
    BY DEF CommitPassword
  <2>2. passwords[u] > 0
    BY <2>1, MaxPasswordAssumption
  <2> QED
    BY <2>2 DEF CommitPassword, Commit, memberships
<1>3. passwords \in [Users -> Nat]
  BY SessionTables
<1> HIDE DEF u
<1>4. /\ passwords' \in [Users -> Nat]
      /\ \A v \in Users : /\ passwords'[v] >= passwords[v]
                          /\ passwords'[v] > 0 => passwords[v] > 0
  BY <1>1, <1>2, <1>3
<1>5. DOMAIN tokens \subseteq DOMAIN tokens'
  BY <1>2
<1> QED
  BY <1>2, <1>4, <1>5, SessionTables, SessionCommits

LEMMA GroupCommits ==
  ASSUME IdentityInv, NEW t \in Sessions, CommitMember(t) \/ CommitGroup(t),
         UNCHANGED bootstrapped
  PROVE  SessionOutcome(t)
<1>1. EndSession(t) /\ UNCHANGED <<principals, passwords, tokens>>
  BY DEF CommitMember, CommitGroup, Commit, identity
<1>2. Requested(t)
  BY DEF IdentityInv, SessionInv
<1>3. /\ groups' \in [Groups -> {"none", "active", "archived"}]
      /\ members' \subseteq Groups \X Users
  <2>1. CASE CommitMember(t)
    <3>1. ses[t].object \in Groups /\ ses[t].target \in Users
      BY <1>2, <2>1 DEF CommitMember, Writes, Requested, OfUser
    <3>2. groups' = groups /\ members' = members \cup {<<ses[t].object, ses[t].target>>}
      BY <2>1 DEF CommitMember
    <3>3. <<ses[t].object, ses[t].target>> \in Groups \X Users
      BY <3>1
    <3> QED
      BY <3>2, <3>3, SessionTables
  <2>2. CASE CommitGroup(t)
    <3>1. CASE \E x \in {"active", "archived"} :
                 members' = members /\ groups' = [groups EXCEPT ![ses[t].object] = x]
      <4>1. PICK x \in {"active", "archived"} :
                 members' = members /\ groups' = [groups EXCEPT ![ses[t].object] = x]
        BY <3>1
      <4> QED
        BY <4>1, SessionTables
    <3>2. CASE groups' = groups /\ members' = members \ {<<ses[t].object, ses[t].target>>}
      BY <3>2, SessionTables
    <3> QED
      BY <2>2, <3>1, <3>2 DEF CommitGroup
  <2> QED
    BY <2>1, <2>2
<1> QED
  BY <1>1, <1>3, SessionTables, SessionCommits

LEMMA AnyArrivalKeeps ==
  ASSUME IdentityInv, NEW t \in Sessions, ArriveAny(t), UNCHANGED bootstrapped
  PROVE  SessionOutcome(t)
<1> USE DEF SelfService, Administrative, ForService, OfUser, Use
<1>1. CASE \E u \in Users : \E v \in 1..passwords[u] :
             "login" \in Uses /\ Arrive(t, "login", u, u, NULL, v)
  <2>1. PICK u \in Users : \E v \in 1..passwords[u] : Arrive(t, "login", u, u, NULL, v)
    BY <1>1
  <2>2. PICK v \in 1..passwords[u] : Arrive(t, "login", u, u, NULL, v)
    BY <2>1
  <2>3. u \in Names /\ v \in Nat
    BY SessionTables DEF Names
  <2> QED
    BY <2>2, <2>3, ArriveKeeps
<1>2. CASE \E use \in Uses \cap SelfService, p \in Names :
             /\ Authenticated(p)
             /\ use = "change password" => p \in Users
             /\ \E i \in IF use = "revoke token" THEN DOMAIN tokens ELSE {NULL} :
                  Arrive(t, use, p, p, i, 0)
  <2>1. PICK use \in SelfService, p \in Names :
             /\ use = "change password" => p \in Users
             /\ \E i \in IF use = "revoke token" THEN DOMAIN tokens ELSE {NULL} :
                  Arrive(t, use, p, p, i, 0)
    BY <1>2
  <2>2. PICK i : /\ Arrive(t, use, p, p, i, 0)
                 /\ use = "revoke token" => i \in DOMAIN tokens
                 /\ use # "revoke token" => i = NULL
    BY <2>1
  <2>3. i \in Nat \cup Groups \cup {NULL}
    BY <2>2, TokenNumbers
  <2> QED
    BY <2>1, <2>2, <2>3, ArriveKeeps
<1>3. CASE \E use \in Uses \cap (Administrative \cup {"add member"}), a \in Names, p \in Names :
             /\ Administrator(a)
             /\ use \in {"create service token", "revoke service token"} <=> p \in Services
             /\ \E o \in CASE use = "revoke service token" -> DOMAIN tokens
                           [] use \in {"reset password", "create service token"} -> {NULL}
                           [] OTHER -> Groups :
                  Arrive(t, use, a, p, o, 0)
  <2>1. PICK use \in Administrative \cup {"add member"}, a \in Names, p \in Names :
             /\ use \in {"create service token", "revoke service token"} <=> p \in Services
             /\ \E o \in CASE use = "revoke service token" -> DOMAIN tokens
                           [] use \in {"reset password", "create service token"} -> {NULL}
                           [] OTHER -> Groups :
                  Arrive(t, use, a, p, o, 0)
    BY <1>3
  <2>2. PICK o : /\ Arrive(t, use, a, p, o, 0)
                 /\ use = "revoke service token" => o \in DOMAIN tokens
                 /\ use \in {"reset password", "create service token"} => o = NULL
                 /\ use \notin {"revoke service token", "reset password",
                                "create service token"} => o \in Groups
    BY <2>1
  <2>3. o \in Nat \cup Groups \cup {NULL}
    BY <2>2, TokenNumbers
  <2>4. use \notin {"create service token", "revoke service token"} => p \in Users
    BY <2>1 DEF Names
  <2> QED
    BY <2>1, <2>2, <2>3, <2>4, ArriveKeeps
<1> QED
  BY <1>1, <1>2, <1>3 DEF ArriveAny

LEMMA SessionsKeep ==
  ASSUME IdentityInv, SessionNext, UNCHANGED <<adm, bootstrapped>>
  PROVE  IdentityInv'
<1>1. \E t \in Sessions : SessionOutcome(t)
  <2>1. PICK t \in Sessions : ArriveAny(t) \/ SessionStep(t) \/ AbortSession(t)
    BY DEF SessionNext
  <2>2. CASE ArriveAny(t)
    BY <2>2, AnyArrivalKeeps
  <2>3. CASE AbortSession(t)
    BY <2>3, SessionRefusal DEF AbortSession
  <2>4. CASE SessionStep(t)
    <3>1. CASE ReadCredential(t)
      BY <3>1, ReadCredentialKeeps
    <3>2. CASE LockLogin(t)
      BY <3>2, LockLoginKeeps
    <3>3. CASE RefuseLogin(t)
      BY <3>3, SessionRefusal DEF RefuseLogin
    <3>4. CASE CommitLogin(t) \/ CommitToken(t)
      BY <3>4, TokenCommits
    <3>5. CASE CommitPassword(t)
      BY <3>5, PasswordKeeps
    <3>6. CASE CommitRevoke(t)
      BY <3>6, RevokeKeeps
    <3>7. CASE CheckJoiner(t)
      BY <3>7, CheckJoinerKeeps
    <3>8. CASE CommitMember(t) \/ CommitGroup(t)
      BY <3>8, GroupCommits
    <3> QED
      BY <2>4, <3>1, <3>2, <3>3, <3>4, <3>5, <3>6, <3>7, <3>8 DEF SessionStep
  <2> QED
    BY <2>1, <2>2, <2>3, <2>4
<1>2. PICK t \in Sessions : SessionOutcome(t)
  BY <1>1
<1>3. t \in Transactions
  BY TransactionsNamed
<1>4. \A u \in Managers : ManagerInv(u)'
  <2> SUFFICES ASSUME NEW u \in Managers PROVE ManagerInv(u)'
    OBVIOUS
  <2>1. Rely(u)
    BY <1>2, <1>3, GuaranteesSuffice, TransactionsNamed DEF SessionOutcome
  <2> QED
    BY <2>1, ManagersRely
<1>5. \A u \in Sessions : SessionInv(u)'
  <2> SUFFICES ASSUME NEW u \in Sessions, u # t PROVE SessionInv(u)'
    BY <1>2 DEF SessionOutcome
  <2>1. Rely(u)
    BY <1>2, <1>3, GuaranteesSuffice, TransactionsNamed DEF SessionOutcome
  <2> QED
    BY <1>2, <2>1, SessionsRely DEF SessionOutcome
<1>6. TypeOK'
  BY <1>2 DEF SessionOutcome, IdentityInv, TypeOK, ManageTypeOK
<1> QED
  BY <1>2, <1>4, <1>5, <1>6 DEF SessionOutcome, IdentityInv

-------------------------------------------------------------------------------

LEMMA IdentityInitially == Init => IdentityInv
<1> SUFFICES ASSUME NEW i \in Installations, Installed(i) PROVE IdentityInv
  BY DEF Init
<1> DEFINE row(n) == [owner |-> i.owners[n], name |-> "api", state |-> "valid"]
<1>1. /\ i.principals \in [Names -> PrincipalRow] /\ i.passwords \in [Users -> Nat]
      /\ i.owners \in Seq(Names)
  BY InstallationsAssumption
<1>2. /\ principals = i.principals /\ passwords = i.passwords
      /\ tokens = [n \in DOMAIN i.owners |-> row(n)]
      /\ held = [t \in Transactions |-> {}]
      /\ adm = [t \in Managers |-> IdleManager]
      /\ bootstrapped = {}
      /\ ses = [t \in Sessions |-> IdleSession]
      /\ groups = [g \in Groups |-> "none"] /\ members = {}
  BY DEF Installed
<1>3. tokens \in Seq(TokenRow)
  <2>1. DOMAIN i.owners = 1..Len(i.owners) /\ Len(i.owners) \in Nat
    BY <1>1
  <2>2. \A n \in DOMAIN i.owners : row(n) \in TokenRow
    <3> SUFFICES ASSUME NEW n \in DOMAIN i.owners PROVE row(n) \in TokenRow
      OBVIOUS
    <3>1. i.owners[n] \in Names
      BY <1>1
    <3> QED
      BY <3>1 DEF TokenRow
  <2> HIDE DEF row
  <2>3. tokens \in [1..Len(i.owners) -> TokenRow]
    BY <1>2, <2>1, <2>2
  <2> QED
    BY <2>1, <2>3, SeqDef
<1>4. IdleManager \in ManagerLocals /\ IdleSession \in SessionLocals
  BY DEF IdleManager, ManagerLocals, IdleSession, SessionLocals, Use
<1>5. TypeOK
  BY <1>1, <1>2, <1>3, <1>4 DEF TypeOK, IdentityTypeOK, ManageTypeOK, SessionTypeOK
<1>6. LocksCompatible
  BY <1>2 DEF LocksCompatible
<1>7. NeverOrphaned
  <2>1. CASE \A p \in Names : i.principals[p].role = NULL
    BY <1>2, <2>1 DEF NeverOrphaned, Exists
  <2>2. CASE \E u \in Users : /\ i.principals[u].role = "Admin" /\ ~i.principals[u].archived
                              /\ i.passwords[u] > 0
    BY <1>2, <2>2 DEF NeverOrphaned, ActiveAdministrator
  <2> QED
    BY <2>1, <2>2, AdministeredAssumption
<1>8. BootstrapOnce /\ Founded
  BY <1>2, CredentialsAssumption DEF BootstrapOnce, Founded, Exists
<1>9. \A t \in Managers : ManagerInv(t)
  BY <1>2 DEF ManagerInv, Asked, Serialised, Seen, IdleManager
<1>10. \A t \in Sessions : SessionInv(t)
  BY <1>2 DEF SessionInv, Requested, Presented, IdleSession
<1> QED
  BY <1>5, <1>6, <1>7, <1>8, <1>9, <1>10 DEF IdentityInv

LEMMA ExpirationKeeps ==
  ASSUME IdentityInv, Expiration, UNCHANGED <<adm, bootstrapped, ses, memberships>>
  PROVE  IdentityInv'
<1>1. PICK i \in DOMAIN tokens : ExpireToken(i)
  BY DEF Expiration
<1>2. /\ tokens' = [tokens EXCEPT ![i].state = "expired"]
      /\ UNCHANGED <<principals, passwords, held>>
  BY <1>1 DEF ExpireToken
<1>3. tokens' \in Seq(TokenRow) /\ DOMAIN tokens' = DOMAIN tokens
  BY <1>2, TokenRevoked
<1>4. TypeOK' /\ LocksCompatible'
  BY <1>2, <1>3 DEF IdentityInv, TypeOK, IdentityTypeOK, ManageTypeOK, SessionTypeOK,
                    LocksCompatible, memberships
<1>5. NeverOrphaned' /\ BootstrapOnce' /\ Founded'
  BY <1>2 DEF IdentityInv, NeverOrphaned, BootstrapOnce, Founded, Exists, ActiveAdministrator
<1>6. \A u \in Transactions : Rely(u)
  <2>1. \A v \in Users : passwords'[v] \in Nat /\ passwords'[v] >= passwords[v]
    BY <1>2 DEF IdentityInv, TypeOK, IdentityTypeOK
  <2>2. \A p \in Names : principals'[p] = principals[p]
    BY <1>2
  <2> QED
    BY <1>2, <1>3, <2>1, <2>2 DEF Rely, Exists, ActiveAdministrator, Somebody
<1>7. \A u \in Managers : ManagerInv(u)'
  BY <1>6, ManagersRely, TransactionsNamed
<1>8. \A u \in Sessions : SessionInv(u)'
  BY <1>6, SessionsRely, TransactionsNamed
<1> QED
  BY <1>4, <1>5, <1>7, <1>8 DEF IdentityInv

LEMMA IdentityKeeps == IdentityInv /\ [Next]_idVars => IdentityInv'
<1> SUFFICES ASSUME IdentityInv, [Next]_idVars PROVE IdentityInv'
  OBVIOUS
<1>1. CASE ManageNext /\ UNCHANGED <<ses, memberships>>
  BY <1>1, ManagersKeep
<1>2. CASE SessionNext /\ UNCHANGED <<adm, bootstrapped>>
  BY <1>2, SessionsKeep
<1>3. CASE Expiration /\ UNCHANGED <<adm, bootstrapped, ses, memberships>>
  BY <1>3, ExpirationKeeps
<1>4. CASE UNCHANGED idVars
  <2>1. /\ UNCHANGED <<principals, passwords, tokens, held, adm, bootstrapped, ses, groups, members>>
        /\ UNCHANGED memberships
    BY <1>4 DEF idVars, identity, memberships
  <2>2. TypeOK' /\ LocksCompatible'
    BY <2>1 DEF IdentityInv, TypeOK, IdentityTypeOK, ManageTypeOK, SessionTypeOK,
                LocksCompatible
  <2>3. NeverOrphaned' /\ BootstrapOnce' /\ Founded'
    BY <2>1 DEF IdentityInv, NeverOrphaned, BootstrapOnce, Founded, Exists,
                ActiveAdministrator
  <2>4. \A u \in Transactions : Rely(u)
    <3>1. \A v \in Users : passwords'[v] \in Nat /\ passwords'[v] >= passwords[v]
      BY <2>1 DEF IdentityInv, TypeOK, IdentityTypeOK
    <3>2. \A p \in Names : principals'[p] = principals[p]
      BY <2>1
    <3> QED
      BY <2>1, <3>1, <3>2 DEF Rely, Exists, ActiveAdministrator, Somebody
  <2>5. \A u \in Managers : ManagerInv(u)'
    BY <2>1, <2>4, ManagersRely, TransactionsNamed
  <2>6. \A u \in Sessions : SessionInv(u)'
    BY <2>1, <2>4, SessionsRely, TransactionsNamed
  <2> QED
    BY <2>2, <2>3, <2>5, <2>6 DEF IdentityInv
<1> QED
  BY <1>1, <1>2, <1>3, <1>4 DEF Next

(* The invariant the theorems below are parts or consequences of.          *)
THEOREM IdentityAlways == Spec => []IdentityInv
<1> QED
  BY IdentityInitially, IdentityKeeps, PTL DEF Spec

-------------------------------------------------------------------------------
(* Theorems *)

(* Every variable has its type, for any number of managers and sessions.   *)
THEOREM IdentityTypes == Spec => []TypeOK
<1>1. IdentityInv => TypeOK
  BY DEF IdentityInv
<1> QED
  BY <1>1, IdentityAlways, PTL

(* However archivals, demotions and logins overlap, somebody who can log   *)
(* in administers the system (archive_principal, update_user).             *)
THEOREM AlwaysAdministered == Spec => []NeverOrphaned
<1>1. IdentityInv => NeverOrphaned
  BY DEF IdentityInv
<1> QED
  BY <1>1, IdentityAlways, PTL

(* One bootstrap command succeeds, ever (bootstrap_administrator).         *)
THEOREM BootstrapsOnce == Spec => []BootstrapOnce
<1>1. IdentityInv => BootstrapOnce
  BY DEF IdentityInv
<1> QED
  BY <1>1, IdentityAlways, PTL

(* What a scan of administrators has found stays so until it commits.      *)
THEOREM ScansHold == Spec => []ScanHolds
<1>1. IdentityInv => ScanHolds
  <2> SUFFICES ASSUME IdentityInv, NEW t \in Managers PROVE ManagerKnows(t)
    BY DEF ScanHolds, IdentityInv
  <2>1. Asked(t) /\ Serialised(t) /\ Seen(t)
    BY DEF IdentityInv, ManagerInv
  <2> QED
    BY <2>1 DEF ManagerKnows, Asked, Serialised, Seen, HoldsAdministration
<1> QED
  BY <1>1, IdentityAlways, PTL

(* Only these steps write tokens. *)
LEMMA TokenSteps ==
  ASSUME [Next]_idVars, tokens' # tokens
  PROVE  \/ UNCHANGED ses /\ \E i \in DOMAIN tokens : ExpireToken(i)
         \/ \E t \in Sessions : CommitLogin(t) \/ CommitToken(t) \/ CommitRevoke(t)
<1>1. CASE Expiration /\ UNCHANGED <<adm, bootstrapped, ses, memberships>>
  BY <1>1 DEF Expiration
<1>2. CASE ManageNext
  <2>1. PICK t \in Managers : BeginManage(t) \/ ManageStep(t) \/ AbortManage(t)
    BY <1>2 DEF ManageNext
  <2> USE DEF identity
  <2>2. CASE BeginManage(t)
    BY <2>2 DEF BeginManage, Begin
  <2>3. CASE AbortManage(t)
    BY <2>3 DEF AbortManage
  <2>4. CASE ManageStep(t)
    BY <2>4 DEF ManageStep, LockAdministration, LockTarget, NotFound, ScanAdministrators,
                LockAdministrator, RefuseFinal, NotFinal, LockRow, CommitArchive, CommitUpdate,
                CommitCreate, NameTaken, RefuseBootstrap, FindNoAdministrator, CommitBootstrap
  <2> QED
    BY <2>1, <2>2, <2>3, <2>4
<1>3. CASE SessionNext
  <2>1. PICK t \in Sessions : ArriveAny(t) \/ SessionStep(t) \/ AbortSession(t)
    BY <1>3 DEF SessionNext
  <2>2. ArriveAny(t) \/ AbortSession(t) => tokens' = tokens
    BY DEF ArriveAny, Arrive, AbortSession, identity
  <2>3. SessionStep(t)
    BY <2>1, <2>2
  <2> QED
    BY <2>3 DEF SessionStep, ReadCredential, LockLogin, RefuseLogin, CommitPassword, CheckJoiner,
                CommitMember, CommitGroup, identity
<1> QED
  BY <1>1, <1>2, <1>3 DEF Next, idVars, identity

(* Nobody logs in to an archived account (login, archive_principal).       *)
THEOREM LoginsActive == Spec => LoginsAreActive
<1>1. IdentityInv /\ [Next]_idVars => [NoArchivedLogin]_tokens
  <2> SUFFICES ASSUME IdentityInv, [Next]_idVars, tokens' # tokens,
                      NEW i \in DOMAIN tokens', tokens'[i].name = "login",
                      ~(i \in DOMAIN tokens /\ tokens[i].name = "login")
               PROVE  ~principals[tokens'[i].owner].archived
    BY DEF NoArchivedLogin, LoginTokens
  <2>1. CASE \E j \in DOMAIN tokens : ExpireToken(j)
    BY <2>1, TokenRevoked DEF ExpireToken
  <2>2. ASSUME NEW t \in Sessions, CommitLogin(t)
        PROVE  ~principals[tokens'[i].owner].archived
    <3>1. Requested(t) /\ Presented(t)
      BY DEF IdentityInv, SessionInv
    <3>2. ses[t].at = "verify" /\ IssueToken(ses[t].target, "login")
      BY <2>2 DEF CommitLogin
    <3>3. ses[t].target \in Names
      BY <3>1, <3>2 DEF Requested
    <3>4. tokens'[i].owner = ses[t].target
      BY <3>2, <3>3, TokenIssued
    <3> QED
      BY <3>1, <3>2, <3>4 DEF Presented
  <2>3. ASSUME NEW t \in Sessions, CommitToken(t) PROVE FALSE
    <3>1. Requested(t)
      BY DEF IdentityInv, SessionInv
    <3>2. ses[t].target \in Names /\ IssueToken(ses[t].target, "api")
      BY <2>3, <3>1 DEF CommitToken, Writes, Requested
    <3> QED
      BY <3>2, TokenIssued
  <2>4. ASSUME NEW t \in Sessions, CommitRevoke(t) PROVE FALSE
    <3>1. Requested(t)
      BY DEF IdentityInv, SessionInv
    <3>2. ses[t].object \in DOMAIN tokens
      BY <2>4, <3>1 DEF CommitRevoke, Writes, Requested
    <3>3. tokens' = [tokens EXCEPT ![ses[t].object].state = "revoked"]
      BY <2>4 DEF CommitRevoke
    <3> QED
      BY <3>2, <3>3, TokenRevoked
  <2> QED
    BY <2>1, <2>2, <2>3, <2>4, TokenSteps
<1> QED
  BY <1>1, IdentityAlways, PTL DEF Spec, LoginsAreActive

(* A login that arrives after the password was replaced is rejected if it  *)
(* brings the old one (login, change_my_password, reset_user_password).    *)
(* Tokens issued before stay as they are, and a login that had read the    *)
(* old hash and waits for the row may still succeed.                       *)
THEOREM ReplacedPasswordsRejected == Spec => ReplacedPasswordRejected
<1>1. IdentityInv /\ [Next]_idVars => [CurrentPasswordOnly]_<<tokens, ses>>
  <2> SUFFICES ASSUME IdentityInv, [Next]_idVars, NEW t \in Sessions,
                      ses[t].at = "verify", tokens' # tokens, ses'[t] # ses[t]
               PROVE  ses[t].presented >= ses[t].current
    BY DEF CurrentPasswordOnly
  <2>1. Requested(t) /\ Presented(t) /\ ses[t] \in SessionLocals
    BY DEF IdentityInv, SessionInv, TypeOK, SessionTypeOK
  <2>2. CommitLogin(t)
    <3>1. \A u \in Sessions \ {t} : ~EndSession(u)
      BY DEF EndSession, IdentityInv, TypeOK, SessionTypeOK
    <3>2. ~Writes(t, "create token") /\ ~Writes(t, "create service token")
          /\ ~Writes(t, "revoke token") /\ ~Writes(t, "revoke service token")
      BY DEF Writes
    <3> QED
      BY <3>1, <3>2, TokenSteps DEF CommitLogin, CommitToken, CommitRevoke, Commit
  <2>3. ses[t].presented = ses[t].hash /\ ses[t].current <= ses[t].hash
    BY <2>1, <2>2 DEF CommitLogin, PasswordValid, Presented
  <2> QED
    BY <2>1, <2>3 DEF SessionLocals
<1> QED
  BY <1>1, IdentityAlways, PTL DEF Spec, ReplacedPasswordRejected

(* Tokens are issued to, and revoked by, their owners; those of services   *)
(* by administrators too (the token routes).                               *)
THEOREM OwnTokens == Spec => TokensAreOwn
<1>1. IdentityInv /\ [Next]_idVars => [OwnTokensOnly]_tokens
  <2> SUFFICES ASSUME IdentityInv, [Next]_idVars, tokens' # tokens, NEW i \in DOMAIN tokens',
                      \/ i \notin DOMAIN tokens
                      \/ tokens'[i].state = "revoked" /\ tokens[i].state # "revoked"
               PROVE  \E t \in Sessions :
                        /\ ses'[t] # ses[t] /\ ses[t].target = tokens'[i].owner
                        /\ ses[t].actor = tokens'[i].owner \/ tokens'[i].owner \in Services
    BY DEF OwnTokensOnly
  <2>1. ASSUME NEW j \in DOMAIN tokens, ExpireToken(j) PROVE FALSE
    <3>1. tokens' = [tokens EXCEPT ![j].state = "expired"] /\ tokens[j] \in TokenRow
      BY <2>1 DEF ExpireToken, IdentityInv, TypeOK, IdentityTypeOK
    <3>2. DOMAIN tokens' = DOMAIN tokens /\ i = j
      BY <3>1, TokenRevoked
    <3> QED
      BY <3>1, <3>2 DEF TokenRow
  <2>2. ASSUME NEW t \in Sessions,
               CommitLogin(t) \/ CommitToken(t) \/ CommitRevoke(t)
        PROVE  /\ ses'[t] # ses[t] /\ ses[t].target = tokens'[i].owner
               /\ ses[t].actor = tokens'[i].owner \/ tokens'[i].owner \in Services
    <3>1. Requested(t) /\ ses[t] \in SessionLocals
      BY DEF IdentityInv, SessionInv, TypeOK, SessionTypeOK
    <3>2. ses[t].at # "idle" /\ EndSession(t)
      BY <2>2 DEF CommitLogin, CommitToken, CommitRevoke, Commit, Writes
    <3>3. ses'[t] # ses[t]
      BY <3>2 DEF EndSession, IdleSession, IdentityInv, TypeOK, SessionTypeOK
    <3>4. ses[t].target \in Names
      BY <3>1, <3>2 DEF Requested
    <3>5. ses[t].target = tokens'[i].owner
      <4>1. CASE \E name \in {"login", "api"} : IssueToken(ses[t].target, name)
        BY <3>4, <4>1, TokenIssued
      <4>2. CASE CommitRevoke(t)
        <5>1. ses[t].object \in DOMAIN tokens
          BY <3>1, <4>2 DEF CommitRevoke, Writes, Requested
        <5>2. /\ tokens' = [tokens EXCEPT ![ses[t].object].state = "revoked"]
              /\ tokens[ses[t].object].owner = ses[t].target
          BY <4>2 DEF CommitRevoke
        <5>3. i = ses[t].object /\ tokens'[i].owner = tokens[i].owner
          BY <5>1, <5>2, TokenRevoked
        <5> QED
          BY <5>2, <5>3
      <4> QED
        BY <2>2, <4>1, <4>2 DEF CommitLogin, CommitToken
    <3>6. ses[t].actor = ses[t].target \/ ses[t].target \in Services
      <4>1. CASE CommitLogin(t)
        BY <3>1, <3>2, <4>1 DEF CommitLogin, Requested
      <4>2. CASE CommitToken(t) \/ CommitRevoke(t)
        BY <3>1, <3>2, <4>2 DEF CommitToken, CommitRevoke, Writes, Requested, SelfService, ForService
      <4> QED
        BY <2>2, <4>1, <4>2
    <3> QED
      BY <3>3, <3>5, <3>6
  <2> QED
    BY <2>1, <2>2, TokenSteps
<1> QED
  BY <1>1, IdentityAlways, PTL DEF Spec, TokensAreOwn
===============================================================================
