------------------------ MODULE AdminAccounts_proofs ------------------------
(***************************************************************************)
(* Proofs about AdminAccounts, for any number of administrators, roles,    *)
(* sessions and requests: the lockout rules are right for operations that  *)
(* do not overlap.                                                         *)
(*                                                                         *)
(* The invariant is about a request that no save has overlapped: what it   *)
(* read of its target is still the row, and what it is about to save is    *)
(* safe, that is, another active super_admin is there if it takes one away *)
(* and a disabled record stays disabled. Sessions only decide who starts.  *)
(***************************************************************************)
EXTENDS AdminAccounts, FiniteSetTheorems, TLAPS

\* Saving rec to the row of x locks nobody out and revives nobody.
Safe(x, rec) ==
  /\ (x \in ActiveSupers /\ ~(rec.role = Super /\ rec.status = "active"))
       => ActiveSupers \ {x} # {}
  /\ admins[x].status = "disabled" => rec.status = "disabled"

\* The record to save is the one that was read, with the change.
Derived(q) ==
  \/ q.op = "changeRole" /\ q.updated = WithRole(q.record, q.updated.role)
  \/ q.op = "disable" /\ q.updated = Disabled(q.record)

\* What a request relies on as long as no other one saves.
AloneOK(q) ==
  /\ q.pc = "count" => admins[q.target] = q.record /\ Derived(q)
  /\ q.pc = "saveLoad" => admins[q.target] # NoAdmin /\ Safe(q.target, q.record)
  /\ q.pc = "saveFlush" =>
       /\ admins[q.target] = q.row
       /\ q.row # NoAdmin => Safe(q.target, q.record)

\* A row that was found is still there.
Present(q) ==
  (q.pc \in {"count", "saveLoad"} \/ (q.pc = "saveFlush" /\ q.row # NoAdmin))
    => admins[q.target] # NoAdmin

AccountInv ==
  /\ TypeOK
  /\ \A r \in Requests : Present(req[r]) /\ (r \notin overlapped => AloneOK(req[r]))

-----------------------------------------------------------------------------
(* Types                                                                   *)

\* The state of a request tells by its pc which record it is.
LEMMA StateKinds ==
  ASSUME NEW q \in RequestState
  PROVE  /\ q.pc = "drop" => q \in Dropping
         /\ q.pc \in {"renewGet", "renewPut"} => q \in Renewing
         /\ q.pc \in {"create", "principal"} => q \in Naming
         /\ q.pc = "act" => q \in Acting
         /\ q.pc = "count" => q \in Counting
         /\ q.pc = "saveLoad" => q \in Loading
         /\ q.pc = "saveFlush" => q \in Flushing
BY DEF RequestState, Dropping, Renewing, Naming, Acting, Counting, Loading,
       Flushing, Idle

\* A step that moves r alone keeps the type of req.
LEMMA GotoType ==
  ASSUME TypeOK, NEW r \in Requests, NEW q \in RequestState, Goto(r, q)
  PROVE  /\ req' \in [Requests -> RequestState]
         /\ req'[r] = q
         /\ \A p \in Requests : p # r => req'[p] = req[p]
BY DEF TypeOK, Goto

\* The states in which a request is not yet, or no longer, at an account.
LEMMA Elsewhere ==
  /\ Idle \in RequestState /\ Idle.pc = "idle"
  /\ \A s \in Sessions : [pc |-> "drop", session |-> s] \in RequestState
  /\ \A s \in Sessions, x \in Admins, p \in {"renewGet", "renewPut"} :
       [pc |-> p, session |-> s, admin |-> x] \in RequestState
  /\ \A x \in Admins, p \in {"create", "principal"} :
       [pc |-> p, admin |-> x] \in RequestState
  /\ \A x \in Admins, role \in Roles :
       [pc |-> "act", admin |-> x, role |-> role] \in RequestState
BY DEF RequestState, Dropping, Renewing, Naming, Acting, Idle

\* A request away from the accounts relies on nothing.
LEMMA AwayOK ==
  ASSUME NEW q, q.pc \notin {"count", "saveLoad", "saveFlush"}
  PROVE  AloneOK(q) /\ Present(q)
BY DEF AloneOK, Present

\* A step of r that leaves the accounts alone keeps the invariant if the state
\* it leaves r in is one that can be relied on.
LEMMA QuietStep ==
  ASSUME AccountInv, NEW r \in Requests, NEW q \in RequestState, Goto(r, q),
         UNCHANGED admins, overlapped' \in {overlapped, overlapped \ {r}},
         Present(q), AloneOK(q) \/ (r \in overlapped /\ overlapped' = overlapped),
         sessions' \in [Sessions -> [admin : Admins, ttl : 1..IdleTicks] \cup {NoSession}],
         old' \subseteq Sessions
  PROVE  AccountInv'
<1>1. /\ req' \in [Requests -> RequestState] /\ req'[r] = q
      /\ \A p \in Requests : p # r => req'[p] = req[p]
  BY GotoType DEF AccountInv
<1>2. TypeOK'
  BY <1>1 DEF AccountInv, TypeOK
<1>3. ASSUME NEW p \in Requests, p \notin overlapped'
      PROVE  AloneOK(req[p])'
  <2>1. CASE p = r
    <3>1. AloneOK(q)
      BY <1>3, <2>1
    <3>2. AloneOK(q)'
      BY <3>1 DEF AloneOK, Safe, ActiveSupers, Active
    <3>. QED
      BY <1>1, <2>1, <3>2 DEF AloneOK, Safe, Derived, ActiveSupers, Active
  <2>2. CASE p # r
    <3>1. AloneOK(req[p])
      BY <1>3, <2>2 DEF AccountInv
    <3>. QED
      BY <1>1, <2>2, <3>1 DEF AloneOK, Safe, Derived, ActiveSupers, Active
  <2>. QED
    BY <2>1, <2>2
<1>4. ASSUME NEW p \in Requests PROVE Present(req[p])'
  <2>1. Present(req[p]) /\ Present(q)
    BY DEF AccountInv
  <2>. QED
    BY <1>1, <2>1 DEF Present
<1>. QED
  BY <1>2, <1>3, <1>4 DEF AccountInv

-----------------------------------------------------------------------------
(* The steps                                                               *)

\* Roles and records of the accounts that exist.
LEMMA Rows ==
  ASSUME TypeOK, NEW x \in Admins, admins[x] # NoAdmin
  PROVE  /\ admins[x] \in Admin
         /\ admins[x].role \in Roles /\ admins[x].status \in {"active", "disabled"}
BY DEF TypeOK, Admin

LEMMA InitInv == Init => AccountInv
<1> SUFFICES ASSUME Init PROVE AccountInv
  OBVIOUS
<1>1. PICK x \in Admins :
        admins = [y \in Admins |->
          IF y = x THEN [role |-> Super, status |-> "active"] ELSE NoAdmin]
  BY DEF Init
<1>2. [role |-> Super, status |-> "active"] \in Admin
  BY DEF Admin, Roles
<1>3. TypeOK
  BY <1>1, <1>2, Elsewhere DEF Init, SessionInit, TypeOK
<1>4. \A r \in Requests : AloneOK(req[r]) /\ Present(req[r])
  BY AwayOK, Elsewhere DEF Init, SessionInit
<1>. QED
  BY <1>3, <1>4 DEF AccountInv

\* Sessions come and go beside the accounts.
LEMMA SessionInv ==
  ASSUME AccountInv, SessionNext, UNCHANGED accountVars
  PROVE  AccountInv'
<1>1. UNCHANGED <<admins, overlapped>>
  BY DEF accountVars
<1>2. \A x \in Admins : Entry(x) \in [admin : Admins, ttl : 1..IdleTicks]
  BY SessionAssumption DEF Entry
<1>3. ASSUME NEW r \in Requests, NEW s \in Sessions, CreateSession(r, s)
      PROVE  AccountInv'
  <2>1. req[r] \in Naming
    BY <1>3, StateKinds DEF CreateSession, AccountInv, TypeOK
  <2>2. sessions' \in [Sessions -> [admin : Admins, ttl : 1..IdleTicks] \cup {NoSession}]
        /\ old' \subseteq Sessions
    BY <1>2, <1>3, <2>1 DEF CreateSession, AccountInv, TypeOK, Naming
  <2>. QED
    BY <1>1, <1>3, <2>2, Elsewhere, AwayOK, QuietStep DEF CreateSession
<1>4. ASSUME NEW r \in Requests, NEW s \in Sessions, ResolveSession(r, s)
      PROVE  AccountInv'
  <2>1. sessions[s].admin \in Admins
    BY <1>4 DEF ResolveSession, AccountInv, TypeOK
  <2>2. UNCHANGED <<sessions, old>>
    BY <1>4 DEF ResolveSession, sessionVars
  <2> DEFINE d == [pc |-> "drop", session |-> s]
             n == [pc |-> "renewGet", session |-> s, admin |-> sessions[s].admin]
  <2>3. Goto(r, d) \/ Goto(r, n)
    BY <1>4 DEF ResolveSession
  <2>4. d \in RequestState /\ n \in RequestState /\ AloneOK(d) /\ AloneOK(n)
        /\ Present(d) /\ Present(n)
    BY <2>1, Elsewhere, AwayOK
  <2> HIDE DEF d, n
  <2>. QED
    BY <1>1, <2>2, <2>3, <2>4, QuietStep DEF AccountInv, TypeOK
<1>5. ASSUME NEW r \in Requests, DropSession(r)
      PROVE  AccountInv'
  <2>1. sessions' \in [Sessions -> [admin : Admins, ttl : 1..IdleTicks] \cup {NoSession}]
        /\ old' \subseteq Sessions
    BY <1>5 DEF DropSession, AccountInv, TypeOK
  <2>. QED
    BY <1>1, <1>5, <2>1, Elsewhere, AwayOK, QuietStep DEF DropSession
<1>6. ASSUME NEW r \in Requests, RenewGet(r)
      PROVE  AccountInv'
  <2>1. req[r] \in Renewing
    BY <1>6, StateKinds DEF RenewGet, AccountInv, TypeOK
  <2>2. UNCHANGED <<sessions, old>>
    BY <1>6 DEF RenewGet, sessionVars
  <2> DEFINE n == [pc |-> "renewPut", session |-> req[r].session, admin |-> req[r].admin]
             p == Resolved(req[r].admin)
  <2>3. Goto(r, p) \/ Goto(r, n)
    BY <1>6 DEF RenewGet
  <2>4. p \in RequestState /\ n \in RequestState /\ AloneOK(p) /\ AloneOK(n)
        /\ Present(p) /\ Present(n)
    BY <2>1, Elsewhere, AwayOK DEF Renewing, Resolved
  <2> HIDE DEF n, p
  <2>. QED
    BY <1>1, <2>2, <2>3, <2>4, QuietStep DEF AccountInv, TypeOK
<1>7. ASSUME NEW r \in Requests, RenewPut(r)
      PROVE  AccountInv'
  <2>1. req[r] \in Renewing
    BY <1>7, StateKinds DEF RenewPut, AccountInv, TypeOK
  <2>2. sessions' \in [Sessions -> [admin : Admins, ttl : 1..IdleTicks] \cup {NoSession}]
        /\ old' \subseteq Sessions
    BY <1>2, <1>7, <2>1 DEF RenewPut, AccountInv, TypeOK, Renewing
  <2>3. Resolved(req[r].admin) \in RequestState /\ AloneOK(Resolved(req[r].admin))
        /\ Present(Resolved(req[r].admin))
    BY <2>1, Elsewhere, AwayOK DEF Renewing, Resolved
  <2>. QED
    BY <1>1, <1>7, <2>2, <2>3, QuietStep DEF RenewPut
<1>8. ASSUME NEW r \in Requests, Abort(r)
      PROVE  AccountInv'
  <2>1. Goto(r, Idle) /\ UNCHANGED <<sessions, old>>
    BY <1>8 DEF Abort, sessionVars
  <2>. QED
    BY <1>1, <2>1, Elsewhere, AwayOK, QuietStep DEF AccountInv, TypeOK
<1>9. ASSUME NEW s \in Sessions, Logout(s) \/ Elapse(s) \/ GrowOld(s)
      PROVE  AccountInv'
  <2>1. UNCHANGED <<req, admins, overlapped>>
    BY <1>1, <1>9 DEF Logout, Elapse, GrowOld
  <2>2. old' \subseteq Sessions
    BY <1>9 DEF Logout, Elapse, GrowOld, AccountInv, TypeOK
  <2>3. sessions' \in [Sessions -> [admin : Admins, ttl : 1..IdleTicks] \cup {NoSession}]
    <3>1. CASE Logout(s)
      BY <3>1 DEF Logout, AccountInv, TypeOK
    <3>2. CASE GrowOld(s)
      BY <3>2 DEF GrowOld, AccountInv, TypeOK
    <3>3. CASE Elapse(s)
      <4>1. sessions[s] \in [admin : Admins, ttl : 1..IdleTicks]
        BY <3>3 DEF Elapse, AccountInv, TypeOK
      <4>2. Older(sessions[s]) \in [admin : Admins, ttl : 1..IdleTicks] \cup {NoSession}
        BY <4>1, SessionAssumption DEF Older
      <4>. QED
        BY <3>3, <4>2 DEF Elapse, AccountInv, TypeOK
    <3>. QED
      BY <1>9, <3>1, <3>2, <3>3
  <2>4. TypeOK'
    BY <2>1, <2>2, <2>3 DEF AccountInv, TypeOK
  <2>5. \A r \in Requests : /\ AloneOK(req[r])' <=> AloneOK(req[r])
                            /\ Present(req[r])' <=> Present(req[r])
    BY <2>1 DEF Present, AloneOK, Safe, Derived, ActiveSupers, Active
  <2>. QED
    BY <2>1, <2>4, <2>5 DEF AccountInv
<1>. QED
  BY <1>3, <1>4, <1>5, <1>6, <1>7, <1>8, <1>9 DEF SessionNext, SessionStep

\* Login, the principal, and what else a principal does.
LEMMA PrincipalInv ==
  ASSUME AccountInv, NEW r \in Requests,
         \/ \E x \in Admins : Login(r, x)
         \/ LoadPrincipal(r)
         \/ EndRequest(r)
  PROVE  AccountInv'
<1>1. UNCHANGED <<sessions, old, admins, overlapped>>
  BY DEF Login, LoadPrincipal, EndRequest, sessionVars, accountVars
<1>2. \E q \in RequestState : Goto(r, q) /\ AloneOK(q) /\ Present(q)
  <2>1. ASSUME NEW x \in Admins, Login(r, x)
        PROVE  \E q \in RequestState : Goto(r, q) /\ AloneOK(q) /\ Present(q)
    BY <2>1, Elsewhere, AwayOK DEF Login
  <2>2. ASSUME LoadPrincipal(r)
        PROVE  \E q \in RequestState : Goto(r, q) /\ AloneOK(q) /\ Present(q)
    <3>1. req[r].admin \in Admins
      BY <2>2, StateKinds DEF LoadPrincipal, AccountInv, TypeOK, Naming
    <3>2. CASE Active(req[r].admin)
      <4> DEFINE q == [pc |-> "act", admin |-> req[r].admin,
                       role |-> admins[req[r].admin].role]
      <4>1. admins[req[r].admin].role \in Roles
        BY <3>1, <3>2, Rows DEF Active, AccountInv
      <4>2. q \in RequestState /\ AloneOK(q) /\ Present(q)
        BY <3>1, <4>1, Elsewhere, AwayOK
      <4>3. Goto(r, q)
        BY <2>2, <3>2 DEF LoadPrincipal
      <4>. QED
        BY <4>2, <4>3
    <3>3. CASE ~Active(req[r].admin)
      BY <2>2, <3>3, Elsewhere, AwayOK DEF LoadPrincipal
    <3>. QED
      BY <3>2, <3>3
  <2>3. ASSUME EndRequest(r)
        PROVE  \E q \in RequestState : Goto(r, q) /\ AloneOK(q) /\ Present(q)
    BY <2>3, Elsewhere, AwayOK DEF EndRequest
  <2>. QED
    BY <2>1, <2>2, <2>3
<1>. QED
  BY <1>1, <1>2, QuietStep DEF AccountInv, TypeOK

\* createAdmin: no row is under the address.
LEMMA CreateInv ==
  ASSUME AccountInv, NEW r \in Requests, NEW x \in Admins, NEW role \in Roles,
         CreateAdmin(r, x, role)
  PROVE  AccountInv'
<1> DEFINE q == Saving(x, [role |-> role, status |-> "active"], NoAdmin)
<1>1. Goto(r, q) /\ admins[x] = NoAdmin /\ overlapped' = overlapped \ {r}
      /\ UNCHANGED <<sessions, old, admins>>
  BY DEF CreateAdmin, sessionVars
<1>2. q \in RequestState
  BY DEF RequestState, Flushing, Admin, Saving
<1>3. AloneOK(q) /\ Present(q)
  BY <1>1 DEF AloneOK, Present, Saving
<1> HIDE DEF q
<1>. QED
  BY <1>1, <1>2, <1>3, QuietStep DEF AccountInv, TypeOK

\* changeRole and disableAdmin start from the row as it is.
LEMMA RequireInv ==
  ASSUME AccountInv, NEW r \in Requests, NEW x \in Admins,
         DisableAdmin(r, x) \/ \E role \in Roles : ChangeRole(r, x, role)
  PROVE  AccountInv'
<1>1. req[r] \in Acting /\ admins[x] # NoAdmin
  BY StateKinds DEF DisableAdmin, ChangeRole, RequireAdmin, MayManage, AccountInv, TypeOK
<1>2. admins[x] \in Admin
  BY <1>1, Rows DEF AccountInv
<1>3. ASSUME NEW op \in {"changeRole", "disable"}, NEW updated \in Admin,
             RequireAdmin(r, x, op, updated),
             \/ op = "changeRole" /\ updated = WithRole(admins[x], updated.role)
             \/ op = "disable" /\ updated = Disabled(admins[x])
      PROVE  AccountInv'
  <2> DEFINE q == [pc |-> "count", op |-> op, actor |-> req[r].admin, target |-> x,
                   record |-> admins[x], updated |-> updated]
  <2>1. Goto(r, q) /\ overlapped' = overlapped \ {r} /\ UNCHANGED <<sessions, old, admins>>
    BY <1>3 DEF RequireAdmin, sessionVars
  <2>2. q \in RequestState
    BY <1>1, <1>2, <1>3 DEF RequestState, Counting, Acting
  <2>3. AloneOK(q) /\ Present(q)
    BY <1>1, <1>3 DEF AloneOK, Derived, Present
  <2> HIDE DEF q
  <2>. QED
    BY <2>1, <2>2, <2>3, QuietStep DEF AccountInv, TypeOK
<1>4. CASE DisableAdmin(r, x)
  <2>1. Disabled(admins[x]) \in Admin
    BY <1>2 DEF Disabled, Admin
  <2>. QED
    BY <1>3, <1>4, <2>1 DEF DisableAdmin
<1>5. ASSUME NEW role \in Roles, ChangeRole(r, x, role)
      PROVE  AccountInv'
  <2>1. WithRole(admins[x], role) \in Admin /\ WithRole(admins[x], role).role = role
    BY <1>2 DEF WithRole, Admin
  <2>. QED
    BY <1>3, <1>5, <2>1 DEF ChangeRole
<1>. QED
  BY <1>4, <1>5

\* More than one means another one.
LEMMA AnotherOne ==
  ASSUME NEW S, NEW x, Cardinality(S) > 1
  PROVE  S \ {x} # {}
<1> SUFFICES ASSUME S \ {x} = {} PROVE FALSE
  OBVIOUS
<1>1. S \in SUBSET {x}
  OBVIOUS
<1>2. IsFiniteSet({x}) /\ Cardinality({x}) = 1
  BY FS_Singleton
<1>3. IsFiniteSet(S) /\ Cardinality(S) <= 1
  BY <1>1, <1>2, FS_Subset
<1>4. Cardinality(S) \in Nat
  BY <1>3, FS_CardinalityType
<1>. QED
  BY <1>3, <1>4

\* What the assertions allow is safe, if the target is still as it was read.
LEMMA AllowedSafe ==
  ASSUME TypeOK, NEW q \in Counting, admins[q.target] = q.record, Derived(q),
         Allowed(q, Cardinality(ActiveSupers))
  PROVE  Safe(q.target, q.updated)
<1>1. q.record \in Admin /\ q.record.role \in Roles
      /\ q.record.status \in {"active", "disabled"}
  BY DEF Counting, Admin
<1>2. Cardinality(ActiveSupers) > 1 => ActiveSupers \ {q.target} # {}
  BY AnotherOne
<1>3. q.target \in ActiveSupers => q.record.role = Super /\ q.record.status = "active"
  BY DEF ActiveSupers, Active
<1>4. CASE q.op = "changeRole" /\ q.updated = WithRole(q.record, q.updated.role)
  <2>1. q.updated.status = q.record.status
    BY <1>1, <1>4 DEF WithRole, Admin
  <2>2. (q.record.role = Super /\ q.updated.role # Super) => Cardinality(ActiveSupers) > 1
    BY <1>4 DEF Allowed, RoleChangeAllowed
  <2>. QED
    BY <1>2, <1>3, <2>1, <2>2 DEF Safe
<1>5. CASE q.op = "disable" /\ q.updated = Disabled(q.record)
  <2>1. q.updated.status = "disabled"
    BY <1>1, <1>5 DEF Disabled, Admin
  <2>2. q.record.role = Super => Cardinality(ActiveSupers) > 1
    BY <1>5 DEF Allowed, DisableAllowed
  <2>. QED
    BY <1>2, <1>3, <2>1, <2>2 DEF Safe
<1>. QED
  BY <1>4, <1>5 DEF Derived

LEMMA CountInv ==
  ASSUME AccountInv, NEW r \in Requests, CountSupers(r)
  PROVE  AccountInv'
<1> DEFINE q == req[r]
           n == [pc |-> "saveLoad", target |-> q.target, record |-> q.updated]
<1>1. q \in Counting
  BY StateKinds DEF CountSupers, AccountInv, TypeOK
<1>2. UNCHANGED <<sessions, old, admins, overlapped>>
  BY DEF CountSupers, sessionVars, accountVars
<1>3. CASE Goto(r, Idle)
  BY <1>2, <1>3, Elsewhere, AwayOK, QuietStep DEF AccountInv, TypeOK
<1>4. CASE Allowed(q, Cardinality(ActiveSupers)) /\ Goto(r, n)
  <2>1. n \in RequestState
    BY <1>1 DEF RequestState, Loading, Counting
  <2>2. Present(n)
    BY DEF CountSupers, AccountInv, Present
  <2>3. ASSUME r \notin overlapped PROVE AloneOK(n)
    <3>1. admins[q.target] = q.record /\ Derived(q)
      BY <2>3 DEF AccountInv, AloneOK, CountSupers
    <3>2. Safe(q.target, q.updated)
      BY <1>1, <1>4, <3>1, AllowedSafe DEF AccountInv
    <3>. QED
      BY <2>2, <3>2 DEF AloneOK, Present
  <2> HIDE DEF n
  <2>. QED
    BY <1>2, <1>4, <2>1, <2>2, <2>3, QuietStep DEF AccountInv, TypeOK
<1>. QED
  BY <1>3, <1>4 DEF CountSupers

LEMMA SaveLoadInv ==
  ASSUME AccountInv, NEW r \in Requests, SaveLoad(r)
  PROVE  AccountInv'
<1> DEFINE n == Saving(req[r].target, req[r].record, admins[req[r].target])
<1>1. req[r] \in Loading
  BY StateKinds DEF SaveLoad, AccountInv, TypeOK
<1>2. Goto(r, n) /\ UNCHANGED <<sessions, old, admins, overlapped>>
  BY DEF SaveLoad, sessionVars, accountVars
<1>3. n \in RequestState
  BY <1>1 DEF RequestState, Loading, Flushing, Saving, AccountInv, TypeOK
<1>4. ASSUME r \notin overlapped PROVE AloneOK(n)
  BY <1>4 DEF AccountInv, AloneOK, SaveLoad, Saving
<1>5. Present(n)
  BY DEF AccountInv, Present, SaveLoad, Saving
<1> HIDE DEF n
<1>. QED
  BY <1>2, <1>3, <1>4, <1>5, QuietStep DEF AccountInv, TypeOK

\* A flush puts every operation under way among the overlapped ones.
LEMMA SaveFlushInv ==
  ASSUME AccountInv, NEW r \in Requests, SaveFlush(r)
  PROVE  AccountInv'
<1> DEFINE q == req[r]
<1>1. q \in Flushing /\ q.target \in Admins /\ q.record \in Admin
      /\ q.row \in Admin \cup {NoAdmin}
  BY StateKinds DEF SaveFlush, AccountInv, TypeOK, Flushing
<1>2. /\ req' \in [Requests -> RequestState] /\ req'[r] = Idle
      /\ \A p \in Requests : p # r => req'[p] = req[p]
  BY GotoType, Elsewhere DEF SaveFlush, AccountInv
<1>3. /\ admins' \in [Admins -> Admin \cup {NoAdmin}]
      /\ \A x \in Admins : admins[x] # NoAdmin => admins'[x] # NoAdmin
  <2>1. CASE q.row # NoAdmin /\ admins' = [admins EXCEPT ![q.target] = Flushed(@, q.row, q.record)]
    <3>1. admins[q.target] # NoAdmin
      BY <2>1 DEF SaveFlush, AccountInv, Present
    <3>2. admins[q.target] \in Admin /\ q.row \in Admin
      BY <1>1, <2>1, <3>1, Rows DEF AccountInv
    <3>3. Flushed(admins[q.target], q.row, q.record) \in Admin
      BY <1>1, <3>2 DEF Flushed, Column, Admin
    <3>. QED
      BY <1>1, <2>1, <3>3, AdminAssumption DEF AccountInv, TypeOK
  <2>2. CASE admins' = [admins EXCEPT ![q.target] = q.record]
    BY <1>1, <2>2, AdminAssumption DEF AccountInv, TypeOK
  <2>3. CASE UNCHANGED admins
    BY <2>3 DEF AccountInv, TypeOK
  <2>. QED
    BY <2>1, <2>2, <2>3 DEF SaveFlush
<1>4. UNCHANGED <<sessions, old>> /\ overlapped' = (overlapped \cup Managing) \ {r}
  BY DEF SaveFlush, sessionVars
<1>5. TypeOK'
  BY <1>2, <1>3, <1>4 DEF AccountInv, TypeOK, Managing
<1>6. ASSUME NEW p \in Requests PROVE Present(req[p])'
  <2>1. CASE p = r
    BY <1>2, <2>1, Elsewhere DEF Present
  <2>2. CASE p # r
    <3>1. req'[p] = req[p] /\ Present(req[p]) /\ req[p] \in RequestState
      BY <1>2, <2>2 DEF AccountInv, TypeOK
    <3>2. req[p].pc \in {"count", "saveLoad", "saveFlush"} => req[p].target \in Admins
      BY <3>1, StateKinds DEF Counting, Loading, Flushing
    <3>. QED
      BY <1>3, <3>1, <3>2 DEF Present
  <2>. QED
    BY <2>1, <2>2
<1>7. ASSUME NEW p \in Requests, p \notin overlapped' PROVE AloneOK(req[p])'
  <2>1. req'[p].pc \notin {"count", "saveLoad", "saveFlush"}
    BY <1>2, <1>4, <1>7, Elsewhere DEF Managing
  <2>. QED
    BY <2>1 DEF AloneOK
<1>. QED
  BY <1>5, <1>6, <1>7 DEF AccountInv

LEMMA NextInv == AccountInv /\ [Next]_vars => AccountInv'
<1> SUFFICES ASSUME AccountInv, [Next]_vars PROVE AccountInv'
  OBVIOUS
<1>1. CASE AccountNext
  BY <1>1, PrincipalInv, CreateInv, RequireInv, CountInv, SaveLoadInv, SaveFlushInv
     DEF AccountNext
<1>2. CASE UNCHANGED vars
  BY <1>2 DEF vars, AccountInv, TypeOK, Present, AloneOK, Safe, Derived,
     ActiveSupers, Active
<1>. QED
  BY <1>1, <1>2, SessionInv DEF Next

-----------------------------------------------------------------------------
(* The theorems.                                                           *)

\* The inductive invariant: what an operation relies on that nobody overlaps.
THEOREM AccountInvariant == Spec => []AccountInv
BY InitInv, NextInv, PTL DEF Spec

\* Every variable keeps its type; a save needs that rows do not disappear.
THEOREM TypeCorrect == Spec => []TypeOK
<1>1. AccountInv => TypeOK
  BY DEF AccountInv
<1>. QED
  BY <1>1, AccountInvariant, PTL

\* The accounts change only when a save is flushed,
LEMMA ChangesAreFlushes ==
  ASSUME [Next]_vars, admins' # admins
  PROVE  \E p \in Requests : SaveFlush(p)
<1>1. CASE AccountNext
  BY <1>1 DEF AccountNext, accountVars, Login, LoadPrincipal, EndRequest,
     CreateAdmin, ChangeRole, DisableAdmin, RequireAdmin, CountSupers, SaveLoad
<1>. QED
  BY <1>1 DEF Next, accountVars, vars

\* and when a save is alone the step is that one's.
LEMMA OnlyFlushes ==
  ASSUME AccountInv, [Next]_vars, admins' # admins,
         NEW r \in Requests, SavesAlone(r)
  PROVE  SaveFlush(r)
<1>1. PICK p \in Requests : SaveFlush(p)
  BY ChangesAreFlushes
<1>2. req[r] # req'[r]
  BY Elsewhere DEF SavesAlone
<1>3. p = r
  BY <1>1, <1>2 DEF SaveFlush, Goto, AccountInv, TypeOK
<1>. QED
  BY <1>1, <1>3

\* What a save does when none overlapped it: it writes its own row, and to a
\* row that was there it writes the record that is safe to write.
LEMMA SavedAlone ==
  ASSUME AccountInv, NEW r \in Requests, SaveFlush(r), r \notin overlapped
  PROVE  LET x == req[r].target
             rec == req[r].record
         IN /\ x \in Admins
            /\ \A y \in Admins \ {x} : admins'[y] = admins[y]
            /\ admins[x] # NoAdmin => admins'[x] = rec /\ Safe(x, rec)
<1> DEFINE q == req[r]
<1>1. q \in Flushing /\ q.target \in Admins /\ q.record \in Admin
      /\ q.row \in Admin \cup {NoAdmin} /\ q.pc = "saveFlush"
  BY StateKinds DEF SaveFlush, AccountInv, TypeOK, Flushing
<1>2. admins[q.target] = q.row /\ (q.row # NoAdmin => Safe(q.target, q.record))
  BY <1>1 DEF AccountInv, AloneOK
<1>3. admins \in [Admins -> Admin \cup {NoAdmin}]
  BY DEF AccountInv, TypeOK
<1>4. \A y \in Admins \ {q.target} : admins'[y] = admins[y]
  BY <1>1, <1>3 DEF SaveFlush
<1>5. ASSUME admins[q.target] # NoAdmin PROVE admins'[q.target] = q.record
  <2>1. q.row \in Admin /\ admins' = [admins EXCEPT ![q.target] = Flushed(@, q.row, q.record)]
    BY <1>1, <1>2, <1>5 DEF SaveFlush
  <2>2. admins'[q.target] = Flushed(q.row, q.row, q.record)
    BY <1>1, <1>2, <1>3, <2>1
  <2>3. Flushed(q.row, q.row, q.record) = q.record
    BY <1>1, <2>1 DEF Flushed, Column, Admin
  <2>. QED
    BY <2>2, <2>3
<1>. QED
  BY <1>1, <1>2, <1>4, <1>5

\* A save that is alone does not take the last active super_admin away.
LEMMA AloneKeepsASuper ==
  ASSUME AccountInv, [Next]_vars, ActiveSupers # {}, ActiveSupers' = {},
         NEW r \in Requests, SavesAlone(r)
  PROVE  FALSE
<1> DEFINE x == req[r].target
           rec == req[r].record
<1>1. admins' # admins
  BY DEF ActiveSupers, Active
<1>2. SaveFlush(r) /\ r \notin overlapped
  BY <1>1, OnlyFlushes DEF SavesAlone
<1>3. /\ x \in Admins
      /\ \A y \in Admins \ {x} : admins'[y] = admins[y]
      /\ admins[x] # NoAdmin => admins'[x] = rec /\ Safe(x, rec)
  BY <1>2, SavedAlone
<1>4. ActiveSupers \ {x} = {}
  BY <1>3 DEF ActiveSupers, Active
<1>5. x \in ActiveSupers
  BY <1>4 DEF ActiveSupers
<1>6. admins[x] # NoAdmin
  BY <1>5 DEF ActiveSupers, Active
<1>7. rec.role = Super /\ rec.status = "active"
  BY <1>3, <1>4, <1>5, <1>6 DEF Safe
<1>8. rec # NoAdmin
  BY <1>2, StateKinds, AdminAssumption
     DEF AccountInv, TypeOK, SaveFlush, Flushing
<1>. QED
  BY <1>3, <1>6, <1>7, <1>8 DEF ActiveSupers, Active

\* The lockout rules need an overlap to fail: a save that is alone leaves an
\* active super_admin if there was one.
THEOREM LockoutsNeedOverlap == Spec => LockoutNeedsOverlap
<1> DEFINE Step == (ActiveSupers # {} /\ ActiveSupers' = {}) =>
                      \A r \in Requests : ~SavesAlone(r)
<1>1. [Next]_vars /\ AccountInv => [Step]_vars
  BY AloneKeepsASuper
<1>. QED
  BY <1>1, AccountInvariant, PTL DEF Spec, LockoutNeedsOverlap

\* What BR-ADMIN-002 says is true while requests are handled one at a time:
\* assertRoleChangeAllowed and assertDisableAllowed then leave an active
\* super_admin after any number of operations, whichever sessions they use.
THEOREM OneAtATimeNoLockout ==
  ASSUME \A p, r \in Requests : p = r
  PROVE  Spec => []SuperAdminRemains
<1> DEFINE Kept == overlapped = {} /\ ActiveSupers # {}
<1>1. Init => Kept
  <2>1. SUFFICES ASSUME Init PROVE ActiveSupers # {}
    BY DEF Init
  <2>2. PICK x \in Admins :
          admins = [y \in Admins |->
            IF y = x THEN [role |-> Super, status |-> "active"] ELSE NoAdmin]
    BY <2>1 DEF Init
  <2>3. [role |-> Super, status |-> "active"] # NoAdmin
    BY AdminAssumption DEF Admin, Roles
  <2>4. x \in ActiveSupers
    BY <2>2, <2>3 DEF ActiveSupers, Active
  <2>. QED
    BY <2>4
<1>2. AccountInv /\ [Next]_vars /\ Kept => Kept'
  <2>1. SUFFICES ASSUME AccountInv, [Next]_vars, Kept PROVE Kept'
    OBVIOUS
  <2>2. CASE admins' = admins /\ overlapped' \subseteq overlapped
    BY <2>1, <2>2 DEF ActiveSupers, Active
  <2>3. ASSUME NEW r \in Requests, SaveFlush(r) PROVE Kept'
    <3>1. overlapped' = {}
      BY <2>1, <2>3 DEF SaveFlush, Managing
    <3>2. SavesAlone(r)
      BY <2>1, <2>3 DEF SavesAlone, SaveFlush, Goto, AccountInv, TypeOK
    <3>. QED
      BY <2>1, <3>1, <3>2, AloneKeepsASuper
  <2>4. CASE ~\E r \in Requests : SaveFlush(r)
    <3>1. overlapped' \subseteq overlapped
      <4>1. CASE AccountNext
        BY <2>4, <4>1 DEF AccountNext, accountVars, Login, LoadPrincipal, EndRequest,
           CreateAdmin, ChangeRole, DisableAdmin, RequireAdmin, CountSupers, SaveLoad
      <4>. QED
        BY <2>1, <4>1 DEF Next, accountVars, vars
    <3>. QED
      BY <2>1, <2>2, <2>4, <3>1, ChangesAreFlushes
  <2>. QED
    BY <2>3, <2>4
<1>3. Kept => SuperAdminRemains
  BY DEF SuperAdminRemains
<1>. QED
  BY <1>1, <1>2, <1>3, AccountInvariant, PTL DEF Spec

\* A save that is alone does not bring a disabled administrator back.
THEOREM RevivalsNeedOverlap == Spec => RevivalNeedsOverlap
<1> DEFINE Step == \A x \in Admins :
             (admins[x] # NoAdmin /\ admins[x].status = "disabled"
                /\ admins'[x].status = "active")
             => \A r \in Requests : ~SavesAlone(r)
<1>1. ASSUME AccountInv, [Next]_vars PROVE Step
  <2> SUFFICES ASSUME NEW x \in Admins,
                      admins[x] # NoAdmin, admins[x].status = "disabled",
                      admins'[x].status = "active",
                      NEW r \in Requests, SavesAlone(r)
               PROVE  FALSE
    OBVIOUS
  <2>1. SaveFlush(r) /\ r \notin overlapped
    BY <1>1, OnlyFlushes DEF SavesAlone
  <2>2. /\ \A y \in Admins \ {req[r].target} : admins'[y] = admins[y]
        /\ admins[req[r].target] # NoAdmin =>
             admins'[req[r].target] = req[r].record /\ Safe(req[r].target, req[r].record)
    BY <1>1, <2>1, SavedAlone
  <2>3. req[r].target = x
    BY <2>2
  <2>. QED
    BY <2>2, <2>3 DEF Safe
<1>2. [Next]_vars /\ AccountInv => [Step]_vars
  BY <1>1
<1>. QED
  BY <1>2, AccountInvariant, PTL DEF Spec, RevivalNeedsOverlap
=============================================================================
