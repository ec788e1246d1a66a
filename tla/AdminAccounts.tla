--------------------------- MODULE AdminAccounts ----------------------------
(***************************************************************************)
(* The administrators of apps/api: AdminAuthService and                    *)
(* AdminAccountService over the admin_accounts table, behind the sessions  *)
(* of AdminSessions. An operation acts on what it read at its start: the   *)
(* role of its principal, the record of its target and the number of       *)
(* active super_admins are each read in a query of their own, and the      *)
(* record is saved as a whole.                                             *)
(***************************************************************************)
EXTENDS AdminSessions, FiniteSets

CONSTANTS
  OtherRoles,  \* the roles without MANAGE_ADMINS
  NoAdmin      \* no row under an address

Super == "super_admin"
Roles == {Super} \cup OtherRoles

\* The columns that change. The address is unique (uq_admin_accounts_email_
\* normalized) and is never changed: it names the row.
Admin == [role : Roles, status : {"active", "disabled"}]

ASSUME AdminAssumption == NoAdmin \notin Admin

VARIABLES
  admins,      \* admins[x]: the row of x
  overlapped   \* history: requests during whose operation another one saved

vars == <<sessions, old, req, admins, overlapped>>
accountVars == <<admins, overlapped>>

Active(x) == admins[x] # NoAdmin /\ admins[x].status = "active"
ActiveSupers == {x \in Admins : Active(x) /\ admins[x].role = Super}

\* The first super_admin is provisioned.
Init ==
  /\ SessionInit
  /\ \E x \in Admins :
       admins = [y \in Admins |->
         IF y = x THEN [role |-> Super, status |-> "active"] ELSE NoAdmin]
  /\ overlapped = {}

-----------------------------------------------------------------------------
(* AdminAuthService                                                        *)

\* login, or a passkey: an active account; its session is created next.
Login(r, x) ==
  /\ req[r] = Idle
  /\ Active(x)
  /\ Goto(r, [pc |-> "create", admin |-> x])
  /\ UNCHANGED <<sessionVars, accountVars>>

\* resolvePrincipal reads the account of the session.
LoadPrincipal(r) ==
  LET x == req[r].admin IN
  /\ req[r].pc = "principal"
  /\ \/ Active(x) /\ Goto(r, [pc |-> "act", admin |-> x, role |-> admins[x].role])
     \/ ~Active(x) /\ Goto(r, Idle)
  /\ UNCHANGED <<sessionVars, accountVars>>

-----------------------------------------------------------------------------
(* AdminAccountService. Each operation asserts MANAGE_ADMINS first.        *)

MayManage(r) == req[r].pc = "act" /\ req[r].role = Super

\* Another operation of the console, or one this principal may not do.
EndRequest(r) ==
  /\ req[r].pc = "act"
  /\ Goto(r, Idle)
  /\ UNCHANGED <<sessionVars, accountVars>>

\* r is about to save a record of x, having loaded `row` under its id.
Saving(x, record, row) ==
  [pc |-> "saveFlush", target |-> x, record |-> record, row |-> row]

\* createAdmin: the address is free; the password is hashed and an id drawn,
\* under which save will find no row.
CreateAdmin(r, x, role) ==
  /\ MayManage(r)
  /\ admins[x] = NoAdmin
  /\ Goto(r, Saving(x, [role |-> role, status |-> "active"], NoAdmin))
  /\ overlapped' = overlapped \ {r}
  /\ UNCHANGED <<sessionVars, admins>>

\* The record changeRole saves: the one it read, with the new role.
RoleAlone(record, role) == [role |-> role]   \* mutant: the record is not spread
RoleReset(record, role) ==   \* mutant: the status is not carried over
  [role |-> role, status |-> "active"]
WithRole(record, role) == [record EXCEPT !.role = role]

\* The record disableAdmin saves.
Disabled(record) == [record EXCEPT !.status = "disabled"]

\* requireAdmin: changeRole and disableAdmin read their target.
RequireAdmin(r, x, op, updated) ==
  /\ MayManage(r)
  /\ admins[x] # NoAdmin
  /\ Goto(r, [pc |-> "count", op |-> op, actor |-> req[r].admin, target |-> x,
              record |-> admins[x], updated |-> updated])
  /\ overlapped' = overlapped \ {r}
  /\ UNCHANGED <<sessionVars, admins>>

ChangeRole(r, x, role) == RequireAdmin(r, x, "changeRole", WithRole(admins[x], role))
DisableAdmin(r, x) == RequireAdmin(r, x, "disable", Disabled(admins[x]))

\* assertRoleChangeAllowed
RoleChangeUncounted(actor, target, record, role, supers) ==   \* mutant: no count
  (record.role = Super /\ role # Super) => actor # target
RoleChangeAllowed(actor, target, record, role, supers) ==
  (record.role = Super /\ role # Super) => (actor # target /\ supers > 1)

\* assertDisableAllowed
DisableAllowed(actor, target, record, supers) ==
  /\ actor # target
  /\ record.role = Super => supers > 1

\* The assertion, with the number that countActiveByRole has returned.
Allowed(q, supers) ==
  \/ q.op = "changeRole"
       /\ RoleChangeAllowed(q.actor, q.target, q.record, q.updated.role, supers)
  \/ q.op = "disable" /\ DisableAllowed(q.actor, q.target, q.record, supers)

CountSupers(r) ==
  LET allowed == Allowed(req[r], Cardinality(ActiveSupers)) IN
  /\ req[r].pc = "count"
  /\ \/ allowed /\ Goto(r, [pc |-> "saveLoad", target |-> req[r].target,
                            record |-> req[r].updated])
     \/ ~allowed /\ Goto(r, Idle)
  /\ UNCHANGED <<sessionVars, accountVars>>

\* save: findOne of the row,
SaveLoad(r) ==
  /\ req[r].pc = "saveLoad"
  /\ Goto(r, Saving(req[r].target, req[r].record, admins[req[r].target]))
  /\ UNCHANGED <<sessionVars, accountVars>>

\* and then the update of the columns that differ from it, or the insert,
\* which the unique index refuses when the address is taken by now.
Column(now, loaded, assigned) == IF assigned = loaded THEN now ELSE assigned
Flushed(now, loaded, record) ==
  [role |-> Column(now.role, loaded.role, record.role),
   status |-> Column(now.status, loaded.status, record.status)]

Managing == {r \in Requests : req[r].pc \in {"count", "saveLoad", "saveFlush"}}

SaveFlush(r) ==
  LET q == req[r]
      x == q.target
  IN
  /\ q.pc = "saveFlush"
  /\ \/ /\ q.row # NoAdmin
        /\ admins' = [admins EXCEPT ![x] = Flushed(@, q.row, q.record)]
     \/ /\ q.row = NoAdmin /\ admins[x] = NoAdmin
        /\ admins' = [admins EXCEPT ![x] = q.record]
     \/ q.row = NoAdmin /\ admins[x] # NoAdmin /\ UNCHANGED admins
  /\ overlapped' = (overlapped \cup Managing) \ {r}
  /\ Goto(r, Idle)
  /\ UNCHANGED sessionVars

AccountNext ==
  \/ \E r \in Requests, x \in Admins :
       \/ Login(r, x) \/ DisableAdmin(r, x)
       \/ \E role \in Roles : CreateAdmin(r, x, role) \/ ChangeRole(r, x, role)
  \/ \E r \in Requests :
       \/ LoadPrincipal(r) \/ CountSupers(r)
       \/ SaveLoad(r) \/ SaveFlush(r) \/ EndRequest(r)

Next ==
  \/ AccountNext
  \/ SessionNext /\ UNCHANGED accountVars

Spec == Init /\ [][Next]_vars

\* A request that can go on does so, or dies; time passes.
FairSpec ==
  /\ Spec
  /\ \A r \in Requests : WF_vars(SessionStep(r) /\ UNCHANGED accountVars)
  /\ \A s \in Sessions : /\ WF_vars(Elapse(s) /\ UNCHANGED accountVars)
                          /\ WF_vars(GrowOld(s) /\ UNCHANGED accountVars)

-----------------------------------------------------------------------------
(* Properties                                                              *)

Dropping == [pc : {"drop"}, session : Sessions]
Renewing == [pc : {"renewGet", "renewPut"}, session : Sessions, admin : Admins]
Naming == [pc : {"create", "principal"}, admin : Admins]
Acting == [pc : {"act"}, admin : Admins, role : Roles]
Counting == [pc : {"count"}, op : {"changeRole", "disable"}, actor : Admins,
             target : Admins, record : Admin, updated : Admin]
Loading == [pc : {"saveLoad"}, target : Admins, record : Admin]
Flushing == [pc : {"saveFlush"}, target : Admins, record : Admin,
             row : Admin \cup {NoAdmin}]

RequestState ==
  {Idle} \cup Dropping \cup Renewing \cup Naming \cup Acting
         \cup Counting \cup Loading \cup Flushing

TypeOK ==
  /\ sessions \in [Sessions -> [admin : Admins, ttl : 1..IdleTicks] \cup {NoSession}]
  /\ old \subseteq Sessions
  /\ req \in [Requests -> RequestState]
  /\ admins \in [Admins -> Admin \cup {NoAdmin}]
  /\ overlapped \subseteq Requests

\* r ends its save in this step and no other save came since it read its target.
SavesAlone(r) ==
  req[r].pc = "saveFlush" /\ r \notin overlapped /\ req'[r] = Idle

\* The lockout rules are right for one operation at a time, even when its
\* principal has lost its role since the request was authenticated: only
\* operations that overlap can leave the console without an active
\* super_admin (assertRoleChangeAllowed, assertDisableAllowed).
LockoutNeedsOverlap ==
  [][(ActiveSupers # {} /\ ActiveSupers' = {}) =>
       \A r \in Requests : ~SavesAlone(r)]_vars

\* A disabled administrator comes back only through a role change that had
\* read the record before it was disabled (changeRole saves the whole record).
RevivalNeedsOverlap ==
  [][\A x \in Admins :
       (admins[x] # NoAdmin /\ admins[x].status = "disabled"
          /\ admins'[x].status = "active")
       => \A r \in Requests : ~SavesAlone(r)]_vars

\* Every session ends, however it is used and whatever requests were renewing
\* it when it was dropped: the absolute limit holds against the sliding one
\* (resolve of ValkeyAdminSessionStore over the KV adapter).
SessionsEnd ==
  \A s \in Sessions : (sessions[s] # NoSession) ~> (sessions[s] = NoSession)

-----------------------------------------------------------------------------
(* What the documents say and the code does not do.                        *)

\* BR-ADMIN-002 (07-admin-console.md:33): the last super_admin is not removed.
SuperAdminRemains == ActiveSupers # {}
=============================================================================
