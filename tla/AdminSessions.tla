--------------------------- MODULE AdminSessions ----------------------------
(***************************************************************************)
(* The administrators' sessions of apps/api: ValkeyAdminSessionStore over  *)
(* the KV adapter. KV has neither an atomic renewal of a time to live nor  *)
(* a transaction: expire is a get and then a put, and another request may  *)
(* come between them. On Valkey expire is one step, which is the case      *)
(* where nothing does.                                                     *)
(***************************************************************************)
EXTENDS Naturals

CONSTANTS
  Admins,     \* administrators, named by their addresses
  Sessions,   \* random session ids that may be in use at once
  Requests,   \* requests in flight at once
  IdleTicks,  \* periods an entry lasts without renewal (the idle timeout)
  NoSession   \* no value under a session's key

ASSUME SessionAssumption ==
  /\ IdleTicks \in Nat \ {0}
  /\ NoSession \notin [admin : Admins, ttl : 1..IdleTicks]

VARIABLES
  sessions,   \* sessions[s]: the KV value under the key of s, and its ttl
  old,        \* old: sessions created more than ADMIN_SESSION_TTL_SECONDS ago
  req         \* req[r]: where request r is

sessionVars == <<sessions, old>>

Entry(x) == [admin |-> x, ttl |-> IdleTicks]

Idle == [pc |-> "idle"]
Goto(r, state) == req' = [req EXCEPT ![r] = state]

\* r holds a session that was found under s.
Holds(r, s) == req[r].pc \in {"drop", "renewGet", "renewPut"} /\ req[r].session = s

SessionInit ==
  /\ sessions = [s \in Sessions |-> NoSession]
  /\ old = {}
  /\ req = [r \in Requests |-> Idle]

-----------------------------------------------------------------------------
\* create, for a login that succeeded. The id is random: nobody uses it.
CreateSession(r, s) ==
  /\ req[r].pc = "create"
  /\ sessions[s] = NoSession
  /\ \A q \in Requests : ~Holds(q, s)
  /\ sessions' = [sessions EXCEPT ![s] = Entry(req[r].admin)]
  /\ old' = old \ {s}
  /\ Goto(r, Idle)

\* resolve reads the value and compares its createdAt with the limit.
Forever(s) == FALSE   \* mutant: only the idle timeout is enforced
TooOld(s) == s \in old
ResolveSession(r, s) ==
  /\ req[r] = Idle
  /\ sessions[s] # NoSession
  /\ \/ TooOld(s) /\ Goto(r, [pc |-> "drop", session |-> s])
     \/ ~TooOld(s) /\ Goto(r, [pc |-> "renewGet", session |-> s,
                               admin |-> sessions[s].admin])
  /\ UNCHANGED sessionVars

DropSession(r) ==
  /\ req[r].pc = "drop"
  /\ sessions' = [sessions EXCEPT ![req[r].session] = NoSession]
  /\ Goto(r, Idle)
  /\ UNCHANGED old

Resolved(x) == [pc |-> "principal", admin |-> x]

\* expire: the get, and the put if there was a value. The session counts as
\* resolved in any case.
RenewGet(r) ==
  LET s == req[r].session IN
  /\ req[r].pc = "renewGet"
  /\ \/ sessions[s] = NoSession /\ Goto(r, Resolved(req[r].admin))
     \/ /\ sessions[s] # NoSession
        /\ Goto(r, [pc |-> "renewPut", session |-> s, admin |-> req[r].admin])
  /\ UNCHANGED sessionVars

RenewPut(r) ==
  /\ req[r].pc = "renewPut"
  /\ sessions' = [sessions EXCEPT ![req[r].session] = Entry(req[r].admin)]
  /\ Goto(r, Resolved(req[r].admin))
  /\ UNCHANGED old

\* destroy: AdminAuthService.logout. The request that logs out has resolved
\* its session before, as any other does.
Logout(s) ==
  /\ sessions[s] # NoSession
  /\ sessions' = [sessions EXCEPT ![s] = NoSession]
  /\ UNCHANGED <<old, req>>

\* A period passes without renewal: KV drops an entry whose ttl is over.
Older(v) == IF v.ttl = 1 THEN NoSession ELSE [v EXCEPT !.ttl = v.ttl - 1]
Elapse(s) ==
  /\ sessions[s] # NoSession
  /\ sessions' = [sessions EXCEPT ![s] = Older(@)]
  /\ UNCHANGED <<old, req>>

\* Eight hours have passed since s was created.
GrowOld(s) ==
  /\ sessions[s] # NoSession /\ s \notin old
  /\ old' = old \cup {s}
  /\ UNCHANGED <<sessions, req>>

Abort(r) ==
  /\ req[r].pc # "idle"
  /\ Goto(r, Idle)
  /\ UNCHANGED sessionVars

SessionStep(r) ==
  \/ \E s \in Sessions : CreateSession(r, s)
  \/ DropSession(r) \/ RenewGet(r) \/ RenewPut(r)

SessionNext ==
  \/ \E r \in Requests : SessionStep(r) \/ Abort(r)
  \/ \E r \in Requests, s \in Sessions : ResolveSession(r, s)
  \/ \E s \in Sessions : Logout(s) \/ Elapse(s) \/ GrowOld(s)
=============================================================================
