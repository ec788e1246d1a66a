----------------------------- MODULE UserTable ------------------------------
(***************************************************************************)
(* The users table of apps/api and the requests that work on it.           *)
(*                                                                         *)
(* A GraphQL request runs between its awaits; D1 is used without           *)
(* transactions, so other requests run at every await and a request may    *)
(* die at any of them. req[r] is what request r holds between two awaits.  *)
(*                                                                         *)
(* Every service writes a row the same way: the repository loads the       *)
(* entity, assigns the fields it was given and flushes, and the ORM writes *)
(* only the fields that differ from the row it loaded.                     *)
(***************************************************************************)
EXTENDS Naturals, FiniteSets

CONSTANTS
  Users,      \* user ids (ULIDs), used once each
  Emails,     \* addresses as they are typed
  Norm,       \* normalizeEmail: trimmed and in lower case
  Requests,   \* requests in flight at once
  NoEmail,    \* the address of a row that does not exist
  Undefined   \* a field the caller does not change

Status == {"UNVERIFIED", "ACTIVE", "FROZEN", "WITHDRAWN"}

ASSUME UserAssumption ==
  /\ Norm \in [Emails -> Emails]
  /\ \A e \in Emails : Norm[Norm[e]] = Norm[e]
  /\ NoEmail \notin Emails
  /\ Undefined \notin Emails /\ Undefined \notin Status /\ Undefined \notin BOOLEAN

VARIABLES
  users,   \* users[u]: the row of u
  req      \* req[r]: where request r is

userVars == <<users, req>>

\* The columns that matter here; verified says that email_verified_at is set.
Row == [status : Status, verified : BOOLEAN, email : Emails, norm : Emails]
NoRow == [status |-> "NONE", verified |-> FALSE, email |-> NoEmail, norm |-> NoEmail]

\* UserUpdateInput, without the password hash and the session epoch.
Changes == [status : Status, verified : {TRUE, Undefined},
            email : Emails \cup {Undefined}, norm : Emails \cup {Undefined}]

\* A change of the status alone.
SetStatus(s) ==
  [status |-> s, verified |-> Undefined, email |-> Undefined, norm |-> Undefined]

Idle == [pc |-> "idle"]

\* The row exists and is not withdrawn: what findById and
\* findByEmailNormalized return.
Live(row) == row.status \in {"UNVERIFIED", "ACTIVE", "FROZEN"}

\* Partial unique index uq_users_email_normalized, which every write meets.
Indexed(us) ==
  \A u, v \in Users :
    (u # v /\ Live(us[u]) /\ Live(us[v])) => us[u].norm # us[v].norm

\* ALLOWED_TRANSITIONS of user-status.ts.
AllowedTransitions ==
  { <<"UNVERIFIED", "ACTIVE">>, <<"UNVERIFIED", "WITHDRAWN">>,
    <<"ACTIVE", "FROZEN">>, <<"ACTIVE", "WITHDRAWN">>,
    <<"FROZEN", "ACTIVE">>, <<"FROZEN", "WITHDRAWN">> }
CanTransition(from, to) == <<from, to>> \in AllowedTransitions

UserInit ==
  /\ users = [u \in Users |-> NoRow]
  /\ req = [r \in Requests |-> Idle]

\* Where r goes on: `state` is what it holds until its next step.
Goto(r, state) == req' = [req EXCEPT ![r] = state]

\* r is about to write `set` to the row of u and goes on with `next`.
Writing(u, set, next) == [pc |-> "load", user |-> u, set |-> set, next |-> next]

\* findOne in update and in setStatus: the row as it is now.
LoadRow(r) ==
  /\ req[r].pc = "load"
  /\ Goto(r, [pc |-> "flush", user |-> req[r].user, set |-> req[r].set,
              row |-> users[req[r].user], next |-> req[r].next])
  /\ UNCHANGED users

\* One column after the flush: written only if it was assigned and differs
\* from the loaded value.
ColumnUnchecked(now, loaded, assigned) ==   \* mutant: no test for undefined
  IF assigned = loaded THEN now ELSE assigned
Column(now, loaded, assigned) ==
  IF assigned \in {Undefined, loaded} THEN now ELSE assigned

Flushed(now, loaded, set) ==
  [status   |-> Column(now.status, loaded.status, set.status),
   verified |-> Column(now.verified, loaded.verified, set.verified),
   email    |-> Column(now.email, loaded.email, set.email),
   norm     |-> Column(now.norm, loaded.norm, set.norm)]

\* flush: the update of the dirty columns, or an error from the index.
FlushRow(r) ==
  LET u == req[r].user
      new == [users EXCEPT ![u] = Flushed(@, req[r].row, req[r].set)]
  IN
  /\ req[r].pc = "flush"
  /\ \/ Indexed(new) /\ users' = new /\ Goto(r, req[r].next)
     \/ ~Indexed(new) /\ Goto(r, Idle) /\ UNCHANGED users

\* The request dies: an error of D1, KV or the mail service, or of the worker.
Abort(r) ==
  /\ req[r].pc # "idle"
  /\ Goto(r, Idle)
  /\ UNCHANGED users

RowStep(r) == LoadRow(r) \/ FlushRow(r) \/ Abort(r)
=============================================================================
