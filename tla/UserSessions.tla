----------------------------- MODULE UserSessions ----------------------------
(***************************************************************************)
(* Sessions of one user: login, logout, password change, password reset    *)
(* and withdrawal, from the Server Actions of apps/client (which keep the  *)
(* session id in a cookie of the browser) through UserService to the       *)
(* session and token stores on KV and the user's row. The state of a       *)
(* request names the await it is at; the tabs of a browser share a cookie. *)
(* Of the row's status only withdrawal counts here, and that a later write *)
(* undoes it; which writes those are is in UserSystem.                     *)
(***************************************************************************)
EXTENDS Naturals, FiniteSets

CONSTANTS
  Browsers,   \* browsers the user uses
  Requests,   \* requests of the user's tabs in flight at once
  Sids,       \* session ids, drawn once each
  Tokens,     \* tokens of reset links, drawn once each
  Passwords,  \* passwords that pass the policy
  NoSid

VARIABLES
  account,    \* "live", or "withdrawn": findById and findByEmailNormalized skip it
  password,   \* the password the stored hash verifies
  sessions,   \* the session ids in KV
  resets,     \* the reset tokens in KV
  cookie,     \* cookie[b]: the session cookie of browser b
  at,         \* at[r]: where request r is; barred is history: the account was
              \* withdrawn when r came, and has been ever since
  \* History:
  known,      \* session ids and tokens that have been drawn
  loggedOut,  \* sessions that were destroyed by a logout
  renewing,   \* those of them that a request was just renewing
  spent,      \* spent[t]: passwords set by token t
  shared      \* tokens a request got while another was about to delete them

vars == <<account, password, sessions, resets, cookie, at,
          known, loggedOut, renewing, spent, shared>>
history == <<known, loggedOut, renewing, spent, shared>>
stores == <<account, password, sessions, resets>>

Idle == [pc |-> "idle"]
Goto(r, state) == at' = [at EXCEPT ![r] = state]
Step(r, pc) == at' = [at EXCEPT ![r].pc = pc]

\* The states of requests that log in or have a session.
Barrable == {"verify", "create", "resolve", "renew", "put", "user", "admitted", "write"}

\* What a request with a session may be for.
Operations ==
  [kind : {"page"}] \cup [kind : {"change"}, current : Passwords, new : Passwords]
    \cup [kind : {"withdraw"}, current : Passwords]

Init ==
  /\ account = "live"
  /\ password \in Passwords
  /\ sessions = {} /\ resets = {}
  /\ cookie = [b \in Browsers |-> NoSid]
  /\ at = [r \in Requests |-> Idle]
  /\ known = {} /\ loggedOut = {} /\ renewing = {}
  /\ spent = [t \in Tokens |-> 0]
  /\ shared = {}

-----------------------------------------------------------------------------
(* Login                                                                   *)

AnyUser == TRUE   \* mutant: the lookups forget withdrawn users
FoundUser == account = "live"

\* The form is shown to browsers without a cookie. The account is found,
Login(r, b, w) ==
  /\ at[r] = Idle /\ cookie[b] = NoSid
  /\ FoundUser
  /\ Goto(r, [pc |-> "verify", browser |-> b, password |-> w, barred |-> account = "withdrawn"])
  /\ UNCHANGED <<stores, cookie, history>>

\* then its hash, which verifies the password or not,
VerifyPassword(r) ==
  /\ at[r].pc = "verify"
  /\ IF at[r].password = password THEN Step(r, "create") ELSE Goto(r, Idle)
  /\ UNCHANGED <<stores, cookie, history>>

\* then a session is created
CreateSession(r, s) ==
  /\ at[r].pc = "create"
  /\ s \notin known
  /\ known' = known \cup {s}
  /\ sessions' = sessions \cup {s}
  /\ Goto(r, [pc |-> "cookie", browser |-> at[r].browser, sid |-> s])
  /\ UNCHANGED <<account, password, resets, cookie, loggedOut, renewing, spent, shared>>

\* and its id kept in the cookie.
SetSession(r) ==
  /\ at[r].pc = "cookie"
  /\ cookie' = [cookie EXCEPT ![at[r].browser] = at[r].sid]
  /\ Goto(r, Idle)
  /\ UNCHANGED <<stores, history>>

-----------------------------------------------------------------------------
(* Requests with a session                                                 *)

Ask(r, b, op) ==
  /\ at[r] = Idle /\ cookie[b] # NoSid
  /\ Goto(r, [pc |-> "resolve", browser |-> b, sid |-> cookie[b], op |-> op,
              barred |-> account = "withdrawn"])
  /\ UNCHANGED <<stores, cookie, history>>

\* A page that is refused sends the browser to /logout, which drops the cookie;
\* an action that is refused shows an error.
Refused(r) ==
  /\ Goto(r, Idle)
  /\ cookie' = IF at[r].op.kind = "page" THEN [cookie EXCEPT ![at[r].browser] = NoSid] ELSE cookie

\* resolve gets the session and renews it: expire gets it once more and puts it.
ResolveSession(r) ==
  /\ at[r].pc = "resolve"
  /\ \/ at[r].sid \in sessions /\ Step(r, "renew") /\ UNCHANGED cookie
     \/ at[r].sid \notin sessions /\ Refused(r)
  /\ UNCHANGED <<stores, history>>

AlwaysPut(s) == TRUE   \* mutant: expire puts what resolve has got
StillThere(s) == s \in sessions
RenewGet(r) ==
  /\ at[r].pc = "renew"
  /\ Step(r, IF StillThere(at[r].sid) THEN "put" ELSE "user")
  /\ UNCHANGED <<stores, cookie, history>>

RenewPut(r) ==
  /\ at[r].pc = "put"
  /\ sessions' = sessions \cup {at[r].sid}
  /\ Step(r, "user")
  /\ UNCHANGED <<account, password, resets, cookie, history>>

\* ViewerProvider finds the user of the session.
FindUser(r) ==
  /\ at[r].pc = "user"
  /\ \/ FoundUser /\ Step(r, "admitted") /\ UNCHANGED cookie
     \/ ~FoundUser /\ Refused(r)
  /\ UNCHANGED <<stores, history>>

\* The page is rendered; or the user is found again and the current password
\* verified.
Serve(r) ==
  /\ at[r].pc = "admitted"
  /\ IF at[r].op.kind # "page" /\ FoundUser /\ at[r].op.current = password
     THEN Step(r, "write") ELSE Goto(r, Idle)
  /\ UNCHANGED <<stores, cookie, history>>

\* changePassword stores the hash with a new session epoch, which nothing reads.
StorePassword(r) ==
  /\ at[r].pc = "write" /\ at[r].op.kind = "change"
  /\ password' = at[r].op.new
  /\ Goto(r, Idle)
  /\ UNCHANGED <<account, sessions, resets, cookie, known, loggedOut, renewing, spent, shared>>

\* withdraw marks the row; sessions stay in KV, the browser forgets its own.
Withdraw(r) ==
  /\ at[r].pc = "write" /\ at[r].op.kind = "withdraw"
  /\ account' = "withdrawn"
  /\ cookie' = [cookie EXCEPT ![at[r].browser] = NoSid]
  /\ Goto(r, Idle)
  /\ UNCHANGED <<password, sessions, resets, history>>

\* A status is written over WITHDRAWN: by a confirmation link that is opened
\* after the withdrawal, or by a change of address or a freeze that found the
\* account before it. The sessions left in KV are good again.
Revive ==
  /\ account = "withdrawn"
  /\ account' = "live"
  /\ at' = [r \in Requests |-> IF at[r].pc \in Barrable
                               THEN [at[r] EXCEPT !.barred = FALSE] ELSE at[r]]
  /\ UNCHANGED <<password, sessions, resets, cookie, history>>

\* logoutAction destroys the session, if the API answers, and drops the cookie.
Logout(r, b) ==
  /\ at[r] = Idle /\ cookie[b] # NoSid
  /\ \/ /\ sessions' = sessions \ {cookie[b]}
        /\ loggedOut' = loggedOut \cup {cookie[b]}
        /\ renewing' = IF \E q \in Requests : at[q].pc = "put" /\ at[q].sid = cookie[b]
                       THEN renewing \cup {cookie[b]} ELSE renewing
     \/ UNCHANGED <<sessions, loggedOut, renewing>>
  /\ cookie' = [cookie EXCEPT ![b] = NoSid]
  /\ UNCHANGED <<account, password, resets, at, known, spent, shared>>

-----------------------------------------------------------------------------
(* Password reset                                                          *)

RequestPasswordReset(t) ==
  /\ FoundUser /\ t \notin known
  /\ known' = known \cup {t}
  /\ resets' = resets \cup {t}
  /\ UNCHANGED <<account, password, sessions, cookie, at, loggedOut, renewing, spent, shared>>

\* resetPassword: the token is consumed by a get and a delete,
OpenResetLink(r, t, w) ==
  /\ at[r] = Idle /\ t \in resets
  /\ Goto(r, [pc |-> "consume", token |-> t, new |-> w])
  /\ shared' = IF \E q \in Requests : at[q].pc = "consume" /\ at[q].token = t
               THEN shared \cup {t} ELSE shared
  /\ UNCHANGED <<stores, cookie, known, loggedOut, renewing, spent>>

KeptToken(t) == resets   \* mutant: consume does not delete
Consumed(t) == resets \ {t}
DeleteToken(r) ==
  /\ at[r].pc = "consume"
  /\ resets' = Consumed(at[r].token)
  /\ Step(r, "owner")
  /\ UNCHANGED <<account, password, sessions, cookie, history>>

\* then its user is found, and the password is checked against the policy,
\* after the link is gone,
FindOwner(r) ==
  /\ at[r].pc = "owner"
  /\ \/ FoundUser /\ Step(r, "reset")
     \/ Goto(r, Idle)
  /\ UNCHANGED <<stores, cookie, history>>

\* and the hash stored.
ResetPassword(r) ==
  /\ at[r].pc = "reset"
  /\ password' = at[r].new
  /\ spent' = [spent EXCEPT ![at[r].token] = spent[at[r].token] + 1]
  /\ Goto(r, Idle)
  /\ UNCHANGED <<account, sessions, resets, cookie, known, loggedOut, renewing, shared>>

-----------------------------------------------------------------------------
(* Entries of KV and cookies expire (the cookie thirty days after the       *)
(* login: it is not renewed with its session); requests die.               *)

Expire ==
  /\ \/ \E s \in sessions : sessions' = sessions \ {s} /\ UNCHANGED <<resets, cookie>>
     \/ \E t \in resets : resets' = resets \ {t} /\ UNCHANGED <<sessions, cookie>>
     \/ \E b \in Browsers : /\ cookie[b] # NoSid
                            /\ cookie' = [cookie EXCEPT ![b] = NoSid]
                            /\ UNCHANGED <<sessions, resets>>
  /\ UNCHANGED <<account, password, at, history>>

Abort(r) ==
  /\ at[r] # Idle
  /\ Goto(r, Idle)
  /\ UNCHANGED <<stores, cookie, history>>

\* The steps that replace the password.
Replacing(r) == StorePassword(r) \/ ResetPassword(r)

\* All others.
Others ==
  \/ \E r \in Requests, b \in Browsers :
       \/ \E w \in Passwords : Login(r, b, w)
       \/ \E op \in Operations : Ask(r, b, op)
       \/ Logout(r, b)
  \/ \E r \in Requests :
       \/ VerifyPassword(r) \/ SetSession(r) \/ ResolveSession(r) \/ RenewGet(r)
       \/ RenewPut(r) \/ FindUser(r) \/ Serve(r) \/ Withdraw(r)
       \/ DeleteToken(r) \/ FindOwner(r) \/ Abort(r)
       \/ \E s \in Sids : CreateSession(r, s)
       \/ \E t \in Tokens, w \in Passwords : OpenResetLink(r, t, w)
  \/ \E t \in Tokens : RequestPasswordReset(t)
  \/ Revive
  \/ Expire

Next == Others \/ \E r \in Requests : Replacing(r)

Spec == Init /\ [][Next]_vars

-----------------------------------------------------------------------------
(* Properties                                                              *)

Request ==
  [pc : {"verify", "create"}, browser : Browsers, password : Passwords, barred : BOOLEAN]
    \cup [pc : {"cookie"}, browser : Browsers, sid : Sids]
    \cup [pc : {"resolve", "renew", "put", "user", "admitted", "write"}, browser : Browsers,
          sid : Sids, op : Operations, barred : BOOLEAN]
    \cup [pc : {"consume", "owner", "reset"}, token : Tokens, new : Passwords]

TypeOK ==
  /\ account \in {"live", "withdrawn"}
  /\ password \in Passwords
  /\ sessions \subseteq Sids /\ resets \subseteq Tokens
  /\ cookie \in [Browsers -> Sids \cup {NoSid}]
  /\ at \in [Requests -> {Idle} \cup Request]
  /\ known \subseteq Sids \cup Tokens
  /\ loggedOut \subseteq Sids /\ renewing \subseteq Sids
  /\ spent \in [Tokens -> Nat]
  /\ shared \subseteq Tokens

\* A session that was destroyed by a logout is gone, whatever other tabs of the
\* user are loading, unless one of them was between the get and the put of its
\* renewal (expire on KV; BR-ACCT-004).
LogoutHolds == loggedOut \cap sessions \subseteq renewing

\* A reset link sets one password, unless two requests got its token before
\* either deleted it (consume; BR-ACCT-006).
ResetLinkUsedOnce == \A t \in Tokens : spent[t] > 1 => t \in shared

\* While an account is withdrawn nobody gets in, though its sessions stay in KV
\* and other browsers keep their cookies: a request that came after the
\* withdrawal is admitted or logs in only if the account was revived meanwhile,
\* before it looked for its user (findById, findByEmailNormalized; BR-ACCT-009).
WithdrawnStaysOut ==
  \A r \in Requests : at[r].pc \in {"create", "admitted", "write"} => ~at[r].barred

=============================================================================
