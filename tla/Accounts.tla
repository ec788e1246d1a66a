------------------------------ MODULE Accounts ------------------------------
(***************************************************************************)
(* UserService of apps/api: registration, confirmation links, change of    *)
(* address and withdrawal, over the users table and the one-time tokens    *)
(* in KV. Sessions and passwords only decide whether an operation may      *)
(* start: any user that can log in may start it at any time.               *)
(*                                                                         *)
(* A link is mailed after its token is stored; a mail that is lost is a    *)
(* token nobody ever uses.                                                 *)
(***************************************************************************)
EXTENDS UserTable

CONSTANTS
  Tokens,    \* random tokens that may be outstanding at once
  NoToken    \* no value under a token's key

ASSUME TokenAssumption == NoToken \notin [type : {"verify", "change_email"},
                                          user : Users, sentTo : Emails]

VARIABLES
  tokens,   \* tokens[t]: the value under the key of t, and where it was sent
  proven    \* history: proven[u] are the addresses whose links u has opened

accountVars == <<tokens, proven>>

TokenValue == [type : {"verify", "change_email"}, user : Users, sentTo : Emails]

AccountInit ==
  /\ tokens = [t \in Tokens |-> NoToken]
  /\ proven = [u \in Users |-> {}]

\* A row found under the normalised address: findByEmailNormalized.
TakenBy(e) == {u \in Users : Live(users[u]) /\ users[u].norm = Norm[e]}

-----------------------------------------------------------------------------
(* register, and the confirmation mail it shares with resend.              *)

\* No row is found under the address: the id is drawn and the hash computed.
\* (Otherwise a mail goes to the owner and nothing changes.)
Register(r, u, e) ==
  /\ req[r] = Idle
  /\ TakenBy(e) = {}
  /\ Goto(r, [pc |-> "create", user |-> u, email |-> e])
  /\ UNCHANGED <<users, tokens, proven>>

\* createWithProfile: one insert, refused by the primary key or the index.
CreateWithProfile(r) ==
  LET u == req[r].user
      e == req[r].email
      new == [users EXCEPT ![u] =
        [status |-> "UNVERIFIED", verified |-> FALSE, email |-> e, norm |-> Norm[e]]]
  IN
  /\ req[r].pc = "create"
  /\ \/ /\ users[u] = NoRow /\ Indexed(new)
        /\ users' = new
        /\ Goto(r, [pc |-> "sendVerify", user |-> u, email |-> e])
     \/ /\ ~(users[u] = NoRow /\ Indexed(new))
        /\ Goto(r, Idle)
        /\ UNCHANGED users
  /\ UNCHANGED <<tokens, proven>>

\* resendVerificationEmail of a user that is not verified yet.
ResendVerificationEmail(r, u) ==
  /\ req[r] = Idle
  /\ Live(users[u]) /\ ~users[u].verified
  /\ Goto(r, [pc |-> "sendVerify", user |-> u, email |-> users[u].email])
  /\ UNCHANGED <<users, tokens, proven>>

\* A new token is stored and mailed. Tokens are random: t is not the one
\* another request is consuming.
NewToken(r, t, type, u, e) ==
  /\ tokens[t] = NoToken
  /\ \A q \in Requests : req[q].pc = "consume" => req[q].token # t
  /\ tokens' = [tokens EXCEPT ![t] = [type |-> type, user |-> u, sentTo |-> e]]
  /\ Goto(r, Idle)
  /\ UNCHANGED <<users, proven>>

SendVerificationEmail(r, t) ==
  /\ req[r].pc = "sendVerify"
  /\ NewToken(r, t, "verify", req[r].user, req[r].email)

-----------------------------------------------------------------------------
(* requestEmailChange                                                      *)

ChangeEmailAtOnce(r, u, e) ==   \* mutant: the row is changed before the link
  /\ req[r] = Idle
  /\ Live(users[u])
  /\ TakenBy(e) \subseteq {u}
  /\ Goto(r, Writing(u, [SetStatus(users[u].status) EXCEPT
                            !.email = e, !.norm = Norm[e]], Idle))
  /\ UNCHANGED <<users, tokens, proven>>

\* The new address is free, or is the user's own in another spelling.
RequestEmailChange(r, u, e) ==
  /\ req[r] = Idle
  /\ Live(users[u])
  /\ TakenBy(e) \subseteq {u}
  /\ Goto(r, [pc |-> "sendChange", user |-> u, email |-> e])
  /\ UNCHANGED <<users, tokens, proven>>

\* The link goes to the new address.
SendEmailChangeConfirmation(r, t) ==
  /\ req[r].pc = "sendChange"
  /\ NewToken(r, t, "change_email", req[r].user, req[r].email)

-----------------------------------------------------------------------------
(* verifyEmail and verifyEmailChange: a link is opened.                    *)

\* consume on KV is a get and then a delete: getdel of kv-valkey-client.
OpenLink(r, t) ==
  /\ req[r] = Idle
  /\ tokens[t] # NoToken
  /\ Goto(r, [pc |-> "consume", token |-> t, value |-> tokens[t]])
  /\ UNCHANGED <<users, tokens, proven>>

\* The update of verifyEmail.
SetVerified ==
  [status |-> "ACTIVE", verified |-> TRUE, email |-> Undefined, norm |-> Undefined]

\* The update of verifyEmailChange.
SetEmailUnverified(e) ==   \* mutant: the new address has to be verified again
  [status |-> "UNVERIFIED", verified |-> Undefined, email |-> e, norm |-> Norm[e]]
SetEmail(e) ==
  [status |-> "ACTIVE", verified |-> TRUE, email |-> e, norm |-> Norm[e]]

\* The delete. verifyEmail goes on to its update, verifyEmailChange to findById.
DeleteToken(r) ==
  LET v == req[r].value IN
  /\ req[r].pc = "consume"
  /\ tokens' = [tokens EXCEPT ![req[r].token] = NoToken]
  /\ proven' = [proven EXCEPT ![v.user] = @ \cup {v.sentTo}]
  /\ \/ /\ v.type = "verify"
        /\ Goto(r, Writing(v.user, SetVerified, Idle))
     \/ /\ v.type = "change_email"
        /\ Goto(r, [pc |-> "confirm", user |-> v.user, email |-> v.sentTo])
  /\ UNCHANGED users

\* verifyEmailChange finds the account, unless it was withdrawn.
ConfirmEmailChange(r) ==
  LET u == req[r].user IN
  /\ req[r].pc = "confirm"
  /\ \/ Live(users[u]) /\ Goto(r, Writing(u, SetEmail(req[r].email), Idle))
     \/ ~Live(users[u]) /\ Goto(r, Idle)
  /\ UNCHANGED <<users, tokens, proven>>

\* The value of a token is gone 24 hours after it was stored.
ExpireToken(t) ==
  /\ tokens[t] # NoToken
  /\ tokens' = [tokens EXCEPT ![t] = NoToken]
  /\ UNCHANGED <<users, req, proven>>

-----------------------------------------------------------------------------
\* withdraw: refused to a frozen user, then the status is written.
Withdraw(r, u) ==
  /\ req[r] = Idle
  /\ Live(users[u]) /\ users[u].status # "FROZEN"
  /\ Goto(r, Writing(u, SetStatus("WITHDRAWN"), Idle))
  /\ UNCHANGED <<users, tokens, proven>>

AccountNext ==
  \/ \E r \in Requests, u \in Users :
       \/ \E e \in Emails : Register(r, u, e) \/ RequestEmailChange(r, u, e)
       \/ ResendVerificationEmail(r, u)
       \/ Withdraw(r, u)
  \/ \E r \in Requests, t \in Tokens :
       SendVerificationEmail(r, t) \/ SendEmailChangeConfirmation(r, t) \/ OpenLink(r, t)
  \/ \E r \in Requests : CreateWithProfile(r) \/ DeleteToken(r) \/ ConfirmEmailChange(r)
  \/ \E t \in Tokens : ExpireToken(t)
=============================================================================
