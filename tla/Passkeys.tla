------------------------------- MODULE Passkeys ------------------------------
(***************************************************************************)
(* Passkeys of administrators in apps/api: AdminWebauthnService over the   *)
(* challenge store and the table admin_webauthn_credentials, with the      *)
(* authenticators that answer the challenges. A challenge is kept under    *)
(* one key per administrator (registration) or address (login), so that a  *)
(* later one replaces it; it is taken by a get and a delete of the KV      *)
(* adapter, and the counter of a passkey is read, verified and written in  *)
(* three queries.                                                          *)
(***************************************************************************)
EXTENDS Naturals, Sequences

CONSTANTS
  Emails,         \* addresses that may be typed in the login form
  Credentials,    \* credentials the authenticators create, by id
  Requests,       \* requests in flight at once
  MaxChallenges,  \* bound on the challenges issued
  MaxCount,       \* bound on the counter of an authenticator
  NoPasskey       \* no row, no counter

VARIABLES
  accounts,    \* accounts[e]: the status of the administrator, "none" if there is none
  passkeys,    \* passkeys[c]: the row of credential c
  challenges,  \* challenges[k]: the challenge kept under a key, 0 if none
  asked,       \* asked[n]: the key challenge n was issued for
  devices,     \* devices[c]: the counter of the authenticator, NoPasskey before c
  answers,     \* what authenticators have signed; a client may send it again
  call,        \* call[r]: where request r is
  \* History:
  uses,        \* uses[n]: passkeys or sessions challenge n has led to
  raced,       \* challenges a request got while another was about to delete them
  overtaken,   \* requests whose passkey was written after they had read it
  deleted      \* passkeys that an administrator has deleted

passkeyVars == <<accounts, passkeys, challenges, asked, devices, answers, call,
          uses, raced, overtaken, deleted>>
history == <<uses, raced, overtaken, deleted>>

Keys == [purpose : {"reg", "auth"}, email : Emails]
Numbers == 1..MaxChallenges
Passkey == [admin : Emails, signCount : 0..MaxCount]
Answer == [credential : Credentials, challenge : Numbers, count : 0..MaxCount]
ASSUME PasskeyAssumption ==
  /\ MaxChallenges \in Nat /\ MaxCount \in Nat
  /\ NoPasskey \notin Passkey \cup (0..MaxCount)

Purpose(a) == asked[a.challenge].purpose
Idle == [pc |-> "idle"]
Goto(r, state) == call' = [call EXCEPT ![r] = state]

PasskeyInit ==
  /\ accounts \in [Emails -> {"none", "active"}]
  /\ passkeys = [c \in Credentials |-> NoPasskey]
  /\ challenges = [k \in Keys |-> 0]
  /\ asked = <<>>
  /\ devices = [c \in Credentials |-> NoPasskey]
  /\ answers = {}
  /\ call = [r \in Requests |-> Idle]
  /\ uses = [n \in Numbers |-> 0]
  /\ raced = {} /\ overtaken = {} /\ deleted = {}

-----------------------------------------------------------------------------
(* WebauthnChallengeStore                                                  *)

\* put replaces what the key holds.
Put(k) ==
  /\ Len(asked) < MaxChallenges
  /\ asked' = Append(asked, k)
  /\ challenges' = [challenges EXCEPT ![k] = Len(asked) + 1]

\* take gets the challenge, and deletes whatever the key then holds.
Take(r, k, a) ==
  /\ call[r] = Idle
  /\ challenges[k] # 0
  /\ Goto(r, [pc |-> "delete", key |-> k, expected |-> challenges[k], answer |-> a])
  /\ raced' = IF \E q \in Requests : call[q].pc = "delete" /\ call[q].expected = challenges[k]
              THEN raced \cup {challenges[k]} ELSE raced
  /\ overtaken' = overtaken \ {r}
  /\ UNCHANGED <<accounts, passkeys, challenges, asked, devices, answers, uses, deleted>>

NothingDeleted(k) == challenges   \* mutant: get without a delete
Deleted(k) == [challenges EXCEPT ![k] = 0]
TakeDelete(r) ==
  LET q == call[r] IN
  /\ q.pc = "delete"
  /\ challenges' = Deleted(q.key)
  /\ Goto(r, [q EXCEPT !.pc = IF q.key.purpose = "reg" THEN "save" ELSE "find"])
  /\ UNCHANGED <<accounts, passkeys, asked, devices, answers, history>>

\* The entry outlives its five minutes.
ExpireChallenge(k) ==
  /\ challenges[k] # 0
  /\ challenges' = [challenges EXCEPT ![k] = 0]
  /\ UNCHANGED <<accounts, passkeys, asked, devices, answers, call, history>>

-----------------------------------------------------------------------------
(* The authenticators                                                      *)

\* A page that got challenge n has credential c made for it, or asks the holder
\* of c to sign it, once: it asks for another challenge to try again. Counters
\* grow with every signature; some authenticators have none and always say 0.
Sign(c, n, count) ==
  /\ n \in DOMAIN asked
  /\ \A a \in answers : a.challenge # n
  /\ \/ asked[n].purpose = "reg" /\ devices[c] = NoPasskey /\ count = 0
     \/ /\ asked[n].purpose = "auth" /\ devices[c] # NoPasskey
        /\ \/ count = devices[c] + 1
           \/ count = 0 /\ devices[c] = 0
  /\ devices' = [devices EXCEPT ![c] = count]
  /\ answers' = answers \cup {[credential |-> c, challenge |-> n, count |-> count]}
  /\ UNCHANGED <<accounts, passkeys, challenges, asked, call, history>>

\* WebauthnVerifier: the answer signs the expected challenge, and its counter
\* is above the stored one unless both are 0.
AnyCounter(count, stored) == TRUE   \* mutant: the counter is not looked at
CounterGrew(count, stored) == count > stored \/ (count = 0 /\ stored = 0)

-----------------------------------------------------------------------------
(* Registration and deletion, in a session of the administrator            *)

StartRegistration(e) ==
  /\ accounts[e] = "active"
  /\ Put([purpose |-> "reg", email |-> e])
  /\ UNCHANGED <<accounts, passkeys, devices, answers, call, history>>

FinishRegistration(r, e, a) ==
  /\ accounts[e] = "active"
  /\ a \in answers /\ Purpose(a) = "reg"
  /\ Take(r, [purpose |-> "reg", email |-> e], a)

\* The answer is verified and its row inserted, unless
\* uq_admin_webauthn_credential_id refuses it.
SavePasskey(r) ==
  LET q == call[r]
      c == q.answer.credential IN
  /\ q.pc = "save"
  /\ \/ /\ q.answer.challenge = q.expected /\ passkeys[c] = NoPasskey
        /\ passkeys' = [passkeys EXCEPT
             ![c] = [admin |-> q.key.email, signCount |-> q.answer.count]]
        /\ uses' = [uses EXCEPT ![q.expected] = uses[q.expected] + 1]
     \/ /\ q.answer.challenge # q.expected \/ passkeys[c] # NoPasskey
        /\ UNCHANGED <<passkeys, uses>>
  /\ Goto(r, Idle)
  /\ UNCHANGED <<accounts, challenges, asked, devices, answers, raced, overtaken, deleted>>

\* deletePasskey: only the administrator's own.
DeletePasskey(e, c) ==
  /\ accounts[e] = "active"
  /\ passkeys[c] # NoPasskey /\ passkeys[c].admin = e
  /\ passkeys' = [passkeys EXCEPT ![c] = NoPasskey]
  /\ deleted' = deleted \cup {c}
  /\ UNCHANGED <<accounts, challenges, asked, devices, answers, call, uses, raced, overtaken>>

-----------------------------------------------------------------------------
(* Login                                                                   *)

\* startAuthentication issues a challenge whether the address is known or not.
StartAuthentication(e) ==
  /\ Put([purpose |-> "auth", email |-> e])
  /\ UNCHANGED <<accounts, passkeys, devices, answers, call, history>>

FinishAuthentication(r, e, a) ==
  /\ a \in answers /\ Purpose(a) = "auth"
  /\ Take(r, [purpose |-> "auth", email |-> e], a)

\* findByEmailNormalized,
FindAdmin(r) ==
  LET q == call[r] IN
  /\ q.pc = "find"
  /\ Goto(r, IF accounts[q.key.email] = "active" THEN [q EXCEPT !.pc = "passkey"] ELSE Idle)
  /\ UNCHANGED <<accounts, passkeys, challenges, asked, devices, answers, history>>

\* findByCredentialId and verifyAuthentication.
Verified(q, row) ==
  /\ row # NoPasskey /\ row.admin = q.key.email
  /\ q.answer.challenge = q.expected
  /\ CounterGrew(q.answer.count, row.signCount)

VerifyAnswer(r) ==
  LET q == call[r] IN
  /\ q.pc = "passkey"
  /\ Goto(r, IF Verified(q, passkeys[q.answer.credential])
             THEN [q EXCEPT !.pc = "count"] ELSE Idle)
  /\ overtaken' = overtaken \ {r}
  /\ UNCHANGED <<accounts, passkeys, challenges, asked, devices, answers, uses, raced, deleted>>

\* updateSignCount finds the row again, which may be gone.
RowSaved(q) ==   \* mutant: the whole row is saved, as AdminAccountRepository does
  [passkeys EXCEPT ![q.answer.credential] =
     [admin |-> q.key.email, signCount |-> q.answer.count]]
Touched(q) ==
  IF passkeys[q.answer.credential] = NoPasskey THEN passkeys
  ELSE [passkeys EXCEPT ![q.answer.credential].signCount = q.answer.count]

UpdateSignCount(r) ==
  LET q == call[r] IN
  /\ q.pc = "count"
  /\ passkeys' = Touched(q)
  /\ overtaken' = overtaken \cup
       {s \in Requests \ {r} : /\ call[s].pc = "count"
                               /\ call[s].answer.credential = q.answer.credential}
  /\ Goto(r, [q EXCEPT !.pc = "session"])
  /\ UNCHANGED <<accounts, challenges, asked, devices, answers, uses, raced, deleted>>

\* A session is created and ADMIN_LOGIN recorded.
OpenSession(r) ==
  LET n == call[r].expected IN
  /\ call[r].pc = "session"
  /\ uses' = [uses EXCEPT ![n] = uses[n] + 1]
  /\ Goto(r, Idle)
  /\ UNCHANGED <<accounts, passkeys, challenges, asked, devices, answers,
                 raced, overtaken, deleted>>

-----------------------------------------------------------------------------
(* A super_admin disables the account; a request dies.                     *)
Disable(e) ==
  /\ accounts[e] = "active"
  /\ accounts' = [accounts EXCEPT ![e] = "disabled"]
  /\ UNCHANGED <<passkeys, challenges, asked, devices, answers, call, history>>

Abort(r) ==
  /\ call[r] # Idle
  /\ Goto(r, Idle)
  /\ UNCHANGED <<accounts, passkeys, challenges, asked, devices, answers, history>>

PasskeyNext ==
  \/ \E e \in Emails : StartRegistration(e) \/ StartAuthentication(e) \/ Disable(e)
  \/ \E e \in Emails, c \in Credentials : DeletePasskey(e, c)
  \/ \E k \in Keys : ExpireChallenge(k)
  \/ \E c \in Credentials, n \in Numbers, count \in 0..MaxCount : Sign(c, n, count)
  \/ \E r \in Requests, e \in Emails : \E a \in answers :
       FinishRegistration(r, e, a) \/ FinishAuthentication(r, e, a)
  \/ \E r \in Requests :
       \/ TakeDelete(r) \/ SavePasskey(r) \/ FindAdmin(r) \/ VerifyAnswer(r)
       \/ UpdateSignCount(r) \/ OpenSession(r) \/ Abort(r)

PasskeySpec == PasskeyInit /\ [][PasskeyNext]_passkeyVars

-----------------------------------------------------------------------------
(* Properties                                                              *)

PasskeyTypeOK ==
  /\ accounts \in [Emails -> {"none", "active", "disabled"}]
  /\ passkeys \in [Credentials -> Passkey \cup {NoPasskey}]
  /\ challenges \in [Keys -> 0..MaxChallenges]
  /\ asked \in Seq(Keys) /\ Len(asked) <= MaxChallenges
  /\ devices \in [Credentials -> (0..MaxCount) \cup {NoPasskey}]
  /\ answers \subseteq Answer
  /\ call \in [Requests -> {Idle} \cup
       [pc : {"delete", "save", "find", "passkey", "count", "session"},
        key : Keys, expected : Numbers, answer : Answer]]
  /\ uses \in [Numbers -> Nat]
  /\ raced \subseteq Numbers
  /\ overtaken \subseteq Requests
  /\ deleted \subseteq Credentials

\* A challenge leads to one passkey or one session, however often its answer is
\* sent, unless two requests got it before either deleted it (take, which is
\* atomic on Valkey and two steps on KV).
ChallengeUsedOnce == \A n \in Numbers : uses[n] > 1 => n \in raced

\* The counter kept of an authenticator falls only if two logins verified their
\* answers against the same stored counter (BR-COMMON-016: copies of an
\* authenticator are told by counters that do not grow).
CounterFallsOnlyToOverlap ==
  [][\A c \in Credentials :
       (passkeys[c] # NoPasskey /\ passkeys'[c] # NoPasskey
          /\ passkeys'[c].signCount < passkeys[c].signCount)
         => \E r \in overtaken : call[r].pc = "count" /\ call[r].answer.credential = c]_passkeyVars

\* A passkey that was deleted does not come back by a login that had read it,
\* nor by its registration being sent again, unless that challenge was raced.
DeletedStaysDeleted ==
  \A c \in deleted :
    passkeys[c] # NoPasskey
      => \E a \in answers : a.credential = c /\ Purpose(a) = "reg" /\ a.challenge \in raced
=============================================================================
