------------------------- MODULE UserSystem_proofs --------------------------
(***************************************************************************)
(* Proofs about UserSystem, for any number of users, addresses, requests   *)
(* and outstanding links.                                                  *)
(*                                                                         *)
(* The properties are not inductive: a request that has loaded a row still *)
(* writes it. The invariant says what each request in flight may rely on,  *)
(* and the proof rests on Grows, which says what no step takes back: a row *)
(* does not disappear, a verified user stays verified, an address changes  *)
(* only to a proven one. What a request relied on before a step of another *)
(* it may rely on after it (lemma StateStable); each action then has to be *)
(* looked at for the request that takes it alone.                          *)
(***************************************************************************)
EXTENDS UserSystem, TLAPS

Exists(u) == users[u].status # "NONE"

RowOK(u) ==
  /\ users[u].status \in {"ACTIVE", "FROZEN"} => users[u].verified
  /\ users[u].status \in {"UNVERIFIED", "NONE"} => ~users[u].verified
  /\ users[u].verified => users[u].email \in proven[u]

\* A link sent to e proves the address of u, or that address is proven already.
Addresses(u, e) == Exists(u) /\ (users[u].email = e \/ users[u].email \in proven[u])

\* What a request may rely on that is about to write `set` to the row of u.
WriteOK(u, set) ==
  /\ Exists(u)
  /\ set.status # "UNVERIFIED"
  /\ (set.status \in {"ACTIVE", "FROZEN"} /\ set.verified = Undefined)
       => users[u].verified
  /\ set.verified = TRUE => set.status = "ACTIVE"
  /\ (set.verified = TRUE /\ set.email = Undefined)
       => users[u].email \in proven[u]
  /\ set.email # Undefined => set.verified = TRUE /\ set.email \in proven[u]

\* What it may rely on after it has loaded the row.
LoadedOK(u, row) ==
  /\ row.verified => users[u].verified
  /\ row.status \in {"ACTIVE", "FROZEN"} => users[u].verified
  /\ users[u].email = row.email \/ users[u].email \in proven[u]

LinkOK(v) ==
  /\ Exists(v.user)
  /\ v.type = "verify" => Addresses(v.user, v.sentTo)

StateOK(x) ==
  /\ x.pc \in {"load", "flush"} => WriteOK(x.user, x.set)
  /\ x.pc = "flush" => LoadedOK(x.user, x.row)
  /\ x.pc = "sendVerify" => Addresses(x.user, x.email)
  /\ x.pc = "sendChange" => Exists(x.user)
  /\ x.pc = "consume" => LinkOK(x.value)
  /\ x.pc = "confirm" => x.email \in proven[x.user]
  /\ x.pc \in {"setReviewed", "flushReview"} => unfreezeRequests[x.request] # None

RowsOK == \A u \in Users : RowOK(u)
StatesOK == \A r \in Requests : StateOK(req[r])
LinksOK == \A t \in Tokens : tokens[t] # NoToken => LinkOK(tokens[t])
ReviewsOK == \A q \in UnfreezeRequests :
  unfreezeRequests[q] # None => users[unfreezeRequests[q].user].verified

SystemInv == TypeOK /\ RowsOK /\ StatesOK /\ LinksOK /\ ReviewsOK

\* What no step takes back.
Grows ==
  /\ \A u \in Users :
       /\ Exists(u) => Exists(u)'
       /\ users[u].verified => users'[u].verified
       /\ Exists(u) => (users'[u].email = users[u].email
                        \/ users'[u].email \in proven'[u])
       /\ proven[u] \subseteq proven'[u]
  /\ \A q \in UnfreezeRequests :
       unfreezeRequests[q] # None =>
         /\ unfreezeRequests'[q] # None
         /\ unfreezeRequests'[q].user = unfreezeRequests[q].user

-----------------------------------------------------------------------------
(* Types                                                                   *)

\* The state of a request tells by its pc which record it is.
LEMMA StateKinds ==
  ASSUME NEW x \in RequestState
  PROVE  /\ x.pc = "load" => x \in Loading
         /\ x.pc = "flush" => x \in Flushing
         /\ x.pc \in {"create", "sendVerify", "sendChange", "confirm"}
              => x \in Addressed
         /\ x.pc = "consume" => x \in Consuming
         /\ x.pc = "setReviewed" => x \in Reviewing
         /\ x.pc = "flushReview" => x \in Reviewed
         /\ x.pc \in {"revokeAll", "insertKey"} => x \in Moderating
         /\ x.pc \in {"suspend", "lift"} => x \in [pc : {"suspend", "lift"}, user : Users]
BY DEF RequestState, Continuation, Loading, Flushing, Addressed, Consuming,
       Reviewing, Reviewed, Moderating, Idle

\* A step that moves r alone keeps the type of req.
LEMMA GotoType ==
  ASSUME TypeOK, NEW r \in Requests, NEW s \in RequestState, Goto(r, s)
  PROVE  /\ req' \in [Requests -> RequestState]
         /\ req'[r] = s
         /\ \A q \in Requests : q # r => req'[q] = req[q]
BY DEF TypeOK, Goto

\* The states an operation leaves a request in.
LEMMA StateIntro ==
  /\ Idle \in RequestState
  /\ \A u \in Users, set \in Changes, next \in Continuation :
       Writing(u, set, next) \in RequestState
  /\ \A u \in Users, set \in Changes, row \in Row \cup {NoRow}, next \in Continuation :
       [pc |-> "flush", user |-> u, set |-> set, row |-> row, next |-> next]
         \in RequestState
  /\ \A u \in Users, e \in Emails,
        p \in {"create", "sendVerify", "sendChange", "confirm"} :
       [pc |-> p, user |-> u, email |-> e] \in RequestState
  /\ \A t \in Tokens, v \in TokenValue :
       [pc |-> "consume", token |-> t, value |-> v] \in RequestState
  /\ \A q \in UnfreezeRequests, d \in {"APPROVED", "REJECTED"} :
       [pc |-> "setReviewed", request |-> q, decision |-> d] \in RequestState
  /\ \A q \in UnfreezeRequests, d \in {"APPROVED", "REJECTED"}, n \in ReviewStatus :
       [pc |-> "flushReview", request |-> q, decision |-> d, seen |-> n]
         \in RequestState
  /\ \A u \in Users, p \in {"revokeAll", "insertKey", "suspend", "lift"} :
       [pc |-> p, user |-> u] \in RequestState
BY DEF RequestState, Continuation, Loading, Flushing, Addressed, Consuming,
       Reviewing, Reviewed, Moderating, Idle, Writing

LEMMA ChangesIntro ==
  /\ \A s \in Status : SetStatus(s) \in Changes
  /\ SetVerified \in Changes
  /\ \A e \in Emails : SetEmail(e) \in Changes
BY UserAssumption DEF Changes, SetStatus, SetVerified, SetEmail, Status

\* A flush leaves a row, whatever was loaded and assigned.
LEMMA FlushedType ==
  ASSUME NEW now \in Row \cup {NoRow}, NEW loaded \in Row \cup {NoRow},
         NEW set \in Changes, now # NoRow
  PROVE  Flushed(now, loaded, set) \in Row
<1>1. now \in Row
  OBVIOUS
<1>2. Column(now.status, loaded.status, set.status) \in Status
  BY <1>1 DEF Column, Row, Changes
<1>3. Column(now.verified, loaded.verified, set.verified) \in BOOLEAN
  BY <1>1 DEF Column, Row, Changes
<1>4. Column(now.email, loaded.email, set.email) \in Emails
  BY <1>1 DEF Column, Row, Changes
<1>5. Column(now.norm, loaded.norm, set.norm) \in Emails
  BY <1>1 DEF Column, Row, Changes
<1>. QED
  BY <1>2, <1>3, <1>4, <1>5 DEF Flushed, Row

-----------------------------------------------------------------------------
(* What a request relies on survives the steps of the others.              *)

LEMMA LinkStable ==
  ASSUME TypeOK, Grows, NEW v \in TokenValue, LinkOK(v)
  PROVE  LinkOK(v)'
BY DEF Grows, LinkOK, Addresses, Exists, TokenValue

LEMMA StateStable ==
  ASSUME TypeOK, Grows, NEW x \in RequestState, StateOK(x)
  PROVE  StateOK(x)'
<1>1. CASE x.pc \in {"load", "flush"}
  <2>1. x.user \in Users /\ x.set \in Changes
    BY <1>1, StateKinds DEF Loading, Flushing
  <2>2. WriteOK(x.user, x.set)
    BY <1>1 DEF StateOK
  <2>3. WriteOK(x.user, x.set)'
    BY <2>1, <2>2 DEF WriteOK, Grows, Exists
  <2>4. ASSUME x.pc = "flush" PROVE LoadedOK(x.user, x.row)'
    <3>1. LoadedOK(x.user, x.row)
      BY <2>4 DEF StateOK
    <3>. QED
      BY <2>1, <2>2, <3>1 DEF LoadedOK, WriteOK, Grows, Exists
  <2>. QED
    BY <1>1, <2>3, <2>4 DEF StateOK
<1>2. CASE x.pc \in {"sendVerify", "sendChange", "confirm"}
  <2>1. x.user \in Users
    BY <1>2, StateKinds DEF Addressed
  <2>. QED
    BY <1>2, <2>1 DEF StateOK, Addresses, Exists, Grows
<1>3. CASE x.pc = "consume"
  <2>1. x.value \in TokenValue
    BY <1>3, StateKinds DEF Consuming
  <2>2. LinkOK(x.value)'
    BY <1>3, <2>1, LinkStable DEF StateOK
  <2>. QED
    BY <1>3, <2>2 DEF StateOK
<1>4. CASE x.pc \in {"setReviewed", "flushReview"}
  <2>1. x.request \in UnfreezeRequests
    BY <1>4, StateKinds DEF Reviewing, Reviewed
  <2>. QED
    BY <1>4, <2>1 DEF StateOK, Grows
<1>. QED
  BY <1>1, <1>2, <1>3, <1>4 DEF StateOK

\* A step of r that takes nothing back keeps the invariant if r may rely on
\* what it holds next.
LEMMA GrowStep ==
  ASSUME SystemInv, Grows, NEW r \in Requests, NEW s \in RequestState, Goto(r, s),
         StateOK(s)', TypeOK', RowsOK', LinksOK', ReviewsOK'
  PROVE  SystemInv'
<1>1. ASSUME NEW q \in Requests PROVE StateOK(req[q])'
  <2>1. CASE q = r
    BY <2>1, GotoType DEF SystemInv
  <2>2. CASE q # r
    <3> PICK x \in RequestState : x = req[q]
      BY DEF SystemInv, TypeOK
    <3>1. req'[q] = x
      BY <2>2, GotoType DEF SystemInv
    <3>2. StateOK(x)'
      BY StateStable DEF SystemInv, StatesOK
    <3>. QED
      BY <3>1, <3>2
  <2>. QED
    BY <2>1, <2>2
<1>. QED
  BY <1>1 DEF SystemInv, StatesOK

\* A step that moves no request.
LEMMA OutsideStep ==
  ASSUME SystemInv, Grows, UNCHANGED req, TypeOK', RowsOK', LinksOK', ReviewsOK'
  PROVE  SystemInv'
<1>1. ASSUME NEW q \in Requests PROVE StateOK(req[q])'
  <2> PICK x \in RequestState : x = req[q]
    BY DEF SystemInv, TypeOK
  <2>1. req'[q] = x
    OBVIOUS
  <2>2. StateOK(x)'
    BY StateStable DEF SystemInv, StatesOK
  <2>. QED
    BY <2>1, <2>2
<1>. QED
  BY <1>1 DEF SystemInv, StatesOK

\* The part of the invariant about links, and the types of the records.
RecordsOK ==
  /\ tokens \in [Tokens -> TokenValue \cup {NoToken}]
  /\ suspensions \in [Suspensions -> Suspension \cup {None}]
  /\ apiKeys \in [ApiKeys -> ApiKey \cup {None}]
  /\ LinksOK

\* A step that leaves users, proofs and unfreeze requests alone.
LEMMA QuietStep ==
  ASSUME SystemInv, NEW r \in Requests, NEW s \in RequestState, Goto(r, s),
         StateOK(s), UNCHANGED <<users, proven, unfreezeRequests>>, RecordsOK'
  PROVE  SystemInv'
<1>1. Grows
  BY DEF Grows, Exists
<1>2. StateOK(s)'
  BY <1>1, StateStable DEF SystemInv
<1>3. TypeOK'
  BY GotoType DEF SystemInv, TypeOK, RecordsOK
<1>4. RowsOK' /\ ReviewsOK'
  BY DEF SystemInv, RowsOK, RowOK, ReviewsOK
<1>. QED
  BY <1>1, <1>2, <1>3, <1>4, GrowStep DEF RecordsOK

\* The records are as they were.
LEMMA RecordsUnchanged ==
  ASSUME SystemInv,
         UNCHANGED <<users, proven, tokens, suspensions, apiKeys>>
  PROVE  RecordsOK'
BY DEF SystemInv, TypeOK, RecordsOK, LinksOK, LinkOK, Addresses, Exists

\* A request that ends, and one that holds something nobody relies on.
LEMMA FreeStates ==
  /\ StateOK(Idle)
  /\ \A u \in Users, e \in Emails : StateOK([pc |-> "create", user |-> u, email |-> e])
  /\ \A u \in Users, p \in {"revokeAll", "insertKey", "suspend", "lift"} :
       StateOK([pc |-> p, user |-> u])
BY DEF StateOK, Idle

-----------------------------------------------------------------------------
(* The steps of Accounts.                                                  *)

LEMMA InitInv == Init => SystemInv
BY UserAssumption
DEF Init, UserInit, AccountInit, ModerationInit, SystemInv, TypeOK, RowsOK, RowOK,
    StatesOK, StateOK, LinksOK, ReviewsOK, NoRow, RequestState, Continuation, Idle

\* A request that starts: it holds only what it read.
LEMMA AccountStarts ==
  ASSUME SystemInv, UNCHANGED moderationVars,
         NEW r \in Requests, NEW u \in Users, NEW e \in Emails,
         \/ Register(r, u, e)
         \/ RequestEmailChange(r, u, e)
         \/ ResendVerificationEmail(r, u)
         \/ Withdraw(r, u)
  PROVE  SystemInv'
<1>1. UNCHANGED <<users, proven, tokens, suspensions, unfreezeRequests, apiKeys>>
  BY DEF Register, RequestEmailChange, ResendVerificationEmail, Withdraw,
         moderationVars
<1>2. RecordsOK'
  BY <1>1, RecordsUnchanged
<1>3. CASE Register(r, u, e)
  BY <1>1, <1>2, <1>3, QuietStep, StateIntro, FreeStates DEF Register
<1>4. CASE RequestEmailChange(r, u, e)
  <2> DEFINE s == [pc |-> "sendChange", user |-> u, email |-> e]
  <2>1. s \in RequestState
    BY StateIntro
  <2>2. Goto(r, s) /\ Exists(u)
    BY <1>4 DEF RequestEmailChange, Live, Exists
  <2>3. StateOK(s)
    BY <2>2 DEF StateOK
  <2> HIDE DEF s
  <2>. QED
    BY <1>1, <1>2, <2>1, <2>2, <2>3, QuietStep
<1>5. CASE ResendVerificationEmail(r, u)
  <2> DEFINE s == [pc |-> "sendVerify", user |-> u, email |-> users[u].email]
  <2>1. Goto(r, s) /\ Live(users[u])
    BY <1>5 DEF ResendVerificationEmail
  <2>2. users[u].email \in Emails /\ Exists(u)
    BY <2>1 DEF Live, NoRow, Row, Exists, SystemInv, TypeOK
  <2>3. s \in RequestState
    BY <2>2, StateIntro
  <2>4. StateOK(s)
    BY <2>2 DEF StateOK, Addresses
  <2> HIDE DEF s
  <2>. QED
    BY <1>1, <1>2, <2>1, <2>3, <2>4, QuietStep
<1>6. CASE Withdraw(r, u)
  <2> DEFINE s == Writing(u, SetStatus("WITHDRAWN"), Idle)
  <2>1. s \in RequestState
    BY StateIntro, ChangesIntro DEF Status, Continuation
  <2>2. Goto(r, s) /\ Exists(u)
    BY <1>6 DEF Withdraw, Live, Exists
  <2>3. StateOK(s)
    BY <2>2, UserAssumption DEF StateOK, Writing, WriteOK, SetStatus
  <2> HIDE DEF s
  <2>. QED
    BY <1>1, <1>2, <2>1, <2>2, <2>3, QuietStep
<1>. QED
  BY <1>3, <1>4, <1>5, <1>6

\* A new account. Nothing relied on the row: it did not exist.
LEMMA CreateInv ==
  ASSUME SystemInv, UNCHANGED moderationVars, NEW r \in Requests, CreateWithProfile(r)
  PROVE  SystemInv'
<1> PICK u \in Users, e \in Emails : u = req[r].user /\ e = req[r].email
  BY StateKinds DEF CreateWithProfile, SystemInv, TypeOK, Addressed
<1> DEFINE row == [status |-> "UNVERIFIED", verified |-> FALSE,
                   email |-> e, norm |-> Norm[e]]
           s == [pc |-> "sendVerify", user |-> u, email |-> e]
<1>1. UNCHANGED <<tokens, proven, suspensions, unfreezeRequests, apiKeys>>
  BY DEF CreateWithProfile, moderationVars
<1>2. CASE users' = users /\ Goto(r, Idle)
  <2>1. RecordsOK'
    BY <1>1, <1>2, RecordsUnchanged
  <2>. QED
    BY <1>1, <1>2, <2>1, QuietStep, StateIntro, FreeStates
<1>3. CASE users[u] = NoRow /\ users' = [users EXCEPT ![u] = row] /\ Goto(r, s)
  <2>1. row \in Row /\ s \in RequestState
    BY UserAssumption, StateIntro DEF Row, Status
  <2>2. users'[u] = row /\ (\A v \in Users : v # u => users'[v] = users[v])
    BY <1>3 DEF SystemInv, TypeOK
  <2>3. Grows
    <3>1. ~Exists(u) /\ ~users[u].verified
      BY <1>3 DEF Exists, NoRow
    <3>. QED
      BY <1>1, <2>2, <3>1 DEF Grows, Exists
  <2>4. TypeOK'
    BY <1>1, <1>3, <2>1, GotoType DEF SystemInv, TypeOK
  <2>5. RowsOK'
    <3>1. RowOK(u)'
      BY <2>2 DEF RowOK
    <3>2. ASSUME NEW v \in Users, v # u PROVE RowOK(v)'
      BY <1>1, <2>2, <3>2 DEF SystemInv, RowsOK, RowOK
    <3>. QED
      BY <3>1, <3>2 DEF RowsOK
  <2>6. LinksOK'
    <3> SUFFICES ASSUME NEW t \in Tokens, tokens[t] # NoToken PROVE LinkOK(tokens[t])'
      BY <1>1 DEF LinksOK
    <3> PICK v \in TokenValue : v = tokens[t]
      BY DEF SystemInv, TypeOK
    <3>1. LinkOK(v)'
      BY <2>3, LinkStable DEF SystemInv, LinksOK
    <3>. QED
      BY <1>1, <3>1
  <2>7. ReviewsOK'
    BY <1>1, <2>3 DEF SystemInv, TypeOK, ReviewsOK, Grows, UnfreezeRequest
  <2>8. StateOK(s)'
    BY <2>2 DEF StateOK, Addresses, Exists
  <2> HIDE DEF s, row
  <2>. QED
    BY <1>3, <2>1, <2>3, <2>4, <2>5, <2>6, <2>7, <2>8, GrowStep
<1>. QED
  BY <1>2, <1>3 DEF CreateWithProfile

\* A link is stored under a free token.
LEMMA SendInv ==
  ASSUME SystemInv, UNCHANGED moderationVars, NEW r \in Requests, NEW t \in Tokens,
         SendVerificationEmail(r, t) \/ SendEmailChangeConfirmation(r, t)
  PROVE  SystemInv'
<1> PICK u \in Users, e \in Emails : u = req[r].user /\ e = req[r].email
  BY StateKinds DEF SendVerificationEmail, SendEmailChangeConfirmation, SystemInv,
     TypeOK, Addressed
<1> PICK type \in {"verify", "change_email"} :
         NewToken(r, t, type, u, e)
         /\ req[r].pc = IF type = "verify" THEN "sendVerify" ELSE "sendChange"
  BY DEF SendVerificationEmail, SendEmailChangeConfirmation
<1> DEFINE v == [type |-> type, user |-> u, sentTo |-> e]
<1>1. /\ tokens' = [tokens EXCEPT ![t] = v] /\ Goto(r, Idle)
      /\ UNCHANGED <<users, proven, suspensions, unfreezeRequests, apiKeys>>
  BY DEF NewToken, moderationVars
<1>2. v \in TokenValue
  BY DEF TokenValue
<1>3. LinkOK(v)
  BY DEF SystemInv, StatesOK, StateOK, LinkOK, Addresses
<1> HIDE DEF v
<1>4. RecordsOK'
  <2>1. ASSUME NEW p \in Tokens, tokens'[p] # NoToken PROVE LinkOK(tokens[p])'
    BY <1>1, <1>3, <2>1
    DEF SystemInv, TypeOK, LinksOK, LinkOK, Addresses, Exists
  <2>. QED
    BY <1>1, <1>2, <2>1 DEF RecordsOK, SystemInv, TypeOK, LinksOK
<1>. QED
  BY <1>1, <1>4, QuietStep, StateIntro, FreeStates

\* A link is read.
LEMMA OpenInv ==
  ASSUME SystemInv, UNCHANGED moderationVars, NEW r \in Requests, NEW t \in Tokens,
         OpenLink(r, t)
  PROVE  SystemInv'
<1> PICK v \in TokenValue : v = tokens[t]
  BY DEF OpenLink, SystemInv, TypeOK
<1> DEFINE s == [pc |-> "consume", token |-> t, value |-> v]
<1>1. Goto(r, s) /\ s \in RequestState
  BY StateIntro DEF OpenLink
<1>2. UNCHANGED <<users, proven, tokens, suspensions, unfreezeRequests, apiKeys>>
  BY DEF OpenLink, moderationVars
<1>3. StateOK(s)
  BY DEF StateOK, OpenLink, SystemInv, LinksOK
<1> HIDE DEF s
<1>. QED
  BY <1>1, <1>2, <1>3, RecordsUnchanged, QuietStep

\* A link is used up: the address it was sent to is proven, and the request
\* goes on to the write of verifyEmail or to the account of verifyEmailChange.
LEMMA DeleteTokenInv ==
  ASSUME SystemInv, UNCHANGED moderationVars, NEW r \in Requests, DeleteToken(r)
  PROVE  SystemInv'
<1> PICK v \in TokenValue, t \in Tokens : v = req[r].value /\ t = req[r].token
  BY StateKinds DEF DeleteToken, SystemInv, TypeOK, Consuming
<1> PICK u \in Users, e \in Emails : u = v.user /\ e = v.sentTo
  BY DEF TokenValue
<1>1. /\ tokens' = [tokens EXCEPT ![t] = NoToken]
      /\ proven' = [proven EXCEPT ![u] = @ \cup {e}]
      /\ UNCHANGED <<users, suspensions, unfreezeRequests, apiKeys>>
  BY DEF DeleteToken, moderationVars
<1>2. LinkOK(v)
  BY DEF DeleteToken, SystemInv, StatesOK, StateOK
<1>3. /\ \A w \in Users : proven[w] \subseteq proven'[w]
      /\ e \in proven'[u]
  BY <1>1 DEF SystemInv, TypeOK
<1>4. Grows
  BY <1>1, <1>3 DEF Grows, Exists
<1>5. RowsOK' /\ ReviewsOK'
  BY <1>1, <1>3 DEF SystemInv, RowsOK, RowOK, ReviewsOK
<1>6. LinksOK'
  <2> SUFFICES ASSUME NEW p \in Tokens, tokens'[p] # NoToken PROVE LinkOK(tokens[p])'
    BY DEF LinksOK
  <2>1. tokens'[p] = tokens[p]
    BY <1>1 DEF SystemInv, TypeOK
  <2> PICK x \in TokenValue : x = tokens[p]
    BY <2>1 DEF SystemInv, TypeOK
  <2>2. LinkOK(x)'
    BY <1>4, <2>1, LinkStable DEF SystemInv, LinksOK
  <2>. QED
    BY <2>1, <2>2
<1>7. ASSUME NEW s \in RequestState, Goto(r, s), StateOK(s)' PROVE SystemInv'
  <2>1. TypeOK'
    BY <1>1, <1>7, GotoType DEF SystemInv, TypeOK
  <2>. QED
    BY <1>4, <1>5, <1>6, <1>7, <2>1, GrowStep
<1>8. CASE v.type = "verify" /\ Goto(r, Writing(u, SetVerified, Idle))
  <2> DEFINE s == Writing(u, SetVerified, Idle)
  <2>1. s \in RequestState
    BY StateIntro, ChangesIntro DEF Continuation
  <2>2. Exists(u) /\ (users[u].email = e \/ users[u].email \in proven[u])
    BY <1>2, <1>8 DEF LinkOK, Addresses
  <2>3. StateOK(s)'
    BY <1>1, <1>3, <2>2, UserAssumption
    DEF StateOK, Writing, WriteOK, SetVerified, Exists
  <2>4. Goto(r, s)
    BY <1>8
  <2> HIDE DEF s
  <2>. QED
    BY <1>7, <2>1, <2>3, <2>4
<1>9. CASE Goto(r, [pc |-> "confirm", user |-> u, email |-> e])
  <2> DEFINE s == [pc |-> "confirm", user |-> u, email |-> e]
  <2>1. s \in RequestState
    BY StateIntro
  <2>2. StateOK(s)'
    BY <1>3 DEF StateOK
  <2>4. Goto(r, s)
    BY <1>9
  <2> HIDE DEF s
  <2>. QED
    BY <1>7, <2>1, <2>2, <2>4
<1>. QED
  BY <1>8, <1>9 DEF DeleteToken

\* The account of a changed address is found and its row is about to be written.
LEMMA ConfirmInv ==
  ASSUME SystemInv, UNCHANGED moderationVars, NEW r \in Requests, ConfirmEmailChange(r)
  PROVE  SystemInv'
<1> PICK u \in Users, e \in Emails : u = req[r].user /\ e = req[r].email
  BY StateKinds DEF ConfirmEmailChange, SystemInv, TypeOK, Addressed
<1>1. /\ UNCHANGED <<users, proven, tokens, suspensions, unfreezeRequests, apiKeys>>
      /\ e \in proven[u]
  BY DEF ConfirmEmailChange, moderationVars, SystemInv, StatesOK, StateOK
<1>2. RecordsOK'
  BY <1>1, RecordsUnchanged
<1>3. CASE Goto(r, Idle)
  BY <1>1, <1>2, <1>3, QuietStep, StateIntro, FreeStates
<1>4. CASE Live(users[u]) /\ Goto(r, Writing(u, SetEmail(e), Idle))
  <2> DEFINE s == Writing(u, SetEmail(e), Idle)
  <2>1. s \in RequestState
    BY StateIntro, ChangesIntro DEF Continuation
  <2>2. StateOK(s)
    BY <1>1, <1>4, UserAssumption
    DEF StateOK, Writing, WriteOK, SetEmail, Live, Exists
  <2>4. Goto(r, s)
    BY <1>4
  <2> HIDE DEF s
  <2>. QED
    BY <1>1, <1>2, <2>1, <2>2, QuietStep, <2>4
<1>. QED
  BY <1>3, <1>4 DEF ConfirmEmailChange

LEMMA ExpireInv ==
  ASSUME SystemInv, UNCHANGED moderationVars, NEW t \in Tokens, ExpireToken(t)
  PROVE  SystemInv'
<1>1. /\ tokens' = [tokens EXCEPT ![t] = NoToken]
      /\ UNCHANGED <<users, req, proven, suspensions, unfreezeRequests, apiKeys>>
  BY DEF ExpireToken, moderationVars
<1>2. Grows
  BY <1>1 DEF Grows, Exists
<1>3. TypeOK' /\ RowsOK' /\ ReviewsOK'
  BY <1>1 DEF SystemInv, TypeOK, RowsOK, RowOK, ReviewsOK
<1>4. LinksOK'
  BY <1>1 DEF SystemInv, TypeOK, LinksOK, LinkOK, Addresses, Exists
<1>. QED
  BY <1>1, <1>2, <1>3, <1>4, OutsideStep

LEMMA AccountInv ==
  ASSUME SystemInv, AccountNext, UNCHANGED moderationVars
  PROVE  SystemInv'
<1>1. ASSUME NEW r \in Requests, NEW u \in Users,
             ResendVerificationEmail(r, u) \/ Withdraw(r, u)
      PROVE  SystemInv'
  <2> PICK e \in Emails : e = users[u].email
    BY <1>1 DEF ResendVerificationEmail, Withdraw, Live, NoRow, Row, SystemInv, TypeOK
  <2>. QED
    BY <1>1, AccountStarts
<1>. QED
  BY <1>1, AccountStarts, CreateInv, SendInv, OpenInv, DeleteTokenInv, ConfirmInv,
     ExpireInv
  DEF AccountNext

-----------------------------------------------------------------------------
(* The steps of Moderation.                                                *)

\* A step of a moderation request on records other than the users'.
LEMMA ModerationQuiet ==
  ASSUME SystemInv, UNCHANGED accountVars, NEW r \in Requests,
         NEW u \in Users,
         NEW s \in {Idle} \cup {[pc |-> p, user |-> u] :
                                  p \in {"revokeAll", "insertKey"}},
         Goto(r, s), UNCHANGED <<users, unfreezeRequests>>,
         suspensions' \in [Suspensions -> Suspension \cup {None}],
         apiKeys' \in [ApiKeys -> ApiKey \cup {None}]
  PROVE  SystemInv'
<1>1. s \in RequestState /\ StateOK(s)
  BY StateIntro, FreeStates
<1>2. RecordsOK'
  BY DEF RecordsOK, accountVars, SystemInv, TypeOK, LinksOK, LinkOK, Addresses, Exists
<1>. QED
  BY <1>1, <1>2, QuietStep DEF accountVars

LEMMA FreezeInv ==
  ASSUME SystemInv, UNCHANGED accountVars, NEW r \in Requests, NEW u \in Users,
         FreezeUser(r, u)
  PROVE  SystemInv'
<1> DEFINE s == Writing(u, SetStatus("FROZEN"), [pc |-> "suspend", user |-> u])
<1>1. Goto(r, s) /\ users[u].status = "ACTIVE"
      /\ UNCHANGED <<users, proven, tokens, suspensions, unfreezeRequests, apiKeys>>
  BY DEF FreezeUser, Freezable, CanTransition, AllowedTransitions, moderationVars,
         accountVars
<1>2. s \in RequestState
  BY StateIntro, ChangesIntro DEF Status, Continuation
<1>3. StateOK(s)
  BY <1>1, UserAssumption
  DEF StateOK, Writing, WriteOK, SetStatus, SystemInv, RowsOK, RowOK, Exists
<1> HIDE DEF s
<1>. QED
  BY <1>1, <1>2, <1>3, QuietStep, RecordsUnchanged

LEMMA ReviewInv ==
  ASSUME SystemInv, UNCHANGED accountVars, NEW r \in Requests,
         NEW q \in UnfreezeRequests, NEW d \in {"APPROVED", "REJECTED"},
         ReviewUnfreezeRequest(r, q, d)
  PROVE  SystemInv'
<1> DEFINE s == [pc |-> "setReviewed", request |-> q, decision |-> d]
<1>1. Goto(r, s) /\ unfreezeRequests[q] # None
      /\ UNCHANGED <<users, proven, tokens, suspensions, unfreezeRequests, apiKeys>>
  BY DEF ReviewUnfreezeRequest, moderationVars, accountVars
<1>2. s \in RequestState
  BY StateIntro
<1>3. StateOK(s)
  BY <1>1 DEF StateOK
<1> HIDE DEF s
<1>. QED
  BY <1>1, <1>2, <1>3, QuietStep, RecordsUnchanged

\* The request is loaded once more, which keeps it.
LEMMA FindReviewInv ==
  ASSUME SystemInv, UNCHANGED accountVars, NEW r \in Requests, FindReview(r)
  PROVE  SystemInv'
<1>1. req[r] \in Reviewing /\ unfreezeRequests[req[r].request] # None
  BY StateKinds DEF FindReview, SystemInv, TypeOK, StatesOK, StateOK
<1>2. /\ req[r].request \in UnfreezeRequests
      /\ req[r].decision \in {"APPROVED", "REJECTED"}
      /\ unfreezeRequests[req[r].request].status \in ReviewStatus
  BY <1>1 DEF Reviewing, SystemInv, TypeOK, UnfreezeRequest
<1> DEFINE s == [pc |-> "flushReview", request |-> req[r].request,
                 decision |-> req[r].decision,
                 seen |-> unfreezeRequests[req[r].request].status]
<1>3. Goto(r, s)
      /\ UNCHANGED <<users, proven, tokens, suspensions, unfreezeRequests, apiKeys>>
  BY DEF FindReview, moderationVars, accountVars
<1>4. s \in RequestState
  BY <1>2, StateIntro
<1>5. StateOK(s)
  BY <1>1 DEF StateOK
<1> HIDE DEF s
<1>. QED
  BY <1>3, <1>4, <1>5, QuietStep, RecordsUnchanged

\* The decision is written; an approval is about a verified user.
LEMMA SetReviewedInv ==
  ASSUME SystemInv, UNCHANGED accountVars, NEW r \in Requests, SetReviewed(r)
  PROVE  SystemInv'
<1> PICK q \in UnfreezeRequests : q = req[r].request
  BY StateKinds DEF SetReviewed, SystemInv, TypeOK, Reviewed
<1>1. unfreezeRequests[q] \in UnfreezeRequest
  BY DEF SetReviewed, SystemInv, TypeOK, StatesOK, StateOK
<1> PICK u \in Users : u = unfreezeRequests[q].user
  BY <1>1 DEF UnfreezeRequest
<1> PICK d \in ReviewStatus :
         d = Column(unfreezeRequests[q].status, req[r].seen, req[r].decision)
  <2>1. req[r] \in Reviewed
    BY StateKinds DEF SetReviewed, SystemInv, TypeOK
  <2>. QED
    BY <1>1, <2>1 DEF Reviewed, Column, UnfreezeRequest, ReviewStatus
<1> DEFINE new == [unfreezeRequests[q] EXCEPT !.status = d]
<1>2. /\ unfreezeRequests' = [unfreezeRequests EXCEPT ![q] = new]
      /\ UNCHANGED <<users, proven, tokens, suspensions, apiKeys>>
  BY DEF SetReviewed, accountVars
<1>3. new \in UnfreezeRequest /\ new.user = u
  BY <1>1 DEF UnfreezeRequest
<1> HIDE DEF new
<1>4. unfreezeRequests'[q] = new /\ new # None
      /\ \A p \in UnfreezeRequests : p # q => unfreezeRequests'[p] = unfreezeRequests[p]
  BY <1>2, <1>3, ModerationAssumption DEF SystemInv, TypeOK
<1>5. Grows
  BY <1>2, <1>3, <1>4 DEF Grows, Exists
<1>6. users[u].verified
  BY <1>1, ModerationAssumption DEF SystemInv, ReviewsOK
<1>7. RowsOK' /\ ReviewsOK' /\ LinksOK'
  <2>1. RowsOK' /\ LinksOK'
    BY <1>2 DEF SystemInv, RowsOK, RowOK, LinksOK, LinkOK, Addresses, Exists
  <2>2. ReviewsOK'
    BY <1>2, <1>3, <1>4, <1>6 DEF SystemInv, ReviewsOK
  <2>. QED
    BY <2>1, <2>2
<1>8. ASSUME NEW s \in RequestState, Goto(r, s), StateOK(s)' PROVE SystemInv'
  <2>1. TypeOK'
    BY <1>2, <1>3, <1>8, GotoType DEF SystemInv, TypeOK
  <2>. QED
    BY <1>5, <1>7, <1>8, <2>1, GrowStep
<1>9. CASE Goto(r, Idle)
  <2>1. StateOK(Idle)'
    BY DEF StateOK, Idle
  <2>. QED
    BY <1>8, <1>9, <2>1, StateIntro
<1>10. CASE Goto(r, Writing(u, Reinstated, Lifting(u)))
  <2> DEFINE s == Writing(u, Reinstated, Lifting(u))
  <2>1. s \in RequestState
    BY StateIntro, ChangesIntro DEF Status, Continuation, Reinstated, Lifting
  <2>2. Exists(u)
    BY <1>6 DEF SystemInv, RowsOK, RowOK, Exists
  <2>3. StateOK(s)'
    BY <1>2, <1>6, <2>2, UserAssumption
    DEF StateOK, Writing, WriteOK, Reinstated, SetStatus, Exists
  <2>4. Goto(r, s)
    BY <1>10
  <2> HIDE DEF s
  <2>. QED
    BY <1>8, <2>1, <2>3, <2>4
<1>. QED
  BY <1>9, <1>10 DEF SetReviewed

\* A request to unfreeze comes from a frozen, hence verified, user.
LEMMA FileInv ==
  ASSUME SystemInv, UNCHANGED accountVars, NEW u \in Users,
         NEW q \in UnfreezeRequests, FileUnfreezeRequest(u, q)
  PROVE  SystemInv'
<1> DEFINE new == [user |-> u, status |-> "PENDING"]
<1>1. /\ unfreezeRequests' = [unfreezeRequests EXCEPT ![q] = new]
      /\ unfreezeRequests[q] = None
      /\ UNCHANGED <<users, req, proven, tokens, suspensions, apiKeys>>
  BY DEF FileUnfreezeRequest, accountVars
<1>2. users[u].verified
  BY DEF FileUnfreezeRequest, SystemInv, RowsOK, RowOK
<1>3. new \in UnfreezeRequest /\ new.user = u
  BY DEF UnfreezeRequest, ReviewStatus
<1> HIDE DEF new
<1>4. Grows
  BY <1>1 DEF Grows, Exists, SystemInv, TypeOK
<1>5. TypeOK' /\ RowsOK' /\ LinksOK'
  BY <1>1, <1>3
  DEF SystemInv, TypeOK, RowsOK, RowOK, LinksOK, LinkOK, Addresses, Exists
<1>6. ReviewsOK'
  BY <1>1, <1>2, <1>3 DEF SystemInv, TypeOK, ReviewsOK
<1>. QED
  BY <1>1, <1>4, <1>5, <1>6, OutsideStep

\* Steps on suspensions and API keys.
LEMMA RecordStepsInv ==
  ASSUME SystemInv, UNCHANGED accountVars, NEW r \in Requests,
         \/ \E s \in Suspensions : CreateSuspension(r, s)
         \/ RevokeAllForUser(r)
         \/ LiftSuspension(r)
         \/ \E u \in Users : CreateApiKey(r, u)
         \/ \E k \in ApiKeys : InsertApiKey(r, k)
  PROVE  SystemInv'
<1>1. TypeOK
  BY DEF SystemInv
<1>2. ASSUME NEW s \in Suspensions, CreateSuspension(r, s) PROVE SystemInv'
  <2> PICK u \in Users : u = req[r].user
    BY <1>1, <1>2, StateKinds DEF CreateSuspension, TypeOK
  <2>1. /\ Goto(r, [pc |-> "revokeAll", user |-> u])
        /\ suspensions' = [suspensions EXCEPT ![s] = [user |-> u, status |-> "active"]]
        /\ UNCHANGED <<users, unfreezeRequests, apiKeys>>
    BY <1>2 DEF CreateSuspension
  <2>2. suspensions' \in [Suspensions -> Suspension \cup {None}]
    BY <1>1, <2>1 DEF TypeOK, Suspension
  <2>. QED
    BY <1>1, <2>1, <2>2, ModerationQuiet DEF TypeOK
<1>3. CASE RevokeAllForUser(r)
  <2> PICK u \in Users : u = req[r].user
    BY <1>1, <1>3, StateKinds DEF RevokeAllForUser, TypeOK, Moderating
  <2>1. apiKeys' \in [ApiKeys -> ApiKey \cup {None}]
    BY <1>1, <1>3 DEF RevokeAllForUser, TypeOK, ApiKey, Revoked
  <2>. QED
    BY <1>1, <1>3, <2>1, ModerationQuiet DEF RevokeAllForUser, TypeOK
<1>4. CASE LiftSuspension(r)
  <2> PICK u \in Users : u = req[r].user
    BY <1>1, <1>4, StateKinds DEF LiftSuspension, TypeOK
  <2>1. suspensions' \in [Suspensions -> Suspension \cup {None}]
    <3>1. ASSUME NEW s \in ActiveSuspensions(u),
                 suspensions' = [suspensions EXCEPT ![s].status = "lifted"]
          PROVE  suspensions' \in [Suspensions -> Suspension \cup {None}]
      <4>1. s \in Suspensions /\ suspensions[s] \in Suspension
        BY <1>1 DEF ActiveSuspensions, TypeOK
      <4>2. [suspensions[s] EXCEPT !.status = "lifted"] \in Suspension
        BY <4>1 DEF Suspension
      <4>. QED
        BY <1>1, <3>1, <4>1, <4>2 DEF TypeOK
    <3>. QED
      BY <1>1, <1>4, <3>1 DEF LiftSuspension, TypeOK
  <2>. QED
    BY <1>1, <1>4, <2>1, ModerationQuiet DEF LiftSuspension, TypeOK
<1>5. ASSUME NEW u \in Users, CreateApiKey(r, u) PROVE SystemInv'
  BY <1>1, <1>5, ModerationQuiet DEF CreateApiKey, TypeOK, moderationVars
<1>6. ASSUME NEW k \in ApiKeys, InsertApiKey(r, k) PROVE SystemInv'
  <2> PICK u \in Users : u = req[r].user
    BY <1>1, <1>6, StateKinds DEF InsertApiKey, TypeOK, Moderating
  <2>1. apiKeys' \in [ApiKeys -> ApiKey \cup {None}]
    BY <1>1, <1>6 DEF InsertApiKey, TypeOK, ApiKey
  <2>. QED
    BY <1>1, <1>6, <2>1, ModerationQuiet DEF InsertApiKey, TypeOK
<1>. QED
  BY <1>2, <1>3, <1>4, <1>5, <1>6

LEMMA RevokeInv ==
  ASSUME SystemInv, UNCHANGED accountVars, NEW k \in ApiKeys, RevokeApiKey(k)
  PROVE  SystemInv'
<1>1. UNCHANGED <<users, req, tokens, proven, suspensions, unfreezeRequests>>
  BY DEF RevokeApiKey, accountVars
<1>2. apiKeys' \in [ApiKeys -> ApiKey \cup {None}]
  <2>1. apiKeys[k] \in ApiKey
    BY DEF RevokeApiKey, SystemInv, TypeOK
  <2>2. Revoked(apiKeys[k]) \in ApiKey
    BY <2>1 DEF Revoked, ApiKey
  <2>. QED
    BY <2>2 DEF RevokeApiKey, SystemInv, TypeOK
<1>3. Grows
  BY <1>1 DEF Grows, Exists
<1>4. TypeOK' /\ RowsOK' /\ LinksOK' /\ ReviewsOK'
  BY <1>1, <1>2 DEF SystemInv, TypeOK, RowsOK, RowOK, LinksOK, LinkOK, Addresses,
     Exists, ReviewsOK
<1>. QED
  BY <1>1, <1>3, <1>4, OutsideStep

LEMMA ModerationInv ==
  ASSUME SystemInv, ModerationNext, UNCHANGED accountVars
  PROVE  SystemInv'
BY FreezeInv, ReviewInv, FindReviewInv, SetReviewedInv, FileInv, RecordStepsInv, RevokeInv
DEF ModerationNext

-----------------------------------------------------------------------------
(* Loading and flushing a row, and dying.                                  *)

LEMMA LoadInv ==
  ASSUME SystemInv, UNCHANGED <<accountVars, moderationVars>>,
         NEW r \in Requests, LoadRow(r)
  PROVE  SystemInv'
<1> PICK u \in Users, set \in Changes, next \in Continuation :
         u = req[r].user /\ set = req[r].set /\ next = req[r].next
  BY StateKinds DEF LoadRow, SystemInv, TypeOK, Loading
<1> PICK row \in Row \cup {NoRow} : row = users[u]
  BY DEF SystemInv, TypeOK
<1> DEFINE s == [pc |-> "flush", user |-> u, set |-> set, row |-> row, next |-> next]
<1>1. Goto(r, s) /\ s \in RequestState
  BY StateIntro DEF LoadRow
<1>2. UNCHANGED <<users, proven, tokens, suspensions, unfreezeRequests, apiKeys>>
  BY DEF LoadRow, accountVars, moderationVars
<1>3. WriteOK(u, set) /\ LoadedOK(u, row)
  BY DEF LoadRow, SystemInv, StatesOK, StateOK, LoadedOK, RowsOK, RowOK
<1>4. StateOK(s)
  BY <1>3 DEF StateOK
<1> HIDE DEF s
<1>. QED
  BY <1>1, <1>2, <1>4, RecordsUnchanged, QuietStep

\* The heart of the matter: the row a flush leaves is as good as the row it
\* finds, though it was loaded earlier and written in part.
LEMMA FlushedRow ==
  ASSUME SystemInv, NEW u \in Users, NEW set \in Changes,
         NEW loaded \in Row \cup {NoRow},
         WriteOK(u, set), LoadedOK(u, loaded)
  PROVE  LET new == Flushed(users[u], loaded, set) IN
         /\ new \in Row
         /\ users[u].verified => new.verified
         /\ new.email = users[u].email \/ new.email \in proven[u]
         /\ new.status \in {"ACTIVE", "FROZEN"} => new.verified
         /\ new.status = "UNVERIFIED" => ~new.verified
         /\ new.verified => new.email \in proven[u]
<1> DEFINE new == Flushed(users[u], loaded, set)
<1>1. users[u] \in Row /\ RowOK(u)
  BY DEF SystemInv, TypeOK, RowsOK, WriteOK, Exists, NoRow
<1>2. new \in Row
  BY <1>1, FlushedType DEF WriteOK, Exists, NoRow
<1>3. /\ new.status = Column(users[u].status, loaded.status, set.status)
      /\ new.verified = Column(users[u].verified, loaded.verified, set.verified)
      /\ new.email = Column(users[u].email, loaded.email, set.email)
  BY DEF Flushed
<1> HIDE DEF new
<1>4. /\ set.status \in Status /\ set.verified \in {TRUE, Undefined}
      /\ set.email \in Emails \cup {Undefined}
      /\ users[u].verified \in BOOLEAN /\ loaded.verified \in BOOLEAN
      /\ Undefined \notin Status /\ Undefined \notin BOOLEAN
      /\ Undefined \notin Emails
  <2>1. /\ set.status \in Status /\ set.verified \in {TRUE, Undefined}
        /\ set.email \in Emails \cup {Undefined}
    BY DEF Changes
  <2>2. users[u].verified \in BOOLEAN
    BY <1>1 DEF Row
  <2>3. loaded.verified \in BOOLEAN
    <3>1. CASE loaded \in Row
      BY <3>1 DEF Row
    <3>2. CASE loaded = NoRow
      BY <3>2 DEF NoRow
    <3>. QED
      BY <3>1, <3>2
  <2>4. Undefined \notin Status /\ Undefined \notin BOOLEAN /\ Undefined \notin Emails
    BY UserAssumption
  <2>. QED
    BY <2>1, <2>2, <2>3, <2>4
<1>5. new.verified <=> (users[u].verified \/ set.verified = TRUE)
  BY <1>3, <1>4 DEF Column, LoadedOK
<1>6. new.email = users[u].email \/ (set.email # Undefined /\ new.email = set.email)
  BY <1>3 DEF Column
<1>7. new.email = users[u].email \/ new.email \in proven[u]
  BY <1>6 DEF WriteOK
<1>8. new.status = users[u].status \/ new.status = set.status
  BY <1>3 DEF Column
<1>9. ASSUME new.status \in {"ACTIVE", "FROZEN"} PROVE new.verified
  BY <1>1, <1>4, <1>5, <1>8, <1>9 DEF RowOK, WriteOK
<1>10. ASSUME new.status = "UNVERIFIED" PROVE ~new.verified
  <2>1. users[u].status = "UNVERIFIED" /\ ~users[u].verified
    BY <1>1, <1>8, <1>10 DEF RowOK, WriteOK
  <2>2. CASE set.verified = TRUE
    <3>1. set.status = "ACTIVE" /\ loaded.status # "ACTIVE"
      BY <2>1, <2>2 DEF WriteOK, LoadedOK
    <3>2. new.status = "ACTIVE"
      BY <1>3, <1>4, <3>1 DEF Column
    <3>. QED
      BY <1>10, <3>2
  <2>. QED
    BY <1>4, <1>5, <2>1, <2>2
<1>11. ASSUME new.verified PROVE new.email \in proven[u]
  <2>1. CASE users[u].email \in proven[u]
    BY <1>7, <2>1
  <2>2. CASE users[u].email \notin proven[u]
    <3>1. set.verified = TRUE /\ users[u].email = loaded.email
      BY <1>1, <1>5, <1>11, <2>2 DEF RowOK, LoadedOK
    <3>2. set.email # Undefined /\ set.email \in proven[u]
      BY <2>2, <3>1 DEF WriteOK
    <3>3. set.email # loaded.email
      BY <2>2, <3>1, <3>2
    <3>. QED
      BY <1>3, <3>2, <3>3 DEF Column
  <2>. QED
    BY <2>1, <2>2
<1>. QED
  BY <1>2, <1>5, <1>7, <1>9, <1>10, <1>11 DEF new

LEMMA FlushInv ==
  ASSUME SystemInv, UNCHANGED <<accountVars, moderationVars>>,
         NEW r \in Requests, FlushRow(r)
  PROVE  SystemInv'
<1> PICK u \in Users, set \in Changes, loaded \in Row \cup {NoRow},
         next \in Continuation :
         /\ u = req[r].user /\ set = req[r].set
         /\ loaded = req[r].row /\ next = req[r].next
  BY StateKinds DEF FlushRow, SystemInv, TypeOK, Flushing
<1>1. UNCHANGED <<proven, tokens, suspensions, unfreezeRequests, apiKeys>>
  BY DEF accountVars, moderationVars
<1>2. next \in RequestState /\ StateOK(next)' /\ next.pc \in {"idle", "suspend", "lift"}
  <2>1. next.pc \in {"idle", "suspend", "lift"}
    BY DEF Continuation, Idle
  <2>2. next \in RequestState
    BY DEF RequestState
  <2>3. StateOK(next)'
    BY <2>1 DEF StateOK
  <2>. QED
    BY <2>1, <2>2, <2>3
<1>3. CASE UNCHANGED users /\ Goto(r, Idle)
  BY <1>1, <1>3, RecordsUnchanged, QuietStep, StateIntro, FreeStates
<1>4. CASE /\ users' = [users EXCEPT ![u] = Flushed(@, loaded, set)]
           /\ Goto(r, next)
  <2> DEFINE new == Flushed(users[u], loaded, set)
  <2>1. WriteOK(u, set) /\ LoadedOK(u, loaded)
    BY DEF FlushRow, SystemInv, StatesOK, StateOK
  <2>2. /\ new \in Row
        /\ users[u].verified => new.verified
        /\ new.email = users[u].email \/ new.email \in proven[u]
        /\ new.status \in {"ACTIVE", "FROZEN"} => new.verified
        /\ new.status = "UNVERIFIED" => ~new.verified
        /\ new.verified => new.email \in proven[u]
    BY <2>1, FlushedRow
  <2>3. users' = [users EXCEPT ![u] = new]
    BY <1>4
  <2> HIDE DEF new
  <2>4. users'[u] = new /\ (\A v \in Users : v # u => users'[v] = users[v])
    BY <2>3 DEF SystemInv, TypeOK
  <2>5. new.status # "NONE"
    BY <2>2 DEF Row, Status
  <2>6. Grows
    BY <1>1, <2>2, <2>4, <2>5 DEF Grows, Exists
  <2>7. TypeOK'
    BY <1>1, <1>2, <1>4, <2>2, <2>3, GotoType DEF SystemInv, TypeOK
  <2>8. RowsOK'
    <3>1. RowOK(u)'
      BY <1>1, <2>2, <2>4, <2>5 DEF RowOK
    <3>2. ASSUME NEW v \in Users, v # u PROVE RowOK(v)'
      BY <1>1, <2>4, <3>2 DEF SystemInv, RowsOK, RowOK
    <3>. QED
      BY <3>1, <3>2 DEF RowsOK
  <2>9. LinksOK'
    <3> SUFFICES ASSUME NEW t \in Tokens, tokens[t] # NoToken PROVE LinkOK(tokens[t])'
      BY <1>1 DEF LinksOK
    <3> PICK v \in TokenValue : v = tokens[t]
      BY DEF SystemInv, TypeOK
    <3>1. LinkOK(v)'
      BY <2>6, LinkStable DEF SystemInv, LinksOK
    <3>. QED
      BY <1>1, <3>1
  <2>10. ReviewsOK'
    BY <1>1, <2>6 DEF SystemInv, TypeOK, ReviewsOK, Grows, UnfreezeRequest
  <2>. QED
    BY <1>2, <1>4, <2>6, <2>7, <2>8, <2>9, <2>10, GrowStep
<1>. QED
  BY <1>3, <1>4 DEF FlushRow

LEMMA NextInv == SystemInv /\ [Next]_vars => SystemInv'
<1> SUFFICES ASSUME SystemInv, [Next]_vars PROVE SystemInv'
  OBVIOUS
<1>1. ASSUME NEW r \in Requests, Abort(r), UNCHANGED <<accountVars, moderationVars>>
      PROVE  SystemInv'
  <2>1. /\ Goto(r, Idle)
        /\ UNCHANGED <<users, proven, tokens, suspensions, unfreezeRequests, apiKeys>>
    BY <1>1 DEF Abort, accountVars, moderationVars
  <2>. QED
    BY <2>1, RecordsUnchanged, QuietStep, StateIntro, FreeStates
<1>2. CASE UNCHANGED vars
  <2>1. UNCHANGED <<users, req, tokens, proven, suspensions, unfreezeRequests, apiKeys>>
    BY <1>2 DEF vars
  <2>2. TypeOK' /\ RowsOK' /\ LinksOK' /\ ReviewsOK' /\ Grows
    BY <2>1 DEF SystemInv, TypeOK, RowsOK, RowOK, LinksOK, LinkOK, Addresses,
       Exists, ReviewsOK, Grows
  <2>. QED
    BY <2>1, <2>2, OutsideStep
<1>. QED
  BY <1>1, <1>2, AccountInv, ModerationInv, LoadInv, FlushInv DEF Next, Work, Die

-----------------------------------------------------------------------------
(* The theorems.                                                           *)

\* The inductive invariant: what every request in flight may rely on.
THEOREM SystemInvariant == Spec => []SystemInv
BY InitInv, NextInv, PTL DEF Spec

\* Every variable keeps its type. It needs the invariant: a flush leaves a row
\* only because the row it writes exists.
THEOREM TypeCorrect == Spec => []TypeOK
<1>1. SystemInv => TypeOK
  BY DEF SystemInv
<1>. QED
  BY <1>1, SystemInvariant, PTL

\* Status and verification agree for any number of users and requests.
THEOREM StatusesVerified == Spec => []VerifiedMatchesStatus
<1>1. SystemInv => VerifiedMatchesStatus
  BY DEF SystemInv, RowsOK, RowOK, VerifiedMatchesStatus
<1>. QED
  BY <1>1, SystemInvariant, PTL

\* The address of a verified user is one whose link the user has opened.
THEOREM EmailsProven == Spec => []EmailProven
<1>1. SystemInv => EmailProven
  BY DEF SystemInv, RowsOK, RowOK, EmailProven
<1>. QED
  BY <1>1, SystemInvariant, PTL

-----------------------------------------------------------------------------
(* What others see of the users table.                                     *)

\* Only the insert of a registration and a flush write the users table.
LEMMA OnlyUserWrites ==
  ASSUME [Next]_vars
  PROVE  \/ UNCHANGED users
         \/ \E r \in Requests : CreateWithProfile(r) \/ FlushRow(r)
<1>1. CASE AccountNext
  BY <1>1 DEF AccountNext, Register, RequestEmailChange, ResendVerificationEmail,
     Withdraw, SendVerificationEmail, SendEmailChangeConfirmation, NewToken,
     OpenLink, DeleteToken, ConfirmEmailChange, ExpireToken
<1>2. CASE ModerationNext
  BY <1>2 DEF ModerationNext, FreezeUser, CreateApiKey, CreateSuspension,
     RevokeAllForUser, FindReview, SetReviewed, LiftSuspension, FileUnfreezeRequest,
     ReviewUnfreezeRequest, InsertApiKey, RevokeApiKey
<1>3. CASE UNCHANGED vars
  BY <1>3 DEF vars
<1>. QED
  BY <1>1, <1>2, <1>3 DEF Next, Work, Die, LoadRow, Abort

LEMMA OwnerInitial == Init => Owner!OwnerInit
BY DEF Init, UserInit, Owner!OwnerInit, NoRow

\* A step of the users table is a step of one account's status, or none.
LEMMA OwnerStep == SystemInv /\ [Next]_vars => [Owner!OwnerNext]_(Owner!ownerVars)
<1> SUFFICES ASSUME SystemInv, [Next]_vars
             PROVE  Owner!OwnerNext \/ UNCHANGED Owner!ownerVars
  OBVIOUS
<1> DEFINE st == [u \in Users |-> users[u].status]
<1>1. CASE UNCHANGED users
  BY <1>1 DEF Owner!ownerVars
<1>2. ASSUME NEW r \in Requests, CreateWithProfile(r), users' # users
      PROVE  Owner!OwnerNext
  <2> PICK u \in Users, e \in Emails : u = req[r].user /\ e = req[r].email
    BY <1>2, StateKinds DEF CreateWithProfile, SystemInv, TypeOK, Addressed
  <2> DEFINE row == [status |-> "UNVERIFIED", verified |-> FALSE,
                     email |-> e, norm |-> Norm[e]]
  <2>1. users[u] = NoRow /\ users' = [users EXCEPT ![u] = row]
    BY <1>2 DEF CreateWithProfile
  <2>2. users'[u].status = "UNVERIFIED" /\ users[u].status = "NONE"
    BY <2>1 DEF SystemInv, TypeOK, NoRow
  <2>3. \A v \in Users : v # u => users'[v] = users[v]
    BY <2>1 DEF SystemInv, TypeOK
  <2>4. st' = [st EXCEPT ![u] = "UNVERIFIED"]
    BY <2>2, <2>3
  <2>5. st[u] = "NONE"
    BY <2>2
  <2>6. Owner!Registers(u)
    BY <2>4, <2>5 DEF Owner!Registers
  <2>. QED
    BY <2>6 DEF Owner!OwnerNext
<1>3. ASSUME NEW r \in Requests, FlushRow(r), users' # users
      PROVE  Owner!OwnerNext \/ UNCHANGED Owner!ownerVars
  <2> PICK u \in Users, set \in Changes, loaded \in Row \cup {NoRow} :
           u = req[r].user /\ set = req[r].set /\ loaded = req[r].row
    BY <1>3, StateKinds DEF FlushRow, SystemInv, TypeOK, Flushing
  <2> DEFINE new == Flushed(users[u], loaded, set)
  <2>1. users' = [users EXCEPT ![u] = new]
    BY <1>3 DEF FlushRow
  <2>2. WriteOK(u, set) /\ RowOK(u)
    BY <1>3 DEF FlushRow, SystemInv, StatesOK, StateOK, RowsOK
  <2>3. new.status = users[u].status \/ new.status = set.status
    BY DEF Flushed, Column
  <2>4. set.status \in Status /\ set.verified \in {TRUE, Undefined}
    BY DEF Changes
  <2> HIDE DEF new
  <2>5. users'[u] = new /\ (\A v \in Users : v # u => users'[v] = users[v])
    BY <2>1 DEF SystemInv, TypeOK
  <2>6. st' = [st EXCEPT ![u] = new.status]
    BY <2>5
  <2>7. CASE new.status = users[u].status
    <3>1. st' = st
      BY <2>5, <2>7
    <3>. QED
      BY <3>1 DEF Owner!ownerVars
  <2>8. CASE new.status = set.status
    <3>1. st[u] # "NONE"
      BY <2>2 DEF WriteOK, Exists
    <3>2. new.status \in Owner!LaterStatus
      BY <2>2, <2>4, <2>8 DEF WriteOK, Status, Owner!LaterStatus
    <3>3. new.status = "FROZEN" => st[u] # "UNVERIFIED"
      BY <2>2, <2>4, <2>8 DEF WriteOK, RowOK
    <3>4. \E s \in Owner!LaterStatus : Owner!Becomes(u, s)
      BY <2>6, <3>1, <3>2, <3>3 DEF Owner!Becomes
    <3>. QED
      BY <3>4 DEF Owner!OwnerNext
  <2>. QED
    BY <2>3, <2>7, <2>8
<1>. QED
  BY <1>1, <1>2, <1>3, OnlyUserWrites

\* The accounts implement the status machine the rest of the system relies on,
\* for any number of users, requests and links, with requests dying anywhere.
THEOREM AccountsImplementOwnerStatus == Spec => OwnerStatusSpec
BY OwnerInitial, OwnerStep, SystemInvariant, PTL
DEF Spec, OwnerStatusSpec, Owner!OwnerSpec
-----------------------------------------------------------------------------
(* One request at a time. What the documents say of reviews and of the two *)
(* columns of an address is true as long as no two requests are in flight: *)
(* a request finds at its write what it read.                              *)

\* Both columns of the address are written together, or neither is.
Paired(set) ==
  \/ set.email = Undefined /\ set.norm = Undefined
  \/ set.email \in Emails /\ set.norm = Norm[set.email]

SoloOK(x) ==
  /\ x.pc \in {"load", "flush"} => Paired(x.set)
  /\ x.pc = "flush" => x.row = users[x.user]
  /\ x.pc \in {"setReviewed", "flushReview"} =>
       unfreezeRequests[x.request].status = "PENDING"

SoloInv == NormMatchesEmail /\ \A r \in Requests : SoloOK(req[r])

\* A step that ends or moves on the only request there is.
LEMMA SoloGoto ==
  ASSUME \A p, r \in Requests : p = r,
         SystemInv, NEW r \in Requests, NEW x \in RequestState, Goto(r, x),
         SoloOK(x)', NormMatchesEmail'
  PROVE  SoloInv'
<1>1. \A p \in Requests : req'[p] = x
  BY GotoType DEF SystemInv
<1>. QED
  BY <1>1 DEF SoloInv, SoloOK

\* The same, when the request holds nothing that could be out of date.
LEMMA SoloLeaves ==
  ASSUME \A p, r \in Requests : p = r,
         SystemInv, SoloInv, NEW r \in Requests, NEW x \in RequestState, Goto(r, x),
         x.pc \notin {"load", "flush", "setReviewed", "flushReview"}, UNCHANGED users
  PROVE  SoloInv'
BY SoloGoto DEF SoloInv, SoloOK, NormMatchesEmail

\* The same, when it is about to write a row.
LEMMA SoloWrites ==
  ASSUME \A p, r \in Requests : p = r,
         SystemInv, SoloInv, NEW r \in Requests, NEW u \in Users, NEW set \in Changes,
         NEW next \in Continuation, Goto(r, Writing(u, set, next)), Paired(set),
         UNCHANGED users
  PROVE  SoloInv'
<1>1. Writing(u, set, next) \in RequestState
  BY StateIntro
<1>2. SoloOK(Writing(u, set, next))'
  BY DEF SoloOK, Writing, Paired
<1>. QED
  BY <1>1, <1>2, SoloGoto DEF SoloInv, NormMatchesEmail

LEMMA PairedSets ==
  /\ \A s \in Status : Paired(SetStatus(s))
  /\ Paired(SetVerified)
  /\ \A e \in Emails : Paired(SetEmail(e))
BY DEF Paired, SetStatus, SetVerified, SetEmail

LEMMA SoloInit == Init => SoloInv
BY DEF Init, UserInit, SoloInv, SoloOK, NormMatchesEmail, NoRow, Idle

LEMMA SoloAccounts ==
  ASSUME \A p, r \in Requests : p = r, SystemInv, SoloInv, AccountNext,
         UNCHANGED moderationVars
  PROVE  SoloInv'
<1>1. ASSUME NEW r \in Requests, NEW u \in Users, NEW e \in Emails,
             Register(r, u, e) \/ RequestEmailChange(r, u, e)
      PROVE  SoloInv'
  BY <1>1, StateIntro, SoloLeaves DEF Register, RequestEmailChange
<1>2. ASSUME NEW r \in Requests, NEW u \in Users, ResendVerificationEmail(r, u)
      PROVE  SoloInv'
  <2>1. users[u].email \in Emails
    BY <1>2 DEF ResendVerificationEmail, Live, SystemInv, TypeOK, Row, NoRow
  <2>. QED
    BY <1>2, <2>1, StateIntro, SoloLeaves DEF ResendVerificationEmail
<1>3. ASSUME NEW r \in Requests, NEW u \in Users, Withdraw(r, u)
      PROVE  SoloInv'
  BY <1>3, SoloWrites, PairedSets, ChangesIntro DEF Withdraw, Continuation, Status
<1>4. ASSUME NEW r \in Requests, NEW t \in Tokens,
             SendVerificationEmail(r, t) \/ SendEmailChangeConfirmation(r, t)
      PROVE  SoloInv'
  BY <1>4, StateIntro, SoloLeaves
     DEF SendVerificationEmail, SendEmailChangeConfirmation, NewToken, Idle
<1>5. ASSUME NEW r \in Requests, NEW t \in Tokens, OpenLink(r, t)
      PROVE  SoloInv'
  <2>1. tokens[t] \in TokenValue
    BY <1>5 DEF OpenLink, SystemInv, TypeOK
  <2>. QED
    BY <1>5, <2>1, StateIntro, SoloLeaves DEF OpenLink
<1>6. ASSUME NEW r \in Requests, CreateWithProfile(r)
      PROVE  SoloInv'
  <2>1. req[r] \in Addressed
    BY <1>6, StateKinds DEF CreateWithProfile, SystemInv, TypeOK
  <2>2. PICK x : x = [pc |-> "sendVerify", user |-> req[r].user, email |-> req[r].email]
    OBVIOUS
  <2>3. /\ x \in RequestState /\ Idle \in RequestState
        /\ SoloOK(x)' /\ SoloOK(Idle)'
    BY <2>1, <2>2, StateIntro DEF Addressed, SoloOK, Idle
  <2>4. Goto(r, x) \/ Goto(r, Idle)
    BY <1>6, <2>2 DEF CreateWithProfile
  <2>5. NormMatchesEmail'
    BY <1>6, <2>1 DEF CreateWithProfile, NormMatchesEmail, SoloInv, SystemInv, TypeOK,
       Addressed
  <2>. QED
    BY <2>3, <2>4, <2>5, SoloGoto
<1>7. ASSUME NEW r \in Requests, DeleteToken(r)
      PROVE  SoloInv'
  <2>1. req[r] \in Consuming /\ req[r].value \in TokenValue
    BY <1>7, StateKinds DEF DeleteToken, SystemInv, TypeOK, Consuming
  <2>2. req[r].value.user \in Users /\ req[r].value.sentTo \in Emails
    BY <2>1 DEF TokenValue
  <2>3. CASE Goto(r, Writing(req[r].value.user, SetVerified, Idle))
    BY <1>7, <2>2, <2>3, SoloWrites, PairedSets, ChangesIntro
       DEF DeleteToken, Continuation
  <2>4. CASE Goto(r, [pc |-> "confirm", user |-> req[r].value.user,
                      email |-> req[r].value.sentTo])
    BY <1>7, <2>2, <2>4, SoloLeaves, StateIntro DEF DeleteToken
  <2>. QED
    BY <1>7, <2>3, <2>4 DEF DeleteToken
<1>8. ASSUME NEW r \in Requests, ConfirmEmailChange(r)
      PROVE  SoloInv'
  <2>1. req[r].user \in Users /\ req[r].email \in Emails
    BY <1>8, StateKinds DEF ConfirmEmailChange, SystemInv, TypeOK, Addressed
  <2>2. CASE Goto(r, Writing(req[r].user, SetEmail(req[r].email), Idle))
    BY <1>8, <2>1, <2>2, SoloWrites, PairedSets, ChangesIntro
       DEF ConfirmEmailChange, Continuation
  <2>3. CASE Goto(r, Idle)
    BY <1>8, <2>3, SoloLeaves, StateIntro DEF ConfirmEmailChange, Idle
  <2>. QED
    BY <1>8, <2>2, <2>3 DEF ConfirmEmailChange
<1>9. ASSUME NEW t \in Tokens, ExpireToken(t) PROVE SoloInv'
  BY <1>9 DEF ExpireToken, SoloInv, SoloOK, NormMatchesEmail, moderationVars
<1>. QED
  BY <1>1, <1>2, <1>3, <1>4, <1>5, <1>6, <1>7, <1>8, <1>9 DEF AccountNext

LEMMA SoloModeration ==
  ASSUME \A p, r \in Requests : p = r, SystemInv, SoloInv, ModerationNext
  PROVE  SoloInv'
<1>1. ASSUME NEW r \in Requests, NEW u \in Users, FreezeUser(r, u)
      PROVE  SoloInv'
  BY <1>1, SoloWrites, PairedSets, ChangesIntro DEF FreezeUser, Continuation, Status
<1>2. ASSUME NEW r \in Requests,
             \/ \E u \in Users : CreateApiKey(r, u)
             \/ \E s \in Suspensions : CreateSuspension(r, s)
             \/ \E k \in ApiKeys : InsertApiKey(r, k)
             \/ RevokeAllForUser(r)
             \/ LiftSuspension(r)
      PROVE  SoloInv'
  <2>1. UNCHANGED users
    BY <1>2 DEF CreateApiKey, CreateSuspension, InsertApiKey, RevokeAllForUser,
       LiftSuspension
  <2>2. \E x \in RequestState :
          Goto(r, x) /\ x.pc \notin {"load", "flush", "setReviewed", "flushReview"}
    <3>1. CASE \E u \in Users : CreateApiKey(r, u)
      BY <3>1, StateIntro DEF CreateApiKey
    <3>2. CASE \E s \in Suspensions : CreateSuspension(r, s)
      <4>1. req[r].user \in Users
        BY <3>2, StateKinds DEF CreateSuspension, SystemInv, TypeOK
      <4>. QED
        BY <3>2, <4>1, StateIntro DEF CreateSuspension
    <3>3. CASE Goto(r, Idle)
      BY <3>3, StateIntro DEF Idle
    <3>. QED
      BY <1>2, <3>1, <3>2, <3>3 DEF InsertApiKey, RevokeAllForUser, LiftSuspension
  <2>. QED
    BY <2>1, <2>2, SoloLeaves
<1>3. ASSUME NEW r \in Requests, SetReviewed(r) PROVE SoloInv'
  <2>1. unfreezeRequests[req[r].request].user \in Users
    BY <1>3, StateKinds DEF SetReviewed, SystemInv, TypeOK, Reviewed, StatesOK,
       StateOK, UnfreezeRequest
  <2>2. CASE Goto(r, Idle)
    BY <1>3, <2>2, SoloLeaves, StateIntro DEF SetReviewed, Idle
  <2>3. CASE Goto(r, Writing(unfreezeRequests[req[r].request].user, Reinstated,
                             Lifting(unfreezeRequests[req[r].request].user)))
    <3>1. Lifting(unfreezeRequests[req[r].request].user) \in Continuation
      BY <2>1 DEF Lifting, Continuation
    <3>2. Reinstated \in Changes /\ Paired(Reinstated)
      BY PairedSets, ChangesIntro DEF Reinstated, Status
    <3>. QED
      BY <1>3, <2>1, <2>3, <3>1, <3>2, SoloWrites DEF SetReviewed
  <2>. QED
    BY <1>3, <2>2, <2>3 DEF SetReviewed
<1>4. ASSUME NEW u \in Users, NEW q \in UnfreezeRequests, FileUnfreezeRequest(u, q)
      PROVE  SoloInv'
  <2>1. UNCHANGED <<users, req>>
    BY <1>4 DEF FileUnfreezeRequest
  <2>2. ASSUME NEW r \in Requests PROVE SoloOK(req[r])'
    <3>1. SoloOK(req[r]) /\ StateOK(req[r]) /\ req[r] \in RequestState
      BY DEF SoloInv, SystemInv, StatesOK, TypeOK
    <3>2. req[r].pc \in {"setReviewed", "flushReview"} =>
            req[r].request # q /\ req[r].request \in UnfreezeRequests
      BY <1>4, <3>1, StateKinds DEF StateOK, FileUnfreezeRequest, Reviewing, Reviewed
    <3>3. req[r].pc \in {"setReviewed", "flushReview"} =>
            unfreezeRequests'[req[r].request] = unfreezeRequests[req[r].request]
      BY <1>4, <3>2 DEF FileUnfreezeRequest, SystemInv, TypeOK
    <3>. QED
      BY <2>1, <3>1, <3>3 DEF SoloOK, Paired
  <2>. QED
    BY <2>1, <2>2 DEF SoloInv, NormMatchesEmail
<1>5. ASSUME NEW r \in Requests, NEW q \in UnfreezeRequests,
             NEW d \in {"APPROVED", "REJECTED"}, ReviewUnfreezeRequest(r, q, d)
      PROVE  SoloInv'
  <2> DEFINE x == [pc |-> "setReviewed", request |-> q, decision |-> d]
  <2>1. x \in RequestState /\ Goto(r, x)
    BY <1>5, StateIntro DEF ReviewUnfreezeRequest
  <2>2. SoloOK(x)'
    BY <1>5 DEF ReviewUnfreezeRequest, SoloOK, moderationVars
  <2>3. NormMatchesEmail'
    BY <1>5 DEF ReviewUnfreezeRequest, SoloInv, NormMatchesEmail
  <2> HIDE DEF x
  <2>. QED
    BY <2>1, <2>2, <2>3, SoloGoto
<1>6. ASSUME NEW k \in ApiKeys, RevokeApiKey(k) PROVE SoloInv'
  BY <1>6 DEF RevokeApiKey, SoloInv, SoloOK, NormMatchesEmail
<1>7. ASSUME NEW r \in Requests, FindReview(r) PROVE SoloInv'
  <2> PICK x : x = [pc |-> "flushReview", request |-> req[r].request,
                    decision |-> req[r].decision,
                    seen |-> unfreezeRequests[req[r].request].status]
    OBVIOUS
  <2>1. req[r] \in Reviewing /\ unfreezeRequests[req[r].request] # None
    BY <1>7, StateKinds DEF FindReview, SystemInv, TypeOK, StatesOK, StateOK
  <2>2. unfreezeRequests[req[r].request].status \in ReviewStatus
    BY <2>1 DEF Reviewing, SystemInv, TypeOK, UnfreezeRequest
  <2>3. x \in RequestState /\ Goto(r, x)
    BY <1>7, <2>1, <2>2, StateIntro DEF FindReview, Reviewing
  <2>4. SoloOK(x)'
    BY <1>7 DEF FindReview, SoloInv, SoloOK, moderationVars
  <2>5. NormMatchesEmail'
    BY <1>7 DEF FindReview, SoloInv, NormMatchesEmail
  <2>. QED
    BY <2>3, <2>4, <2>5, SoloGoto
<1>. QED
  BY <1>1, <1>2, <1>3, <1>4, <1>5, <1>6, <1>7 DEF ModerationNext

\* The only request writes the row it has loaded.
LEMMA SoloRow ==
  ASSUME \A p, r \in Requests : p = r, SystemInv, SoloInv, NEW r \in Requests,
         LoadRow(r) \/ FlushRow(r) \/ Abort(r)
  PROVE  SoloInv'
<1>1. CASE Abort(r)
  BY <1>1, SoloLeaves, StateIntro DEF Abort, Idle
<1>2. CASE LoadRow(r)
  <2> PICK x : x = [pc |-> "flush", user |-> req[r].user, set |-> req[r].set,
                    row |-> users[req[r].user], next |-> req[r].next]
    OBVIOUS
  <2>1. req[r] \in Loading /\ Goto(r, x) /\ UNCHANGED users
    BY <1>2, StateKinds DEF LoadRow, SystemInv, TypeOK
  <2>2. x \in RequestState
    BY <2>1, StateIntro DEF Loading, SystemInv, TypeOK
  <2>3. SoloOK(x)'
    BY <1>2, <2>1 DEF LoadRow, SoloInv, SoloOK, Paired
  <2>4. NormMatchesEmail'
    BY <2>1 DEF SoloInv, NormMatchesEmail
  <2>. QED
    BY <2>1, <2>2, <2>3, <2>4, SoloGoto
<1>3. CASE FlushRow(r)
  <2> DEFINE q == req[r]
             now == users[q.user]
             new == Flushed(now, q.row, q.set)
  <2>1. q \in Flushing /\ q.user \in Users /\ q.next \in Continuation
    BY <1>3, StateKinds DEF FlushRow, SystemInv, TypeOK, Flushing
  <2>2. Paired(q.set) /\ q.row = now
    BY <1>3 DEF FlushRow, SoloInv, SoloOK
  <2>3. now \in Row
    BY <1>3, <2>1 DEF FlushRow, SystemInv, StatesOK, StateOK, WriteOK, Exists, TypeOK,
       NoRow
  <2>4. now.email \in Emails /\ now.norm = Norm[now.email]
    BY <2>1, <2>3, UserAssumption DEF SoloInv, NormMatchesEmail, Row
  <2>5. new.norm = Norm[new.email]
    BY <2>2, <2>4, UserAssumption DEF Paired, Flushed, Column
  <2>6. NormMatchesEmail'
    <3>1. CASE users' = [users EXCEPT ![q.user] = new]
      BY <2>1, <2>5, <3>1 DEF NormMatchesEmail, SoloInv, SystemInv, TypeOK
    <3>. QED
      BY <1>3, <3>1 DEF FlushRow, SoloInv, NormMatchesEmail
  <2>7. \E x \in RequestState : Goto(r, x) /\ SoloOK(x)'
    <3>1. PICK x \in {q.next, Idle} : Goto(r, x)
      BY <1>3 DEF FlushRow
    <3>2. x \in RequestState /\ x.pc \in {"idle", "suspend", "lift"}
      BY <2>1 DEF RequestState, Continuation, Idle
    <3>. QED
      BY <3>1, <3>2 DEF SoloOK
  <2>. QED
    BY <2>6, <2>7, SoloGoto
<1>. QED
  BY <1>1, <1>2, <1>3

LEMMA SoloNext ==
  ASSUME \A p, r \in Requests : p = r, SystemInv, SoloInv, [Next]_vars
  PROVE  SoloInv'
<1>1. CASE UNCHANGED vars
  BY <1>1 DEF vars, SoloInv, SoloOK, NormMatchesEmail
<1>. QED
  BY <1>1, SoloAccounts, SoloModeration, SoloRow DEF Next, Work, Die

\* 01-data-model.md:291 holds of requests that are handled one at a time:
\* email_normalized is the normal form of email.
THEOREM OneAtATimeNorm ==
  ASSUME \A p, r \in Requests : p = r
  PROVE  Spec => []NormMatchesEmail
<1>1. SystemInv /\ SoloInv /\ [Next]_vars => SoloInv'
  BY SoloNext
<1>2. SoloInv => NormMatchesEmail
  BY DEF SoloInv
<1>. QED
  BY <1>1, <1>2, SoloInit, SystemInvariant, PTL DEF Spec

\* moderation.ts:52-53 holds of reviews that come one at a time: no review
\* changes an unfreeze request that is decided.
THEOREM OneAtATimeDecision ==
  ASSUME \A p, r \in Requests : p = r
  PROVE  Spec => DecisionIsFinal
<1> DEFINE Step == \A q \in UnfreezeRequests :
       (unfreezeRequests[q] # None /\ unfreezeRequests[q].status # "PENDING")
       => unfreezeRequests'[q] = unfreezeRequests[q]
<1>1. SystemInv /\ SoloInv /\ [Next]_vars => SoloInv'
  BY SoloNext
<1>2. ASSUME SystemInv, SoloInv, [Next]_vars PROVE Step
  <2>1. CASE UNCHANGED unfreezeRequests
    BY <2>1
  <2>2. ASSUME NEW r \in Requests, SetReviewed(r) PROVE Step
    BY <1>2, <2>2 DEF SetReviewed, SoloInv, SoloOK, SystemInv, TypeOK
  <2>3. ASSUME NEW u \in Users, NEW q \in UnfreezeRequests, FileUnfreezeRequest(u, q)
        PROVE  Step
    BY <1>2, <2>3 DEF FileUnfreezeRequest, SystemInv, TypeOK
  <2>4. \/ UNCHANGED unfreezeRequests
        \/ \E r \in Requests : SetReviewed(r)
        \/ \E u \in Users, q \in UnfreezeRequests : FileUnfreezeRequest(u, q)
    <3>1. CASE ModerationNext
      BY <3>1 DEF ModerationNext, FreezeUser, CreateApiKey, CreateSuspension,
         RevokeAllForUser, LiftSuspension, ReviewUnfreezeRequest, FindReview,
         InsertApiKey, RevokeApiKey, moderationVars
    <3>. QED
      BY <1>2, <3>1 DEF Next, Work, Die, vars, moderationVars
  <2> HIDE DEF Step
  <2>. QED
    BY <2>1, <2>2, <2>3, <2>4
<1>3. SystemInv /\ SoloInv /\ [Next]_vars => [Step]_vars
  BY <1>2
<1> HIDE DEF Step
<1>4. Spec => [][Step]_vars
  BY <1>1, <1>3, SoloInit, SystemInvariant, PTL DEF Spec
<1>. QED
  BY <1>4 DEF Step, DecisionIsFinal
=============================================================================
