-------------------------- MODULE Passkeys_proofs ---------------------------
(***************************************************************************)
(* Proofs about Passkeys, for any number of addresses, credentials,        *)
(* challenges and requests.                                                *)
(*                                                                         *)
(* A challenge that was not raced is held by one request at most; once it  *)
(* is deleted nobody else gets it, and once it was used nobody holds it    *)
(* (TakenOnce). An authenticator answers one registration for a credential *)
(* (Registered), so that a credential whose row is or was there has used   *)
(* up its challenge (SavedOnce). A login that has verified its answer      *)
(* finds a counter that is not above it, unless it was overtaken (CountOK).*)
(***************************************************************************)
EXTENDS Passkeys, TLAPS

USE DEF Idle

Call == [pc : {"delete", "save", "find", "passkey", "count", "session"},
         key : Keys, expected : Numbers, answer : Answer]

\* What is kept, asked and answered is of challenges that were issued.
ChallengesKnown ==
  /\ \A k \in Keys : challenges[k] # 0 =>
       challenges[k] <= Len(asked) /\ asked[challenges[k]] = k
  /\ \A a \in answers : a.challenge <= Len(asked)
  /\ \A n \in Numbers : n > Len(asked) => uses[n] = 0
CallsKnown ==
  \A r \in Requests : call[r].pc # "idle" =>
    /\ call[r].expected <= Len(asked) /\ asked[call[r].expected] = call[r].key
    /\ call[r].answer \in answers /\ Purpose(call[r].answer) = call[r].key.purpose
    /\ call[r].pc = "save" => call[r].key.purpose = "reg"

Holds(r, n) == call[r].pc # "idle" /\ call[r].expected = n
Kept(n) == \E k \in Keys : challenges[k] = n
Lone(n) ==
  /\ uses[n] <= 1
  /\ \A r, q \in Requests : Holds(r, n) /\ Holds(q, n) => r = q
  /\ uses[n] = 1 => ~Kept(n) /\ \A r \in Requests : ~Holds(r, n)
  /\ \A r \in Requests : Holds(r, n) /\ call[r].pc # "delete" => ~Kept(n)
TakenOnce == \A n \in Numbers \ raced : Lone(n)

\* An authenticator makes a credential once, with the counter 0.
Registers(a, c) == a.credential = c /\ Purpose(a) = "reg"
Registered ==
  /\ \A a \in answers : devices[a.credential] # NoPasskey
  /\ \A a \in answers : Purpose(a) = "reg" => a.count = 0
  /\ \A c \in Credentials : \A a, b \in answers :
       Registers(a, c) /\ Registers(b, c) => a = b
SavedOnce ==
  \A c \in Credentials : c \in deleted \/ passkeys[c] # NoPasskey =>
    \E a \in answers : Registers(a, c) /\ uses[a.challenge] > 0

CountOK ==
  \A r \in Requests \ overtaken :
    LET c == call[r].answer.credential IN
    call[r].pc = "count" /\ passkeys[c] # NoPasskey
      => passkeys[c].signCount <= call[r].answer.count

PasskeyInv ==
  /\ PasskeyTypeOK /\ ChallengesKnown /\ CallsKnown /\ TakenOnce
  /\ Registered /\ SavedOnce /\ CountOK /\ DeletedStaysDeleted

-----------------------------------------------------------------------------
(* States                                                                  *)

LEMMA PasskeyStateKinds ==
  ASSUME PasskeyTypeOK, NEW r \in Requests
  PROVE  /\ call[r].pc # "idle" => call[r] \in Call
         /\ (call[r] # Idle) = (call[r].pc # "idle")
BY DEF PasskeyTypeOK, Call

LEMMA PasskeyGotoState ==
  ASSUME PasskeyTypeOK, NEW r \in Requests, NEW s, Goto(r, s)
  PROVE  /\ call'[r] = s
         /\ \A q \in Requests \ {r} : call'[q] = call[q]
         /\ s \in {Idle} \cup Call => call' \in [Requests -> {Idle} \cup Call]
BY DEF PasskeyTypeOK, Goto, Call

\* What a challenge that was not raced goes through, unless it is taken or used.
LEMMA LoneStep ==
  ASSUME NEW n, Lone(n), uses'[n] = uses[n], Kept(n)' => Kept(n),
         \A r \in Requests : Holds(r, n)' => Holds(r, n),
         \A r \in Requests :
           Holds(r, n)' /\ call'[r].pc # "delete" => call[r].pc # "delete" \/ ~Kept(n)'
  PROVE  Lone(n)'
BY DEF Lone

\* Steps that leave challenges, answers and requests alone.
LEMMA StoreKept ==
  ASSUME PasskeyInv, UNCHANGED <<challenges, asked, answers, call, uses, raced>>
  PROVE  ChallengesKnown' /\ CallsKnown' /\ TakenOnce'
BY DEF PasskeyInv, ChallengesKnown, CallsKnown, TakenOnce, Lone, Holds, Kept, Purpose

LEMMA AnswersKept ==
  ASSUME PasskeyInv, UNCHANGED <<asked, devices, answers>>
  PROVE  Registered'
BY DEF PasskeyInv, Registered, Registers, Purpose

LEMMA SavedKept ==
  ASSUME PasskeyInv, UNCHANGED <<asked, answers>>,
         \A n \in Numbers : uses[n] > 0 => uses'[n] > 0,
         \A c \in Credentials : c \in deleted' \/ passkeys'[c] # NoPasskey
           => c \in deleted \/ passkeys[c] # NoPasskey
  PROVE  SavedOnce'
<1>1. \A a \in answers : a.challenge \in Numbers
  BY DEF PasskeyInv, PasskeyTypeOK, Answer
<1>2. \A a \in answers, c \in Credentials : Registers(a, c)' = Registers(a, c)
  BY DEF Registers, Purpose
<1>. QED
  BY <1>1, <1>2 DEF PasskeyInv, SavedOnce

LEMMA DeletedKept ==
  ASSUME PasskeyInv, UNCHANGED <<asked, answers>>, raced \subseteq raced',
         \A c \in deleted' : passkeys'[c] # NoPasskey
           => c \in deleted /\ passkeys[c] # NoPasskey
  PROVE  DeletedStaysDeleted'
BY DEF PasskeyInv, DeletedStaysDeleted, Purpose

LEMMA CountKept ==
  ASSUME PasskeyInv, UNCHANGED <<passkeys, call, overtaken>>
  PROVE  CountOK'
BY DEF PasskeyInv, CountOK

-----------------------------------------------------------------------------
(* Challenges are issued and answered                                      *)

\* An issued challenge replaces what its key held; nobody has it yet.
LEMMA PutStep ==
  ASSUME MaxChallenges \in Nat, PasskeyInv, NEW k \in Keys, Put(k),
         UNCHANGED <<accounts, passkeys, devices, answers, call, history>>
  PROVE  PasskeyInv'
<1> DEFINE n == Len(asked) + 1
<1>1. /\ asked \in Seq(Keys) /\ Len(asked) \in Nat /\ n \in Numbers
      /\ asked' = Append(asked, k) /\ challenges' = [challenges EXCEPT ![k] = n]
      /\ UNCHANGED <<answers, call, uses, raced, overtaken, deleted>>
  BY DEF PasskeyInv, PasskeyTypeOK, Put, Numbers, history
<1>2. /\ Len(asked') = n /\ asked'[n] = k /\ asked' \in Seq(Keys)
      /\ \A m \in Numbers : m <= Len(asked) => asked'[m] = asked[m]
  BY <1>1 DEF Numbers
<1>3. PasskeyTypeOK'
  BY <1>1, <1>2 DEF PasskeyInv, PasskeyTypeOK, Numbers
<1>4. \A a \in answers : a.challenge \in Numbers /\ a.challenge <= Len(asked)
  BY DEF PasskeyInv, PasskeyTypeOK, ChallengesKnown, Answer
<1>5. \A a \in answers : Purpose(a)' = Purpose(a)
  BY <1>2, <1>4 DEF Purpose
<1>6. \A j \in Keys : challenges[j] \in 0..MaxChallenges
  BY DEF PasskeyInv, PasskeyTypeOK
<1>7. ChallengesKnown'
  BY <1>1, <1>2, <1>4, <1>6 DEF PasskeyInv, PasskeyTypeOK, ChallengesKnown, Numbers
<1>8. \A r \in Requests : call[r].pc # "idle" =>
        /\ call[r].expected \in Numbers /\ call[r].expected <= Len(asked)
        /\ call[r].answer \in answers
  BY PasskeyStateKinds DEF PasskeyInv, CallsKnown, Call
<1>9. CallsKnown'
  <2> SUFFICES ASSUME NEW r \in Requests, call[r].pc # "idle"
               PROVE  /\ call[r].expected <= Len(asked)' /\ asked'[call[r].expected] = call[r].key
                      /\ call[r].answer \in answers
                      /\ asked'[call[r].answer.challenge].purpose = call[r].key.purpose
                      /\ call[r].pc = "save" => call[r].key.purpose = "reg"
    BY <1>1 DEF CallsKnown, Purpose
  <2>1. asked'[call[r].answer.challenge] = asked[call[r].answer.challenge]
    BY <1>2, <1>4, <1>8
  <2>2. asked[call[r].answer.challenge].purpose = call[r].key.purpose
    BY DEF PasskeyInv, CallsKnown, Purpose
  <2>. QED
    <3>1. call[r].expected \in Numbers /\ call[r].expected <= Len(asked)
      BY <1>8
    <3>2. asked[call[r].expected] = call[r].key
      BY DEF PasskeyInv, CallsKnown
    <3>3. call[r].expected <= Len(asked)'
      BY <1>1, <1>2, <3>1 DEF Numbers
    <3>4. asked'[call[r].expected] = call[r].key
      BY <1>2, <3>1, <3>2
    <3>5. call[r].pc = "save" => call[r].key.purpose = "reg"
      BY DEF PasskeyInv, CallsKnown
    <3>. QED
      BY <1>8, <2>1, <2>2, <3>3, <3>4, <3>5
<1>10. TakenOnce'
  <2> SUFFICES ASSUME NEW m \in Numbers \ raced PROVE Lone(m)'
    BY <1>1 DEF TakenOnce
  <2>1. CASE m = n
    <3>1. uses'[m] = 0
      BY <1>1, <2>1 DEF PasskeyInv, ChallengesKnown
    <3>2. \A r \in Requests : ~Holds(r, m)'
      BY <1>1, <1>8, <2>1 DEF Holds
    <3>. QED
      BY <3>1, <3>2 DEF Lone
  <2>2. CASE m # n
    <3>1. Kept(m)' => Kept(m)
      BY <1>1, <2>2 DEF Kept, PasskeyInv, PasskeyTypeOK
    <3>2. \A r \in Requests : Holds(r, m)' = Holds(r, m) /\ call'[r] = call[r]
      BY DEF Holds
    <3>3. Lone(m)
      BY DEF PasskeyInv, TakenOnce
    <3>4. (\A r \in Requests : Holds(r, m)' /\ call'[r].pc # "delete" => call[r].pc # "delete")
          /\ uses'[m] = uses[m]
      BY <1>1, <3>2
    <3>. QED
      BY <3>1, <3>2, <3>3, <3>4, LoneStep
  <2>. QED
    BY <2>1, <2>2
<1>11. \A a \in answers, c \in Credentials : Registers(a, c)' = Registers(a, c)
  BY <1>5 DEF Registers
<1>12. Registered'
  BY <1>5, <1>11 DEF PasskeyInv, Registered
<1>13. SavedOnce'
  BY <1>1, <1>11 DEF PasskeyInv, SavedOnce
<1>14. CountOK'
  BY <1>1, CountKept
<1>15. DeletedStaysDeleted'
  BY <1>1, <1>5 DEF PasskeyInv, DeletedStaysDeleted
<1>. QED
  BY <1>3, <1>7, <1>9, <1>10, <1>12, <1>13, <1>14, <1>15 DEF PasskeyInv

\* A challenge that expires is not there to be taken.
LEMMA ExpireStep ==
  ASSUME MaxChallenges \in Nat, PasskeyInv, NEW k \in Keys, ExpireChallenge(k)
  PROVE  PasskeyInv'
<1>1. /\ challenges' = [challenges EXCEPT ![k] = 0]
      /\ UNCHANGED <<accounts, passkeys, asked, devices, answers, call>>
      /\ UNCHANGED <<uses, raced, overtaken, deleted>>
  BY DEF ExpireChallenge, history
<1>2. PasskeyTypeOK'
  BY <1>1 DEF PasskeyInv, PasskeyTypeOK
<1>3. ChallengesKnown' /\ CallsKnown'
  BY <1>1 DEF PasskeyInv, PasskeyTypeOK, ChallengesKnown, CallsKnown, Purpose
<1>4. TakenOnce'
  <2> SUFFICES ASSUME NEW m \in Numbers \ raced PROVE Lone(m)'
    BY <1>1 DEF TakenOnce
  <2>1. Kept(m)' => Kept(m)
    BY <1>1 DEF Kept, PasskeyInv, PasskeyTypeOK, Numbers
  <2>. QED
    BY <1>1, <2>1 DEF PasskeyInv, TakenOnce, Lone, Holds
<1>5. Registered' /\ SavedOnce' /\ CountOK' /\ DeletedStaysDeleted'
  BY <1>1 DEF PasskeyInv, Registered, Registers, SavedOnce, CountOK, DeletedStaysDeleted, Purpose
<1>. QED
  BY <1>2, <1>3, <1>4, <1>5 DEF PasskeyInv

\* An authenticator answers a challenge: it makes a credential it has not made
\* yet, or asks for nothing to be registered.
LEMMA SignStep ==
  ASSUME MaxChallenges \in Nat, MaxCount \in Nat, NoPasskey \notin 0..MaxCount, PasskeyInv,
         NEW c \in Credentials, NEW n \in Numbers, NEW count \in 0..MaxCount, Sign(c, n, count)
  PROVE  PasskeyInv'
<1> DEFINE b == [credential |-> c, challenge |-> n, count |-> count]
<1>1. /\ devices' = [devices EXCEPT ![c] = count] /\ answers' = answers \cup {b}
      /\ UNCHANGED <<accounts, passkeys, challenges, asked, call, uses, raced, overtaken, deleted>>
      /\ n \in DOMAIN asked
  BY DEF Sign, history
<1>2. b \in Answer
  BY DEF Answer
<1>3. PasskeyTypeOK'
  BY <1>1, <1>2 DEF PasskeyInv, PasskeyTypeOK
<1>4. n <= Len(asked)
  BY <1>1 DEF PasskeyInv, PasskeyTypeOK
<1>5. ChallengesKnown' /\ CallsKnown'
  BY <1>1, <1>4 DEF PasskeyInv, ChallengesKnown, CallsKnown, Purpose
<1>6. TakenOnce'
  BY <1>1 DEF PasskeyInv, TakenOnce, Lone, Holds, Kept
<1>7. \A a \in answers : devices[a.credential] # NoPasskey /\ a.credential \in Credentials
  BY DEF PasskeyInv, Registered, PasskeyTypeOK, Answer
<1>8. \A d \in Credentials : devices[d] # NoPasskey => devices'[d] # NoPasskey
  BY <1>1 DEF PasskeyInv, PasskeyTypeOK
<1>9. devices'[c] # NoPasskey
  BY <1>1 DEF PasskeyInv, PasskeyTypeOK
<1>10. Purpose(b) = "reg" => devices[c] = NoPasskey /\ count = 0
  BY DEF Sign, Purpose
<1>11. \A a \in answers' : Purpose(a)' = Purpose(a)
  BY <1>1 DEF Purpose
<1>12. Registered'
  BY <1>1, <1>7, <1>8, <1>9, <1>10, <1>11 DEF PasskeyInv, Registered, Registers
<1>13. SavedOnce' /\ CountOK' /\ DeletedStaysDeleted'
  BY <1>1 DEF PasskeyInv, Registers, SavedOnce, CountOK, DeletedStaysDeleted, Purpose
<1>. QED
  BY <1>3, <1>5, <1>6, <1>12, <1>13 DEF PasskeyInv

-----------------------------------------------------------------------------
(* Requests                                                                *)

\* A request gets the challenge of a key: it is the only one unless another is
\* about to delete it.
LEMMA TakeStep ==
  ASSUME PasskeyInv, NEW r \in Requests, NEW k \in Keys, NEW a \in answers,
         Purpose(a) = k.purpose, Take(r, k, a)
  PROVE  PasskeyInv'
<1> DEFINE n == challenges[k]
           s == [pc |-> "delete", key |-> k, expected |-> n, answer |-> a]
<1>1. /\ call[r] = Idle /\ n # 0 /\ Goto(r, s)
      /\ UNCHANGED <<accounts, passkeys, challenges, asked, devices, answers, uses, deleted>>
      /\ raced \subseteq raced' /\ raced' \subseteq raced \cup {n}
      /\ overtaken' = overtaken \ {r}
      /\ (\E q \in Requests : call[q].pc = "delete" /\ call[q].expected = n) => n \in raced'
  BY DEF Take
<1>2. n \in Numbers /\ n <= Len(asked) /\ asked[n] = k
  BY <1>1 DEF PasskeyInv, PasskeyTypeOK, ChallengesKnown, Numbers
<1>3. s \in Call
  BY <1>2 DEF PasskeyInv, PasskeyTypeOK, Call
<1>4. /\ call'[r] = s /\ \A q \in Requests \ {r} : call'[q] = call[q]
      /\ call' \in [Requests -> {Idle} \cup Call]
  BY <1>1, <1>3, PasskeyGotoState DEF PasskeyInv
<1>5. PasskeyTypeOK'
  BY <1>1, <1>2, <1>4 DEF PasskeyInv, PasskeyTypeOK, Call
<1>6. ChallengesKnown' /\ CallsKnown'
  BY <1>1, <1>2, <1>4 DEF PasskeyInv, ChallengesKnown, CallsKnown, Purpose
<1>7. TakenOnce'
  <2> SUFFICES ASSUME NEW m \in Numbers \ raced' PROVE Lone(m)'
    BY DEF TakenOnce
  <2>1. Lone(m) /\ Kept(m)' = Kept(m)
    BY <1>1 DEF PasskeyInv, TakenOnce, Kept
  <2>2. CASE m = n
    <3>1. Kept(m)
      BY <2>2 DEF Kept
    <3>2. \A q \in Requests : ~Holds(q, m)
      BY <1>1, <2>1, <2>2, <3>1 DEF Lone, Holds
    <3>3. \A q \in Requests : Holds(q, m)' => q = r
      BY <1>4, <3>2 DEF Holds
    <3>4. call'[r].pc = "delete"
      BY <1>4
    <3>5. uses'[m] = uses[m] /\ uses[m] # 1
      BY <1>1, <2>1, <3>1 DEF Lone
    <3>. QED
      BY <2>1, <3>3, <3>4, <3>5 DEF Lone
  <2>3. CASE m # n
    <3>1. \A q \in Requests : Holds(q, m)' => Holds(q, m) /\ call'[q] = call[q]
      BY <1>4, <2>3 DEF Holds
    <3>2. uses'[m] = uses[m]
      BY <1>1
    <3>. QED
      BY <2>1, <3>1, <3>2, LoneStep
  <2>. QED
    BY <2>2, <2>3
<1>8. Registered' /\ SavedOnce'
  BY <1>1 DEF PasskeyInv, Registered, Registers, SavedOnce, Purpose
<1>9. CountOK'
  BY <1>1, <1>4 DEF PasskeyInv, CountOK
<1>10. DeletedStaysDeleted'
  BY <1>1, DeletedKept DEF PasskeyInv
<1>. QED
  BY <1>5, <1>6, <1>7, <1>8, <1>9, <1>10 DEF PasskeyInv

\* A request that goes on keeps what it has taken, and is past the deletion of
\* the challenge only when that is deleted.
GoesOn(r, s) ==
  /\ call[r].pc # "idle" /\ Goto(r, s)
  /\ \/ s = Idle
     \/ /\ s \in Call /\ s.pc # "delete" /\ s.key = call[r].key
        /\ s.expected = call[r].expected /\ s.answer = call[r].answer
        /\ s.pc = "save" => call[r].key.purpose = "reg"
  /\ \/ challenges' = challenges /\ (call[r].pc # "delete" \/ s = Idle)
     \/ challenges' = [challenges EXCEPT ![call[r].key] = 0]

LEMMA GoOnStep ==
  ASSUME MaxChallenges \in Nat, PasskeyInv, NEW r \in Requests, NEW s, GoesOn(r, s),
         UNCHANGED <<asked, answers, uses, raced>>
  PROVE  /\ call'[r] = s /\ \A q \in Requests \ {r} : call'[q] = call[q]
         /\ call' \in [Requests -> {Idle} \cup Call]
         /\ challenges' \in [Keys -> 0..MaxChallenges]
         /\ ChallengesKnown' /\ CallsKnown' /\ TakenOnce'
<1>1. /\ call'[r] = s /\ \A q \in Requests \ {r} : call'[q] = call[q]
      /\ call' \in [Requests -> {Idle} \cup Call]
  BY PasskeyGotoState DEF PasskeyInv, GoesOn
<1>2. /\ challenges' \in [Keys -> 0..MaxChallenges]
      /\ \A k \in Keys : challenges'[k] = challenges[k] \/ challenges'[k] = 0
  <2>1. challenges' = challenges \/ challenges' = [challenges EXCEPT ![call[r].key] = 0]
    BY DEF GoesOn
  <2>2. challenges \in [Keys -> 0..MaxChallenges]
    BY DEF PasskeyInv, PasskeyTypeOK
  <2>. QED
    BY <2>1, <2>2
<1>3. call[r] \in Call
  BY PasskeyStateKinds DEF PasskeyInv, GoesOn
<1>4. ChallengesKnown'
  BY <1>2 DEF PasskeyInv, ChallengesKnown
<1>5. CallsKnown'
  BY <1>1 DEF PasskeyInv, CallsKnown, Purpose, GoesOn
<1>6. TakenOnce'
  <2> SUFFICES ASSUME NEW m \in Numbers \ raced PROVE Lone(m)'
    BY DEF TakenOnce
  <2>1. Lone(m) /\ uses'[m] = uses[m]
    BY DEF PasskeyInv, TakenOnce
  <2>2. Kept(m)' => Kept(m)
    BY <1>2 DEF Kept, Numbers
  <2>3. \A q \in Requests : Holds(q, m)' => Holds(q, m)
    BY <1>1 DEF Holds, GoesOn
  <2>4. ASSUME Holds(r, m)', call[r].pc = "delete" PROVE ~Kept(m)'
    <3>1. s # Idle /\ call[r].expected = m /\ call[r].key \in Keys
      BY <1>1, <1>3, <2>4 DEF Holds, GoesOn, Call
    <3>2. challenges'[call[r].key] = 0
      BY <2>4, <3>1 DEF GoesOn, PasskeyInv, PasskeyTypeOK
    <3>3. \A k \in Keys : challenges[k] = m => k = call[r].key
      BY <2>4, <3>1 DEF PasskeyInv, CallsKnown, ChallengesKnown, Numbers
    <3>. QED
      BY <1>2, <3>2, <3>3 DEF Kept, Numbers
  <2>5. \A q \in Requests :
          Holds(q, m)' /\ call'[q].pc # "delete" => call[q].pc # "delete" \/ ~Kept(m)'
    BY <1>1, <2>4
  <2>. QED
    BY <2>1, <2>2, <2>3, <2>5, LoneStep
<1>. QED
  BY <1>1, <1>2, <1>4, <1>5, <1>6

\* The rows, the authenticators and the counters are not concerned.
LEMMA PasskeyQuietStep ==
  ASSUME MaxChallenges \in Nat, PasskeyInv, NEW r \in Requests, NEW s, GoesOn(r, s),
         UNCHANGED <<accounts, passkeys, asked, devices, answers, history>>, s.pc # "count"
  PROVE  PasskeyInv'
<1>1. UNCHANGED <<accounts, passkeys, asked, devices, answers, uses, raced, overtaken, deleted>>
  BY DEF history
<1>2. /\ call'[r] = s /\ \A q \in Requests \ {r} : call'[q] = call[q]
      /\ call' \in [Requests -> {Idle} \cup Call]
      /\ challenges' \in [Keys -> 0..MaxChallenges]
      /\ ChallengesKnown' /\ CallsKnown' /\ TakenOnce'
  BY <1>1, GoOnStep
<1>3. PasskeyTypeOK'
  BY <1>1, <1>2 DEF PasskeyInv, PasskeyTypeOK, Call
<1>4. Registered' /\ SavedOnce' /\ DeletedStaysDeleted'
  BY <1>1 DEF PasskeyInv, Registered, Registers, SavedOnce, DeletedStaysDeleted, Purpose
<1>5. CountOK'
  BY <1>1, <1>2 DEF PasskeyInv, CountOK
<1>. QED
  BY <1>2, <1>3, <1>4, <1>5 DEF PasskeyInv

LEMMA TakeDeleteStep ==
  ASSUME MaxChallenges \in Nat, PasskeyInv, NEW r \in Requests, TakeDelete(r)
  PROVE  PasskeyInv'
<1> DEFINE s == [call[r] EXCEPT !.pc = IF call[r].key.purpose = "reg" THEN "save" ELSE "find"]
<1>1. /\ call[r].pc = "delete" /\ Goto(r, s)
      /\ challenges' = [challenges EXCEPT ![call[r].key] = 0]
      /\ UNCHANGED <<accounts, passkeys, asked, devices, answers, history>>
  BY DEF TakeDelete, Deleted
<1>2. call[r] \in Call
  BY <1>1, PasskeyStateKinds DEF PasskeyInv
<1>3. /\ s \in Call /\ s.pc \in {"save", "find"}
      /\ s.key = call[r].key /\ s.expected = call[r].expected /\ s.answer = call[r].answer
      /\ s.pc = "save" => call[r].key.purpose = "reg"
  BY <1>2 DEF Call
<1> HIDE DEF s
<1>4. GoesOn(r, s)
  BY <1>1, <1>3 DEF GoesOn
<1>. QED
  BY <1>1, <1>3, <1>4, PasskeyQuietStep

LEMMA FindAdminStep ==
  ASSUME MaxChallenges \in Nat, PasskeyInv, NEW r \in Requests, FindAdmin(r)
  PROVE  PasskeyInv'
<1> DEFINE t == [call[r] EXCEPT !.pc = "passkey"]
<1>1. /\ Goto(r, t) \/ Goto(r, Idle)
      /\ UNCHANGED <<accounts, passkeys, challenges, asked, devices, answers, history>>
  BY DEF FindAdmin
<1>2. call[r].pc = "find" /\ call[r] \in Call
  BY PasskeyStateKinds DEF PasskeyInv, FindAdmin
<1>3. /\ t \in Call /\ t.pc = "passkey"
      /\ t.key = call[r].key /\ t.expected = call[r].expected /\ t.answer = call[r].answer
  BY <1>2 DEF Call
<1> HIDE DEF t
<1>4. GoesOn(r, t) \/ GoesOn(r, Idle)
  BY <1>1, <1>2, <1>3 DEF GoesOn
<1>. QED
  BY <1>1, <1>3, <1>4, PasskeyQuietStep

LEMMA PasskeyAbortStep ==
  ASSUME MaxChallenges \in Nat, PasskeyInv, NEW r \in Requests, Abort(r)
  PROVE  PasskeyInv'
<1>1. /\ GoesOn(r, Idle)
      /\ UNCHANGED <<accounts, passkeys, asked, devices, answers, history>>
  BY PasskeyStateKinds DEF PasskeyInv, Abort, GoesOn
<1>. QED
  BY <1>1, PasskeyQuietStep

\* A login has verified its answer, against the counter that is kept.
LEMMA VerifyAnswerStep ==
  ASSUME MaxChallenges \in Nat, PasskeyInv, NEW r \in Requests, VerifyAnswer(r)
  PROVE  PasskeyInv'
<1> DEFINE row == passkeys[call[r].answer.credential]
           t == [call[r] EXCEPT !.pc = "count"]
<1>1. /\ call[r].pc = "passkey" /\ overtaken' = overtaken \ {r}
      /\ Goto(r, Idle) \/ (Goto(r, t) /\ Verified(call[r], row))
      /\ UNCHANGED <<accounts, passkeys, challenges, asked, devices, answers, uses, raced, deleted>>
  BY DEF VerifyAnswer
<1>2. call[r] \in Call
  BY <1>1, PasskeyStateKinds DEF PasskeyInv
<1>3. /\ t \in Call /\ t.pc = "count"
      /\ t.key = call[r].key /\ t.expected = call[r].expected /\ t.answer = call[r].answer
  BY <1>2 DEF Call
<1>4. call[r].answer \in Answer /\ call[r].answer.count \in Nat
  BY <1>2 DEF Call, Answer
<1>5. Verified(call[r], row) => row \in Passkey /\ row.signCount <= call[r].answer.count
  <2> SUFFICES ASSUME Verified(call[r], row)
               PROVE  row \in Passkey /\ row.signCount <= call[r].answer.count
    OBVIOUS
  <2>1. row # NoPasskey /\ CounterGrew(call[r].answer.count, row.signCount)
    BY DEF Verified
  <2>2. row \in Passkey
    BY <1>4, <2>1 DEF PasskeyInv, PasskeyTypeOK, Answer
  <2>3. row.signCount \in Nat
    BY <2>2 DEF Passkey
  <2>. QED
    BY <1>4, <2>1, <2>2, <2>3 DEF CounterGrew
<1> HIDE DEF t
<1>6. PICK s : /\ GoesOn(r, s)
               /\ s.pc = "count" => s.answer = call[r].answer /\ Verified(call[r], row)
  <2>1. CASE Goto(r, Idle)
    BY <1>1, <2>1 DEF GoesOn
  <2>2. CASE Goto(r, t) /\ Verified(call[r], row)
    BY <1>1, <1>3, <2>2 DEF GoesOn
  <2>. QED
    BY <1>1, <2>1, <2>2
<1>7. /\ call'[r] = s /\ \A q \in Requests \ {r} : call'[q] = call[q]
      /\ call' \in [Requests -> {Idle} \cup Call]
      /\ challenges' \in [Keys -> 0..MaxChallenges]
      /\ ChallengesKnown' /\ CallsKnown' /\ TakenOnce'
  BY <1>1, <1>6, GoOnStep
<1>8. PasskeyTypeOK'
  BY <1>1, <1>7 DEF PasskeyInv, PasskeyTypeOK, Call
<1>9. Registered' /\ SavedOnce' /\ DeletedStaysDeleted'
  BY <1>1 DEF PasskeyInv, Registered, Registers, SavedOnce, DeletedStaysDeleted, Purpose
<1>10. CountOK'
  BY <1>1, <1>5, <1>6, <1>7 DEF PasskeyInv, CountOK
<1>. QED
  BY <1>7, <1>8, <1>9, <1>10 DEF PasskeyInv

\* A login writes the counter; those that have verified theirs for the same
\* passkey are overtaken.
LEMMA UpdateSignCountStep ==
  ASSUME MaxChallenges \in Nat, NoPasskey \notin Passkey,
         PasskeyInv, NEW r \in Requests, UpdateSignCount(r)
  PROVE  PasskeyInv'
<1> DEFINE c == call[r].answer.credential
           t == [call[r] EXCEPT !.pc = "session"]
<1>1. /\ call[r].pc = "count" /\ Goto(r, t) /\ passkeys' = Touched(call[r])
      /\ overtaken' = overtaken \cup
           {q \in Requests \ {r} : call[q].pc = "count" /\ call[q].answer.credential = c}
      /\ UNCHANGED <<accounts, challenges, asked, devices, answers, uses, raced, deleted>>
  BY DEF UpdateSignCount
<1>2. call[r] \in Call
  BY <1>1, PasskeyStateKinds DEF PasskeyInv
<1>3. /\ t \in Call /\ t.pc = "session"
      /\ t.key = call[r].key /\ t.expected = call[r].expected /\ t.answer = call[r].answer
  BY <1>2 DEF Call
<1>4. c \in Credentials /\ call[r].answer.count \in 0..MaxCount
  BY <1>2 DEF Call, Answer
<1>5. /\ passkeys' \in [Credentials -> Passkey \cup {NoPasskey}]
      /\ \A d \in Credentials : d # c => passkeys'[d] = passkeys[d]
      /\ \A d \in Credentials : passkeys'[d] # NoPasskey => passkeys[d] # NoPasskey
  <2>1. CASE passkeys[c] = NoPasskey
    BY <1>1, <2>1 DEF PasskeyInv, PasskeyTypeOK, Touched
  <2>2. CASE passkeys[c] # NoPasskey
    <3>1. passkeys[c] \in Passkey /\ passkeys \in [Credentials -> Passkey \cup {NoPasskey}]
      BY <1>4, <2>2 DEF PasskeyInv, PasskeyTypeOK
    <3>2. passkeys' = [passkeys EXCEPT ![c].signCount = call[r].answer.count]
      BY <1>1, <2>2 DEF Touched
    <3> DEFINE row == [passkeys[c] EXCEPT !.signCount = call[r].answer.count]
    <3>3. row \in Passkey
      BY <1>4, <3>1 DEF Passkey
    <3>4. passkeys' = [passkeys EXCEPT ![c] = row]
      BY <3>2
    <3> HIDE DEF row
    <3>. QED
      BY <1>4, <2>2, <3>1, <3>3, <3>4
  <2>. QED
    BY <2>1, <2>2
<1> HIDE DEF t
<1>6. GoesOn(r, t)
  BY <1>1, <1>3 DEF GoesOn
<1>7. /\ call'[r] = t /\ \A q \in Requests \ {r} : call'[q] = call[q]
      /\ call' \in [Requests -> {Idle} \cup Call]
      /\ challenges' \in [Keys -> 0..MaxChallenges]
      /\ ChallengesKnown' /\ CallsKnown' /\ TakenOnce'
  BY <1>1, <1>6, GoOnStep
<1>8. PasskeyTypeOK'
  BY <1>1, <1>5, <1>7 DEF PasskeyInv, PasskeyTypeOK, Call
<1>9. Registered'
  BY <1>1, AnswersKept
<1>10. SavedOnce'
  BY <1>1, <1>5, SavedKept
<1>11. DeletedStaysDeleted'
  BY <1>1, <1>5, DeletedKept DEF PasskeyInv, PasskeyTypeOK
<1>12. CountOK'
  <2> SUFFICES ASSUME NEW q \in Requests \ overtaken', call'[q].pc = "count",
                      passkeys'[call'[q].answer.credential] # NoPasskey
               PROVE  passkeys'[call'[q].answer.credential].signCount <= call'[q].answer.count
    BY DEF CountOK
  <2>1. q # r /\ call'[q] = call[q] /\ q \notin overtaken
    BY <1>1, <1>3, <1>7
  <2>2. call[q].answer.credential # c
    BY <1>1, <2>1
  <2>3. call[q].answer.credential \in Credentials
    BY <2>1, PasskeyStateKinds DEF PasskeyInv, Call, Answer
  <2>. QED
    BY <1>5, <2>1, <2>2, <2>3 DEF PasskeyInv, CountOK
<1>. QED
  BY <1>7, <1>8, <1>9, <1>10, <1>11, <1>12 DEF PasskeyInv

\* A challenge is used up by the request that holds it, which ends.
LEMMA UseStep ==
  ASSUME MaxChallenges \in Nat, PasskeyInv, NEW r \in Requests,
         call[r].pc \in {"save", "session"}, Goto(r, Idle),
         uses' = [uses EXCEPT ![call[r].expected] = uses[call[r].expected] + 1],
         UNCHANGED <<challenges, asked, answers, raced>>
  PROVE  /\ ChallengesKnown' /\ CallsKnown' /\ TakenOnce'
         /\ uses' \in [Numbers -> Nat]
         /\ \A n \in Numbers : uses[n] > 0 => uses'[n] > 0
         /\ uses'[call[r].expected] > 0
<1> DEFINE m == call[r].expected
<1>1. call[r] \in Call /\ m \in Numbers /\ m <= Len(asked)
  BY PasskeyStateKinds DEF PasskeyInv, CallsKnown, Call
<1>2. call'[r] = Idle /\ \A q \in Requests \ {r} : call'[q] = call[q]
  BY PasskeyGotoState DEF PasskeyInv
<1>3. uses \in [Numbers -> Nat] /\ uses[m] \in Nat
  BY <1>1 DEF PasskeyInv, PasskeyTypeOK
<1>4. /\ uses' \in [Numbers -> Nat] /\ uses'[m] = uses[m] + 1
      /\ \A n \in Numbers : n # m => uses'[n] = uses[n]
  BY <1>1, <1>3
<1>5. uses'[m] > 0 /\ \A n \in Numbers : uses[n] > 0 => uses'[n] > 0
  BY <1>3, <1>4
<1>6. \A n \in Numbers : n > Len(asked) => n # m
  BY <1>1 DEF PasskeyInv, PasskeyTypeOK, Numbers
<1>7. ChallengesKnown'
  BY <1>4, <1>6 DEF PasskeyInv, ChallengesKnown
<1>8. CallsKnown'
  BY <1>2 DEF PasskeyInv, CallsKnown, Purpose
<1>9. TakenOnce'
  <2> SUFFICES ASSUME NEW n \in Numbers \ raced PROVE Lone(n)'
    BY DEF TakenOnce
  <2>1. Lone(n) /\ Kept(n)' = Kept(n)
    BY DEF PasskeyInv, TakenOnce, Kept
  <2>2. \A q \in Requests : Holds(q, n)' => q # r /\ Holds(q, n) /\ call'[q] = call[q]
    BY <1>2 DEF Holds
  <2>3. CASE n = m
    <3>1. Holds(r, n)
      BY <2>3 DEF Holds
    <3>2. ~Kept(n) /\ \A q \in Requests : ~Holds(q, n)'
      BY <2>1, <2>2, <3>1 DEF Lone
    <3>3. uses[n] = 0
      BY <1>3, <2>1, <2>3, <3>1 DEF Lone
    <3>. QED
      BY <1>4, <2>1, <2>3, <3>2, <3>3 DEF Lone
  <2>4. CASE n # m
    BY <1>4, <2>1, <2>2, <2>4, LoneStep
  <2>. QED
    BY <2>3, <2>4
<1>. QED
  BY <1>4, <1>5, <1>7, <1>8, <1>9

LEMMA OpenSessionStep ==
  ASSUME MaxChallenges \in Nat, PasskeyInv, NEW r \in Requests, OpenSession(r)
  PROVE  PasskeyInv'
<1>1. /\ call[r].pc = "session" /\ Goto(r, Idle)
      /\ uses' = [uses EXCEPT ![call[r].expected] = uses[call[r].expected] + 1]
      /\ UNCHANGED <<accounts, passkeys, challenges, asked, devices, answers>>
      /\ UNCHANGED <<raced, overtaken, deleted>>
  BY DEF OpenSession
<1>2. /\ ChallengesKnown' /\ CallsKnown' /\ TakenOnce' /\ uses' \in [Numbers -> Nat]
      /\ \A n \in Numbers : uses[n] > 0 => uses'[n] > 0
  BY <1>1, UseStep
<1>3. /\ call'[r] = Idle /\ \A q \in Requests \ {r} : call'[q] = call[q]
      /\ call' \in [Requests -> {Idle} \cup Call]
  BY <1>1, PasskeyGotoState DEF PasskeyInv
<1>4. PasskeyTypeOK'
  BY <1>1, <1>2, <1>3 DEF PasskeyInv, PasskeyTypeOK, Call
<1>5. Registered'
  BY <1>1, AnswersKept
<1>6. SavedOnce'
  BY <1>1, <1>2, SavedKept
<1>7. DeletedStaysDeleted'
  BY <1>1, DeletedKept
<1>8. CountOK'
  BY <1>1, <1>3 DEF PasskeyInv, CountOK
<1>. QED
  BY <1>2, <1>4, <1>5, <1>6, <1>7, <1>8 DEF PasskeyInv

\* The row of a new passkey: a credential that had one before was registered by
\* the same answer, whose challenge is used up unless it was raced.
LEMMA SavePasskeyStep ==
  ASSUME MaxChallenges \in Nat, PasskeyInv, NEW r \in Requests, SavePasskey(r)
  PROVE  PasskeyInv'
<1> DEFINE a == call[r].answer
           c == a.credential
           n == call[r].expected
           row == [admin |-> call[r].key.email, signCount |-> a.count]
<1>1. /\ call[r].pc = "save" /\ Goto(r, Idle)
      /\ UNCHANGED <<accounts, challenges, asked, devices, answers, raced, overtaken, deleted>>
  BY DEF SavePasskey
<1>2. /\ call[r] \in Call /\ a \in answers /\ c \in Credentials /\ n \in Numbers
      /\ row \in Passkey
  BY <1>1, PasskeyStateKinds DEF PasskeyInv, CallsKnown, Call, Answer, Passkey, Keys
<1>3. Registers(a, c) /\ a.count = 0
  BY <1>1, <1>2 DEF PasskeyInv, CallsKnown, Registered, Registers
<1>4. CASE UNCHANGED <<passkeys, uses>>
  <2>1. GoesOn(r, Idle) /\ Idle.pc # "count"
    BY <1>1 DEF GoesOn
  <2>. QED
    BY <1>1, <1>4, <2>1, PasskeyQuietStep DEF history
<1>5. CASE /\ a.challenge = n /\ passkeys[c] = NoPasskey
           /\ passkeys' = [passkeys EXCEPT ![c] = row]
           /\ uses' = [uses EXCEPT ![n] = uses[n] + 1]
  <2>1. /\ ChallengesKnown' /\ CallsKnown' /\ TakenOnce' /\ uses' \in [Numbers -> Nat]
        /\ \A m \in Numbers : uses[m] > 0 => uses'[m] > 0
        /\ uses'[n] > 0
    BY <1>1, <1>5, UseStep
  <2>2. /\ call'[r] = Idle /\ \A q \in Requests \ {r} : call'[q] = call[q]
        /\ call' \in [Requests -> {Idle} \cup Call]
    BY <1>1, PasskeyGotoState DEF PasskeyInv
  <2> HIDE DEF row
  <2>3. /\ passkeys' \in [Credentials -> Passkey \cup {NoPasskey}]
        /\ passkeys'[c] = row
        /\ \A d \in Credentials : d # c => passkeys'[d] = passkeys[d]
    BY <1>2, <1>5 DEF PasskeyInv, PasskeyTypeOK
  <2>4. PasskeyTypeOK'
    BY <1>1, <2>1, <2>2, <2>3 DEF PasskeyInv, PasskeyTypeOK, Call
  <2>5. Registered'
    BY <1>1, AnswersKept
  <2>6. \A b \in answers, d \in Credentials : Registers(b, d)' = Registers(b, d)
    BY <1>1 DEF Registers, Purpose
  <2>7. \A b \in answers : b.challenge \in Numbers
    BY DEF PasskeyInv, PasskeyTypeOK, Answer
  <2>8. SavedOnce'
    <3> SUFFICES ASSUME NEW d \in Credentials, d \in deleted' \/ passkeys'[d] # NoPasskey
                 PROVE  \E b \in answers : Registers(b, d) /\ uses'[b.challenge] > 0
      BY <1>1, <2>6 DEF SavedOnce
    <3>1. CASE d = c
      BY <1>2, <1>3, <1>5, <2>1, <3>1
    <3>2. CASE d # c
      BY <1>1, <2>1, <2>3, <2>7, <3>2 DEF PasskeyInv, SavedOnce
    <3>. QED
      BY <3>1, <3>2
  <2>9. ASSUME c \in deleted PROVE a.challenge \in raced
    <3> SUFFICES ASSUME n \notin raced PROVE FALSE
      BY <1>5
    <3>1. Holds(r, n) /\ Lone(n)
      BY <1>1, <1>2 DEF Holds, PasskeyInv, TakenOnce
    <3>2. uses[n] = 0
      <4>1. uses[n] \in Nat
        BY <1>2 DEF PasskeyInv, PasskeyTypeOK
      <4>2. uses[n] <= 1 /\ uses[n] # 1
        BY <3>1 DEF Lone
      <4>. QED
        BY <4>1, <4>2
    <3>3. PICK b \in answers : Registers(b, c) /\ uses[b.challenge] > 0
      BY <1>2, <2>9 DEF PasskeyInv, SavedOnce
    <3>4. b = a
      BY <1>2, <1>3, <3>3 DEF PasskeyInv, Registered
    <3>. QED
      BY <1>5, <3>2, <3>3, <3>4
  <2>10. DeletedStaysDeleted'
    <3> SUFFICES ASSUME NEW d \in deleted, passkeys'[d] # NoPasskey
                 PROVE  \E b \in answers : Registers(b, d) /\ b.challenge \in raced
      BY <1>1 DEF DeletedStaysDeleted, Registers, Purpose
    <3>1. CASE d = c
      BY <1>2, <1>3, <2>9, <3>1
    <3>2. CASE d # c
      <4>1. passkeys[d] # NoPasskey
        BY <2>3, <3>2 DEF PasskeyInv, PasskeyTypeOK
      <4>. QED
        BY <4>1 DEF PasskeyInv, DeletedStaysDeleted, Registers
    <3>. QED
      BY <3>1, <3>2
  <2>11. CountOK'
    <3> SUFFICES ASSUME NEW q \in Requests \ overtaken, call'[q].pc = "count",
                        passkeys'[call'[q].answer.credential] # NoPasskey
                 PROVE  passkeys'[call'[q].answer.credential].signCount
                          <= call'[q].answer.count
      BY <1>1 DEF CountOK
    <3>1. q # r /\ call'[q] = call[q] /\ call[q] \in Call
      BY <2>2, PasskeyStateKinds DEF PasskeyInv
    <3>2. call[q].answer.credential \in Credentials /\ call[q].answer.count \in Nat
      BY <3>1 DEF Call, Answer
    <3>3. CASE call[q].answer.credential = c
      <4>1. passkeys'[c].signCount = 0
        BY <1>3, <2>3 DEF row
      <4>. QED
        BY <3>1, <3>2, <3>3, <4>1
    <3>4. CASE call[q].answer.credential # c
      BY <2>3, <3>1, <3>2, <3>4 DEF PasskeyInv, CountOK
    <3>. QED
      BY <3>3, <3>4
  <2>. QED
    BY <2>1, <2>4, <2>5, <2>8, <2>10, <2>11 DEF PasskeyInv
<1>. QED
  BY <1>4, <1>5 DEF SavePasskey

-----------------------------------------------------------------------------
(* The rows and the accounts                                               *)

LEMMA DeletePasskeyStep ==
  ASSUME PasskeyInv, NEW e \in Emails, NEW c \in Credentials, DeletePasskey(e, c)
  PROVE  PasskeyInv'
<1>1. /\ passkeys[c] # NoPasskey /\ passkeys' = [passkeys EXCEPT ![c] = NoPasskey]
      /\ deleted' = deleted \cup {c}
      /\ UNCHANGED <<accounts, challenges, asked, devices, answers, call>>
      /\ UNCHANGED <<uses, raced, overtaken>>
  BY DEF DeletePasskey
<1>2. /\ passkeys' \in [Credentials -> Passkey \cup {NoPasskey}]
      /\ passkeys'[c] = NoPasskey
      /\ \A d \in Credentials : d # c => passkeys'[d] = passkeys[d]
  BY <1>1 DEF PasskeyInv, PasskeyTypeOK
<1>3. PasskeyTypeOK'
  BY <1>1, <1>2 DEF PasskeyInv, PasskeyTypeOK
<1>4. ChallengesKnown' /\ CallsKnown' /\ TakenOnce'
  BY <1>1, StoreKept
<1>5. Registered'
  BY <1>1, AnswersKept
<1>6. SavedOnce'
  BY <1>1, <1>2, SavedKept
<1>7. deleted \subseteq Credentials
  BY DEF PasskeyInv, PasskeyTypeOK
<1>8. DeletedStaysDeleted'
  BY <1>1, <1>2, <1>7, DeletedKept
<1>9. CountOK'
  <2>1. \A q \in Requests : call[q].pc = "count" => call[q].answer.credential \in Credentials
    BY PasskeyStateKinds DEF PasskeyInv, Call, Answer
  <2>. QED
    BY <1>1, <1>2, <2>1 DEF PasskeyInv, CountOK
<1>. QED
  BY <1>3, <1>4, <1>5, <1>6, <1>8, <1>9 DEF PasskeyInv

LEMMA DisableStep ==
  ASSUME PasskeyInv, NEW e \in Emails, Disable(e)
  PROVE  PasskeyInv'
<1>1. /\ accounts' = [accounts EXCEPT ![e] = "disabled"]
      /\ UNCHANGED <<passkeys, challenges, asked, devices, answers, call>>
      /\ UNCHANGED <<uses, raced, overtaken, deleted>>
  BY DEF Disable, history
<1>2. PasskeyTypeOK'
  BY <1>1 DEF PasskeyInv, PasskeyTypeOK
<1>3. ChallengesKnown' /\ CallsKnown' /\ TakenOnce'
  BY <1>1, StoreKept
<1>4. Registered' /\ SavedOnce' /\ CountOK' /\ DeletedStaysDeleted'
  BY <1>1, AnswersKept, SavedKept, CountKept, DeletedKept DEF PasskeyInv, PasskeyTypeOK
<1>. QED
  BY <1>2, <1>3, <1>4 DEF PasskeyInv

-----------------------------------------------------------------------------
(* Every behaviour                                                         *)

LEMMA PasskeyInitInv ==
  ASSUME MaxChallenges \in Nat, MaxCount \in Nat, PasskeyInit
  PROVE  PasskeyInv
<1>1. PasskeyTypeOK
  BY DEF PasskeyInit, PasskeyTypeOK
<1>2. ChallengesKnown /\ CallsKnown /\ TakenOnce
  BY DEF PasskeyInit, ChallengesKnown, CallsKnown, TakenOnce, Lone, Holds, Kept, Numbers
<1>3. Registered /\ SavedOnce /\ CountOK /\ DeletedStaysDeleted
  BY DEF PasskeyInit, Registered, SavedOnce, CountOK, DeletedStaysDeleted
<1>. QED
  BY <1>1, <1>2, <1>3 DEF PasskeyInv

LEMMA PasskeyStepInv ==
  ASSUME PasskeyInv, [PasskeyNext]_passkeyVars
  PROVE  PasskeyInv'
<1>1. /\ MaxChallenges \in Nat /\ MaxCount \in Nat
      /\ NoPasskey \notin Passkey /\ NoPasskey \notin 0..MaxCount
  BY PasskeyAssumption
<1>2. CASE UNCHANGED passkeyVars
  <2>1. /\ UNCHANGED <<accounts, passkeys, challenges, asked, devices, answers, call>>
        /\ UNCHANGED <<uses, raced, overtaken, deleted>>
    BY <1>2 DEF passkeyVars
  <2>2. PasskeyTypeOK'
    BY <2>1 DEF PasskeyInv, PasskeyTypeOK
  <2>3. ChallengesKnown' /\ CallsKnown' /\ TakenOnce'
    BY <2>1, StoreKept
  <2>4. Registered' /\ SavedOnce' /\ CountOK' /\ DeletedStaysDeleted'
    BY <2>1, AnswersKept, SavedKept, CountKept, DeletedKept DEF PasskeyInv, PasskeyTypeOK
  <2>. QED
    BY <2>2, <2>3, <2>4 DEF PasskeyInv
<1>3. ASSUME NEW e \in Emails, StartRegistration(e) \/ StartAuthentication(e) \/ Disable(e)
      PROVE  PasskeyInv'
  <2>1. CASE StartRegistration(e)
    <3>1. [purpose |-> "reg", email |-> e] \in Keys
      BY DEF Keys
    <3>. QED
      BY <1>1, <2>1, <3>1, PutStep DEF StartRegistration
  <2>2. CASE StartAuthentication(e)
    <3>1. [purpose |-> "auth", email |-> e] \in Keys
      BY DEF Keys
    <3>. QED
      BY <1>1, <2>2, <3>1, PutStep DEF StartAuthentication
  <2>. QED
    BY <1>3, <2>1, <2>2, DisableStep
<1>4. ASSUME NEW r \in Requests, NEW e \in Emails, NEW a \in answers,
             FinishRegistration(r, e, a) \/ FinishAuthentication(r, e, a)
      PROVE  PasskeyInv'
  <2>1. CASE FinishRegistration(r, e, a)
    <3>1. [purpose |-> "reg", email |-> e] \in Keys
      BY DEF Keys
    <3>. QED
      BY <2>1, <3>1, TakeStep DEF FinishRegistration
  <2>2. CASE FinishAuthentication(r, e, a)
    <3>1. [purpose |-> "auth", email |-> e] \in Keys
      BY DEF Keys
    <3>. QED
      BY <2>2, <3>1, TakeStep DEF FinishAuthentication
  <2>. QED
    BY <1>4, <2>1, <2>2
<1>5. ASSUME NEW r \in Requests,
             \/ TakeDelete(r) \/ SavePasskey(r) \/ FindAdmin(r) \/ VerifyAnswer(r)
             \/ UpdateSignCount(r) \/ OpenSession(r) \/ Abort(r)
      PROVE  PasskeyInv'
  BY <1>1, <1>5, TakeDeleteStep, SavePasskeyStep, FindAdminStep, VerifyAnswerStep,
     UpdateSignCountStep, OpenSessionStep, PasskeyAbortStep
<1>6. CASE PasskeyNext
  BY <1>1, <1>3, <1>4, <1>5, <1>6, DeletePasskeyStep, ExpireStep, SignStep DEF PasskeyNext
<1>. QED
  BY <1>2, <1>6

\* The inductive invariant holds in every behaviour (AdminWebauthnService).
THEOREM PasskeyInvariant == PasskeySpec => []PasskeyInv
<1>1. PasskeyInit => PasskeyInv
  BY PasskeyInitInv, PasskeyAssumption
<1>2. PasskeyInv /\ [PasskeyNext]_passkeyVars => PasskeyInv'
  BY PasskeyStepInv
<1>. QED
  BY <1>1, <1>2, PTL DEF PasskeySpec

\* Rows, challenges, authenticators and requests keep their types.
THEOREM PasskeysTyped == PasskeySpec => []PasskeyTypeOK
<1>1. PasskeyInv => PasskeyTypeOK
  BY DEF PasskeyInv
<1>. QED
  BY <1>1, PasskeyInvariant, PTL

\* A challenge leads to one passkey or session unless two requests got it before
\* either deleted it, for any number of requests (WebauthnChallengeStore.take).
THEOREM ChallengesAreUsedOnce == PasskeySpec => []ChallengeUsedOnce
<1>1. PasskeyInv => ChallengeUsedOnce
  <2> SUFFICES ASSUME PasskeyInv, NEW n \in Numbers \ raced PROVE ~ (uses[n] > 1)
    BY DEF ChallengeUsedOnce
  <2>1. uses[n] \in Nat /\ uses[n] <= 1
    BY DEF PasskeyInv, PasskeyTypeOK, TakenOnce, Lone
  <2>. QED
    BY <2>1
<1>. QED
  BY <1>1, PasskeyInvariant, PTL

\* A deleted passkey comes back only if its registration was raced
\* (deletePasskey, updateSignCount).
THEOREM DeletionsHold == PasskeySpec => []DeletedStaysDeleted
<1>1. PasskeyInv => DeletedStaysDeleted
  BY DEF PasskeyInv
<1>. QED
  BY <1>1, PasskeyInvariant, PTL

\* No step but that of an overtaken login lowers the counter kept of an
\* authenticator (updateSignCount).
THEOREM CountersFallOnlyToOverlap == PasskeySpec => CounterFallsOnlyToOverlap
<1> DEFINE Overlapped ==
      \A c \in Credentials :
        (passkeys[c] # NoPasskey /\ passkeys'[c] # NoPasskey
           /\ passkeys'[c].signCount < passkeys[c].signCount)
          => \E r \in overtaken : call[r].pc = "count" /\ call[r].answer.credential = c
<1>1. PasskeyInv /\ [PasskeyNext]_passkeyVars => [Overlapped]_passkeyVars
  <2> SUFFICES ASSUME PasskeyInv, PasskeyNext, NEW c \in Credentials,
                      passkeys[c] # NoPasskey, passkeys'[c] # NoPasskey,
                      passkeys'[c].signCount < passkeys[c].signCount
               PROVE  \E r \in overtaken : /\ call[r].pc = "count"
                                           /\ call[r].answer.credential = c
    OBVIOUS
  <2>1. passkeys'[c] # passkeys[c] /\ passkeys'[c].signCount # passkeys[c].signCount
    <3>1. passkeys[c].signCount \in Nat
      BY DEF PasskeyInv, PasskeyTypeOK, Passkey
    <3>. QED
      BY <3>1
  <2>2. PICK r \in Requests : UpdateSignCount(r)
    <3>1. \A e \in Emails : ~StartRegistration(e) /\ ~StartAuthentication(e) /\ ~Disable(e)
      BY <2>1 DEF StartRegistration, StartAuthentication, Disable
    <3>2. \A e \in Emails, d \in Credentials : ~DeletePasskey(e, d)
      BY <2>1 DEF DeletePasskey, PasskeyInv, PasskeyTypeOK
    <3>3. \A k \in Keys : ~ExpireChallenge(k)
      BY <2>1 DEF ExpireChallenge
    <3>4. \A d \in Credentials, n \in Numbers, count \in 0..MaxCount : ~Sign(d, n, count)
      BY <2>1 DEF Sign
    <3>5. \A r \in Requests, e \in Emails : \A a \in answers :
            ~FinishRegistration(r, e, a) /\ ~FinishAuthentication(r, e, a)
      BY <2>1 DEF FinishRegistration, FinishAuthentication, Take
    <3>6. \A r \in Requests :
            ~TakeDelete(r) /\ ~FindAdmin(r) /\ ~VerifyAnswer(r) /\ ~OpenSession(r) /\ ~Abort(r)
      BY <2>1 DEF TakeDelete, FindAdmin, VerifyAnswer, OpenSession, Abort
    <3>7. \A r \in Requests : ~SavePasskey(r)
      BY <2>1 DEF SavePasskey, PasskeyInv, PasskeyTypeOK
    <3>. QED
      BY <3>1, <3>2, <3>3, <3>4, <3>5, <3>6, <3>7 DEF PasskeyNext
  <2>3. /\ call[r].pc = "count" /\ call[r] \in Call
        /\ passkeys' = Touched(call[r])
    BY <2>2, PasskeyStateKinds DEF UpdateSignCount, PasskeyInv
  <2>4. /\ call[r].answer.credential = c
        /\ passkeys'[c].signCount = call[r].answer.count
    <3>1. call[r].answer.credential \in Credentials
      BY <2>3 DEF Call, Answer
    <3>2. call[r].answer.credential = c
      BY <2>1, <2>3, <3>1 DEF Touched, PasskeyInv, PasskeyTypeOK
    <3>3. passkeys[c] \in Passkey
      BY DEF PasskeyInv, PasskeyTypeOK
    <3>4. passkeys' = [passkeys EXCEPT ![c].signCount = call[r].answer.count]
      BY <2>3, <3>2 DEF Touched
    <3>. QED
      BY <3>2, <3>3, <3>4 DEF PasskeyInv, PasskeyTypeOK, Passkey
  <2>5. r \in overtaken
    <3>1. passkeys[c].signCount \in Nat /\ call[r].answer.count \in Nat
      BY <2>3 DEF PasskeyInv, PasskeyTypeOK, Passkey, Call, Answer
    <3>2. ~ (passkeys[c].signCount <= call[r].answer.count)
      BY <2>4, <3>1
    <3>. QED
      BY <2>3, <2>4, <3>2 DEF PasskeyInv, CountOK
  <2>. QED
    BY <2>3, <2>4, <2>5
<1>. QED
  BY <1>1, PasskeyInvariant, PTL DEF PasskeySpec, CounterFallsOnlyToOverlap
=============================================================================
