------------------------- MODULE RateLimiter_proofs -------------------------
(***************************************************************************)
(* Proofs about RateLimiter, for every window, set of keys and thresholds. *)
(***************************************************************************)
EXTENDS RateLimiter, FiniteSetTheorems, TLAPS

USE DEF Hit, IdleRequest

(***************************************************************************)
(* The inductive invariant, one key at a time. What the storage of a key   *)
(* says and what the history says agree as long as the window is open.     *)
(***************************************************************************)

\* Hits are named in order, are not in the future and are finitely many.
HitsOK(k) ==
  /\ IsFiniteSet(stored[k].hits)
  /\ \A h \in stored[k].hits : h.id <= hitNo /\ h.at <= now

\* A request let through inside the window is still among the stored hits.
AcceptedStored(k) ==
  \A a \in accepted[k] :
    /\ a.id <= hitNo
    /\ now - a.at < Window => a \in stored[k].hits

\* The pending alarm comes after the window of every hit and after the block.
AlarmCovers(k) ==
  /\ \A h \in stored[k].hits : h.at + Window <= alarm[k]
  /\ stored[k].blockedUntil <= alarm[k]

\* A block ends one window after the hit that started it, or is in the past,
\* and every stored hit has left the window by then.
BlockOK(k) ==
  /\ stored[k].blockedUntil <= now + Window
  /\ stored[k].blockedUntil # 0 =>
        \A h \in stored[k].hits : h.at + Window <= stored[k].blockedUntil

\* A client was told to come back after the block of the key, not earlier.
PromiseOK(k) ==
  promised[k] # 0 =>
    /\ stored[k].blockedUntil <= promised[k]
    /\ stored[k].blockedUntil # 0 \/ stored[k].hits = {}

KeyInv(k) ==
  HitsOK(k) /\ AcceptedStored(k) /\ AlarmCovers(k) /\ BlockOK(k) /\ PromiseOK(k)

LimiterInv == TypeOK /\ \A k \in Keys : KeyInv(k)

-----------------------------------------------------------------------------

\* A rounded-up number of seconds covers the milliseconds it stands for.
LEMMA CeilSecondsCovers ==
  ASSUME NEW ms \in Nat
  PROVE  CeilSeconds(ms) \in Nat /\ CeilSeconds(ms) * SecondMs >= ms
<1> DEFINE q == (ms + SecondMs - 1) \div SecondMs
           m == (ms + SecondMs - 1) % SecondMs
<1>1. SecondMs \in Nat /\ SecondMs > 0
  BY LimiterAssumption
<1>2. q \in Int /\ m \in 0 .. SecondMs - 1
      /\ ms + SecondMs - 1 = SecondMs * q + m
  BY <1>1
<1>3. SecondMs * q >= ms
  BY <1>1, <1>2
<1>4. q >= 0
  BY <1>1, <1>3, <1>2
<1> HIDE DEF q, m
<1>5. CeilSeconds(ms) = q
  BY DEF CeilSeconds, q
<1>. QED
  BY <1>1, <1>2, <1>3, <1>4, <1>5

\* One hit leads to a well-formed state and decision.
LEMMA ApplyType ==
  ASSUME NEW w \in [hits : SUBSET Hit, blockedUntil : Nat],
         NEW h \in Hit, NEW l \in Limits
  PROVE  LET d == ApplyRateLimitHit(w, h, Window, l, Window) IN
         /\ d.state \in [hits : SUBSET Hit, blockedUntil : Nat]
         /\ d.timeToBlockExpire \in Nat
         /\ d.isBlocked \in BOOLEAN
<1>1. CASE IsBlocked(w, h.at)
  <2>1. w.blockedUntil - h.at \in Nat
    BY <1>1 DEF IsBlocked
  <2>2. CeilSeconds(w.blockedUntil - h.at) \in Nat
    BY <2>1, CeilSecondsCovers
  <2>. QED
    BY <1>1, <2>2 DEF ApplyRateLimitHit, StillBlocked
<1>2. CASE ~IsBlocked(w, h.at)
  <2>1. CeilSeconds(Window) \in Nat
    BY CeilSecondsCovers, LimiterAssumption
  <2>2. RecentHits(w, h.at, Window) \subseteq Hit
    BY DEF RecentHits
  <2>. QED
    BY <1>2, <2>1, <2>2, LimiterAssumption
    DEF ApplyRateLimitHit, Counted, BlockEnd
<1>. QED
  BY <1>1, <1>2

-----------------------------------------------------------------------------
(* Type correctness.                                                       *)

LEMMA InitType == Init => TypeOK
BY LimiterAssumption DEF Init, TypeOK, InitialWindow, RequestState

LEMMA CountType ==
  ASSUME TypeOK, NEW r \in Requests, CountRequest(r)
  PROVE  TypeOK'
<1> DEFINE k == req[r].key
           l == req[r].limit
           h == [id |-> hitNo + 1, at |-> now]
           d == ApplyRateLimitHit(stored[k], h, Window, l, Window)
<1>1. k \in Keys /\ l \in Limits
  BY DEF TypeOK, CountRequest, RequestState
<1>2. h \in Hit /\ stored[k] \in [hits : SUBSET Hit, blockedUntil : Nat]
  BY <1>1 DEF TypeOK
<1>3. /\ d.state \in [hits : SUBSET Hit, blockedUntil : Nat]
      /\ d.timeToBlockExpire \in Nat
  BY <1>1, <1>2, ApplyType
<1>4. AlarmTime(k, now) \in Nat
  BY LimiterAssumption DEF AlarmTime, TypeOK
<1>5. \/ ~d.isBlocked /\ LetThrough(k, h)
      \/ d.isBlocked /\ Refuse(k, d.timeToBlockExpire)
  BY DEF CountRequest
<1>6. now + d.timeToBlockExpire * SecondMs \in Nat
  <2>1. \A a, b, c \in Nat : a + b * c \in Nat
    OBVIOUS
  <2> HIDE DEF d
  <2>. QED
    BY <1>3, <2>1, LimiterAssumption DEF TypeOK
<1>7. accepted' \in [Keys -> SUBSET Hit] /\ promised' \in [Keys -> Nat]
  <2> HIDE DEF d, h, k
  <2>1. CASE LetThrough(k, h)
    BY <1>1, <1>2, <2>1 DEF LetThrough, TypeOK
  <2>2. CASE Refuse(k, d.timeToBlockExpire)
    BY <1>1, <1>6, <2>2 DEF Refuse, TypeOK
  <2>. QED
    BY <1>5, <2>1, <2>2
<1>8. /\ now' \in Nat
      /\ configured' \in Limits \cup {0}
      /\ hitNo' \in Nat
      /\ req' \in [Requests -> RequestState]
  BY DEF CountRequest, TypeOK, RequestState
<1>9. stored' \in [Keys -> [hits : SUBSET Hit, blockedUntil : Nat]]
  BY <1>1, <1>3 DEF CountRequest, TypeOK
<1>10. alarm' \in [Keys -> Nat]
  BY <1>1, <1>4 DEF CountRequest, TypeOK
<1>. QED
  BY <1>7, <1>8, <1>9, <1>10 DEF TypeOK

LEMMA NextType == TypeOK /\ [Next]_vars => TypeOK'
<1> SUFFICES ASSUME TypeOK, [Next]_vars PROVE TypeOK'
  OBVIOUS
<1>1. CASE Tick
  BY <1>1 DEF Tick, TypeOK
<1>2. ASSUME NEW l \in Limits, SetRateLimit(l) PROVE TypeOK'
  BY <1>2 DEF SetRateLimit, TypeOK
<1>3. ASSUME NEW r \in Requests, NEW k \in Keys, ReadLimit(r, k) PROVE TypeOK'
  BY <1>3, LimiterAssumption
  DEF ReadLimit, EffectiveLimit, TypeOK, RequestState
<1>4. ASSUME NEW r \in Requests, CountRequest(r) PROVE TypeOK'
  BY <1>4, CountType
<1>5. ASSUME NEW k \in Keys, Alarm(k) PROVE TypeOK'
  BY <1>5 DEF Alarm, TypeOK, InitialWindow
<1>6. CASE UNCHANGED vars
  BY <1>6 DEF vars, TypeOK
<1>. QED
  BY <1>1, <1>2, <1>3, <1>4, <1>5, <1>6 DEF Next

\* Every variable of the limiter keeps its type, whatever the constants.
THEOREM TypeCorrect == Spec => []TypeOK
BY InitType, NextType, PTL DEF Spec

-----------------------------------------------------------------------------
(* The invariant.                                                          *)

LEMMA InitInv == Init => LimiterInv
<1> SUFFICES ASSUME Init PROVE LimiterInv
  OBVIOUS
<1>1. TypeOK
  BY InitType
<1>2. ASSUME NEW k \in Keys PROVE KeyInv(k)
  <2>1. /\ stored[k].hits = {} /\ stored[k].blockedUntil = 0
        /\ accepted[k] = {} /\ alarm[k] = 0 /\ promised[k] = 0 /\ now = 0
    BY DEF Init, InitialWindow
  <2>2. IsFiniteSet(stored[k].hits)
    BY <2>1, FS_EmptySet
  <2>3. 0 <= now + Window
    BY <2>1, LimiterAssumption
  <2>. QED
    BY <2>1, <2>2, <2>3
    DEF KeyInv, HitsOK, AcceptedStored, AlarmCovers, BlockOK, PromiseOK
<1>. QED
  BY <1>1, <1>2 DEF LimiterInv

\* The three outcomes of a hit. In the second and the third the stored hits
\* become the recent ones and the new one; a key whose block has run out, or
\* whose storage was deleted, has no recent hit and is not refused.
LEMMA CountCases ==
  ASSUME LimiterInv, NEW r \in Requests, CountRequest(r)
  PROVE  LET k == req[r].key
             h == [id |-> hitNo + 1, at |-> now]
             w == stored[k]
             hits == RecentHits(w, now, Window) \cup {h}
         IN
         /\ k \in Keys /\ h \in Hit /\ req[r].limit \in Limits
         /\ IsFiniteSet(RecentHits(w, now, Window)) /\ IsFiniteSet(hits)
         /\ Cardinality(hits) = Cardinality(RecentHits(w, now, Window)) + 1
         /\ \/ /\ w.blockedUntil > now
               /\ stored' = stored
               /\ Refuse(k, CeilSeconds(w.blockedUntil - now))
            \/ /\ w.blockedUntil <= now
               /\ Cardinality(hits) > req[r].limit
               /\ stored' = [stored EXCEPT ![k] =
                     [hits |-> hits, blockedUntil |-> now + Window]]
               /\ Refuse(k, CeilSeconds(Window))
               /\ promised[k] = 0
            \/ /\ w.blockedUntil <= now
               /\ Cardinality(hits) <= req[r].limit
               /\ stored' = [stored EXCEPT ![k] =
                     [hits |-> hits, blockedUntil |-> 0]]
               /\ LetThrough(k, h)
<1> DEFINE k == req[r].key
           l == req[r].limit
           h == [id |-> hitNo + 1, at |-> now]
           w == stored[k]
           old == RecentHits(w, now, Window)
           hits == old \cup {h}
           d == ApplyRateLimitHit(w, h, Window, l, Window)
<1>1. k \in Keys /\ l \in Limits /\ h \in Hit
  BY DEF LimiterInv, TypeOK, CountRequest, RequestState
<1>2. w \in [hits : SUBSET Hit, blockedUntil : Nat] /\ now \in Nat
      /\ hitNo \in Nat /\ l \in Nat \ {0} /\ Window \in Nat
  BY <1>1, LimiterAssumption DEF LimiterInv, TypeOK
<1>3. IsFiniteSet(w.hits) /\ \A x \in w.hits : x.id <= hitNo
  BY <1>1 DEF LimiterInv, KeyInv, HitsOK
<1>4. old \subseteq w.hits
  BY DEF RecentHits
<1>5. IsFiniteSet(old)
  BY <1>3, <1>4, FS_Subset
<1>6. h \notin old
  <2>1. h.id = hitNo + 1
    OBVIOUS
  <2>. QED
    BY <2>1, <1>2, <1>3, <1>4
<1>7. IsFiniteSet(hits) /\ Cardinality(hits) = Cardinality(old) + 1
  BY <1>5, <1>6, FS_AddElement
<1>8. Cardinality(old) \in Nat
  BY <1>5, FS_CardinalityType
<1>9. /\ stored' = [stored EXCEPT ![k] = d.state]
      /\ \/ ~d.isBlocked /\ LetThrough(k, h)
         \/ d.isBlocked /\ Refuse(k, d.timeToBlockExpire)
  BY DEF CountRequest
<1>10. CASE w.blockedUntil > now
  <2>1. d = StillBlocked(w, now)
    BY <1>10 DEF ApplyRateLimitHit, IsBlocked
  <2>2. d.isBlocked /\ d.state = w
        /\ d.timeToBlockExpire = CeilSeconds(w.blockedUntil - now)
    BY <2>1 DEF StillBlocked
  <2>3. stored' = stored
    BY <1>9, <2>2, <1>1 DEF LimiterInv, TypeOK
  <2> HIDE DEF d
  <2>. QED
    BY <1>1, <1>5, <1>7, <1>9, <1>10, <2>2, <2>3
<1>11. CASE ~(w.blockedUntil > now)
  <2>1. d = Counted(w, h, Window, l, Window)
    BY <1>11 DEF ApplyRateLimitHit, IsBlocked
  <2>2. w.blockedUntil <= now
    BY <1>11, <1>2
  <2> DEFINE over == Cardinality(hits) > l
  <2>5. d = [state |-> [hits |-> hits,
                        blockedUntil |-> IF over THEN now + Window ELSE 0],
             isBlocked |-> over,
             timeToBlockExpire |-> IF over THEN CeilSeconds(Window) ELSE 0]
    <3>1. h.at = now
      OBVIOUS
    <3>2. BlockEnd(hits, h, Window) = now + Window
      BY <3>1 DEF BlockEnd
    <3> HIDE DEF h, d
    <3>. QED
      BY <2>1, <3>1, <3>2, Zenon DEF Counted
  <2>3. CASE Cardinality(hits) > l
    <3>1. /\ d.isBlocked
          /\ d.state = [hits |-> hits, blockedUntil |-> now + Window]
          /\ d.timeToBlockExpire = CeilSeconds(Window)
      <4> HIDE DEF d, hits
      <4>. QED  BY <2>3, <2>5
    <3>2. promised[k] = 0
      <4>1. SUFFICES ASSUME promised[k] # 0 PROVE FALSE
        OBVIOUS
      <4>2. w.blockedUntil # 0 \/ w.hits = {}
        BY <4>1, <1>1 DEF LimiterInv, KeyInv, PromiseOK
      <4>3. old = {}
        <5>1. CASE w.hits = {}
          BY <5>1 DEF RecentHits
        <5>2. CASE w.blockedUntil # 0
          <6>1. \A x \in w.hits : x.at + Window <= w.blockedUntil
            BY <5>2, <1>1 DEF LimiterInv, KeyInv, BlockOK
          <6>2. \A x \in w.hits : x.at \in Nat
            BY <1>2
          <6>. QED
            BY <6>1, <6>2, <2>2, <1>2 DEF RecentHits
        <5>. QED
          BY <4>2, <5>1, <5>2
      <4>4. Cardinality(hits) = 1
        BY <4>3, <1>7, FS_EmptySet
      <4>. QED
        BY <4>4, <2>3, <1>2
    <3> HIDE DEF d
    <3>. QED
      BY <1>1, <1>5, <1>7, <1>9, <2>2, <2>3, <3>1, <3>2
  <2>4. CASE ~(Cardinality(hits) > l)
    <3>1. ~d.isBlocked /\ d.state = [hits |-> hits, blockedUntil |-> 0]
      <4> HIDE DEF d, hits
      <4>. QED  BY <2>4, <2>5
    <3>2. Cardinality(hits) <= l
      BY <2>4, <1>7, <1>8, <1>2
    <3> HIDE DEF d
    <3>. QED
      BY <1>1, <1>5, <1>7, <1>9, <2>2, <3>1, <3>2
  <2>. QED
    BY <2>3, <2>4
<1>. QED
  BY <1>10, <1>11

\* A hit preserves the invariant of every key.
LEMMA CountInv ==
  ASSUME LimiterInv, NEW r \in Requests, CountRequest(r),
         NEW k \in Keys, k = req[r].key
  PROVE  LimiterInv'
<1> DEFINE h == [id |-> hitNo + 1, at |-> now]
           w == stored[k]
           old == RecentHits(w, now, Window)
           hits == old \cup {h}
<1>1. TypeOK' /\ TypeOK
  BY CountType DEF LimiterInv
<1>2. /\ k \in Keys /\ h \in Hit
      /\ IsFiniteSet(old) /\ IsFiniteSet(hits)
  BY CountCases
<1>3. /\ now' = now /\ hitNo' = hitNo + 1
      /\ alarm' = [alarm EXCEPT ![k] = now + Window + Window]
      /\ now \in Nat /\ hitNo \in Nat /\ Window \in Nat \ {0}
  BY <1>1, LimiterAssumption DEF CountRequest, AlarmTime, TypeOK
<1>4. ASSUME NEW j \in Keys, j # k PROVE KeyInv(j)'
  <2>1. KeyInv(j)
    BY DEF LimiterInv
  <2>2. /\ stored'[j] = stored[j] /\ accepted'[j] = accepted[j]
        /\ alarm'[j] = alarm[j] /\ promised'[j] = promised[j]
    <3>1. stored'[j] = stored[j] /\ alarm'[j] = alarm[j]
      BY <1>3, <1>4, <1>1 DEF CountRequest, TypeOK
    <3>2. \/ LetThrough(k, h)
          \/ \E t : Refuse(k, t)
      BY DEF CountRequest
    <3>3. accepted'[j] = accepted[j] /\ promised'[j] = promised[j]
      BY <3>2, <1>4, <1>1 DEF LetThrough, Refuse, TypeOK
    <3>. QED
      BY <3>1, <3>3
  <2>3. /\ \A x \in stored[j].hits : x.id \in Nat /\ x.id <= hitNo
        /\ \A a \in accepted[j] : a.id \in Nat /\ a.id <= hitNo
    BY <2>1, <1>1 DEF KeyInv, HitsOK, AcceptedStored, TypeOK
  <2>4. HitsOK(j)' /\ AcceptedStored(j)'
    BY <2>1, <2>2, <2>3, <1>3 DEF KeyInv, HitsOK, AcceptedStored
  <2>. QED
    BY <2>1, <2>2, <2>4, <1>3
    DEF KeyInv, AlarmCovers, BlockOK, PromiseOK
<1>5. KeyInv(k)'
  <2>1. KeyInv(k) /\ w \in [hits : SUBSET Hit, blockedUntil : Nat]
        /\ alarm'[k] = now + Window + Window
        /\ accepted[k] \subseteq Hit /\ promised[k] \in Nat
    BY <1>1, <1>2, <1>3 DEF LimiterInv, TypeOK
  <2>2. old \subseteq w.hits /\ \A x \in w.hits : now - x.at < Window => x \in old
    BY DEF RecentHits
  <2>3. h.id = hitNo + 1 /\ h.at = now
    OBVIOUS
  <2>4. \A x \in w.hits : x.id \in Nat /\ x.at \in Nat
                          /\ x.id <= hitNo /\ x.at <= now
    BY <2>1 DEF KeyInv, HitsOK
  <2>5. CASE /\ w.blockedUntil > now
             /\ stored' = stored
             /\ Refuse(k, CeilSeconds(w.blockedUntil - now))
    <3>1. accepted' = accepted /\ stored'[k] = w
      BY <2>5 DEF Refuse
    <3>2. HitsOK(k)' /\ AcceptedStored(k)'
      BY <2>1, <2>4, <3>1, <1>3 DEF KeyInv, HitsOK, AcceptedStored
    <3>3. AlarmCovers(k)' /\ BlockOK(k)'
      BY <2>1, <2>4, <3>1, <1>3 DEF KeyInv, AlarmCovers, BlockOK
    <3>4. PromiseOK(k)'
      <4>1. w.blockedUntil - now \in Nat
        BY <2>1, <2>5, <1>3
      <4>2. /\ CeilSeconds(w.blockedUntil - now) \in Nat
            /\ CeilSeconds(w.blockedUntil - now) * SecondMs
                 >= w.blockedUntil - now
        BY <4>1, CeilSecondsCovers
      <4> DEFINE back == now + CeilSeconds(w.blockedUntil - now) * SecondMs
      <4>3. back >= w.blockedUntil
        BY <4>2, <1>3, <2>1, LimiterAssumption
      <4> HIDE DEF back
      <4>4. promised'[k] = back \/ promised'[k] = promised[k]
        BY <2>5, <1>1, <1>2 DEF Refuse, TypeOK, back
      <4>. QED
        BY <4>3, <4>4, <2>1, <2>5, <3>1, <1>3 DEF KeyInv, PromiseOK
    <3>. QED
      BY <3>2, <3>3, <3>4 DEF KeyInv
  <2>6. ASSUME stored'[k].hits = hits,
               \/ accepted'[k] = accepted[k]
               \/ accepted'[k] = accepted[k] \cup {h},
               \/ stored'[k].blockedUntil = now + Window
               \/ stored'[k].blockedUntil = 0
        PROVE  /\ HitsOK(k)' /\ AcceptedStored(k)'
               /\ AlarmCovers(k)' /\ BlockOK(k)'
    <3>1. \A x \in hits : /\ x.id \in Nat /\ x.at \in Nat
                          /\ x.id <= hitNo + 1 /\ x.at <= now
      BY <2>2, <2>3, <2>4, <1>3
    <3>2. HitsOK(k)'
      BY <2>6, <3>1, <1>2, <1>3 DEF HitsOK
    <3>3. AcceptedStored(k)'
      <4>1. SUFFICES ASSUME NEW a \in accepted'[k]
                     PROVE  /\ a.id <= hitNo + 1
                            /\ now - a.at < Window => a \in hits
        BY <2>6, <1>3 DEF AcceptedStored
      <4>2. CASE a \in accepted[k]
        BY <4>2, <2>1, <2>2, <1>3 DEF KeyInv, AcceptedStored
      <4>3. CASE a = h
        BY <4>3, <2>3, <1>3
      <4>. QED
        BY <2>6, <4>2, <4>3
    <3>4. AlarmCovers(k)' /\ BlockOK(k)'
      BY <2>1, <2>6, <3>1, <1>3 DEF AlarmCovers, BlockOK
    <3>. QED
      BY <3>2, <3>3, <3>4
  <2>7. CASE /\ w.blockedUntil <= now
             /\ stored' = [stored EXCEPT ![k] =
                   [hits |-> hits, blockedUntil |-> now + Window]]
             /\ Refuse(k, CeilSeconds(Window))
             /\ promised[k] = 0
    <3>1. /\ stored'[k] = [hits |-> hits, blockedUntil |-> now + Window]
          /\ accepted'[k] = accepted[k]
      BY <2>7, <1>1, <1>2 DEF Refuse, TypeOK
    <3>2. /\ CeilSeconds(Window) \in Nat
          /\ CeilSeconds(Window) * SecondMs >= Window
      BY CeilSecondsCovers, LimiterAssumption
    <3> DEFINE back == now + CeilSeconds(Window) * SecondMs
    <3>3. back >= now + Window
      BY <3>2, <1>3, LimiterAssumption
    <3> HIDE DEF back
    <3>4. promised'[k] = back \/ promised'[k] = 0
      BY <2>7, <1>1, <1>2 DEF Refuse, TypeOK, back
    <3>5. PromiseOK(k)'
      BY <3>1, <3>3, <3>4, <1>3 DEF PromiseOK
    <3>. QED
      BY <2>6, <3>1, <3>5 DEF KeyInv
  <2>8. CASE /\ w.blockedUntil <= now
             /\ stored' = [stored EXCEPT ![k] =
                   [hits |-> hits, blockedUntil |-> 0]]
             /\ LetThrough(k, h)
    <3>1. /\ stored'[k] = [hits |-> hits, blockedUntil |-> 0]
          /\ accepted'[k] = accepted[k] \/ accepted'[k] = accepted[k] \cup {h}
          /\ promised'[k] = 0
      BY <2>8, <1>1, <1>2 DEF LetThrough, TypeOK
    <3>2. PromiseOK(k)'
      BY <3>1 DEF PromiseOK
    <3>. QED
      BY <2>6, <3>1, <3>2 DEF KeyInv
  <2>. QED
    BY CountCases, <2>5, <2>7, <2>8
<1>. QED
  BY <1>1, <1>4, <1>5 DEF LimiterInv

\* Every other action changes nothing of a key but time and its storage.
LEMMA NextInv == LimiterInv /\ [Next]_vars => LimiterInv'
<1> SUFFICES ASSUME LimiterInv, [Next]_vars PROVE LimiterInv'
  OBVIOUS
<1> USE LimiterAssumption
<1>0. TypeOK /\ TypeOK'
  BY NextType DEF LimiterInv
<1>1. CASE Tick
  <2>1. /\ now' = now + 1 /\ now \in Nat /\ Window \in Nat
        /\ UNCHANGED <<stored, alarm, hitNo, accepted, promised>>
    BY <1>0, <1>1 DEF Tick, TypeOK
  <2>2. ASSUME NEW k \in Keys PROVE KeyInv(k)'
    <3>1. KeyInv(k) /\ stored[k] \in [hits : SUBSET Hit, blockedUntil : Nat]
          /\ accepted[k] \subseteq Hit
      BY <1>0 DEF LimiterInv, TypeOK
    <3>2. HitsOK(k)' /\ AcceptedStored(k)'
      BY <2>1, <3>1 DEF KeyInv, HitsOK, AcceptedStored
    <3>3. AlarmCovers(k)' /\ BlockOK(k)' /\ PromiseOK(k)'
      BY <2>1, <3>1 DEF KeyInv, AlarmCovers, BlockOK, PromiseOK
    <3>. QED
      BY <3>2, <3>3 DEF KeyInv
  <2>. QED
    BY <1>0, <2>2 DEF LimiterInv
<1>2. ASSUME NEW l \in Limits, SetRateLimit(l) PROVE LimiterInv'
  BY <1>0, <1>2 DEF SetRateLimit, LimiterInv, KeyInv, HitsOK, AcceptedStored,
     AlarmCovers, BlockOK, PromiseOK
<1>3. ASSUME NEW r \in Requests, NEW k \in Keys, ReadLimit(r, k)
      PROVE  LimiterInv'
  BY <1>0, <1>3 DEF ReadLimit, LimiterInv, KeyInv, HitsOK, AcceptedStored,
     AlarmCovers, BlockOK, PromiseOK
<1>4. ASSUME NEW r \in Requests, CountRequest(r) PROVE LimiterInv'
  <2>1. req[r].key \in Keys
    BY <1>4, CountCases
  <2>. QED
    BY <1>4, <2>1, CountInv
<1>5. ASSUME NEW k \in Keys, Alarm(k) PROVE LimiterInv'
  <2>1. ASSUME NEW j \in Keys, j # k PROVE KeyInv(j)'
    <3>1. /\ stored'[j] = stored[j] /\ alarm'[j] = alarm[j]
          /\ UNCHANGED <<now, hitNo, accepted, promised>>
      BY <1>0, <1>5, <2>1 DEF Alarm, TypeOK
    <3>. QED
      BY <3>1 DEF LimiterInv, KeyInv, HitsOK, AcceptedStored, AlarmCovers,
         BlockOK, PromiseOK
  <2>2. KeyInv(k)'
    <3>1. /\ stored'[k] = InitialWindow /\ alarm'[k] = 0
          /\ UNCHANGED <<now, hitNo, accepted, promised>>
      BY <1>0, <1>5 DEF Alarm, TypeOK
    <3>2. /\ KeyInv(k) /\ now \in Nat /\ alarm[k] \in Nat
          /\ Window \in Nat \ {0} /\ promised[k] \in Nat
          /\ \A a \in accepted[k] : a.at \in Nat
      BY <1>0 DEF LimiterInv, TypeOK
    <3>3. /\ now >= alarm[k]
      BY <1>5 DEF Alarm
    <3>4. HitsOK(k)'
      BY <3>1, FS_EmptySet DEF HitsOK, InitialWindow
    <3>5. AcceptedStored(k)'
      <4>1. ASSUME NEW a \in accepted[k], now - a.at < Window PROVE FALSE
        <5>1. a \in stored[k].hits
          BY <3>2, <4>1 DEF KeyInv, AcceptedStored
        <5>2. a.at + Window <= alarm[k]
          BY <3>2, <5>1 DEF KeyInv, AlarmCovers
        <5>. QED
          BY <3>2, <3>3, <4>1, <5>2
      <4>. QED
        BY <3>1, <3>2, <4>1 DEF KeyInv, AcceptedStored
    <3>6. AlarmCovers(k)' /\ BlockOK(k)' /\ PromiseOK(k)'
      <4>1. stored'[k].hits = {} /\ stored'[k].blockedUntil = 0
        BY <3>1 DEF InitialWindow
      <4>2. AlarmCovers(k)'
        BY <4>1, <3>1 DEF AlarmCovers
      <4>3. BlockOK(k)'
        BY <4>1, <3>1, <3>2 DEF BlockOK
      <4>4. PromiseOK(k)'
        BY <4>1, <3>1, <3>2 DEF PromiseOK
      <4>. QED
        BY <4>2, <4>3, <4>4
    <3>. QED
      BY <3>4, <3>5, <3>6 DEF KeyInv
  <2>. QED
    BY <1>0, <2>1, <2>2 DEF LimiterInv
<1>6. CASE UNCHANGED vars
  BY <1>0, <1>6 DEF vars, LimiterInv, KeyInv, HitsOK, AcceptedStored,
     AlarmCovers, BlockOK, PromiseOK
<1>. QED
  BY <1>1, <1>2, <1>3, <1>4, <1>5, <1>6 DEF Next

\* The inductive invariant holds in every reachable state.
THEOREM LimiterInvariant == Spec => []LimiterInv
BY InitInv, NextInv, PTL DEF Spec

-----------------------------------------------------------------------------
(* The properties of RateLimiter.                                          *)

\* A block of the limiter lasts until every hit counted has left the window.
THEOREM BlocksOutlastWindow == Spec => []BlockOutlastsWindow
<1>1. LimiterInv => BlockOutlastsWindow
  BY DEF LimiterInv, KeyInv, BlockOK, BlockOutlastsWindow
<1>. QED
  BY <1>1, LimiterInvariant, PTL

\* The clean-up alarm deletes no hit inside the window and no block in force.
THEOREM AlarmsForgetNothing == Spec => AlarmForgetsNothing
<1> DEFINE Step == \A k \in Keys :
       (alarm[k] # 0 /\ alarm'[k] = 0)
       => /\ RecentHits(stored[k], now, Window) = {}
          /\ ~IsBlocked(stored[k], now)
<1>1. ASSUME LimiterInv, [Next]_vars PROVE [Step]_vars
  <2> SUFFICES ASSUME NEW k \in Keys, Next, alarm[k] # 0, alarm'[k] = 0
               PROVE  /\ RecentHits(stored[k], now, Window) = {}
                      /\ ~IsBlocked(stored[k], now)
    BY <1>1
  <2>1. TypeOK /\ KeyInv(k)
    BY <1>1 DEF LimiterInv
  <2>2. \E j \in Keys : Alarm(j)
    <3>1. ASSUME NEW r \in Requests, CountRequest(r) PROVE FALSE
      <4>1. req[r].key \in Keys
        BY <1>1, <3>1, CountCases
      <4>2. alarm' = [alarm EXCEPT ![req[r].key] = now + Window + Window]
            BY <2>1, <3>1, LimiterAssumption DEF CountRequest, AlarmTime, TypeOK
      <4>3. alarm'[k] = now + Window + Window \/ alarm'[k] = alarm[k]
        BY <2>1, <4>1, <4>2 DEF TypeOK
      <4>4. now + Window + Window # 0
        BY <2>1, LimiterAssumption DEF TypeOK
      <4>. QED
        BY <4>3, <4>4
    <3>. QED
      BY <3>1 DEF Next, Tick, SetRateLimit, ReadLimit
  <2>3. Alarm(k)
    BY <2>1, <2>2 DEF Alarm, TypeOK
  <2>4. /\ now >= alarm[k] /\ now \in Nat /\ alarm[k] \in Nat
        /\ stored[k] \in [hits : SUBSET Hit, blockedUntil : Nat]
        /\ Window \in Nat
    BY <2>1, <2>3, LimiterAssumption DEF Alarm, TypeOK
  <2>. QED
    BY <2>1, <2>4 DEF KeyInv, AlarmCovers, RecentHits, IsBlocked
<1>. QED
  BY <1>1, LimiterInvariant, PTL DEF Spec, AlarmForgetsNothing

\* A client that waited as long as any Retry-After told it is not refused.
THEOREM RetryAfterIsHonoured == Spec => RetryAfterHonoured
<1> DEFINE Step == \A k \in Keys, r \in Requests :
       (/\ req[r].pc = "counting" /\ req[r].key = k
        /\ req'[r].pc = "idle"
        /\ promised[k] # 0 /\ now >= promised[k])
       => ~IsBlocked(stored'[k], now)
<1>1. ASSUME LimiterInv, [Next]_vars PROVE [Step]_vars
  <2> SUFFICES ASSUME NEW k \in Keys, NEW r \in Requests, Next,
                      req[r].pc = "counting", req[r].key = k,
                      req'[r].pc = "idle",
                      promised[k] # 0, now >= promised[k]
               PROVE  ~IsBlocked(stored'[k], now)
    BY <1>1
  <2>1. TypeOK /\ KeyInv(k)
    BY <1>1 DEF LimiterInv
  <2>2. CountRequest(r)
    <3>1. ASSUME NEW q \in Requests, CountRequest(q), q # r PROVE FALSE
      BY <2>1, <3>1 DEF CountRequest, TypeOK
    <3>2. ASSUME NEW q \in Requests, NEW j \in Keys, ReadLimit(q, j)
          PROVE  FALSE
      <4>1. req'[r] = req[r] \/ req'[r].pc = "counting"
        BY <2>1, <3>2 DEF ReadLimit, TypeOK
      <4>. QED
        BY <4>1
    <3>3. req' # req
      OBVIOUS
    <3>. QED
      BY <3>1, <3>2, <3>3 DEF Next, Tick, SetRateLimit, Alarm
  <2>3. /\ now \in Nat /\ promised[k] \in Nat
        /\ stored[k] \in [hits : SUBSET Hit, blockedUntil : Nat]
        /\ stored \in [Keys -> [hits : SUBSET Hit, blockedUntil : Nat]]
    BY <2>1 DEF TypeOK
  <2>4. stored[k].blockedUntil <= promised[k]
    BY <2>1 DEF KeyInv, PromiseOK
  <2>5. ~(stored[k].blockedUntil > now)
    BY <2>3, <2>4
  <2> DEFINE hits == RecentHits(stored[k], now, Window)
                       \cup {[id |-> hitNo + 1, at |-> now]}
  <2>6. stored' = [stored EXCEPT ![k] = [hits |-> hits, blockedUntil |-> 0]]
    BY <1>1, <2>2, <2>5, CountCases
  <2> HIDE DEF hits
  <2>7. stored'[k].blockedUntil = 0
    BY <2>3, <2>6
  <2>. QED
    BY <2>3, <2>7 DEF IsBlocked
<1>. QED
  BY <1>1, LimiterInvariant, PTL DEF Spec, RetryAfterHonoured

-----------------------------------------------------------------------------
(* The limiter implements SlidingWindowQuota.                              *)

LEMMA QuotaInit == Init => Quota!QInit
BY DEF Init, IdleRequest, Quota!QInit, Quota!NotAsked

\* A hit lets its request through within the quota, or it is refused.
LEMMA QuotaCount ==
  ASSUME LimiterInv, NEW r \in Requests, CountRequest(r)
  PROVE  Quota!QAccept(r) \/ Quota!QRefuse(r)
<1> PICK k \in Keys : k = req[r].key
  BY CountCases
<1> DEFINE h == [id |-> hitNo + 1, at |-> now]
           w == stored[k]
           old == RecentHits(w, now, Window)
           hits == old \cup {h}
           l == req[r].limit
<1>1. /\ TypeOK /\ KeyInv(k) /\ l \in Limits
      /\ now' = now /\ configured' = configured
      /\ req[r].pc = "counting"
      /\ req' = [req EXCEPT ![r] = Quota!NotAsked]
  BY CountCases DEF LimiterInv, CountRequest, IdleRequest, Quota!NotAsked
<1>2. CASE accepted' = accepted
  BY <1>1, <1>2 DEF Quota!QRefuse
<1>3. CASE accepted' # accepted
  <2>1. LetThrough(k, h) /\ Cardinality(hits) <= l
    BY <1>3, CountCases DEF Refuse
  <2>2. accepted' = [accepted EXCEPT ![k] = @ \cup {h}]
    BY <1>3, <2>1 DEF LetThrough
  <2>3. /\ IsFiniteSet(old) /\ Cardinality(hits) = Cardinality(old) + 1
        /\ Cardinality(old) \in Nat /\ l \in Nat
    BY CountCases, FS_CardinalityType, LimiterAssumption
  <2>4. accepted[k] \subseteq Hit /\ hitNo \in Nat /\ now \in Nat
        /\ Window \in Nat /\ accepted \in [Keys -> SUBSET Hit]
        /\ w.hits \subseteq Hit
    BY <1>1, LimiterAssumption DEF TypeOK
  <2>5. Quota!Within(accepted[k], now) \subseteq old
    BY <1>1, <2>4 DEF KeyInv, AcceptedStored, RecentHits, Quota!Within
  <2>6. Cardinality(Quota!Within(accepted[k], now)) <= Cardinality(old)
        /\ Cardinality(Quota!Within(accepted[k], now)) \in Nat
    BY <2>3, <2>5, FS_Subset, FS_CardinalityType
  <2>7. Cardinality(Quota!Within(accepted[k], now)) < l
    BY <2>1, <2>3, <2>6
  <2>8. h \in accepted'[k] /\ h.at = now /\ h.id = hitNo + 1
    BY <2>2, <2>4
  <2>9. \A b \in accepted[k] : b.id < h.id
    <3>1. \A b \in accepted[k] : b.id <= hitNo /\ b.id \in Nat
      BY <1>1, <2>4 DEF KeyInv, AcceptedStored
    <3>. QED
      BY <2>4, <2>8, <3>1
  <2>10. h.at = now
    OBVIOUS
  <2> HIDE DEF h
  <2>11. \E a \in accepted'[k] :
           /\ a.at = now
           /\ \A b \in accepted[k] : b.id < a.id
           /\ accepted' = [accepted EXCEPT ![k] = @ \cup {a}]
    BY <2>2, <2>8, <2>9, <2>10
  <2>12. Quota!Cardinality(Quota!Within(accepted[k], now)) < l
    BY <2>7 DEF Quota!Cardinality, Cardinality
  <2>13. Quota!QAccept(r)
    BY <1>1, <2>11, <2>12 DEF Quota!QAccept
  <2>. QED
    BY <2>13
<1>. QED
  BY <1>2, <1>3

\* Every step of the limiter is a step of the promise or leaves it alone.
LEMMA QuotaStep ==
  LimiterInv /\ [Next]_vars => [Quota!QNext]_(Quota!qvars)
<1> SUFFICES ASSUME LimiterInv, [Next]_vars
             PROVE  Quota!QNext \/ UNCHANGED Quota!qvars
  BY DEF Quota!qvars
<1>1. CASE Tick
  BY <1>1 DEF Tick, Quota!QNext, Quota!QTick, LimiterInv, TypeOK
<1>2. ASSUME NEW l \in Limits, SetRateLimit(l) PROVE Quota!QNext
  BY <1>2 DEF SetRateLimit, Quota!QNext, Quota!QConfigure
<1>3. ASSUME NEW r \in Requests, NEW k \in Keys, ReadLimit(r, k)
      PROVE  Quota!QNext
  <2>1. req[r] = IdleRequest
    BY <1>3 DEF ReadLimit, LimiterInv, TypeOK, RequestState
  <2>2. Quota!QAsk(r, k)
    BY <1>3, <2>1 DEF ReadLimit, EffectiveLimit, IdleRequest,
       Quota!QAsk, Quota!NotAsked, Quota!Threshold
  <2>. QED
    BY <2>2 DEF Quota!QNext
<1>4. ASSUME NEW r \in Requests, CountRequest(r) PROVE Quota!QNext
  BY <1>4, QuotaCount DEF Quota!QNext
<1>5. ASSUME NEW k \in Keys, Alarm(k) PROVE UNCHANGED Quota!qvars
  BY <1>5 DEF Alarm, Quota!qvars
<1>6. CASE UNCHANGED vars
  BY <1>6 DEF vars, Quota!qvars
<1>. QED
  BY <1>1, <1>2, <1>3, <1>4, <1>5, <1>6 DEF Next

\* Whatever the window, the keys, the thresholds and the interleaving of
\* guards, alarms and threshold changes, every request let through is within
\* the quota of the threshold that was in force when its guard read it.
THEOREM LimiterImplementsQuota == Spec => QuotaSpec
BY QuotaInit, QuotaStep, LimiterInvariant, PTL
DEF Spec, QuotaSpec, Quota!QSpec
(***************************************************************************)
(* What the quota amounts to over time, for any number of requests.        *)
(***************************************************************************)

\* The requests of S made in the window that begins at t.
From(S, t) == {a \in S : t <= a.at /\ a.at < t + Window}

\* In no window whatever, sliding or not, were more than n requests let through.
AtMost(n) ==
  \A k \in Keys, t \in Nat :
    /\ IsFiniteSet(accepted[k])
    /\ Cardinality(From(accepted[k], t)) <= n

\* A request let through under threshold l overfills no window.
LEMMA AcceptAtMost ==
  ASSUME LimiterInv, NEW n \in Nat, AtMost(n), \A l \in Limits : l <= n,
         NEW r \in Requests, Quota!QAccept(r)
  PROVE  AtMost(n)'
<1>0. PICK j \in Keys, l \in Limits : j = req[r].key /\ l = req[r].limit
  BY DEF Quota!QAccept, LimiterInv, TypeOK, RequestState, IdleRequest
<1>1. PICK a \in accepted'[j] :
        /\ a.at = now
        /\ accepted' = [accepted EXCEPT ![j] = @ \cup {a}]
  BY <1>0 DEF Quota!QAccept
<1>2. /\ accepted \in [Keys -> SUBSET Hit] /\ now \in Nat /\ Window \in Nat
      /\ l \in Nat /\ l <= n
  BY LimiterAssumption DEF LimiterInv, TypeOK
<1>3. Cardinality(Quota!Within(accepted[j], now)) < l
  BY <1>0 DEF Quota!QAccept, Quota!Cardinality, Cardinality
<1>4. SUFFICES ASSUME NEW k \in Keys, NEW t \in Nat
               PROVE  /\ IsFiniteSet(accepted'[k])
                      /\ Cardinality(From(accepted'[k], t)) <= n
  BY DEF AtMost, From
<1>5. /\ IsFiniteSet(accepted[k]) /\ accepted[k] \subseteq Hit
      /\ Cardinality(From(accepted[k], t)) <= n
  BY <1>2 DEF AtMost
<1>6. CASE k # j
  BY <1>1, <1>2, <1>5, <1>6
<1>7. CASE k = j
  <2> DEFINE recent == Quota!Within(accepted[j], now)
  <2>1. accepted'[k] = accepted[k] \cup {a}
    BY <1>1, <1>2, <1>7
  <2>2. IsFiniteSet(accepted'[k])
    BY <1>5, <2>1, FS_AddElement
  <2>3. CASE t <= now /\ now < t + Window
    <3>1. From(accepted'[k], t) \subseteq recent \cup {a}
      BY <1>2, <1>5, <1>7, <2>1, <2>3 DEF From, Quota!Within
    <3>2. IsFiniteSet(recent) /\ Cardinality(recent) \in Nat
      BY <1>5, <1>7, FS_Subset, FS_CardinalityType DEF Quota!Within
    <3>3. /\ IsFiniteSet(recent \cup {a})
          /\ Cardinality(recent \cup {a}) <= Cardinality(recent) + 1
      <4> HIDE DEF recent
      <4>1. /\ IsFiniteSet(recent \cup {a})
            /\ Cardinality(recent \cup {a}) = Cardinality(recent)
               \/ Cardinality(recent \cup {a}) = Cardinality(recent) + 1
        BY <3>2, FS_AddElement, Zenon
      <4>. QED
        BY <3>2, <4>1
    <3>4. Cardinality(From(accepted'[k], t)) <= Cardinality(recent \cup {a})
      BY <3>1, <3>3, FS_Subset
    <3>5. /\ Cardinality(recent \cup {a}) \in Nat
          /\ Cardinality(From(accepted'[k], t)) \in Nat
      BY <3>1, <3>3, FS_Subset, FS_CardinalityType
    <3>. QED
      BY <1>2, <1>3, <2>2, <3>2, <3>3, <3>4, <3>5
  <2>4. CASE ~(t <= now /\ now < t + Window)
    <3>1. From(accepted'[k], t) = From(accepted[k], t)
      BY <1>1, <2>1, <2>4 DEF From
    <3>. QED
      BY <1>5, <2>2, <3>1
  <2>. QED
    BY <2>3, <2>4
<1>. QED
  BY <1>6, <1>7

\* However the threshold is changed while guards are in flight, no more
\* requests of a key are let through in any window than the largest threshold
\* an administrator may configure allows (AC-API-013 over a whole behaviour).
THEOREM NoWindowOverfilled ==
  ASSUME NEW n \in Nat, \A l \in Limits : l <= n
  PROVE  Spec => []AtMost(n)
<1>1. Init => AtMost(n)
  BY FS_EmptySet DEF Init, AtMost, From
<1>2. LimiterInv /\ [Quota!QNext]_(Quota!qvars) /\ AtMost(n) => AtMost(n)'
  <2>1. SUFFICES ASSUME LimiterInv, [Quota!QNext]_(Quota!qvars), AtMost(n)
                 PROVE  AtMost(n)'
    OBVIOUS
  <2>2. CASE accepted' = accepted
    BY <2>1, <2>2 DEF AtMost
  <2>. QED
    BY <2>1, <2>2, AcceptAtMost
    DEF Quota!QNext, Quota!QTick, Quota!QConfigure, Quota!QAsk, Quota!QRefuse,
        Quota!qvars
<1>. QED
  BY <1>1, <1>2, QuotaStep, LimiterInvariant, PTL DEF Spec
=============================================================================
