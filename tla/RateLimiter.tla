---------------------------- MODULE RateLimiter -----------------------------
(***************************************************************************)
(* The per-key rate limit of apps/public-api: ApiKeyThrottlerGuard reads   *)
(* the threshold, asks the key's Durable Object to count the hit           *)
(* (ApiKeyRateLimiterDurableObject.increment around the pure function      *)
(* applyRateLimitHit) and lets the request through or answers 429 with     *)
(* Retry-After. A Durable Object handles one event at a time, so increment *)
(* and alarm are atomic; the guard is not: an administrator may change the *)
(* threshold between the guard's read and the count.                       *)
(***************************************************************************)
EXTENDS Integers, FiniteSets

CONSTANTS
  Keys,          \* API keys, one Durable Object each
  Requests,      \* guard invocations that may be in flight at once
  Window,        \* windowSeconds * 1000, the ttl and the block duration
  SecondMs,      \* clock units per second, for the ...Seconds of a decision
  Limits,        \* thresholds the admin console accepts
  DefaultLimit,  \* RateLimitOptions.limit, used while none is configured
  MaxTime,       \* bound: the clock stops here
  MaxHits        \* bound: hits counted over a behaviour

ASSUME LimiterAssumption ==
  /\ Window \in Nat \ {0}
  /\ SecondMs \in Nat \ {0}
  /\ Limits \subseteq Nat \ {0}
  /\ DefaultLimit \in Limits
  /\ MaxTime \in Nat
  /\ MaxHits \in Nat

VARIABLES
  now,         \* Date.now()
  configured,  \* app_settings threshold, 0 while unset
  stored,      \* stored[k]: RateLimitWindowState in the object's storage
  alarm,       \* alarm[k]: time of the pending storage alarm, 0 if none
  hitNo,       \* hits counted so far; names each hit
  req,         \* req[r]: the guard's local state
  accepted,    \* history: accepted[k] are the hits let through
  promised     \* history: promised[k] is the earliest time a client of k was
               \* told to come back at by Retry-After, 0 when none is owed

vars == <<now, configured, stored, alarm, hitNo, req, accepted, promised>>

Hit == [id : Nat, at : Nat]

\* INITIAL_RATE_LIMIT_WINDOW_STATE. The array hitTimestamps is a set of named
\* hits: only its size, its ages and its oldest member are ever used.
InitialWindow == [hits |-> {}, blockedUntil |-> 0]

IdleRequest == [pc |-> "idle"]

\* Milliseconds to whole seconds, rounded up as Math.ceil does.
FloorSeconds(ms) == ms \div SecondMs   \* mutant: Math.floor
CeilSeconds(ms) == (ms + SecondMs - 1) \div SecondMs

-----------------------------------------------------------------------------
(* applyRateLimitHit: the next state and the decision for one hit.         *)

RecentHitsEarly(w, t, window) ==   \* mutant: off by one at the window's edge
  {h \in w.hits : t - h.at < window - 1}
RecentHits(w, t, window) == {h \in w.hits : t - h.at < window}

\* Still blocked: the hit is refused and not counted.
IsBlocked(w, t) == w.blockedUntil > t
StillBlocked(w, t) ==
  [state |-> w, isBlocked |-> TRUE,
   timeToBlockExpire |-> CeilSeconds(w.blockedUntil - t)]

\* The block starts at the hit that went over the limit.
BlockEndFromOldest(hits, h, block) ==   \* mutant: at the window's oldest hit
  block + (CHOOSE t \in {x.at : x \in hits} : \A x \in hits : t <= x.at)
BlockEnd(hits, h, block) == h.at + block

\* Counted; more than limit hits in the window start a block.
Counted(w, h, window, limit, block) ==
  LET hits == RecentHits(w, h.at, window) \cup {h}
      over == Cardinality(hits) > limit
  IN  [state |-> [hits |-> hits,
                  blockedUntil |-> IF over THEN BlockEnd(hits, h, block) ELSE 0],
       isBlocked |-> over,
       timeToBlockExpire |-> IF over THEN CeilSeconds(block) ELSE 0]

ApplyRateLimitHit(w, h, window, limit, block) ==
  IF IsBlocked(w, h.at) THEN StillBlocked(w, h.at)
                        ELSE Counted(w, h, window, limit, block)

-----------------------------------------------------------------------------
Init ==
  /\ now = 0
  /\ configured = 0
  /\ stored = [k \in Keys |-> InitialWindow]
  /\ alarm = [k \in Keys |-> 0]
  /\ hitNo = 0
  /\ req = [r \in Requests |-> IdleRequest]
  /\ accepted = [k \in Keys |-> {}]
  /\ promised = [k \in Keys |-> 0]

Tick ==
  /\ now < MaxTime
  /\ now' = now + 1
  /\ UNCHANGED <<configured, stored, alarm, hitNo, req, accepted, promised>>

\* ApiKeyAdminService.setRateLimit: the administrator's new threshold.
SetRateLimit(l) ==
  /\ configured' = l
  /\ UNCHANGED <<now, stored, alarm, hitNo, req, accepted, promised>>

\* The threshold in force: app_settings, else the environment's default.
NoFallback == configured   \* mutant: the ?? default is dropped
EffectiveLimit == IF configured = 0 THEN DefaultLimit ELSE configured

\* The guard reads the threshold for an authenticated principal of key k.
ReadLimit(r, k) ==
  /\ req[r].pc = "idle"
  /\ req' = [req EXCEPT ![r] =
       [pc |-> "counting", key |-> k, limit |-> EffectiveLimit]]
  /\ UNCHANGED <<now, configured, stored, alarm, hitNo, accepted, promised>>

\* setAlarm after a hit at t: window and block must both be over, and each
\* hit moves the alarm.
AlarmTime(k, t) == t + Window + Window

\* What the guard does with the decision: the request goes on, or 429 with
\* Retry-After = timeToBlockExpire. The reply may be lost after the hit was
\* counted: the request then fails without reaching its handler.
LetThrough(k, h) ==
  /\ \/ accepted' = [accepted EXCEPT ![k] = @ \cup {h}]
     \/ UNCHANGED accepted
  /\ promised' = [promised EXCEPT ![k] = 0]
Refuse(k, retryAfter) ==
  LET back == now + retryAfter * SecondMs IN
  /\ \/ promised' = [promised EXCEPT
          ![k] = IF @ = 0 \/ back < @ THEN back ELSE @]
     \/ UNCHANGED promised
  /\ UNCHANGED accepted

\* The Durable Object counts the hit and the guard acts on the decision.
CountRequest(r) ==
  LET k == req[r].key
      h == [id |-> hitNo + 1, at |-> now]
      d == ApplyRateLimitHit(stored[k], h, Window, req[r].limit, Window)
  IN
  /\ req[r].pc = "counting"
  /\ hitNo < MaxHits
  /\ hitNo' = hitNo + 1
  /\ stored' = [stored EXCEPT ![k] = d.state]
  /\ alarm' = [alarm EXCEPT ![k] = AlarmTime(k, now)]
  /\ req' = [req EXCEPT ![r] = IdleRequest]
  /\ \/ ~d.isBlocked /\ LetThrough(k, h)
     \/ d.isBlocked /\ Refuse(k, d.timeToBlockExpire)
  /\ UNCHANGED <<now, configured>>

\* alarm(): the storage of an idle key is deleted. Alarms may run late.
Alarm(k) ==
  /\ alarm[k] # 0
  /\ now >= alarm[k]
  /\ stored' = [stored EXCEPT ![k] = InitialWindow]
  /\ alarm' = [alarm EXCEPT ![k] = 0]
  /\ UNCHANGED <<now, configured, hitNo, req, accepted, promised>>

Next ==
  \/ Tick
  \/ \E l \in Limits : SetRateLimit(l)
  \/ \E r \in Requests, k \in Keys : ReadLimit(r, k)
  \/ \E r \in Requests : CountRequest(r)
  \/ \E k \in Keys : Alarm(k)

Spec == Init /\ [][Next]_vars

-----------------------------------------------------------------------------
(* Properties.                                                             *)

RequestState ==
  {IdleRequest} \cup [pc : {"counting"}, key : Keys, limit : Limits]

TypeOK ==
  /\ now \in Nat
  /\ configured \in Limits \cup {0}
  /\ stored \in [Keys -> [hits : SUBSET Hit, blockedUntil : Nat]]
  /\ alarm \in [Keys -> Nat]
  /\ hitNo \in Nat
  /\ req \in [Requests -> RequestState]
  /\ accepted \in [Keys -> SUBSET Hit]
  /\ promised \in [Keys -> Nat]

\* The limiter implements the promise: whatever the interleaving of requests,
\* threshold changes, lost replies and alarms, a request is let through only
\* within the threshold in force when its guard read it, though the hits before
\* it were counted under others (applyRateLimitHit's sliding window; the guard's
\* getRateLimit, with the default of the environment).
Quota == INSTANCE SlidingWindowQuota WITH asked <- req
QuotaSpec == Quota!QSpec

\* A block is over only when every hit counted before it has left the window:
\* after a block the key starts with its whole quota. Guard and limiter meet
\* here: the guard passes the same ttl as window and as block duration.
BlockOutlastsWindow ==
  \A k \in Keys :
    stored[k].blockedUntil # 0 =>
      \A h \in stored[k].hits : h.at + Window <= stored[k].blockedUntil

\* Retry-After is honest: the first hit a key makes at or after the time any
\* refused client of it was told to come back at is never refused again
\* (the 429 branch of ApiKeyThrottlerGuard, with its rounding to seconds).
RetryAfterHonoured ==
  [][\A k \in Keys, r \in Requests :
       (/\ req[r].pc = "counting" /\ req[r].key = k
        /\ req'[r].pc = "idle"
        /\ promised[k] # 0 /\ now >= promised[k])
       => ~IsBlocked(stored'[k], now)]_vars

\* The clean-up alarm never deletes what still counts: when it runs, no hit
\* of the key is inside the window and no block is in force, however the key
\* was used since the alarm was first set.
AlarmForgetsNothing ==
  [][\A k \in Keys :
       (alarm[k] # 0 /\ alarm'[k] = 0)
       => /\ RecentHits(stored[k], now, Window) = {}
          /\ ~IsBlocked(stored[k], now)]_vars
=============================================================================
