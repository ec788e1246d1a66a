------------------------- MODULE SlidingWindowQuota -------------------------
(***************************************************************************)
(* What the public API promises a key owner about its rate limit           *)
(* (AC-API-013 / AC-API-014 in the header of rate-limit-window.ts): a      *)
(* request is let through only if, counting it, at most `limit` requests   *)
(* of the same key were let through during the last Window milliseconds.   *)
(* The limit is the threshold in force when the request came, and no other *)
(* one: neither a larger one of earlier nor one configured meanwhile.      *)
(* Nothing is said of how hits are stored, of blocking or of clean-up.     *)
(***************************************************************************)
EXTENDS Integers, FiniteSets

CONSTANTS
  Keys,         \* API keys; each is limited on its own (BR-API-009)
  Requests,     \* requests that may be in flight at once
  Window,       \* length of the sliding window
  Limits,       \* thresholds an administrator may configure
  DefaultLimit  \* the threshold while none is configured

VARIABLES
  now,         \* wall clock
  configured,  \* the threshold an administrator configured last, 0 if none
  asked,       \* asked[r]: the key of request r and the threshold it is under
  accepted     \* accepted[k]: requests of key k that were let through, [id, at]

qvars == <<now, configured, asked, accepted>>

NotAsked == [pc |-> "idle"]

Threshold == IF configured = 0 THEN DefaultLimit ELSE configured

\* The requests of S made less than Window before t.
Within(S, t) == {h \in S : t - h.at < Window}

QInit ==
  /\ now = 0
  /\ configured = 0
  /\ asked = [r \in Requests |-> NotAsked]
  /\ accepted = [k \in Keys |-> {}]

\* Time passes.
QTick ==
  /\ now' \in Nat
  /\ now' > now
  /\ UNCHANGED <<configured, asked, accepted>>

QConfigure(l) ==
  /\ configured' = l
  /\ UNCHANGED <<now, asked, accepted>>

\* A request of k comes, under the threshold in force.
QAsk(r, k) ==
  /\ asked[r] = NotAsked
  /\ asked' = [asked EXCEPT ![r] = [pc |-> "counting", key |-> k, limit |-> Threshold]]
  /\ UNCHANGED <<now, configured, accepted>>

\* It is let through. The new request a is the youngest: its id is above every
\* earlier one.
QAccept(r) ==
  LET k == asked[r].key IN
  /\ asked[r].pc = "counting"
  /\ Cardinality(Within(accepted[k], now)) < asked[r].limit
  /\ asked' = [asked EXCEPT ![r] = NotAsked]
  /\ UNCHANGED <<now, configured>>
  /\ \E a \in accepted'[k] :
        /\ a.at = now
        /\ \A b \in accepted[k] : b.id < a.id
        /\ accepted' = [accepted EXCEPT ![k] = @ \cup {a}]

\* Or it is not: refused, or its answer lost.
QRefuse(r) ==
  /\ asked[r].pc = "counting"
  /\ asked' = [asked EXCEPT ![r] = NotAsked]
  /\ UNCHANGED <<now, configured, accepted>>

QNext ==
  \/ QTick
  \/ \E l \in Limits : QConfigure(l)
  \/ \E r \in Requests, k \in Keys : QAsk(r, k)
  \/ \E r \in Requests : QAccept(r) \/ QRefuse(r)

QSpec == QInit /\ [][QNext]_qvars
=============================================================================
