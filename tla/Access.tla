------------------------------- MODULE Access -------------------------------
(***************************************************************************)
(* How the users and their programs are let in: the rate limit and the     *)
(* guards of public-api, API keys, the sessions of apps/client, and the    *)
(* list of profiles they are let in to. The four share no table, store or  *)
(* Durable Object except the status of a user, which ApiAccess and         *)
(* ProfileList let change at any moment (and ApiAccess lets the rate limit *)
(* refuse anything), so their steps commute and one of them works in a     *)
(* behaviour: atWork says which.                                           *)
(***************************************************************************)
EXTENDS RateLimiter, ApiAccess

CONSTANTS
  Browsers, Sids, Tokens, Passwords,  \* of UserSessions
  NoSid,                              \* of UserSessions
  Profiles, Savers, Visitors, PageSizes, SitePage,   \* of ProfileList
  MaxClock, MaxEdits

ASSUME AccessAssumption ==
  /\ NoSid \notin Sids
  /\ Profiles \subseteq Nat /\ IsFiniteSet(Profiles)
  /\ PageSizes \cup {SitePage} \subseteq Nat \ {0}
  /\ MaxClock \in Nat /\ MaxEdits \in Nat

VARIABLES
  atWork,
  account, password, sessions, resets, cookie, at,
  known, loggedOut, renewing, spent, shared,
  rows, active, time, saving, walk, edits,
  shown, again, kept, lowered, moved, overtaken

Session == INSTANCE UserSessions
List == INSTANCE ProfileList

limiterVars == vars
sessionVars == <<account, password, sessions, resets, cookie, at,
                 known, loggedOut, renewing, spent, shared>>
listVars == <<rows, active, time, saving, walk, edits,
              shown, again, kept, lowered, moved, overtaken>>
accessVars == <<limiterVars, keyVars, sessionVars, listVars, atWork>>

AccessInit ==
  /\ atWork \in {"limiter", "keys", "sessions", "list"}
  /\ Init /\ KeyInit /\ Session!Init /\ List!Init

LimiterWorks ==
  atWork = "limiter" /\ Next /\ UNCHANGED <<keyVars, sessionVars, listVars, atWork>>
KeysWork ==
  atWork = "keys" /\ KeyNext /\ UNCHANGED <<limiterVars, sessionVars, listVars, atWork>>
SessionsWork ==
  atWork = "sessions" /\ Session!Next
    /\ UNCHANGED <<limiterVars, keyVars, listVars, atWork>>
ListWorks ==
  atWork = "list" /\ List!Next /\ UNCHANGED <<limiterVars, keyVars, sessionVars, atWork>>

AccessNext == LimiterWorks \/ KeysWork \/ SessionsWork \/ ListWorks

AccessSpec == AccessInit /\ [][AccessNext]_accessVars

-----------------------------------------------------------------------------
(* Properties: those of RateLimiter and ApiAccess, and those below, which  *)
(* are explained in UserSessions.                                          *)

AccessTypeOK == TypeOK /\ KeyTypeOK /\ Session!TypeOK /\ List!TypeOK

\* A session that was logged out is gone (ViewerProvider, expire).
LogoutHolds == Session!LogoutHolds

\* A reset link sets one password (consume).
ResetLinkUsedOnce == Session!ResetLinkUsedOnce

\* No request is admitted that starts after the withdrawal, unless the account
\* was revived (findById, verifyEmail).
WithdrawnStaysOut == Session!WithdrawnStaysOut

\* A walk through the list shows each profile once (listPublicProfiles).
EachShownOnce == List!EachShownOnce
=============================================================================
