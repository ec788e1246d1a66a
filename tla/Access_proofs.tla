---------------------------- MODULE Access_proofs ----------------------------
(***************************************************************************)
(* Proofs about Access and its parts, for any number of users, requests    *)
(* and profiles. Those about the rate limit are in RateLimiter_proofs.     *)
(*                                                                         *)
(* API keys: a request between the key and its owner has seen the owner    *)
(* ACTIVE if the owner is, so that the one that passes has (AdmissionOK);  *)
(* a revoked key has a row, so that none is inserted in its place          *)
(* (RevokedExist).                                                         *)
(*                                                                         *)
(* Sessions: what is in use has been drawn, so that a new session is no    *)
(* old one (SidsKnown); who puts a session back that was logged out has    *)
(* been noted (RenewalsNoted); a token that was not shared has one holder  *)
(* (TokenOK); a request that started after the withdrawal gets no farther  *)
(* than the lookup of the user (StartsOK).                                 *)
(*                                                                         *)
(* The list: an edit that was not overtaken moves its profile up (EditOK), *)
(* so that a cursor keeps before it what has been shown and behind it what *)
(* has not (CursorOK); an offset counts what has been shown (OffsetOK).    *)
(*                                                                         *)
(* A step of Access is a step of one part and leaves the others alone, so  *)
(* that all that holds of a part holds of Access (PartsRun).               *)
(***************************************************************************)
EXTENDS Access, RateLimiter_proofs

USE DEF Idle

\* A request that has found its key has met its owner ACTIVE, if the owner is.
AdmissionOK ==
  \A r \in Calls :
    (guard[r].pc = "owner" /\ status[guard[r].row.owner] = "ACTIVE") => r \in sawActive

RevokedExist == revoked \subseteq Existing

ApiKeyInv ==
  /\ KeyTypeOK /\ AdmissionOK /\ RevokedExist
  /\ NoServiceAfterLeaving /\ RevokedForGood /\ FreezeRevokesKeys

Freezing == [pc : {"freeze", "revokeAll"}, owner : Users]
Making == [pc : {"insert"}, owner : Users, scope : Scopes]
Guarded == [pc : Serving, key : ApiKeys, row : Key, operation : Scopes]

-----------------------------------------------------------------------------
(* States and rows                                                         *)

\* The state of a request tells by its pc which record it is.
LEMMA GuardStates ==
  ASSUME KeyTypeOK, NEW r \in Calls
  PROVE  /\ guard[r].pc \in {"freeze", "revokeAll"} => guard[r] \in Freezing
         /\ guard[r].pc = "insert" => guard[r] \in Making
         /\ guard[r].pc \in Serving => guard[r] \in Guarded
BY DEF KeyTypeOK, Freezing, Making, Guarded, Serving

LEMMA GuardGoto ==
  ASSUME KeyTypeOK, NEW r \in Calls, NEW s, Goto(r, s)
  PROVE  /\ guard'[r] = s
         /\ \A q \in Calls \ {r} : guard'[q] = guard[q]
         /\ guard' = [guard EXCEPT ![r] = s]
BY DEF KeyTypeOK, Goto

\* A row that exists is a record with an owner.
LEMMA RowsOK ==
  ASSUME KeyTypeOK, NEW k \in Existing
  PROVE  k \in ApiKeys /\ apiKeys[k] \in Key /\ apiKeys[k].owner \in Users
BY DEF KeyTypeOK, Existing, Key

\* A step of one request that changes neither a status nor a key, and takes
\* the request to a state it may be in.
LEMMA RequestStep ==
  ASSUME ApiKeyInv, NEW r \in Calls, NEW s, Goto(r, s),
         UNCHANGED <<status, apiKeys, revoked, madeLate>>,
         touching' \subseteq ApiKeys,
         s \in {Idle} \cup Freezing \cup Making \cup Guarded,
         sawActive \ {r} \subseteq sawActive', sawActive' \subseteq Calls,
         (s.pc = "owner" /\ status[s.row.owner] = "ACTIVE") => r \in sawActive',
         s.pc \in {"limit", "scope", "serve"} => r \in sawActive',
         broken \subseteq broken', broken' \subseteq Users,
         guard[r].pc = "revokeAll" => guard[r].owner \in broken'
  PROVE  ApiKeyInv'
<1>1. /\ guard'[r] = s /\ \A q \in Calls \ {r} : guard'[q] = guard[q]
      /\ guard' = [guard EXCEPT ![r] = s]
  BY GuardGoto DEF ApiKeyInv
<1>2. KeyTypeOK'
  BY <1>1 DEF ApiKeyInv, KeyTypeOK, Freezing, Making, Guarded
<1>3. AdmissionOK' /\ NoServiceAfterLeaving'
  BY <1>1 DEF ApiKeyInv, AdmissionOK, NoServiceAfterLeaving
<1>4. RevokedExist' /\ RevokedForGood'
  BY DEF ApiKeyInv, RevokedExist, RevokedForGood, Existing, Active
<1>5. FreezeRevokesKeys'
  <2>1. ASSUME NEW k \in Active', status'[apiKeys'[k].owner] = "FROZEN",
               k \notin madeLate', apiKeys'[k].owner \notin broken'
        PROVE  \E q \in Calls : guard'[q].pc = "revokeAll" /\ guard'[q].owner = apiKeys'[k].owner
    <3>1. k \in Active
      BY DEF Active, Existing
    <3>2. PICK q \in Calls : guard[q].pc = "revokeAll" /\ guard[q].owner = apiKeys[k].owner
      BY <2>1, <3>1 DEF ApiKeyInv, FreezeRevokesKeys
    <3>3. q # r
      BY <2>1, <3>2
    <3>. QED
      BY <1>1, <3>2, <3>3
  <2>. QED
    BY <2>1 DEF FreezeRevokesKeys
<1>. QED
  BY <1>2, <1>3, <1>4, <1>5 DEF ApiKeyInv

-----------------------------------------------------------------------------
(* The owner's steps                                                       *)

\* A status that is written: rows stay, and requests of that owner have met it.
LEMMA ChangeStatusStep ==
  ASSUME ApiKeyInv, NEW u \in Users, ChangeStatus(u)
  PROVE  ApiKeyInv'
<1>1. UNCHANGED <<apiKeys, touching, guard, revoked>>
  BY DEF ChangeStatus, history
<1>2. /\ status' = [status EXCEPT ![u] = status'[u]]
      /\ status'[u] \in {"UNVERIFIED", "ACTIVE", "WITHDRAWN"}
      /\ \A v \in Users \ {u} : status'[v] = status[v]
  BY DEF ChangeStatus, Registers, Becomes, ApiKeyInv, KeyTypeOK
<1>3. /\ sawActive \subseteq sawActive' /\ sawActive' \subseteq Calls
      /\ status'[u] = "ACTIVE" => RequestsOf(u) \subseteq sawActive'
      /\ madeLate' \subseteq madeLate /\ madeLate \ KeysOf(u) \subseteq madeLate'
      /\ broken' \subseteq broken /\ broken \ {u} \subseteq broken'
  BY DEF ChangeStatus, Registers, Becomes, ApiKeyInv, KeyTypeOK, history, RequestsOf
<1>4. KeyTypeOK'
  BY <1>1, <1>2, <1>3 DEF ApiKeyInv, KeyTypeOK, LaterStatus
<1>5. AdmissionOK'
  BY <1>1, <1>2, <1>3, GuardStates
  DEF ApiKeyInv, AdmissionOK, RequestsOf, Guarded, Serving, Key
<1>6. NoServiceAfterLeaving'
  BY <1>1, <1>3 DEF ApiKeyInv, NoServiceAfterLeaving
<1>7. RevokedExist' /\ RevokedForGood'
  BY <1>1 DEF ApiKeyInv, RevokedExist, RevokedForGood, Existing, Active
<1>8. FreezeRevokesKeys'
  <2>1. ASSUME NEW k \in Active', status'[apiKeys'[k].owner] = "FROZEN"
        PROVE  \/ k \in madeLate' \/ apiKeys'[k].owner \in broken'
               \/ \E q \in Calls :
                    guard'[q].pc = "revokeAll" /\ guard'[q].owner = apiKeys'[k].owner
    <3>1. k \in Active /\ k \in Existing
      BY <1>1 DEF Active, Existing
    <3>2. apiKeys[k].owner \in Users \ {u}
      BY <1>1, <1>2, <2>1, <3>1, RowsOK DEF ApiKeyInv
    <3>3. status[apiKeys[k].owner] = "FROZEN" /\ k \notin KeysOf(u)
      BY <1>1, <1>2, <2>1, <3>2 DEF KeysOf
    <3>. QED
      BY <1>1, <1>3, <3>1, <3>2, <3>3 DEF ApiKeyInv, FreezeRevokesKeys
  <2>. QED
    BY <2>1 DEF FreezeRevokesKeys
<1>. QED
  BY <1>4, <1>5, <1>6, <1>7, <1>8 DEF ApiKeyInv

\* The freeze writes the status; from then on it is about to revoke the keys.
LEMMA SetFrozenStep ==
  ASSUME ApiKeyInv, NEW r \in Calls, SetFrozen(r)
  PROVE  ApiKeyInv'
<1> DEFINE u == guard[r].owner
           s == [guard[r] EXCEPT !.pc = "revokeAll"]
<1>1. /\ guard[r].pc = "freeze" /\ Goto(r, s) /\ Becomes(u, "FROZEN")
      /\ UNCHANGED <<apiKeys, touching, sawActive, revoked, madeLate, broken>>
  BY DEF SetFrozen, history
<1>2. guard[r] \in Freezing
  BY <1>1, GuardStates DEF ApiKeyInv
<1>3. s \in Freezing /\ s.pc = "revokeAll" /\ s.owner = u /\ u \in Users
  BY <1>2 DEF Freezing
<1>4. /\ guard'[r] = s /\ \A q \in Calls \ {r} : guard'[q] = guard[q]
      /\ guard' = [guard EXCEPT ![r] = s]
  BY <1>1, GuardGoto DEF ApiKeyInv
<1>5. /\ status' = [status EXCEPT ![u] = "FROZEN"] /\ status'[u] = "FROZEN"
      /\ \A v \in Users \ {u} : status'[v] = status[v]
  BY <1>1, <1>3 DEF Becomes, ApiKeyInv, KeyTypeOK
<1> HIDE DEF s
<1>6. KeyTypeOK'
  BY <1>1, <1>3, <1>4, <1>5 DEF ApiKeyInv, KeyTypeOK, Freezing, LaterStatus
<1>7. AdmissionOK' /\ NoServiceAfterLeaving'
  BY <1>1, <1>3, <1>4, <1>5, GuardStates
  DEF ApiKeyInv, AdmissionOK, NoServiceAfterLeaving, Guarded, Serving, Key
<1>8. RevokedExist' /\ RevokedForGood'
  BY <1>1 DEF ApiKeyInv, RevokedExist, RevokedForGood, Existing, Active
<1>9. FreezeRevokesKeys'
  <2>1. ASSUME NEW k \in Active', status'[apiKeys'[k].owner] = "FROZEN"
        PROVE  \/ k \in madeLate' \/ apiKeys'[k].owner \in broken'
               \/ \E q \in Calls :
                    guard'[q].pc = "revokeAll" /\ guard'[q].owner = apiKeys'[k].owner
    <3>1. k \in Active /\ apiKeys[k].owner \in Users
      BY <1>1, RowsOK DEF Active, Existing, ApiKeyInv
    <3>2. CASE apiKeys[k].owner = u
      BY <1>1, <1>3, <1>4, <3>2
    <3>3. CASE apiKeys[k].owner # u
      BY <1>1, <1>3, <1>4, <1>5, <2>1, <3>1, <3>3 DEF ApiKeyInv, FreezeRevokesKeys
    <3>. QED
      BY <3>2, <3>3
  <2>. QED
    BY <2>1 DEF FreezeRevokesKeys
<1>. QED
  BY <1>6, <1>7, <1>8, <1>9 DEF ApiKeyInv

-----------------------------------------------------------------------------
(* Steps that write keys                                                   *)

\* ApiKeys that are revoked keep their owner and have a row.
LEMMA RevokedRow ==
  ASSUME NoKey \notin Key, KeyTypeOK, NEW k \in Active
  PROVE  LET row == [apiKeys[k] EXCEPT !.status = "revoked"] IN
         /\ row \in Key /\ row # NoKey
         /\ row.owner = apiKeys[k].owner /\ row.status = "revoked"
<1>1. apiKeys[k] \in Key
  BY RowsOK DEF Active
<1>. QED
  BY <1>1 DEF Key

\* Some active keys are revoked; of those that stay active every one was
\* excused before the step and is after it.
LEMMA RevokeStep ==
  ASSUME ApiKeyInv, NEW K \in SUBSET Active,
         apiKeys' \in [ApiKeys -> Key \cup {NoKey}],
         \A k \in K : apiKeys'[k] # NoKey /\ apiKeys'[k].status = "revoked",
         \A k \in ApiKeys \ K : apiKeys'[k] = apiKeys[k],
         revoked' = revoked \cup K,
         UNCHANGED <<status, touching, sawActive, madeLate, broken>>,
         guard' \in [Calls -> {Idle} \cup Freezing \cup Making \cup Guarded],
         \A q \in Calls : guard'[q] = guard[q] \/ guard'[q] = Idle,
         \A q \in Calls : (guard[q].pc = "revokeAll" /\ guard'[q] # guard[q])
           => \A k \in Active : apiKeys[k].owner = guard[q].owner => k \in K
  PROVE  ApiKeyInv'
<1>1. Active \subseteq Existing /\ Existing \subseteq ApiKeys
  BY DEF Active, Existing
<1>2. Active' = Active \ K /\ Existing' = Existing
  BY <1>1 DEF Active, Existing
<1>3. KeyTypeOK'
  BY <1>1 DEF ApiKeyInv, KeyTypeOK, Freezing, Making, Guarded
<1>4. AdmissionOK' /\ NoServiceAfterLeaving'
  BY DEF ApiKeyInv, AdmissionOK, NoServiceAfterLeaving
<1>5. RevokedExist' /\ RevokedForGood'
  BY <1>1, <1>2 DEF ApiKeyInv, RevokedExist, RevokedForGood
<1>6. FreezeRevokesKeys'
  <2>1. ASSUME NEW k \in Active', status'[apiKeys'[k].owner] = "FROZEN",
               k \notin madeLate', apiKeys'[k].owner \notin broken'
        PROVE  \E q \in Calls : guard'[q].pc = "revokeAll" /\ guard'[q].owner = apiKeys'[k].owner
    <3>1. k \in Active /\ k \notin K /\ apiKeys'[k] = apiKeys[k]
      BY <1>1, <1>2
    <3>2. PICK q \in Calls : guard[q].pc = "revokeAll" /\ guard[q].owner = apiKeys[k].owner
      BY <2>1, <3>1 DEF ApiKeyInv, FreezeRevokesKeys
    <3>3. guard'[q] = guard[q]
      BY <3>1, <3>2
    <3>. QED
      BY <3>1, <3>2, <3>3
  <2>. QED
    BY <2>1 DEF FreezeRevokesKeys
<1>. QED
  BY <1>3, <1>4, <1>5, <1>6 DEF ApiKeyInv

LEMMA RevokeAllForUserStep ==
  ASSUME NoKey \notin Key, ApiKeyInv, NEW r \in Calls, RevokeAllForUser(r)
  PROVE  ApiKeyInv'
<1> DEFINE u == guard[r].owner
           K == Active \cap KeysOf(u)
<1>1. /\ guard[r].pc = "revokeAll" /\ apiKeys' = AllRevoked(u) /\ Goto(r, Idle)
      /\ revoked' = revoked \cup {k \in Active : apiKeys'[k].status = "revoked"}
      /\ UNCHANGED <<status, touching, sawActive, madeLate, broken>>
  BY DEF RevokeAllForUser
<1>2. Active \subseteq ApiKeys /\ \A k \in Active : apiKeys[k].status = "active"
  BY DEF Active, Existing
<1>3. ASSUME NEW k \in K
      PROVE  /\ apiKeys'[k] \in Key /\ apiKeys'[k] # NoKey
             /\ apiKeys'[k].status = "revoked"
  <2>1. apiKeys'[k] = [apiKeys[k] EXCEPT !.status = "revoked"]
    BY <1>1, <1>2 DEF AllRevoked
  <2>. QED
    BY <2>1, RevokedRow DEF ApiKeyInv
<1>4. \A k \in ApiKeys \ K : apiKeys'[k] = apiKeys[k]
  BY <1>1 DEF AllRevoked
<1>5. apiKeys' \in [ApiKeys -> Key \cup {NoKey}]
  <2>1. \A k \in ApiKeys : apiKeys'[k] \in Key \cup {NoKey}
    BY <1>3, <1>4 DEF ApiKeyInv, KeyTypeOK
  <2>. QED
    BY <1>1, <2>1 DEF AllRevoked
<1>6. revoked' = revoked \cup K
  BY <1>1, <1>2, <1>3, <1>4
<1>7. \A q \in Calls \ {r} : guard'[q] = guard[q]
  BY <1>1, GuardGoto DEF ApiKeyInv
<1>8. guard'[r] = Idle /\ guard' = [guard EXCEPT ![r] = Idle]
  BY <1>1, GuardGoto DEF ApiKeyInv
<1>9. guard' \in [Calls -> {Idle} \cup Freezing \cup Making \cup Guarded]
  BY <1>8 DEF ApiKeyInv, KeyTypeOK, Freezing, Making, Guarded
<1>10. K \in SUBSET Active /\ \A k \in Active : apiKeys[k].owner = u => k \in K
  BY DEF KeysOf, Active
<1>11. \A q \in Calls : (guard[q].pc = "revokeAll" /\ guard'[q] # guard[q])
         => \A k \in Active : apiKeys[k].owner = guard[q].owner => k \in K
  BY <1>7, <1>10
<1>12. \A q \in Calls : guard'[q] = guard[q] \/ guard'[q] = Idle
  BY <1>7, <1>8
<1> HIDE DEF K
<1>. QED
  BY <1>1, <1>3, <1>4, <1>5, <1>6, <1>7, <1>8, <1>9, <1>10, <1>11, <1>12, RevokeStep

LEMMA RevokeApiKeyStep ==
  ASSUME NoKey \notin Key, ApiKeyInv, NEW k \in ApiKeys, RevokeApiKey(k)
  PROVE  ApiKeyInv'
<1> DEFINE row == [apiKeys[k] EXCEPT !.status = "revoked"]
           K == {k}
<1>1. /\ k \in Active /\ apiKeys' = [apiKeys EXCEPT ![k] = row]
      /\ revoked' = revoked \cup {k}
      /\ UNCHANGED <<status, touching, guard, sawActive, madeLate, broken>>
  BY DEF RevokeApiKey
<1>2. row \in Key /\ row # NoKey /\ row.status = "revoked"
  BY <1>1, RevokedRow DEF ApiKeyInv
<1> HIDE DEF row
<1>3. /\ apiKeys' \in [ApiKeys -> Key \cup {NoKey}]
      /\ apiKeys'[k] = row /\ \A j \in ApiKeys \ {k} : apiKeys'[j] = apiKeys[j]
  BY <1>1, <1>2 DEF ApiKeyInv, KeyTypeOK
<1>4. guard' \in [Calls -> {Idle} \cup Freezing \cup Making \cup Guarded]
  BY <1>1 DEF ApiKeyInv, KeyTypeOK, Freezing, Making, Guarded
<1>5. /\ K \in SUBSET Active /\ revoked' = revoked \cup K
      /\ \A j \in K : apiKeys'[j] # NoKey /\ apiKeys'[j].status = "revoked"
      /\ \A j \in ApiKeys \ K : apiKeys'[j] = apiKeys[j]
  BY <1>1, <1>2, <1>3
<1>6. \A q \in Calls : guard'[q] = guard[q]
  BY <1>1
<1> HIDE DEF K
<1>. QED
  BY <1>1, <1>3, <1>4, <1>5, <1>6, RevokeStep

\* A key that is inserted while its owner is frozen is one of madeLate.
LEMMA InsertApiKeyStep ==
  ASSUME NoKey \notin Key, ApiKeyInv, NEW r \in Calls, NEW k \in ApiKeys, InsertApiKey(r, k)
  PROVE  ApiKeyInv'
<1> DEFINE u == guard[r].owner
           row == [owner |-> u, scope |-> guard[r].scope, status |-> "active"]
<1>1. /\ guard[r].pc = "insert" /\ apiKeys[k] = NoKey /\ Goto(r, Idle)
      /\ apiKeys' = [apiKeys EXCEPT ![k] = row]
      /\ madeLate' = IF status[u] \in {"FROZEN", "WITHDRAWN"} THEN madeLate \cup {k} ELSE madeLate
      /\ UNCHANGED <<status, touching, sawActive, revoked, broken>>
  BY DEF InsertApiKey
<1>2. row \in Key /\ row.owner = u
  BY <1>1, GuardStates DEF ApiKeyInv, Making, Key
<1> HIDE DEF row
<1>3. /\ apiKeys' \in [ApiKeys -> Key \cup {NoKey}]
      /\ apiKeys'[k] = row /\ \A j \in ApiKeys \ {k} : apiKeys'[j] = apiKeys[j]
  BY <1>1, <1>2 DEF ApiKeyInv, KeyTypeOK
<1>4. k \notin revoked /\ Existing' = Existing \cup {k} /\ Active' \subseteq Active \cup {k}
  BY <1>1, <1>2, <1>3 DEF ApiKeyInv, RevokedExist, Existing, Active
<1>5. /\ guard'[r] = Idle /\ \A q \in Calls \ {r} : guard'[q] = guard[q]
      /\ guard' = [guard EXCEPT ![r] = Idle]
  BY <1>1, GuardGoto DEF ApiKeyInv
<1>6. KeyTypeOK'
  BY <1>1, <1>3, <1>5 DEF ApiKeyInv, KeyTypeOK
<1>7. AdmissionOK' /\ NoServiceAfterLeaving'
  BY <1>1, <1>5 DEF ApiKeyInv, AdmissionOK, NoServiceAfterLeaving
<1>8. RevokedExist' /\ RevokedForGood'
  BY <1>1, <1>4 DEF ApiKeyInv, RevokedExist, RevokedForGood
<1>9. FreezeRevokesKeys'
  <2>1. ASSUME NEW j \in Active', status'[apiKeys'[j].owner] = "FROZEN",
               j \notin madeLate', apiKeys'[j].owner \notin broken'
        PROVE  \E q \in Calls : guard'[q].pc = "revokeAll" /\ guard'[q].owner = apiKeys'[j].owner
    <3>1. j # k
      BY <1>1, <1>2, <1>3, <2>1
    <3>2. j \in Active /\ j \in ApiKeys /\ apiKeys'[j] = apiKeys[j] /\ j \notin madeLate
      BY <1>1, <1>3, <1>4, <2>1, <3>1 DEF Active, Existing
    <3>3. PICK q \in Calls : guard[q].pc = "revokeAll" /\ guard[q].owner = apiKeys[j].owner
      BY <1>1, <2>1, <3>2 DEF ApiKeyInv, FreezeRevokesKeys
    <3>4. q # r
      BY <1>1, <3>3
    <3>. QED
      BY <1>5, <3>2, <3>3, <3>4
  <2>. QED
    BY <2>1 DEF FreezeRevokesKeys
<1>. QED
  BY <1>6, <1>7, <1>8, <1>9 DEF ApiKeyInv

\* One update of one column: nothing here tells the row before from the one after.
LEMMA TouchLastUsedStep ==
  ASSUME ApiKeyInv, NEW k \in ApiKeys, TouchLastUsed(k)
  PROVE  ApiKeyInv'
<1>1. UNCHANGED <<status, apiKeys, guard, sawActive, revoked, madeLate, broken>>
  BY DEF TouchLastUsed, Touched, history
<1>2. touching' \subseteq ApiKeys
  BY DEF TouchLastUsed, ApiKeyInv, KeyTypeOK
<1>. QED
  BY <1>1, <1>2 DEF ApiKeyInv, KeyTypeOK, AdmissionOK, RevokedExist, Existing, Active,
     NoServiceAfterLeaving, RevokedForGood, FreezeRevokesKeys

-----------------------------------------------------------------------------
(* Steps of one request                                                    *)

LEMMA FreezeUserStep ==
  ASSUME ApiKeyInv, NEW r \in Calls, NEW u \in Users, FreezeUser(r, u)
  PROVE  ApiKeyInv'
<1> DEFINE s == [pc |-> "freeze", owner |-> u]
<1>1. s \in Freezing /\ s.pc = "freeze"
  BY DEF Freezing
<1>2. Goto(r, s) /\ guard[r] = Idle /\ UNCHANGED <<status, apiKeys, touching, history>>
  BY DEF FreezeUser
<1> HIDE DEF s
<1>. QED
  BY <1>1, <1>2, RequestStep DEF history, ApiKeyInv, KeyTypeOK

LEMMA CreateApiKeyStep ==
  ASSUME ApiKeyInv, NEW r \in Calls, NEW u \in Users, NEW scope \in Scopes,
         CreateApiKey(r, u, scope)
  PROVE  ApiKeyInv'
<1> DEFINE s == [pc |-> "insert", owner |-> u, scope |-> scope]
<1>1. s \in Making /\ s.pc = "insert"
  BY DEF Making
<1>2. Goto(r, s) /\ guard[r] = Idle /\ UNCHANGED <<status, apiKeys, touching, history>>
  BY DEF CreateApiKey
<1> HIDE DEF s
<1>. QED
  BY <1>1, <1>2, RequestStep DEF history, ApiKeyInv, KeyTypeOK

LEMMA FindByKeyHashStep ==
  ASSUME ApiKeyInv, NEW r \in Calls, NEW k \in ApiKeys, NEW operation \in Scopes,
         FindByKeyHash(r, k, operation)
  PROVE  ApiKeyInv'
<1> DEFINE s == [pc |-> "owner", key |-> k, row |-> apiKeys[k], operation |-> operation]
<1>1. k \in Active /\ Goto(r, s) /\ guard[r] = Idle
  BY DEF FindByKeyHash
<1>2. apiKeys[k] \in Key
  BY <1>1, RowsOK DEF Active, ApiKeyInv
<1>3. s \in Guarded /\ s.pc = "owner" /\ s.row = apiKeys[k]
  BY <1>2 DEF Guarded, Serving
<1>4. /\ sawActive' = IF status[apiKeys[k].owner] = "ACTIVE" THEN sawActive \cup {r}
                       ELSE sawActive \ {r}
      /\ UNCHANGED <<status, apiKeys, touching, revoked, madeLate, broken>>
  BY DEF FindByKeyHash
<1> HIDE DEF s
<1>. QED
  BY <1>1, <1>3, <1>4, RequestStep DEF ApiKeyInv, KeyTypeOK

LEMMA FindOwnerStep ==
  ASSUME ApiKeyInv, NEW r \in Calls, FindOwner(r)
  PROVE  ApiKeyInv'
<1>1. guard[r].pc = "owner" /\ UNCHANGED <<status, apiKeys, sawActive, revoked, madeLate, broken>>
  BY DEF FindOwner, history
<1>2. guard[r] \in Guarded
  BY <1>1, GuardStates DEF ApiKeyInv, Serving
<1>3. CASE MayUseKeys(status[guard[r].row.owner]) /\ touching' = touching \cup {guard[r].key}
             /\ Goto(r, [guard[r] EXCEPT !.pc = "limit"])
  <2> DEFINE s == [guard[r] EXCEPT !.pc = "limit"]
  <2>1. s \in Guarded /\ s.pc = "limit" /\ guard[r].key \in ApiKeys
    BY <1>2 DEF Guarded, Serving
  <2>2. r \in sawActive
    BY <1>1, <1>3 DEF ApiKeyInv, AdmissionOK, MayUseKeys
  <2>3. Goto(r, s)
    BY <1>3
  <2> HIDE DEF s
  <2>. QED
    BY <1>1, <1>3, <2>1, <2>2, <2>3, RequestStep DEF ApiKeyInv, KeyTypeOK
<1>4. CASE Goto(r, Idle) /\ UNCHANGED touching
  BY <1>1, <1>4, RequestStep DEF ApiKeyInv, KeyTypeOK
<1>. QED
  BY <1>3, <1>4 DEF FindOwner

\* A request that has been admitted passes on, or ends.
LEMMA GuardStep ==
  ASSUME ApiKeyInv, NEW r \in Calls, Throttle(r) \/ CheckScope(r) \/ Serve(r)
  PROVE  ApiKeyInv'
<1>1. guard[r].pc \in {"limit", "scope", "serve"} /\ UNCHANGED <<status, apiKeys, touching, history>>
  BY DEF Throttle, CheckScope, Serve
<1>2. guard[r] \in Guarded /\ r \in sawActive
  BY <1>1, GuardStates DEF ApiKeyInv, Serving, NoServiceAfterLeaving
<1> DEFINE toScope == [guard[r] EXCEPT !.pc = "scope"]
           toServe == [guard[r] EXCEPT !.pc = "serve"]
<1>3. /\ toScope \in Guarded /\ toScope.pc = "scope"
      /\ toServe \in Guarded /\ toServe.pc = "serve"
  BY <1>2 DEF Guarded, Serving
<1>4. \E s \in {Idle, toScope, toServe} : Goto(r, s)
  BY DEF Throttle, CheckScope, Serve
<1> HIDE DEF toScope, toServe
<1>5. PICK s \in {Idle, toScope, toServe} : Goto(r, s)
  BY <1>4
<1>6. s \in {Idle} \cup Guarded /\ s.pc \in {"idle", "scope", "serve"}
  BY <1>3
<1>. QED
  BY <1>1, <1>2, <1>5, <1>6, RequestStep DEF history, ApiKeyInv, KeyTypeOK

LEMMA AbortStep ==
  ASSUME ApiKeyInv, NEW r \in Calls, Abort(r)
  PROVE  ApiKeyInv'
<1>1. /\ Goto(r, Idle) /\ UNCHANGED <<status, apiKeys, touching, sawActive, revoked, madeLate>>
      /\ broken' = IF guard[r].pc = "revokeAll" THEN broken \cup {guard[r].owner} ELSE broken
  BY DEF Abort
<1>2. guard[r].pc = "revokeAll" => guard[r].owner \in Users
  BY GuardStates DEF ApiKeyInv, Freezing
<1>. QED
  BY <1>1, <1>2, RequestStep DEF ApiKeyInv, KeyTypeOK

-----------------------------------------------------------------------------
(* The theorems                                                            *)

LEMMA ApiKeyInit == ASSUME KeyInit PROVE ApiKeyInv
BY DEF KeyInit, OwnerInit, ApiKeyInv, KeyTypeOK, AdmissionOK, RevokedExist, Existing, Active,
       NoServiceAfterLeaving, RevokedForGood, FreezeRevokesKeys

LEMMA ApiKeyNext == ASSUME NoKey \notin Key, ApiKeyInv, [KeyNext]_keyVars PROVE ApiKeyInv'
<1>1. CASE UNCHANGED keyVars
  BY <1>1 DEF keyVars, ApiKeyInv, KeyTypeOK, AdmissionOK, RevokedExist, Existing, Active,
       NoServiceAfterLeaving, RevokedForGood, FreezeRevokesKeys
<1>2. CASE KeyNext
  BY <1>2, ChangeStatusStep, FreezeUserStep, CreateApiKeyStep, InsertApiKeyStep,
     FindByKeyHashStep, RevokeApiKeyStep, TouchLastUsedStep, SetFrozenStep,
     RevokeAllForUserStep, FindOwnerStep, GuardStep, AbortStep DEF KeyNext
<1>. QED
  BY <1>1, <1>2

\* The inductive invariant holds in every behaviour; NoKey stands for a row that
\* is not there (ApiKeyAuthGuard, ModerationService, UserService).
THEOREM ApiKeyInvariant == KeySpec => []ApiKeyInv
<1>1. KeyInit => ApiKeyInv
  BY ApiKeyInit, KeyAssumption
<1>2. ApiKeyInv /\ [KeyNext]_keyVars => ApiKeyInv'
  BY ApiKeyNext, KeyAssumption
<1>. QED
  BY <1>1, <1>2, PTL DEF KeySpec

\* Keys, requests and what is remembered of them keep their types.
THEOREM ApiKeysTyped == KeySpec => []KeyTypeOK
<1>1. ApiKeyInv => KeyTypeOK
  BY DEF ApiKeyInv
<1>. QED
  BY <1>1, ApiKeyInvariant, PTL

\* A request that starts after its owner was frozen or has withdrawn gets past
\* no guard, for any number of users and requests (ApiKeyAuthGuard).
THEOREM LeaversAreRefused == KeySpec => []NoServiceAfterLeaving
<1>1. ApiKeyInv => NoServiceAfterLeaving
  BY DEF ApiKeyInv
<1>. QED
  BY <1>1, ApiKeyInvariant, PTL

\* No step, a late write of the last use included, makes a revoked key active
\* again (touchLastUsed, createApiKey).
THEOREM RevocationsHold == KeySpec => []RevokedForGood
<1>1. ApiKeyInv => RevokedForGood
  BY DEF ApiKeyInv
<1>. QED
  BY <1>1, ApiKeyInvariant, PTL

\* A freeze that is over and did not die left its user no active key but those
\* made during it (freezeUser).
THEOREM FreezesRevokeKeys == KeySpec => []FreezeRevokesKeys
<1>1. ApiKeyInv => FreezeRevokesKeys
  BY DEF ApiKeyInv
<1>. QED
  BY <1>1, ApiKeyInvariant, PTL
-----------------------------------------------------------------------------
(* Sessions: the inductive invariant                                       *)

WithSession == {"resolve", "renew", "put", "user", "admitted", "write"}

\* Session ids that are in use have been drawn.
SidsKnown ==
  /\ loggedOut \cup sessions \subseteq known
  /\ \A b \in Browsers : cookie[b] # NoSid => cookie[b] \in known
  /\ \A r \in Requests : at[r].pc \in {"cookie"} \cup WithSession => at[r].sid \in known

\* A request that is about to put a session back that was logged out was there
\* before the logout.
RenewalsNoted ==
  \A r \in Requests : at[r].pc = "put" /\ at[r].sid \in loggedOut => at[r].sid \in renewing

\* The requests that opened the link with token t.
Holders(t) == {r \in Requests : at[r].pc \in {"consume", "owner", "reset"} /\ at[r].token = t}

\* A token that no two requests got at once has one holder, which deletes it
\* before it sets the password, and none after that.
TokenOK(t) ==
  /\ t \notin known => t \notin resets /\ spent[t] = 0 /\ Holders(t) = {}
  /\ t \notin shared =>
       /\ \A q, r \in Holders(t) : q = r
       /\ \A r \in Holders(t) : at[r].pc # "consume" => t \notin resets /\ spent[t] = 0
       /\ spent[t] # 0 => spent[t] = 1 /\ t \notin resets /\ Holders(t) = {}

\* A request that came after the withdrawal, and saw no revival, has come no
\* farther than to look for the user.
StartsOK ==
  \A r \in Requests :
    at[r].pc \in {"verify", "create"} \cup WithSession /\ at[r].barred
      => account = "withdrawn" /\ at[r].pc \in WithSession \ {"admitted", "write"}

SessionInv ==
  /\ Session!TypeOK /\ SidsKnown /\ RenewalsNoted /\ LogoutHolds
  /\ \A t \in Tokens : TokenOK(t)
  /\ StartsOK

LoggingIn == [pc : {"verify", "create"}, browser : Browsers, password : Passwords, barred : BOOLEAN]
Keeping == [pc : {"cookie"}, browser : Browsers, sid : Sids]
Viewing == [pc : WithSession, browser : Browsers, sid : Sids, op : Session!Operations,
            barred : BOOLEAN]
Resetting == [pc : {"consume", "owner", "reset"}, token : Tokens, new : Passwords]

USE DEF Session!Idle

\* The state of a request tells by its pc which record it is.
LEMMA SessionStates ==
  ASSUME Session!TypeOK, NEW r \in Requests
  PROVE  /\ at[r].pc \in {"verify", "create"} => at[r] \in LoggingIn
         /\ at[r].pc = "cookie" => at[r] \in Keeping
         /\ at[r].pc \in WithSession => at[r] \in Viewing
         /\ at[r].pc \in {"consume", "owner", "reset"} => at[r] \in Resetting
         /\ at[r].pc = "idle" => at[r] = Session!Idle
BY DEF Session!TypeOK, Session!Request, LoggingIn, Keeping, Viewing, Resetting, WithSession

LEMMA SessionGoto ==
  ASSUME Session!TypeOK, NEW r \in Requests, NEW s, Session!Goto(r, s)
  PROVE  /\ at'[r] = s
         /\ \A q \in Requests \ {r} : at'[q] = at[q]
         /\ at' = [at EXCEPT ![r] = s]
BY DEF Session!TypeOK, Session!Goto

\* What a step leaves of the tokens: nobody gets one, none is spent.
LEMMA TokensKept ==
  ASSUME SessionInv, UNCHANGED <<spent, shared>>,
         resets' \subseteq resets, known \subseteq known',
         \A q \in Requests : at'[q] = at[q] \/ at'[q].pc \notin {"consume", "owner", "reset"}
  PROVE  \A t \in Tokens : TokenOK(t)'
<1> TAKE t \in Tokens
<1>1. TokenOK(t)
  BY DEF SessionInv
<1>2. Holders(t)' \subseteq Holders(t) /\ \A q \in Holders(t)' : at'[q] = at[q]
  BY DEF Holders
<1>. QED
  BY <1>1, <1>2 DEF TokenOK

\* A step of one request that neither gets a token nor logs out, and takes the
\* request to a state it may be in.
LEMMA SessionStep ==
  ASSUME SessionInv, NEW r \in Requests, NEW s, Session!Goto(r, s),
         s \in {Session!Idle} \cup LoggingIn \cup Keeping \cup Viewing,
         UNCHANGED <<resets, loggedOut, renewing, spent, shared>>,
         account' \in {"live", "withdrawn"}, account = "withdrawn" => account' = "withdrawn",
         password' \in Passwords,
         known \subseteq known', known' \subseteq Sids \cup Tokens,
         sessions' \subseteq Sids \cap known',
         (sessions' \ sessions) \cap loggedOut \subseteq renewing,
         cookie' \in [Browsers -> Sids \cup {NoSid}],
         \A b \in Browsers : cookie'[b] = cookie[b] \/ cookie'[b] \in known \cup {NoSid},
         s.pc \in {"cookie"} \cup WithSession => s.sid \in known',
         s.pc = "put" => s.sid \notin loggedOut \ renewing,
         s.pc \in {"verify", "create"} \cup WithSession /\ s.barred
           => account = "withdrawn" /\ s.pc \in WithSession \ {"admitted", "write"}
  PROVE  SessionInv'
<1>1. /\ at'[r] = s /\ \A q \in Requests \ {r} : at'[q] = at[q]
      /\ at' = [at EXCEPT ![r] = s]
  BY SessionGoto DEF SessionInv
<1>2. Session!TypeOK'
  <2>1. s \in {Session!Idle} \cup Session!Request
    BY DEF Session!Request, LoggingIn, Keeping, Viewing, WithSession
  <2>. QED
    BY <1>1, <2>1 DEF SessionInv, Session!TypeOK
<1>3. SidsKnown'
  BY <1>1 DEF SessionInv, SidsKnown
<1>4. RenewalsNoted' /\ LogoutHolds'
  BY <1>1 DEF SessionInv, RenewalsNoted, LogoutHolds, Session!LogoutHolds
<1>5. \A t \in Tokens : TokenOK(t)'
  <2>1. s.pc \notin {"consume", "owner", "reset"}
    BY DEF LoggingIn, Keeping, Viewing, WithSession
  <2>. QED
    BY <1>1, <2>1, TokensKept
<1>6. StartsOK'
  BY <1>1 DEF SessionInv, StartsOK
<1>. QED
  BY <1>2, <1>3, <1>4, <1>5, <1>6 DEF SessionInv

\* A step of the reset links, of which the tokens are looked at alone.
LEMMA ResetStep ==
  ASSUME SessionInv, UNCHANGED <<account, sessions, cookie, loggedOut, renewing>>,
         password' \in Passwords,
         known \subseteq known', known' \subseteq Sids \cup Tokens,
         resets' \subseteq Tokens, shared' \subseteq Tokens, spent' \in [Tokens -> Nat],
         at' \in [Requests -> {Session!Idle} \cup Session!Request],
         \A q \in Requests : at'[q] = at[q] \/ at'[q] \in {Session!Idle} \cup Resetting,
         \A t \in Tokens : TokenOK(t)'
  PROVE  SessionInv'
<1>1. Session!TypeOK'
  BY DEF SessionInv, Session!TypeOK
<1>2. SidsKnown' /\ RenewalsNoted' /\ LogoutHolds' /\ StartsOK'
  BY DEF SessionInv, SidsKnown, RenewalsNoted, LogoutHolds, Session!LogoutHolds, StartsOK,
         Resetting, WithSession
<1>. QED
  BY <1>1, <1>2 DEF SessionInv

-----------------------------------------------------------------------------
(* Sessions: login                                                         *)

LEMMA LoginStep ==
  ASSUME SessionInv, NEW r \in Requests, NEW b \in Browsers, NEW w \in Passwords,
         Session!Login(r, b, w)
  PROVE  SessionInv'
<1> DEFINE s == [pc |-> "verify", browser |-> b, password |-> w, barred |-> account = "withdrawn"]
<1>1. s \in LoggingIn /\ s.pc = "verify" /\ s.barred = (account = "withdrawn")
  BY DEF LoggingIn
<1>2. /\ Session!Goto(r, s) /\ account = "live"
      /\ UNCHANGED <<account, password, sessions, resets, cookie, known, loggedOut, renewing, spent, shared>>
  BY DEF Session!Login, Session!FoundUser, Session!stores, Session!history
<1> HIDE DEF s
<1>. QED
  BY <1>1, <1>2, SessionStep DEF SessionInv, Session!TypeOK, SidsKnown, WithSession

LEMMA VerifyPasswordStep ==
  ASSUME SessionInv, NEW r \in Requests, Session!VerifyPassword(r)
  PROVE  SessionInv'
<1> DEFINE s == [at[r] EXCEPT !.pc = "create"]
<1>1. at[r].pc = "verify" /\ at[r] \in LoggingIn /\ ~at[r].barred
  BY SessionStates DEF SessionInv, Session!VerifyPassword, StartsOK, LoggingIn, WithSession
<1>2. s \in LoggingIn /\ s.pc = "create" /\ ~s.barred
  BY <1>1 DEF LoggingIn
<1>3. /\ Session!Goto(r, s) \/ Session!Goto(r, Session!Idle)
      /\ UNCHANGED <<account, password, sessions, resets, cookie, known, loggedOut, renewing, spent, shared>>
  BY DEF Session!VerifyPassword, Session!Step, Session!Goto, Session!stores, Session!history
<1> HIDE DEF s
<1>. QED
  BY <1>2, <1>3, SessionStep DEF SessionInv, Session!TypeOK, SidsKnown, WithSession

LEMMA CreateSessionStep ==
  ASSUME SessionInv, NEW r \in Requests, NEW i \in Sids, Session!CreateSession(r, i)
  PROVE  SessionInv'
<1> DEFINE s == [pc |-> "cookie", browser |-> at[r].browser, sid |-> i]
<1>1. at[r] \in LoggingIn
  BY SessionStates DEF SessionInv, Session!CreateSession
<1>2. s \in Keeping /\ s.pc = "cookie" /\ s.sid = i
  BY <1>1 DEF Keeping, LoggingIn
<1>3. /\ Session!Goto(r, s) /\ i \notin known
      /\ known' = known \cup {i} /\ sessions' = sessions \cup {i}
      /\ UNCHANGED <<account, password, resets, cookie, loggedOut, renewing, spent, shared>>
  BY DEF Session!CreateSession
<1> HIDE DEF s
<1>. QED
  BY <1>2, <1>3, SessionStep DEF SessionInv, Session!TypeOK, SidsKnown, WithSession

LEMMA SetSessionStep ==
  ASSUME SessionInv, NEW r \in Requests, Session!SetSession(r)
  PROVE  SessionInv'
<1>1. at[r] \in Keeping /\ at[r].sid \in known
  BY SessionStates DEF SessionInv, SidsKnown, Session!SetSession
<1>2. /\ Session!Goto(r, Session!Idle)
      /\ cookie' = [cookie EXCEPT ![at[r].browser] = at[r].sid]
      /\ UNCHANGED <<account, password, sessions, resets, known, loggedOut, renewing, spent, shared>>
  BY DEF Session!SetSession, Session!stores, Session!history
<1>3. /\ cookie' \in [Browsers -> Sids \cup {NoSid}]
      /\ \A b \in Browsers : cookie'[b] = cookie[b] \/ cookie'[b] \in known \cup {NoSid}
  BY <1>1, <1>2 DEF SessionInv, Session!TypeOK, Keeping
<1>. QED
  BY <1>2, <1>3, SessionStep DEF SessionInv, Session!TypeOK, SidsKnown, WithSession

-----------------------------------------------------------------------------
(* Sessions: requests with a session                                       *)

LEMMA AskStep ==
  ASSUME SessionInv, NEW r \in Requests, NEW b \in Browsers, NEW op \in Session!Operations,
         Session!Ask(r, b, op)
  PROVE  SessionInv'
<1> DEFINE s == [pc |-> "resolve", browser |-> b, sid |-> cookie[b], op |-> op,
                 barred |-> account = "withdrawn"]
<1>1. cookie[b] \in Sids \cap known
  BY DEF SessionInv, SidsKnown, Session!TypeOK, Session!Ask
<1>2. s \in Viewing /\ s.pc = "resolve" /\ s.sid = cookie[b] /\ s.barred = (account = "withdrawn")
  BY <1>1 DEF Viewing, WithSession
<1>3. /\ Session!Goto(r, s)
      /\ UNCHANGED <<account, password, sessions, resets, cookie, known, loggedOut, renewing, spent, shared>>
  BY DEF Session!Ask, Session!stores, Session!history
<1> HIDE DEF s
<1>. QED
  BY <1>1, <1>2, <1>3, SessionStep DEF SessionInv, Session!TypeOK, SidsKnown, WithSession

\* A request with a session goes on, or ends and may drop the cookie.
LEMMA ViewStep ==
  ASSUME SessionInv, NEW r \in Requests, at[r].pc \in WithSession, NEW pc \in WithSession,
         \/ Session!Step(r, pc) /\ UNCHANGED cookie
         \/ Session!Goto(r, Session!Idle) /\ UNCHANGED cookie
         \/ Session!Refused(r),
         UNCHANGED <<account, password, resets, known, loggedOut, renewing, spent, shared>>,
         sessions' \subseteq sessions \cup {at[r].sid},
         at[r].sid \in sessions' \ sessions => at[r].sid \notin loggedOut \ renewing,
         pc = "put" => at[r].sid \notin loggedOut \ renewing,
         pc \in {"admitted", "write"} => ~at[r].barred
  PROVE  SessionInv'
<1> DEFINE s == [at[r] EXCEPT !.pc = pc]
<1>1. at[r] \in Viewing /\ at[r].sid \in known /\ (at[r].barred => account = "withdrawn")
  BY SessionStates DEF SessionInv, SidsKnown, StartsOK, WithSession
<1>2. s \in Viewing /\ s.pc = pc /\ s.sid = at[r].sid /\ s.barred = at[r].barred
  BY <1>1 DEF Viewing
<1>3. /\ cookie' \in [Browsers -> Sids \cup {NoSid}]
      /\ \A b \in Browsers : cookie'[b] = cookie[b] \/ cookie'[b] \in known \cup {NoSid}
  BY DEF SessionInv, Session!TypeOK, Session!Refused
<1>4. /\ sessions' \subseteq Sids \cap known
      /\ (sessions' \ sessions) \cap loggedOut \subseteq renewing
  BY <1>1 DEF SessionInv, Session!TypeOK, SidsKnown, Viewing
<1>5. Session!Goto(r, s) \/ Session!Goto(r, Session!Idle)
  BY DEF Session!Step, Session!Goto, Session!Refused
<1> HIDE DEF s
<1>6. CASE Session!Goto(r, s)
  BY <1>1, <1>2, <1>3, <1>4, <1>6, SessionStep DEF SessionInv, Session!TypeOK, WithSession
<1>7. CASE Session!Goto(r, Session!Idle)
  BY <1>3, <1>4, <1>7, SessionStep DEF SessionInv, Session!TypeOK, WithSession
<1>. QED
  BY <1>5, <1>6, <1>7

LEMMA ResolveSessionStep ==
  ASSUME SessionInv, NEW r \in Requests, Session!ResolveSession(r)
  PROVE  SessionInv'
BY ViewStep DEF Session!ResolveSession, Session!stores, Session!history, WithSession

\* The get of the renewal finds no session that was logged out, unless a
\* request is putting it back.
LEMMA RenewGetStep ==
  ASSUME SessionInv, NEW r \in Requests, Session!RenewGet(r)
  PROVE  SessionInv'
<1> DEFINE pc == IF at[r].sid \in sessions THEN "put" ELSE "user"
<1>1. /\ at[r].pc = "renew" /\ Session!Step(r, pc)
      /\ UNCHANGED <<account, password, sessions, resets, cookie, known, loggedOut, renewing, spent, shared>>
  BY DEF Session!RenewGet, Session!StillThere, Session!stores, Session!history
<1>2. pc \in {"put", "user"} /\ (pc = "put" => at[r].sid \notin loggedOut \ renewing)
  BY DEF SessionInv, LogoutHolds, Session!LogoutHolds
<1> HIDE DEF pc
<1>. QED
  BY <1>1, <1>2, ViewStep DEF WithSession

LEMMA RenewPutStep ==
  ASSUME SessionInv, NEW r \in Requests, Session!RenewPut(r)
  PROVE  SessionInv'
BY ViewStep DEF Session!RenewPut, Session!history, WithSession, SessionInv, RenewalsNoted

LEMMA FindUserStep ==
  ASSUME SessionInv, NEW r \in Requests, Session!FindUser(r)
  PROVE  SessionInv'
<1>1. /\ at[r].pc = "user"
      /\ UNCHANGED <<account, password, sessions, resets, known, loggedOut, renewing, spent, shared>>
  BY DEF Session!FindUser, Session!stores, Session!history
<1>2. CASE account = "live" /\ Session!Step(r, "admitted") /\ UNCHANGED cookie
  <2>1. ~at[r].barred
    BY <1>1, <1>2 DEF SessionInv, StartsOK, WithSession
  <2>. QED
    BY <1>1, <1>2, <2>1, ViewStep DEF WithSession
<1>3. CASE Session!Refused(r)
  BY <1>1, <1>3, ViewStep DEF WithSession
<1>. QED
  BY <1>2, <1>3 DEF Session!FindUser, Session!FoundUser

LEMMA ServeStep ==
  ASSUME SessionInv, NEW r \in Requests, Session!Serve(r)
  PROVE  SessionInv'
<1>1. /\ at[r].pc = "admitted"
      /\ Session!Step(r, "write") \/ Session!Goto(r, Session!Idle)
      /\ UNCHANGED <<account, password, sessions, resets, cookie, known, loggedOut, renewing, spent, shared>>
  BY DEF Session!Serve, Session!stores, Session!history
<1>2. ~at[r].barred
  BY <1>1 DEF SessionInv, StartsOK, WithSession
<1>. QED
  BY <1>1, <1>2, ViewStep DEF WithSession

LEMMA StorePasswordStep ==
  ASSUME SessionInv, NEW r \in Requests, Session!StorePassword(r)
  PROVE  SessionInv'
<1>1. /\ at[r].pc = "write" /\ at[r].op.kind = "change" /\ Session!Goto(r, Session!Idle)
      /\ password' = at[r].op.new
      /\ UNCHANGED <<account, sessions, resets, cookie, known, loggedOut, renewing, spent, shared>>
  BY DEF Session!StorePassword
<1>2. at[r].op \in Session!Operations
  BY <1>1, SessionStates DEF SessionInv, WithSession, Viewing
<1>3. password' \in Passwords
  BY <1>1, <1>2 DEF Session!Operations
<1>. QED
  BY <1>1, <1>3, SessionStep DEF SessionInv, Session!TypeOK, SidsKnown, WithSession

LEMMA WithdrawStep ==
  ASSUME SessionInv, NEW r \in Requests, Session!Withdraw(r)
  PROVE  SessionInv'
<1>1. /\ account' = "withdrawn" /\ Session!Goto(r, Session!Idle)
      /\ cookie' = [cookie EXCEPT ![at[r].browser] = NoSid]
      /\ UNCHANGED <<password, sessions, resets, known, loggedOut, renewing, spent, shared>>
  BY DEF Session!Withdraw, Session!history
<1>2. /\ cookie' \in [Browsers -> Sids \cup {NoSid}]
      /\ \A b \in Browsers : cookie'[b] = cookie[b] \/ cookie'[b] \in known \cup {NoSid}
  BY <1>1 DEF SessionInv, Session!TypeOK
<1>. QED
  BY <1>1, <1>2, SessionStep DEF SessionInv, Session!TypeOK, SidsKnown, WithSession

\* A revival bars nobody any more.
LEMMA ReviveStep ==
  ASSUME SessionInv, Session!Revive
  PROVE  SessionInv'
<1>1. /\ account' = "live"
      /\ UNCHANGED <<password, sessions, resets, cookie, known, loggedOut, renewing, spent, shared>>
  BY DEF Session!Revive, Session!history
<1>2. ASSUME NEW r \in Requests
      PROVE  /\ at'[r].pc = at[r].pc /\ at'[r] \in {Session!Idle} \cup Session!Request
             /\ at[r].pc \in {"cookie"} \cup WithSession => at'[r].sid = at[r].sid
             /\ at[r].pc \in {"verify", "create"} \cup WithSession => ~at'[r].barred
             /\ at[r].pc \in {"idle", "cookie", "consume", "owner", "reset"} => at'[r] = at[r]
  <2>1. CASE at[r].pc \in {"verify", "create"}
    <3>1. at[r] \in LoggingIn /\ at'[r] = [at[r] EXCEPT !.barred = FALSE]
      BY <2>1, SessionStates DEF SessionInv, Session!Revive, Session!Barrable
    <3>. QED
      BY <2>1, <3>1 DEF LoggingIn, WithSession, Session!Request
  <2>2. CASE at[r].pc \in WithSession
    <3>1. at[r] \in Viewing /\ at'[r] = [at[r] EXCEPT !.barred = FALSE]
      BY <2>2, SessionStates DEF SessionInv, Session!Revive, Session!Barrable, WithSession
    <3>. QED
      BY <2>2, <3>1 DEF Viewing, WithSession, Session!Request
  <2>3. CASE at[r].pc \in {"idle", "cookie", "consume", "owner", "reset"}
    <3>1. at'[r] = at[r]
      BY <2>3 DEF Session!Revive, Session!Barrable
    <3>. QED
      BY <2>3, <3>1 DEF SessionInv, Session!TypeOK, WithSession
  <2>. QED
    BY <2>1, <2>2, <2>3 DEF SessionInv, Session!TypeOK, Session!Request, WithSession
<1>3. Session!TypeOK'
  <2>1. at' = [r \in Requests |-> at'[r]]
    BY DEF Session!Revive
  <2>. QED
    BY <1>1, <1>2, <2>1 DEF SessionInv, Session!TypeOK
<1>4. \A r \in Requests :
        /\ at'[r].pc = at[r].pc
        /\ at[r].pc \in {"cookie"} \cup WithSession => at'[r].sid = at[r].sid
  BY <1>2
<1>5. SidsKnown'
  BY <1>1, <1>4 DEF SessionInv, SidsKnown
<1>6. RenewalsNoted' /\ LogoutHolds'
  BY <1>1, <1>4 DEF SessionInv, RenewalsNoted, LogoutHolds, Session!LogoutHolds, WithSession
<1>7. StartsOK'
  BY <1>2 DEF StartsOK
<1>8. \A q \in Requests : at'[q] = at[q] \/ at'[q].pc \notin {"consume", "owner", "reset"}
  BY <1>2
<1>9. \A t \in Tokens : TokenOK(t)'
  BY <1>1, <1>8, TokensKept
<1>. QED
  BY <1>3, <1>5, <1>6, <1>7, <1>9 DEF SessionInv

LEMMA SessionAbortStep ==
  ASSUME SessionInv, NEW r \in Requests, Session!Abort(r)
  PROVE  SessionInv'
BY SessionStep DEF Session!Abort, Session!stores, Session!history, SessionInv, Session!TypeOK,
   SidsKnown, WithSession

\* A logout notes the renewals it overtakes.
LEMMA LogoutStep ==
  ASSUME SessionInv, NEW r \in Requests, NEW b \in Browsers, Session!Logout(r, b)
  PROVE  SessionInv'
<1>1. /\ cookie[b] \in Sids \cap known
      /\ cookie' = [cookie EXCEPT ![b] = NoSid]
      /\ UNCHANGED <<account, password, resets, at, known, spent, shared>>
  BY DEF SessionInv, Session!TypeOK, SidsKnown, Session!Logout
<1>2. /\ sessions' \subseteq sessions /\ loggedOut \subseteq loggedOut'
      /\ loggedOut' \subseteq loggedOut \cup {cookie[b]}
      /\ renewing \subseteq renewing' /\ renewing' \subseteq renewing \cup {cookie[b]}
      /\ loggedOut' # loggedOut => cookie[b] \notin sessions'
      /\ loggedOut' # loggedOut =>
           \A q \in Requests : at[q].pc = "put" /\ at[q].sid = cookie[b] => cookie[b] \in renewing'
  BY DEF Session!Logout
<1>3. Session!TypeOK'
  BY <1>1, <1>2 DEF SessionInv, Session!TypeOK
<1>4. SidsKnown'
  BY <1>1, <1>2 DEF SessionInv, Session!TypeOK, SidsKnown
<1>5. RenewalsNoted' /\ LogoutHolds'
  BY <1>1, <1>2 DEF SessionInv, RenewalsNoted, LogoutHolds, Session!LogoutHolds
<1>6. \A t \in Tokens : TokenOK(t)'
  BY <1>1, TokensKept
<1>7. StartsOK'
  BY <1>1 DEF SessionInv, StartsOK
<1>. QED
  BY <1>3, <1>4, <1>5, <1>6, <1>7 DEF SessionInv

-----------------------------------------------------------------------------
(* Sessions: password reset                                                *)

\* A token that is drawn has no past.
LEMMA RequestPasswordResetStep ==
  ASSUME SessionInv, NEW t \in Tokens, Session!RequestPasswordReset(t)
  PROVE  SessionInv'
<1>1. /\ t \notin known /\ known' = known \cup {t} /\ resets' = resets \cup {t}
      /\ UNCHANGED <<account, password, sessions, cookie, at, loggedOut, renewing, spent, shared>>
  BY DEF Session!RequestPasswordReset
<1>2. ASSUME NEW u \in Tokens PROVE TokenOK(u)'
  <2>1. TokenOK(u) /\ TokenOK(t) /\ Holders(u)' = Holders(u)
    BY <1>1 DEF SessionInv, Holders
  <2>2. CASE u = t
    BY <1>1, <2>1, <2>2 DEF TokenOK
  <2>3. CASE u # t
    BY <1>1, <2>1, <2>3 DEF TokenOK
  <2>. QED
    BY <2>2, <2>3
<1>. QED
  BY <1>1, <1>2, ResetStep DEF SessionInv, Session!TypeOK

\* A second holder of a token that is still there is noted.
LEMMA OpenResetLinkStep ==
  ASSUME SessionInv, NEW r \in Requests, NEW t \in Tokens, NEW w \in Passwords,
         Session!OpenResetLink(r, t, w)
  PROVE  SessionInv'
<1> DEFINE s == [pc |-> "consume", token |-> t, new |-> w]
<1>1. /\ Session!Goto(r, s) /\ t \in resets /\ at[r] = Session!Idle
      /\ shared \subseteq shared' /\ shared' \subseteq shared \cup {t}
      /\ UNCHANGED <<account, password, sessions, resets, cookie, known, loggedOut, renewing, spent>>
  BY DEF Session!OpenResetLink, Session!stores
<1>2. s \in Resetting /\ s \in Session!Request /\ s.pc = "consume" /\ s.token = t
  BY DEF Resetting, Session!Request
<1>3. (\E q \in Requests : at[q].pc = "consume" /\ at[q].token = t) => t \in shared'
  BY DEF Session!OpenResetLink
<1> HIDE DEF s
<1>4. at'[r] = s /\ \A q \in Requests \ {r} : at'[q] = at[q]
  BY <1>1, SessionGoto DEF SessionInv
<1>5. ASSUME NEW u \in Tokens PROVE TokenOK(u)'
  <2>1. TokenOK(u)
    BY DEF SessionInv
  <2>2. CASE u # t
    <3>1. Holders(u)' = Holders(u) /\ \A q \in Holders(u) : at'[q] = at[q]
      BY <1>1, <1>2, <1>4, <2>2 DEF Holders
    <3>. QED
      BY <1>1, <2>1, <2>2, <3>1 DEF TokenOK
  <2>3. CASE u = t
    <3>1. t \in known
      BY <1>1, <2>1, <2>3 DEF TokenOK
    <3>2. ASSUME t \notin shared'
          PROVE  Holders(t)' = {r} /\ at'[r].pc = "consume" /\ spent[t] = 0
      <4>1. t \notin shared /\ Holders(t) = {}
        BY <1>1, <1>3, <2>1, <2>3, <3>2 DEF TokenOK, Holders
      <4>. QED
        BY <1>1, <1>2, <1>4, <2>1, <2>3, <4>1 DEF TokenOK, Holders
    <3>. QED
      BY <1>1, <2>3, <3>1, <3>2 DEF TokenOK
  <2>. QED
    BY <2>2, <2>3
<1>6. at' \in [Requests -> {Session!Idle} \cup Session!Request]
  BY <1>1, <1>2 DEF SessionInv, Session!TypeOK, Session!Goto
<1>. QED
  BY <1>1, <1>2, <1>4, <1>5, <1>6, ResetStep DEF SessionInv, Session!TypeOK

\* A holder of a token goes on, with the token deleted, or ends.
LEMMA HolderStep ==
  ASSUME SessionInv, NEW r \in Requests, at[r].pc \in {"consume", "owner", "reset"},
         NEW s \in {Session!Idle} \cup Resetting, Session!Goto(r, s),
         UNCHANGED <<account, sessions, cookie, known, loggedOut, renewing, shared>>,
         password' \in Passwords, resets' \subseteq resets,
         s.pc \in {"idle", "owner", "reset"}, s.pc # "idle" => s.token = at[r].token,
         s.pc # "idle" /\ at[r].pc = "consume" => at[r].token \notin resets',
         \/ UNCHANGED spent
         \/ /\ at[r].pc = "reset" /\ s.pc = "idle"
            /\ spent' = [spent EXCEPT ![at[r].token] = spent[at[r].token] + 1]
  PROVE  SessionInv'
<1> PICK t \in Tokens : t = at[r].token
  BY SessionStates DEF SessionInv, Resetting
<1>1. at[r] \in Resetting /\ r \in Holders(t)
  BY SessionStates DEF SessionInv, Holders
<1>2. at'[r] = s /\ \A q \in Requests \ {r} : at'[q] = at[q]
  BY SessionGoto DEF SessionInv
<1>3. /\ spent' \in [Tokens -> Nat]
      /\ \A u \in Tokens \ {t} : spent'[u] = spent[u]
      /\ \/ spent'[t] = spent[t]
         \/ at[r].pc = "reset" /\ s.pc = "idle" /\ spent'[t] = spent[t] + 1
  BY <1>1 DEF SessionInv, Session!TypeOK
<1>4. ASSUME NEW u \in Tokens PROVE TokenOK(u)'
  <2>1. TokenOK(u)
    BY DEF SessionInv
  <2>2. CASE u # t
    <3>1. Holders(u)' = Holders(u) /\ \A q \in Holders(u) : at'[q] = at[q]
      BY <1>2, <2>2 DEF Holders
    <3>. QED
      BY <1>3, <2>1, <2>2, <3>1 DEF TokenOK
  <2>3. CASE u = t
    <3>1. t \in known /\ Holders(t)' \subseteq Holders(t)
      BY <1>1, <1>2, <2>1, <2>3 DEF TokenOK, Holders
    <3>2. ASSUME t \notin shared
          PROVE  /\ Holders(t) = {r} /\ spent[t] = 0
                 /\ at[r].pc # "consume" => t \notin resets
                 /\ Holders(t)' = IF s.pc = "idle" THEN {} ELSE {r}
      <4>1. Holders(t) = {r} /\ spent[t] = 0 /\ (at[r].pc # "consume" => t \notin resets)
        BY <1>1, <2>1, <2>3, <3>2 DEF TokenOK
      <4>. QED
        BY <1>2, <4>1 DEF Holders
    <3>3. spent[t] = 0 /\ spent'[t] # 0 => spent'[t] = 1
      BY <1>3
    <3>. QED
      BY <1>2, <1>3, <2>3, <3>1, <3>2, <3>3 DEF TokenOK
  <2>. QED
    BY <2>2, <2>3
<1>5. at' \in [Requests -> {Session!Idle} \cup Session!Request]
  <2>1. s \in {Session!Idle} \cup Session!Request
    BY DEF Resetting, Session!Request
  <2>. QED
    BY <2>1 DEF SessionInv, Session!TypeOK, Session!Goto
<1>. QED
  BY <1>2, <1>3, <1>4, <1>5, ResetStep DEF SessionInv, Session!TypeOK

LEMMA DeleteTokenStep ==
  ASSUME SessionInv, NEW r \in Requests, Session!DeleteToken(r)
  PROVE  SessionInv'
<1> DEFINE s == [at[r] EXCEPT !.pc = "owner"]
<1>1. /\ at[r].pc = "consume" /\ Session!Goto(r, s) /\ resets' = resets \ {at[r].token}
      /\ UNCHANGED <<account, password, sessions, cookie, known, loggedOut, renewing, spent, shared>>
  BY DEF Session!DeleteToken, Session!Consumed, Session!Step, Session!Goto, Session!history
<1>2. s \in Resetting /\ s.pc = "owner" /\ s.token = at[r].token
  BY <1>1, SessionStates DEF SessionInv, Resetting
<1> HIDE DEF s
<1>. QED
  BY <1>1, <1>2, HolderStep DEF SessionInv, Session!TypeOK

LEMMA FindTokenOwnerStep ==
  ASSUME SessionInv, NEW r \in Requests, Session!FindOwner(r)
  PROVE  SessionInv'
<1> DEFINE s == [at[r] EXCEPT !.pc = "reset"]
<1>1. /\ at[r].pc = "owner"
      /\ Session!Goto(r, s) \/ Session!Goto(r, Session!Idle)
      /\ UNCHANGED <<account, password, sessions, resets, cookie, known, loggedOut, renewing, spent, shared>>
  BY DEF Session!FindOwner, Session!Step, Session!Goto, Session!stores, Session!history
<1>2. s \in Resetting /\ s.pc = "reset" /\ s.token = at[r].token
  BY <1>1, SessionStates DEF SessionInv, Resetting
<1> HIDE DEF s
<1>. QED
  BY <1>1, <1>2, HolderStep DEF SessionInv, Session!TypeOK

LEMMA ResetPasswordStep ==
  ASSUME SessionInv, NEW r \in Requests, Session!ResetPassword(r)
  PROVE  SessionInv'
<1>1. /\ at[r].pc = "reset" /\ Session!Goto(r, Session!Idle) /\ password' = at[r].new
      /\ spent' = [spent EXCEPT ![at[r].token] = spent[at[r].token] + 1]
      /\ UNCHANGED <<account, sessions, resets, cookie, known, loggedOut, renewing, shared>>
  BY DEF Session!ResetPassword
<1>2. password' \in Passwords
  BY <1>1, SessionStates DEF SessionInv, Resetting
<1>. QED
  BY <1>1, <1>2, HolderStep

LEMMA SessionExpireStep ==
  ASSUME SessionInv, Session!Expire
  PROVE  SessionInv'
<1>1. /\ sessions' \subseteq sessions /\ resets' \subseteq resets
      /\ cookie' \in [Browsers -> Sids \cup {NoSid}]
      /\ \A b \in Browsers : cookie'[b] \in {cookie[b], NoSid}
      /\ UNCHANGED <<account, password, at, known, loggedOut, renewing, spent, shared>>
  BY DEF Session!Expire, Session!history, SessionInv, Session!TypeOK
<1>2. Session!TypeOK'
  BY <1>1 DEF SessionInv, Session!TypeOK
<1>3. SidsKnown' /\ RenewalsNoted' /\ LogoutHolds' /\ StartsOK'
  BY <1>1 DEF SessionInv, SidsKnown, RenewalsNoted, LogoutHolds, Session!LogoutHolds, StartsOK
<1>4. \A t \in Tokens : TokenOK(t)'
  BY <1>1, TokensKept
<1>. QED
  BY <1>2, <1>3, <1>4 DEF SessionInv

-----------------------------------------------------------------------------
(* Sessions: the invariant                                                 *)

LEMMA SessionInit == ASSUME Session!Init PROVE SessionInv
<1>1. Session!TypeOK /\ SidsKnown /\ RenewalsNoted /\ LogoutHolds /\ StartsOK
  BY DEF Session!Init, Session!TypeOK, SidsKnown, RenewalsNoted, LogoutHolds,
         Session!LogoutHolds, StartsOK, WithSession
<1>2. ASSUME NEW t \in Tokens PROVE TokenOK(t)
  <2>1. Holders(t) = {} /\ resets = {} /\ spent[t] = 0
    BY DEF Session!Init, Holders
  <2>. QED
    BY <2>1 DEF TokenOK
<1>. QED
  BY <1>1, <1>2 DEF SessionInv

LEMMA SessionNext ==
  ASSUME SessionInv, [Session!Next]_(Session!vars)
  PROVE  SessionInv'
<1>1. CASE UNCHANGED Session!vars
  <2>1. \A t \in Tokens : TokenOK(t)'
    BY <1>1, TokensKept DEF Session!vars
  <2>. QED
    BY <1>1, <2>1 DEF Session!vars, SessionInv, Session!TypeOK, SidsKnown, RenewalsNoted,
       LogoutHolds, Session!LogoutHolds, StartsOK
<1>2. CASE Session!Others
  BY <1>2, LoginStep, VerifyPasswordStep, CreateSessionStep, SetSessionStep, AskStep,
     ResolveSessionStep, RenewGetStep, RenewPutStep, FindUserStep, ServeStep, WithdrawStep,
     ReviveStep, LogoutStep, SessionAbortStep, SessionExpireStep, RequestPasswordResetStep,
     OpenResetLinkStep, DeleteTokenStep, FindTokenOwnerStep DEF Session!Others
<1>3. CASE \E r \in Requests : Session!Replacing(r)
  BY <1>3, StorePasswordStep, ResetPasswordStep DEF Session!Replacing
<1>. QED
  BY <1>1, <1>2, <1>3 DEF Session!Next
-----------------------------------------------------------------------------
(* The list of profiles: its order                                         *)

Keyed == [at : Nat, id : Nat]

\* The rows are profiles of finite number, updated at natural times.
RowsTyped ==
  /\ rows \in [Profiles -> List!Row] /\ active \subseteq Profiles

LEMMA Listing ==
  ASSUME RowsTyped
  PROVE  /\ List!Listed \subseteq Profiles /\ IsFiniteSet(List!Listed)
         /\ \A p \in Profiles : List!Key(p) \in Keyed /\ p \in Nat
                                /\ List!Key(p) \in [at : 0..MaxClock, id : Profiles]
<1>1. List!Listed \subseteq Profiles
  BY DEF RowsTyped, List!Listed
<1>2. IsFiniteSet(List!Listed)
  BY <1>1, AccessAssumption, FS_Subset
<1>3. ASSUME NEW p \in Profiles
      PROVE  List!Key(p) \in Keyed /\ p \in Nat /\ List!Key(p) \in [at : 0..MaxClock, id : Profiles]
  BY AccessAssumption DEF RowsTyped, List!Row, List!Key, Keyed
<1>. QED
  BY <1>1, <1>2, <1>3

LEMMA CursorKeys == ASSUME NEW k \in [at : 0..MaxClock, id : Profiles] PROVE k \in Keyed
<1>1. k.at \in 0..MaxClock /\ k.id \in Profiles /\ k = [at |-> k.at, id |-> k.id]
  OBVIOUS
<1>2. MaxClock \in Nat /\ Profiles \subseteq Nat
  BY AccessAssumption
<1>3. k.at \in Nat
  BY <1>1, <1>2
<1>4. k.id \in Nat
  BY <1>1, <1>2
<1>. QED
  BY <1>1, <1>3, <1>4 DEF Keyed

\* The list is ordered from the latest profile on: a strict total order.
LEMMA BeforeOrder ==
  ASSUME NEW k \in Keyed, NEW l \in Keyed, NEW m \in Keyed
  PROVE  /\ ~List!Before(k, k)
         /\ List!Before(k, l) /\ List!Before(l, m) => List!Before(k, m)
         /\ List!Before(k, l) => ~List!Before(l, k)
         /\ k # l => List!Before(k, l) \/ List!Before(l, k)
BY DEF Keyed, List!Before

LEMMA KeysDiffer ==
  ASSUME NEW p, NEW q, p # q
  PROVE  List!Key(p) # List!Key(q)
BY DEF List!Key

\* Two profiles are in order, one way.
LEMMA InOrder ==
  ASSUME RowsTyped, NEW p \in Profiles, NEW q \in Profiles, p # q
  PROVE  /\ List!Before(List!Key(p), List!Key(q)) \/ List!Before(List!Key(q), List!Key(p))
         /\ ~(List!Before(List!Key(p), List!Key(q)) /\ List!Before(List!Key(q), List!Key(p)))
BY Listing, BeforeOrder, KeysDiffer

\* The two ways to say Cardinality.
LEMMA SameCardinality == \A S : List!Cardinality(S) = Cardinality(S)
BY DEF List!Cardinality, Cardinality

\* A set of natural numbers that is not empty has a least one.
LEMMA LeastExists ==
  ASSUME NEW S, S \subseteq Nat, S # {}
  PROVE  \E m \in S : \A k \in S : m <= k
<1>1. PICK m \in S : \A k \in S : ~ <<k, m>> \in OpToRel(<, Nat)
  BY NatLessThanWellFounded, WFMin, Zenon
<1>2. ASSUME NEW k \in S PROVE m <= k
  <2>1. k \in Nat /\ m \in Nat
    OBVIOUS
  <2>2. ~(k < m)
    BY <1>1, <2>1 DEF OpToRel
  <2>. QED
    BY <2>1, <2>2
<1>. QED
  BY <1>2

\* A finite set that is not empty has an element before which there is none,
\* in any strict order R: one with the fewest elements before it.
LEMMA MinimalExists ==
  ASSUME NEW S, IsFiniteSet(S), S # {}, NEW R,
         \A x \in S : <<x, x>> \notin R,
         \A x, y, z \in S : <<x, y>> \in R /\ <<y, z>> \in R => <<x, z>> \in R
  PROVE  \E p \in S : \A q \in S : <<q, p>> \notin R
<1> DEFINE Earlier(p) == {q \in S : <<q, p>> \in R}
           Counts == {Cardinality(Earlier(p)) : p \in S}
<1>1. \A p \in S : IsFiniteSet(Earlier(p)) /\ Cardinality(Earlier(p)) \in Nat
  BY FS_Subset, FS_CardinalityType
<1>2. ASSUME NEW p \in S, NEW q \in S, <<q, p>> \in R
      PROVE  Earlier(q) \subseteq Earlier(p) \ {q} /\ q \in Earlier(p)
  BY <1>2
<1> HIDE DEF Earlier
<1>3. Counts \subseteq Nat /\ Counts # {}
  <2>1. PICK p \in S : TRUE
    OBVIOUS
  <2>2. Cardinality(Earlier(p)) \in Counts
    OBVIOUS
  <2>. QED
    BY <1>1, <2>2
<1>4. PICK n \in Counts : \A k \in Counts : n <= k
  BY <1>3, LeastExists
<1>5. PICK p \in S : n = Cardinality(Earlier(p))
  OBVIOUS
<1>6. ASSUME NEW q \in S, <<q, p>> \in R PROVE FALSE
  <2>1. Earlier(q) \subseteq Earlier(p) \ {q} /\ q \in Earlier(p)
    BY <1>2, <1>6
  <2>2. Cardinality(Earlier(p) \ {q}) = Cardinality(Earlier(p)) - 1
        /\ IsFiniteSet(Earlier(p) \ {q})
    BY <1>1, <2>1, FS_RemoveElement
  <2>3. Cardinality(Earlier(q)) <= Cardinality(Earlier(p)) - 1
    BY <2>1, <2>2, FS_Subset
  <2>4. n <= Cardinality(Earlier(q))
    BY <1>4
  <2>. QED
    BY <1>1, <1>5, <2>3, <2>4
<1>. QED
  BY <1>6

\* A finite set of profiles that is not empty has a first and a last one.
LEMMA EndsExist ==
  ASSUME RowsTyped, NEW S \in SUBSET Profiles, S # {}
  PROVE  /\ \E p \in S : \A q \in S \ {p} : List!Before(List!Key(p), List!Key(q))
         /\ \E p \in S : \A q \in S \ {p} : List!Before(List!Key(q), List!Key(p))
<1> DEFINE R == {e \in S \X S : List!Before(List!Key(e[1]), List!Key(e[2]))}
           B == {e \in S \X S : List!Before(List!Key(e[2]), List!Key(e[1]))}
<1>1. IsFiniteSet(S)
  BY AccessAssumption, FS_Subset
<1>2. \A p, q \in S : (<<p, q>> \in R <=> List!Before(List!Key(p), List!Key(q)))
                      /\ (<<p, q>> \in B <=> List!Before(List!Key(q), List!Key(p)))
  OBVIOUS
<1>3. \A p \in S : List!Key(p) \in Keyed
  BY Listing
<1> HIDE DEF R, B
<1>4. /\ \A x \in S : <<x, x>> \notin R
      /\ \A x, y, z \in S : <<x, y>> \in R /\ <<y, z>> \in R => <<x, z>> \in R
  BY <1>2, <1>3, BeforeOrder
<1>5. /\ \A x \in S : <<x, x>> \notin B
      /\ \A x, y, z \in S : <<x, y>> \in B /\ <<y, z>> \in B => <<x, z>> \in B
  BY <1>2, <1>3, BeforeOrder
<1>6. PICK p \in S : \A q \in S : <<q, p>> \notin R
  BY <1>1, <1>4, MinimalExists
<1>7. PICK l \in S : \A q \in S : <<q, l>> \notin B
  BY <1>1, <1>5, MinimalExists
<1>. QED
  BY <1>2, <1>6, <1>7, InOrder

-----------------------------------------------------------------------------
(* The list of profiles: pages                                             *)

\* Ranks are natural numbers, less than there are profiles, and grow along the
\* list.
LEMMA Ranks ==
  ASSUME RowsTyped, NEW S \in SUBSET Profiles, NEW p \in S
  PROVE  /\ List!Rank(p, S) \in Nat /\ Cardinality(S) \in Nat
         /\ List!Rank(p, S) < Cardinality(S)
         /\ \A q \in S : List!Before(List!Key(q), List!Key(p))
                           => List!Rank(q, S) < List!Rank(p, S)
<1> DEFINE Earlier(q) == {x \in S : List!Before(List!Key(x), List!Key(q))}
<1>1. IsFiniteSet(S) /\ Cardinality(S) \in Nat
  BY AccessAssumption, FS_Subset, FS_CardinalityType
<1>2. \A q \in S : List!Key(q) \in Keyed
  BY Listing
<1>3. \A q \in S : /\ IsFiniteSet(Earlier(q)) /\ Cardinality(Earlier(q)) \in Nat
                   /\ List!Rank(q, S) = Cardinality(Earlier(q))
  BY <1>1, FS_Subset, FS_CardinalityType, SameCardinality DEF List!Rank
<1>4. Cardinality(Earlier(p)) < Cardinality(S)
  <2>1. Earlier(p) \subseteq S /\ p \notin Earlier(p)
    BY <1>2, BeforeOrder
  <2>. QED
    BY <1>1, <1>3, <2>1, FS_Subset
<1>5. ASSUME NEW q \in S, List!Before(List!Key(q), List!Key(p))
      PROVE  Cardinality(Earlier(q)) < Cardinality(Earlier(p))
  <2>1. Earlier(q) \subseteq Earlier(p) /\ q \in Earlier(p) /\ q \notin Earlier(q)
    BY <1>2, <1>5, BeforeOrder
  <2>. QED
    BY <1>3, <2>1, FS_Subset
<1>. QED
  BY <1>1, <1>3, <1>4, <1>5

\* The first n are listed before all others.
LEMMA FirstComesFirst ==
  ASSUME RowsTyped, NEW S \in SUBSET Profiles, NEW n \in Nat,
         NEW p \in List!FirstOf(S, n), NEW q \in S \ List!FirstOf(S, n)
  PROVE  List!Before(List!Key(p), List!Key(q))
<1>1. p \in S /\ List!Rank(p, S) < n /\ ~(List!Rank(q, S) < n)
  BY DEF List!FirstOf
<1>2. List!Rank(p, S) \in Nat /\ List!Rank(q, S) \in Nat
  BY <1>1, Ranks
<1>3. ~List!Before(List!Key(q), List!Key(p))
  BY <1>1, <1>2, Ranks
<1>. QED
  BY <1>1, <1>3, InOrder

\* If there are no more than n, the first n are all.
LEMMA FirstOfFew ==
  ASSUME RowsTyped, NEW S \in SUBSET Profiles, NEW n \in Nat, Cardinality(S) <= n
  PROVE  List!FirstOf(S, n) = S
BY Ranks DEF List!FirstOf

\* If the first n + 1 are no more than n, they are all.
LEMMA FirstOfAll ==
  ASSUME RowsTyped, NEW S \in SUBSET Profiles, NEW n \in Nat,
         Cardinality(List!FirstOf(S, n + 1)) <= n
  PROVE  List!FirstOf(S, n + 1) = S
<1> DEFINE F == List!FirstOf(S, n + 1)
<1>1. F \subseteq S
  BY DEF List!FirstOf
<1>2. SUFFICES ASSUME S \ F # {} PROVE FALSE
  BY <1>1
<1>3. PICK p \in S \ F : \A q \in (S \ F) \ {p} : List!Before(List!Key(p), List!Key(q))
  BY <1>2, EndsExist
<1>4. {q \in S : List!Before(List!Key(q), List!Key(p))} \subseteq F
  <2>1. ASSUME NEW q \in S \ F, List!Before(List!Key(q), List!Key(p)) PROVE FALSE
    <3>1. q # p
      BY <2>1, Listing, BeforeOrder
    <3>. QED
      BY <1>3, <2>1, <3>1, InOrder
  <2>. QED
    BY <2>1
<1>5. IsFiniteSet(F)
  BY <1>1, AccessAssumption, FS_Subset
<1>6. List!Rank(p, S) <= n
  <2>1. List!Rank(p, S) \in Nat /\ Cardinality(F) \in Nat
    BY <1>5, Ranks, FS_CardinalityType
  <2>2. List!Rank(p, S) <= Cardinality(F)
    BY <1>4, <1>5, FS_Subset, SameCardinality DEF List!Rank
  <2>. QED
    BY <2>1, <2>2
<1>7. ~(List!Rank(p, S) < n + 1)
  BY DEF List!FirstOf
<1>. QED
  BY <1>6, <1>7, Ranks

\* A page is not empty unless the list is.
LEMMA FirstOfSome ==
  ASSUME RowsTyped, NEW S \in SUBSET Profiles, NEW n \in Nat \ {0}, S # {}
  PROVE  List!FirstOf(S, n) # {}
<1>1. PICK p \in S : \A q \in S \ {p} : List!Before(List!Key(p), List!Key(q))
  BY EndsExist
<1>2. {q \in S : List!Before(List!Key(q), List!Key(p))} = {}
  BY <1>1, Listing, BeforeOrder, InOrder
<1>3. List!Rank(p, S) = 0
  BY <1>2, FS_EmptySet, SameCardinality DEF List!Rank
<1>. QED
  BY <1>3 DEF List!FirstOf

\* More of the first contain fewer.
LEMMA FirstOfMore ==
  ASSUME RowsTyped, NEW S \in SUBSET Profiles, NEW m \in Nat, NEW n \in Nat, m <= n
  PROVE  List!FirstOf(S, m) \subseteq List!FirstOf(S, n)
BY Ranks DEF List!FirstOf

\* All others of a page are listed before its last.
LEMMA LastOfIsLast ==
  ASSUME RowsTyped, NEW S \in SUBSET Profiles, S # {}
  PROVE  /\ List!LastOf(S) \in S
         /\ \A q \in S \ {List!LastOf(S)} : List!Before(List!Key(q), List!Key(List!LastOf(S)))
BY EndsExist DEF List!LastOf

-----------------------------------------------------------------------------
(* The list of profiles: the inductive invariant                           *)

\* No stamp is in the future.
TimesOK ==
  /\ \A p \in Profiles : rows[p].at <= time
  /\ \A w \in Savers : saving[w].pc # "idle" => saving[w].new.at <= time

\* An edit that was not overtaken does not lower its profile, and knows its row.
EditOK(w) ==
  saving[w].pc # "idle" /\ w \notin overtaken =>
    /\ rows[saving[w].profile].at <= saving[w].new.at
    /\ saving[w].pc = "flush" => saving[w].loaded = rows[saving[w].profile]

\* A walk by cursor has all it has yet to show behind the cursor, and nothing
\* it has shown unless an overtaken edit moved that down.
CursorOK(v) ==
  walk[v].by = "cursor" =>
    /\ again[v] \subseteq lowered[v]
    /\ walk[v].more =>
         /\ \A p \in kept[v] \ shown[v], k \in walk[v].after : List!Before(k, List!Key(p))
         /\ \A p \in shown[v] \ lowered[v] : \E k \in walk[v].after : ~List!Before(k, List!Key(p))
    /\ ~walk[v].more => kept[v] \subseteq shown[v]

\* A walk by offset has shown the beginning of the list, as long as nothing moves.
OffsetOK(v) ==
  walk[v].by = "offset" /\ v \notin moved =>
    /\ again[v] = {} /\ kept[v] = List!Listed
    /\ walk[v].more =>
         shown[v] = List!FirstOf(List!Listed,
                      IF walk[v].counting THEN List!Offset(v) + SitePage ELSE List!Offset(v))
    /\ ~walk[v].more => kept[v] \subseteq shown[v]

ListInv ==
  /\ List!TypeOK /\ TimesOK
  /\ \A w \in Savers : EditOK(w)
  /\ \A v \in Visitors : kept[v] \subseteq List!Listed /\ CursorOK(v) /\ OffsetOK(v)

EditUnderWay == [pc : {"check", "load"}, profile : Profiles, new : List!Row]
EditLoaded == [pc : {"flush"}, profile : Profiles, new : List!Row, loaded : List!Row]

USE DEF List!Idle, List!NoWalk

LEMMA SavingStates ==
  ASSUME List!TypeOK, NEW w \in Savers
  PROVE  /\ saving[w].pc \in {"check", "load"} => saving[w] \in EditUnderWay
         /\ saving[w].pc = "flush" => saving[w] \in EditLoaded
         /\ saving[w].pc = "idle" => saving[w] = List!Idle
         /\ saving[w].pc # "idle" => saving[w] \in EditUnderWay \cup EditLoaded
BY DEF List!TypeOK, EditUnderWay, EditLoaded

LEMMA SavingGoto ==
  ASSUME List!TypeOK, NEW w \in Savers, NEW s, List!Goto(w, s)
  PROVE  /\ saving'[w] = s
         /\ \A x \in Savers \ {w} : saving'[x] = saving[x]
         /\ saving' = [saving EXCEPT ![w] = s]
BY DEF List!TypeOK, List!Goto

LEMMA WalkStates ==
  ASSUME List!TypeOK, NEW v \in Visitors
  PROVE  /\ walk[v].by = "cursor" =>
              walk[v] \in [by : {"cursor"}, after : SUBSET [at : 0..MaxClock, id : Profiles],
                           more : BOOLEAN]
         /\ walk[v].by = "offset" =>
              walk[v] \in [by : {"offset"}, number : Nat \ {0}, counting : BOOLEAN,
                           more : BOOLEAN]
BY DEF List!TypeOK, List!Walk

\* What stands in the list as long as no row and no owner changes.
LEMMA SameList ==
  ASSUME UNCHANGED <<rows, active>>
  PROVE  /\ List!Listed' = List!Listed
         /\ \A p : List!Key(p)' = List!Key(p)
         /\ \A S, n : List!FirstOf(S, n)' = List!FirstOf(S, n)
<1>1. List!Listed' = List!Listed /\ \A p : List!Key(p)' = List!Key(p)
  BY DEF List!Listed, List!Key
<1>2. ASSUME NEW S, NEW n PROVE List!FirstOf(S, n)' = List!FirstOf(S, n)
  BY DEF List!FirstOf, List!Rank, List!Key, List!Before
<1>. QED
  BY <1>1, <1>2

\* A step that leaves rows, owners and walks alone.
LEMMA WalksKept ==
  ASSUME ListInv, UNCHANGED <<rows, active, walk, shown, again, kept, lowered, moved>>
  PROVE  \A v \in Visitors : (kept[v] \subseteq List!Listed /\ CursorOK(v) /\ OffsetOK(v))'
<1> TAKE v \in Visitors
<1>1. kept[v] \subseteq List!Listed /\ CursorOK(v) /\ OffsetOK(v)
  BY DEF ListInv
<1>2. (kept[v] \subseteq List!Listed)'
  BY <1>1, SameList
<1>3. CursorOK(v)'
  BY <1>1 DEF CursorOK, List!Key, List!Before
<1>4. OffsetOK(v)'
  BY <1>1, SameList DEF OffsetOK, List!Offset
<1>. QED
  BY <1>2, <1>3, <1>4

-----------------------------------------------------------------------------
(* The list of profiles: edits                                             *)

LEMMA TickStep ==
  ASSUME ListInv, List!Tick
  PROVE  ListInv'
<1>1. /\ time' = time + 1 /\ time' \in 0..MaxClock /\ time \in Nat
      /\ UNCHANGED <<rows, active, saving, walk, edits, shown, again, kept, lowered, moved, overtaken>>
  BY AccessAssumption DEF ListInv, List!TypeOK, List!Tick, List!editHistory
<1>2. List!TypeOK'
  BY <1>1 DEF ListInv, List!TypeOK
<1>3. TimesOK'
  <2>1. ASSUME NEW p \in Profiles PROVE rows[p].at <= time'
    BY <1>1 DEF ListInv, TimesOK, List!TypeOK, List!Row
  <2>2. ASSUME NEW w \in Savers, saving[w].pc # "idle" PROVE saving[w].new.at <= time'
    <3>1. saving[w].new \in List!Row
      BY <2>2, SavingStates DEF ListInv, EditUnderWay, EditLoaded
    <3>. QED
      BY <1>1, <2>2, <3>1 DEF ListInv, TimesOK, List!Row
  <2>. QED
    BY <1>1, <2>1, <2>2 DEF TimesOK
<1>4. \A w \in Savers : EditOK(w)'
  BY <1>1 DEF ListInv, EditOK
<1>. QED
  BY <1>1, <1>2, <1>3, <1>4, WalksKept DEF ListInv

\* A step of one edit before it writes: to a state whose stamp is no older than
\* its row, and which knows the row if it is about to write.
LEMMA EditStep ==
  ASSUME ListInv, NEW w \in Savers, NEW s, List!Goto(w, s),
         s \in {List!Idle} \cup EditUnderWay \cup EditLoaded,
         UNCHANGED <<rows, active, time, walk, shown, again, kept, lowered, moved>>,
         edits' \in 0..MaxEdits,
         overtaken' \subseteq overtaken, overtaken \ {w} \subseteq overtaken',
         s.pc # "idle" => s.new.at <= time,
         s.pc # "idle" /\ w \notin overtaken' => rows[s.profile].at <= s.new.at,
         s.pc = "flush" => s.loaded = rows[s.profile]
  PROVE  ListInv'
<1>1. saving'[w] = s /\ \A x \in Savers \ {w} : saving'[x] = saving[x]
  BY SavingGoto DEF ListInv
<1>2. List!TypeOK'
  <2>1. saving' = [saving EXCEPT ![w] = s]
    BY DEF List!Goto
  <2>. QED
    BY <2>1 DEF ListInv, List!TypeOK, EditUnderWay, EditLoaded
<1>3. TimesOK'
  BY <1>1 DEF ListInv, TimesOK
<1>4. ASSUME NEW x \in Savers PROVE EditOK(x)'
  <2>1. CASE x = w
    BY <1>1, <2>1 DEF EditOK
  <2>2. CASE x # w
    BY <1>1, <2>2 DEF ListInv, EditOK
  <2>. QED
    BY <2>1, <2>2
<1>. QED
  BY <1>2, <1>3, <1>4, WalksKept DEF ListInv

LEMMA EditsCounted == ASSUME List!TypeOK, List!Counts PROVE edits' \in 0..MaxEdits
BY AccessAssumption DEF List!TypeOK, List!Counts

LEMMA EditStarts ==
  ASSUME ListInv, NEW w \in Savers, NEW p \in Profiles, NEW public \in BOOLEAN,
         NEW next \in {"check", "load"}, List!Edit(w, p, public, next)
  PROVE  ListInv'
<1> DEFINE s == [pc |-> next, profile |-> p, new |-> [at |-> time, public |-> public]]
<1>1. /\ s \in EditUnderWay /\ s.pc = next /\ s.new.at = time /\ s.profile = p
  BY DEF EditUnderWay, List!Row, ListInv, List!TypeOK
<1>2. /\ List!Goto(w, s)
      /\ UNCHANGED <<rows, active, time, walk, shown, again, kept, lowered, moved, overtaken>>
  BY DEF List!Edit, List!editHistory
<1>3. edits' \in 0..MaxEdits
  BY EditsCounted DEF ListInv, List!Edit
<1>4. rows[p].at <= time /\ time <= time
  BY DEF ListInv, TimesOK, List!TypeOK
<1> HIDE DEF s
<1>. QED
  BY <1>1, <1>2, <1>3, <1>4, EditStep

LEMMA CheckHandleStep ==
  ASSUME ListInv, NEW w \in Savers, List!CheckHandle(w)
  PROVE  ListInv'
<1> DEFINE s == [saving[w] EXCEPT !.pc = "load", !.new.at = time]
<1>1. saving[w] \in EditUnderWay /\ saving[w].profile \in Profiles
  BY SavingStates DEF List!CheckHandle, ListInv, EditUnderWay
<1>2. s \in EditUnderWay /\ s.pc = "load" /\ s.new.at = time /\ s.profile = saving[w].profile
  BY <1>1 DEF EditUnderWay, List!Row, ListInv, List!TypeOK
<1>3. rows[saving[w].profile].at <= time /\ time <= time
  BY <1>1 DEF ListInv, TimesOK, List!TypeOK
<1>4. /\ UNCHANGED <<rows, active, time, walk, shown, again, kept, lowered, moved, edits>>
      /\ \/ List!Goto(w, s) /\ UNCHANGED overtaken
         \/ List!Goto(w, List!Idle) /\ overtaken' = overtaken \ {w}
  BY DEF List!CheckHandle, List!walkHistory
<1> HIDE DEF s
<1>. QED
  BY <1>2, <1>3, <1>4, EditStep DEF ListInv, List!TypeOK

LEMMA SaveLoadStep ==
  ASSUME ListInv, NEW w \in Savers, List!SaveLoad(w)
  PROVE  ListInv'
<1> DEFINE s == [pc |-> "flush", profile |-> saving[w].profile, new |-> saving[w].new,
                 loaded |-> rows[saving[w].profile]]
<1>1. saving[w] \in EditUnderWay /\ saving[w].pc = "load"
  BY SavingStates DEF List!SaveLoad, ListInv
<1>2. /\ s \in EditLoaded /\ s.pc = "flush" /\ s.profile = saving[w].profile
      /\ s.new = saving[w].new /\ s.loaded = rows[s.profile]
  BY <1>1 DEF EditUnderWay, EditLoaded, ListInv, List!TypeOK
<1>3. /\ saving[w].new.at <= time
      /\ w \notin overtaken => rows[saving[w].profile].at <= saving[w].new.at
  BY <1>1 DEF ListInv, TimesOK, EditOK
<1>4. /\ UNCHANGED <<rows, active, time, walk, shown, again, kept, lowered, moved, edits, overtaken>>
      /\ List!Goto(w, s)
  BY DEF List!SaveLoad, List!editHistory
<1> HIDE DEF s
<1>. QED
  BY <1>2, <1>3, <1>4, EditStep DEF ListInv, List!TypeOK

LEMMA EditAborts ==
  ASSUME ListInv, NEW w \in Savers, List!Abort(w)
  PROVE  ListInv'
BY EditStep DEF List!Abort, List!walkHistory, ListInv, List!TypeOK

-----------------------------------------------------------------------------
(* The list of profiles: writes                                            *)

\* A row is written that does not fall behind, unless an overtaken edit does it.
LEMMA SavedStep ==
  ASSUME ListInv, NEW p \in Profiles, NEW row \in List!Row, NEW by \in SUBSET Savers,
         rows' = [rows EXCEPT ![p] = row], List!Saved(p, by),
         row.at <= time,
         by \cap overtaken = {} => rows[p].at <= row.at,
         UNCHANGED <<active, time, walk, shown, again>>,
         edits' \in 0..MaxEdits,
         \/ by = {} /\ UNCHANGED saving
         \/ \E w \in Savers : by = {w} /\ List!Goto(w, List!Idle)
  PROVE  ListInv'
<1>1. /\ kept' = [v \in Visitors |-> kept[v] \ {p}]
      /\ lowered' = [v \in Visitors |->
           IF by \cap overtaken # {} THEN lowered[v] \cup {p} ELSE lowered[v]]
      /\ moved' = Visitors
      /\ overtaken' = (overtaken \cup List!ReadersOf(p)) \ by
  BY DEF List!Saved
<1>2. rows'[p] = row /\ \A q \in Profiles \ {p} : rows'[q] = rows[q]
  BY DEF ListInv, List!TypeOK
<1>3. /\ \A x \in Savers : saving'[x] = IF x \in by THEN List!Idle ELSE saving[x]
      /\ saving' \in [Savers -> {List!Idle} \cup EditUnderWay \cup EditLoaded]
  BY SavingGoto DEF ListInv, List!TypeOK, EditUnderWay, EditLoaded
<1>4. List!TypeOK'
  <2>1. List!ReadersOf(p) \subseteq Savers
    BY DEF List!ReadersOf
  <2>2. /\ kept' \in [Visitors -> SUBSET Profiles] /\ lowered' \in [Visitors -> SUBSET Profiles]
    BY <1>1 DEF ListInv, List!TypeOK
  <2>3. rows' \in [Profiles -> List!Row]
    BY DEF ListInv, List!TypeOK
  <2>. QED
    BY <1>1, <1>3, <2>1, <2>2, <2>3 DEF ListInv, List!TypeOK, EditUnderWay, EditLoaded
<1>5. TimesOK'
  BY <1>2, <1>3 DEF ListInv, TimesOK
<1>6. ASSUME NEW x \in Savers PROVE EditOK(x)'
  <2>1. CASE saving'[x].pc = "idle" \/ x \in overtaken'
    BY <2>1 DEF EditOK
  <2>2. CASE saving'[x].pc # "idle" /\ x \notin overtaken'
    <3>1. saving'[x] = saving[x] /\ x \notin by
      BY <1>3, <2>2
    <3>2. x \notin overtaken /\ saving[x].profile # p /\ saving[x].profile \in Profiles
      BY <1>1, <2>2, <3>1, SavingStates DEF List!ReadersOf, ListInv, EditUnderWay, EditLoaded
    <3>. QED
      BY <1>2, <2>2, <3>1, <3>2 DEF ListInv, EditOK
  <2>. QED
    BY <2>1, <2>2
<1>7. ASSUME NEW v \in Visitors PROVE (kept[v] \subseteq List!Listed /\ CursorOK(v) /\ OffsetOK(v))'
  <2>1. kept'[v] = kept[v] \ {p} /\ kept[v] \subseteq List!Listed /\ CursorOK(v)
    BY <1>1 DEF ListInv
  <2>2. kept'[v] \subseteq List!Listed'
    BY <1>2, <2>1 DEF List!Listed, ListInv, List!TypeOK
  <2>3. OffsetOK(v)'
    BY <1>1 DEF OffsetOK
  <2>4. lowered[v] \subseteq lowered'[v] /\ (by \cap overtaken # {} => p \in lowered'[v])
    BY <1>1
  <2>5. CursorOK(v)'
    <3>1. SUFFICES ASSUME walk[v].by = "cursor" PROVE CursorOK(v)'
      BY DEF CursorOK
    <3>2. /\ again[v] \subseteq lowered'[v]
          /\ ~walk[v].more => kept'[v] \subseteq shown[v]
      BY <2>1, <2>4, <3>1 DEF CursorOK
    <3>3. ASSUME walk[v].more, NEW q \in kept'[v] \ shown[v], NEW k \in walk[v].after
          PROVE  List!Before(k, List!Key(q)')
      <4>1. q \in Profiles \ {p} /\ List!Key(q)' = List!Key(q)
        BY <1>2, <2>1 DEF ListInv, List!TypeOK, List!Listed, List!Key
      <4>. QED
        BY <2>1, <3>1, <3>3, <4>1 DEF CursorOK
    <3>4. ASSUME walk[v].more, NEW q \in shown[v] \ lowered'[v]
          PROVE  \E k \in walk[v].after : ~List!Before(k, List!Key(q)')
      <4>1. PICK k \in walk[v].after : ~List!Before(k, List!Key(q))
        BY <2>1, <2>4, <3>1, <3>4 DEF CursorOK
      <4>2. q \in Profiles
        BY DEF ListInv, List!TypeOK
      <4>3. CASE q # p
        BY <1>2, <4>1, <4>2, <4>3 DEF List!Key
      <4>4. CASE q = p
        <5>1. rows[p].at <= row.at
          BY <2>4, <3>4, <4>4
        <5>2. k.at \in Nat /\ k.id \in Nat /\ p \in Nat /\ rows[p].at \in Nat /\ row.at \in Nat
          <6>1. k \in [at : 0..MaxClock, id : Profiles]
            BY <3>1, WalkStates DEF ListInv
          <6>2. rows[p] \in List!Row /\ Profiles \subseteq Nat
            BY AccessAssumption DEF ListInv, List!TypeOK
          <6>. QED
            BY <6>1, <6>2 DEF List!Row
        <5>. QED
          BY <1>2, <4>1, <4>4, <5>1, <5>2 DEF List!Key, List!Before
      <4>. QED
        BY <4>3, <4>4
    <3>. QED
      BY <3>1, <3>2, <3>3, <3>4 DEF CursorOK
  <2>. QED
    BY <2>2, <2>3, <2>5
<1>. QED
  BY <1>4, <1>5, <1>6, <1>7 DEF ListInv

\* The edit stores its stamp or the time, unless it knows the row as it is not.
LEMMA SaveFlushStep ==
  ASSUME ListInv, NEW w \in Savers, List!SaveFlush(w)
  PROVE  ListInv'
<1> DEFINE q == saving[w]
           stamp == List!Column(q.new.at, q.loaded.at, rows[q.profile].at)
           public == List!Column(q.new.public, q.loaded.public, rows[q.profile].public)
<1>1. q \in EditLoaded /\ q.pc = "flush"
  BY SavingStates DEF List!SaveFlush, ListInv
<1>2. PICK p \in Profiles : p = q.profile
  BY <1>1 DEF EditLoaded
<1>3. /\ rows[p] \in List!Row /\ q.new \in List!Row /\ q.loaded \in List!Row
      /\ rows[p].at <= time /\ q.new.at <= time
      /\ w \notin overtaken => rows[p].at <= q.new.at
      /\ time \in 0..MaxClock
  BY <1>1, <1>2 DEF ListInv, EditLoaded, List!TypeOK, TimesOK, EditOK
<1>4. /\ stamp \in {rows[p].at, q.new.at} /\ public \in {rows[p].public, q.new.public}
  BY <1>2 DEF List!Column
<1>5. PICK moment \in {stamp, time} : rows' = [rows EXCEPT ![p] = [at |-> moment, public |-> public]]
  BY <1>2 DEF List!SaveFlush
<1> DEFINE row == [at |-> moment, public |-> public]
<1>6. /\ row \in List!Row /\ row.at <= time
      /\ w \notin overtaken => rows[p].at <= row.at
  <2>1. moment \in {rows[p].at, q.new.at, time}
    BY <1>4, <1>5
  <2>. HIDE DEF stamp, public, q
  <2>. QED
    BY <1>3, <1>4, <2>1 DEF List!Row
<1>7. /\ List!Saved(p, {w}) /\ List!Goto(w, List!Idle)
      /\ UNCHANGED <<active, time, walk, edits, shown, again>>
  BY <1>2 DEF List!SaveFlush
<1>8. rows' = [rows EXCEPT ![p] = row]
  BY <1>5
<1> HIDE DEF row, stamp, public
<1>. QED
  BY <1>6, <1>7, <1>8, SavedStep DEF ListInv, List!TypeOK

LEMMA ClearIconStep ==
  ASSUME ListInv, NEW p \in Profiles, List!ClearIcon(p)
  PROVE  ListInv'
<1> DEFINE row == [rows[p] EXCEPT !.at = time]
<1>1. rows[p] \in List!Row /\ rows[p].at <= time /\ time \in 0..MaxClock
  BY DEF ListInv, List!TypeOK, TimesOK
<1>2. row \in List!Row /\ row.at = time /\ time <= time
  BY <1>1 DEF List!Row
<1>3. /\ rows' = [rows EXCEPT ![p] = row] /\ List!Saved(p, {})
      /\ UNCHANGED <<active, time, saving, walk, shown, again>>
  BY DEF List!ClearIcon
<1>4. edits' \in 0..MaxEdits
  BY EditsCounted DEF ListInv, List!ClearIcon
<1> HIDE DEF row
<1>. QED
  BY <1>1, <1>2, <1>3, <1>4, SavedStep

LEMMA OwnerChangesStep ==
  ASSUME ListInv, NEW p \in Profiles, List!OwnerChanges(p)
  PROVE  ListInv'
<1>1. /\ active' \subseteq Profiles /\ active \ {p} \subseteq active'
      /\ kept' = [v \in Visitors |-> kept[v] \ {p}]
      /\ moved' = Visitors
      /\ UNCHANGED <<rows, time, saving, walk, shown, again, lowered, overtaken>>
  BY DEF List!OwnerChanges, ListInv, List!TypeOK
<1>2. edits' \in 0..MaxEdits
  BY EditsCounted DEF ListInv, List!OwnerChanges
<1>3. List!TypeOK'
  <2>1. kept' \in [Visitors -> SUBSET Profiles]
    BY <1>1 DEF ListInv, List!TypeOK
  <2>. QED
    BY <1>1, <1>2, <2>1 DEF ListInv, List!TypeOK
<1>4. TimesOK' /\ \A w \in Savers : EditOK(w)'
  BY <1>1 DEF ListInv, TimesOK, EditOK
<1>5. ASSUME NEW v \in Visitors PROVE (kept[v] \subseteq List!Listed /\ CursorOK(v) /\ OffsetOK(v))'
  <2>1. kept'[v] = kept[v] \ {p} /\ kept[v] \subseteq List!Listed /\ CursorOK(v)
    BY <1>1 DEF ListInv
  <2>2. (kept[v] \subseteq List!Listed)'
    BY <1>1, <2>1 DEF List!Listed
  <2>3. OffsetOK(v)'
    BY <1>1 DEF OffsetOK
  <2>4. CursorOK(v)'
    BY <1>1, <2>1 DEF CursorOK, List!Key, List!Before
  <2>. QED
    BY <2>2, <2>3, <2>4
<1>. QED
  BY <1>3, <1>4, <1>5 DEF ListInv

-----------------------------------------------------------------------------
(* The list of profiles: walks                                             *)

\* What a step of visitor v leaves of another's walk.
LEMMA OthersWalk ==
  ASSUME ListInv, NEW v \in Visitors, NEW u \in Visitors,
         UNCHANGED <<rows, active>>,
         walk'[u] = walk[u] /\ shown'[u] = shown[u] /\ again'[u] = again[u]
           /\ kept'[u] = kept[u] /\ lowered'[u] = lowered[u],
         u \in moved => u \in moved'
  PROVE  (kept[u] \subseteq List!Listed /\ CursorOK(u) /\ OffsetOK(u))'
<1>1. kept[u] \subseteq List!Listed /\ CursorOK(u) /\ OffsetOK(u)
  BY DEF ListInv
<1>2. (kept[u] \subseteq List!Listed)'
  BY <1>1, SameList
<1>3. CursorOK(u)'
  BY <1>1 DEF CursorOK, List!Key, List!Before
<1>4. OffsetOK(u)'
  BY <1>1, SameList DEF OffsetOK, List!Offset
<1>. QED
  BY <1>2, <1>3, <1>4

\* A step of visitor v: its own walk has to be looked at.
LEMMA VisitStep ==
  ASSUME ListInv, NEW v \in Visitors,
         UNCHANGED <<rows, active, time, saving, edits, overtaken>>,
         NEW go \in List!Walk, walk' = [walk EXCEPT ![v] = go],
         NEW a \in SUBSET Profiles, shown' = [shown EXCEPT ![v] = a],
         NEW b \in SUBSET Profiles, again' = [again EXCEPT ![v] = b],
         NEW c \in SUBSET Profiles, kept' = [kept EXCEPT ![v] = c],
         NEW d \in SUBSET Profiles, lowered' = [lowered EXCEPT ![v] = d],
         moved' \subseteq moved, moved \ {v} \subseteq moved',
         (kept[v] \subseteq List!Listed /\ CursorOK(v) /\ OffsetOK(v))'
  PROVE  ListInv'
<1>1. List!TypeOK'
  BY DEF ListInv, List!TypeOK
<1>2. TimesOK' /\ \A w \in Savers : EditOK(w)'
  BY DEF ListInv, TimesOK, EditOK
<1>3. ASSUME NEW u \in Visitors \ {v}
      PROVE  (kept[u] \subseteq List!Listed /\ CursorOK(u) /\ OffsetOK(u))'
  <2>1. /\ walk'[u] = walk[u] /\ shown'[u] = shown[u] /\ again'[u] = again[u]
        /\ kept'[u] = kept[u] /\ lowered'[u] = lowered[u]
    BY DEF ListInv, List!TypeOK
  <2>. QED
    BY <2>1, OthersWalk
<1>. QED
  BY <1>1, <1>2, <1>3 DEF ListInv

LEMMA RowsOfInv == ASSUME ListInv PROVE RowsTyped
BY DEF ListInv, List!TypeOK, RowsTyped

\* A walk starts with nothing shown, and by offset nothing passed over.
LEMMA OpenListStep ==
  ASSUME ListInv, NEW v \in Visitors,
         NEW start \in {[by |-> "cursor", after |-> {}, more |-> TRUE],
                        [by |-> "offset", number |-> 1, counting |-> FALSE, more |-> TRUE]},
         List!OpenList(v, start)
  PROVE  ListInv'
<1>1. /\ walk' = [walk EXCEPT ![v] = start]
      /\ shown' = [shown EXCEPT ![v] = {}] /\ again' = [again EXCEPT ![v] = {}]
      /\ kept' = [kept EXCEPT ![v] = List!Listed] /\ lowered' = [lowered EXCEPT ![v] = {}]
      /\ moved' = moved \ {v}
      /\ UNCHANGED <<rows, active, time, saving, edits, overtaken>>
  BY DEF List!OpenList
<1>2. start \in List!Walk
  <2>1. {} \in SUBSET [at : 0..MaxClock, id : Profiles]
    OBVIOUS
  <2>2. [by |-> "cursor", after |-> {}, more |-> TRUE] \in List!Walk
    BY <2>1 DEF List!Walk
  <2>3. [by |-> "offset", number |-> 1, counting |-> FALSE, more |-> TRUE] \in List!Walk
    BY DEF List!Walk
  <2>. QED
    BY <2>2, <2>3
<1>3. List!Listed \subseteq Profiles /\ List!Listed' = List!Listed
  BY <1>1, RowsOfInv, Listing, SameList
<1>4. /\ walk'[v] = start /\ shown'[v] = {} /\ again'[v] = {} /\ lowered'[v] = {}
      /\ kept'[v] = List!Listed
  BY <1>1 DEF ListInv, List!TypeOK
<1>5. (kept[v] \subseteq List!Listed)'
  BY <1>3, <1>4
<1>6. CursorOK(v)'
  BY <1>4 DEF CursorOK
<1>7. OffsetOK(v)'
  <2>1. start.by = "offset" => start.number = 1 /\ ~start.counting
    OBVIOUS
  <2>2. SUFFICES ASSUME start.by = "offset" PROVE OffsetOK(v)'
    BY <1>4 DEF OffsetOK
  <2>3. List!Offset(v)' = 0
    BY <1>4, <2>1, <2>2, AccessAssumption DEF List!Offset
  <2>4. List!FirstOf(List!Listed, 0) = {}
    BY <1>3, RowsOfInv, Ranks DEF List!FirstOf
  <2>5. \A n : n = 0 => List!FirstOf(List!Listed, n)' = {}
    BY <1>1, <1>3, <2>4, SameList
  <2>. QED
    BY <1>1, <1>3, <1>4, <2>1, <2>2, <2>3, <2>5 DEF OffsetOK
<1>8. {} \in SUBSET Profiles /\ List!Listed \in SUBSET Profiles
  BY <1>3
<1>. QED
  BY <1>1, <1>2, <1>5, <1>6, <1>7, <1>8, VisitStep

\* A page by cursor starts with all that is behind the cursor, and the next
\* cursor has the rest behind it; the last page leaves none.
LEMMA CursorPageStep ==
  ASSUME ListInv, NEW v \in Visitors, NEW limit \in PageSizes, List!CursorPage(v, limit)
  PROVE  ListInv'
<1> DEFINE behind == List!Behind(walk[v].after)
           found == List!FirstOf(behind, limit + 1)
           page == List!FirstOf(found, limit)
           next == [walk[v] EXCEPT !.after = List!NextCursor(found, page)]
           last == [walk[v] EXCEPT !.more = FALSE]
<1>1. /\ walk[v].by = "cursor" /\ walk[v].more /\ List!Show(v, page)
      /\ \/ Cardinality(found) > limit /\ walk' = [walk EXCEPT ![v] = next]
         \/ Cardinality(found) <= limit /\ walk' = [walk EXCEPT ![v] = last]
      /\ UNCHANGED <<rows, active, time, saving, edits, kept, lowered, moved, overtaken>>
  BY SameCardinality DEF List!CursorPage, List!editHistory
<1>2. RowsTyped /\ limit \in Nat \ {0} /\ limit + 1 \in Nat
  BY RowsOfInv, AccessAssumption
<1>3. /\ behind \subseteq List!Listed /\ found \subseteq behind /\ page \subseteq found
      /\ page \subseteq Profiles /\ found \subseteq Profiles /\ behind \subseteq Profiles
  BY <1>2, Listing DEF List!Behind, List!FirstOf
<1>4. walk[v] \in [by : {"cursor"}, after : SUBSET [at : 0..MaxClock, id : Profiles],
                   more : BOOLEAN]
  BY <1>1, WalkStates DEF ListInv
<1>5. /\ \A p : List!Key(p)' = List!Key(p)
      /\ List!Listed' = List!Listed
  BY <1>1, SameList
<1>6. /\ shown' = [shown EXCEPT ![v] = shown[v] \cup page]
      /\ again' = [again EXCEPT ![v] = again[v] \cup (page \cap shown[v])]
      /\ kept' = [kept EXCEPT ![v] = kept[v]] /\ lowered' = [lowered EXCEPT ![v] = lowered[v]]
      /\ shown'[v] = shown[v] \cup page /\ again'[v] = again[v] \cup (page \cap shown[v])
      /\ shown[v] \in SUBSET Profiles /\ again[v] \in SUBSET Profiles
      /\ kept[v] \in SUBSET Profiles /\ lowered[v] \in SUBSET Profiles
  BY <1>1 DEF List!Show, ListInv, List!TypeOK
<1>7. /\ kept[v] \subseteq List!Listed /\ again[v] \subseteq lowered[v]
      /\ \A p \in kept[v] \ shown[v] : p \in behind
      /\ \A p \in shown[v] \ lowered[v] : \E k \in walk[v].after : ~List!Before(k, List!Key(p))
  BY <1>1 DEF ListInv, CursorOK, List!Behind
<1>8. again'[v] \subseteq lowered[v]
  <2>1. ASSUME NEW p \in page \cap shown[v], p \notin lowered[v] PROVE FALSE
    BY <1>3, <1>7, <2>1 DEF List!Behind
  <2>. QED
    BY <1>6, <1>7, <2>1
<1>9. ASSUME Cardinality(found) > limit, walk' = [walk EXCEPT ![v] = next] PROVE ListInv'
  <2> DEFINE l == List!LastOf(page)
  <2>1. page # {}
    <3>1. found # {}
      BY <1>2, <1>9, FS_EmptySet
    <3>. QED
      BY <1>2, <1>3, <3>1, FirstOfSome
  <2>2. l \in page /\ \A q \in page \ {l} : List!Before(List!Key(q), List!Key(l))
    BY <1>2, <1>3, <2>1, LastOfIsLast
  <2>3. List!NextCursor(found, page) = {List!Key(l)}
    BY DEF List!NextCursor
  <2>4. l \in Profiles /\ List!Key(l) \in [at : 0..MaxClock, id : Profiles]
    BY <1>2, <1>3, <2>2, Listing
  <2> HIDE DEF l, page, found, behind
  <2>5. /\ next \in List!Walk /\ walk'[v] = next /\ next.by = "cursor" /\ next.more
        /\ next.after = {List!Key(l)}
    BY <1>1, <1>4, <1>9, <2>3, <2>4 DEF ListInv, List!TypeOK, List!Walk
  <2> HIDE DEF next
  <2>6. ASSUME NEW p \in kept[v] \ (shown[v] \cup page) PROVE List!Before(List!Key(l), List!Key(p))
    <3>1. p \in behind \ page
      BY <1>7, <2>6
    <3>2. CASE p \in found
      BY <1>2, <1>3, <2>2, <3>1, <3>2, FirstComesFirst DEF page
    <3>3. CASE p \notin found
      BY <1>2, <1>3, <2>2, <3>1, <3>3, FirstComesFirst DEF found
    <3>. QED
      BY <3>2, <3>3
  <2>7. ASSUME NEW p \in (shown[v] \cup page) \ lowered[v]
        PROVE  ~List!Before(List!Key(l), List!Key(p))
    <3>0. List!Key(p) \in Keyed /\ List!Key(l) \in Keyed
      BY <1>2, <1>3, <1>6, <2>4, Listing
    <3>1. CASE p \in page
      BY <2>2, <3>0, <3>1, BeforeOrder
    <3>2. CASE p \in shown[v]
      <4>1. PICK k \in walk[v].after : ~List!Before(k, List!Key(p))
        BY <1>7, <2>7, <3>2
      <4>2. k \in Keyed
        <5>1. k \in [at : 0..MaxClock, id : Profiles]
          BY <1>4
        <5>. QED
          BY <5>1, CursorKeys
      <4>3. List!Before(k, List!Key(l))
        BY <1>3, <2>2 DEF behind, List!Behind
      <4>. QED
        BY <3>0, <4>1, <4>2, <4>3, BeforeOrder
    <3>. QED
      BY <2>7, <3>1, <3>2
  <2>8. CursorOK(v)'
    BY <1>1, <1>5, <1>6, <1>8, <2>5, <2>6, <2>7 DEF CursorOK, List!Before
  <2>9. OffsetOK(v)' /\ (kept[v] \subseteq List!Listed)'
    BY <1>1, <1>5, <1>7, <2>5 DEF OffsetOK
  <2>. QED
    BY <1>1, <1>3, <1>6, <1>8, <1>9, <2>5, <2>8, <2>9, VisitStep
<1>10. ASSUME Cardinality(found) <= limit, walk' = [walk EXCEPT ![v] = last] PROVE ListInv'
  <2>1. found = behind
    BY <1>2, <1>3, <1>10, FirstOfAll
  <2>2. page = found
    BY <1>2, <1>3, <1>10, FirstOfFew
  <2> HIDE DEF page, found, behind
  <2>3. last \in List!Walk /\ walk'[v] = last /\ last.by = "cursor" /\ ~last.more
    BY <1>1, <1>4, <1>10 DEF ListInv, List!TypeOK, List!Walk
  <2> HIDE DEF last
  <2>4. kept[v] \subseteq shown'[v]
    BY <1>6, <1>7, <2>1, <2>2
  <2>5. CursorOK(v)'
    BY <1>1, <1>8, <2>3, <2>4 DEF CursorOK
  <2>6. OffsetOK(v)' /\ (kept[v] \subseteq List!Listed)'
    BY <1>1, <1>5, <1>7, <2>3 DEF OffsetOK
  <2>. QED
    BY <1>1, <1>3, <1>6, <1>8, <1>10, <2>3, <2>5, <2>6, VisitStep
<1>. QED
  BY <1>1, <1>9, <1>10


\* Offsets are natural numbers, a page apart.
LEMMA Offsets ==
  ASSUME NEW n \in Nat \ {0}, NEW size \in Nat
  PROVE  (n - 1) * size \in Nat /\ (n + 1 - 1) * size = (n - 1) * size + size
<1>1. PICK m \in Nat : n = m + 1
  <2>1. n - 1 \in Nat /\ n = (n - 1) + 1
    OBVIOUS
  <2>. QED
    BY <2>1
<1>2. n - 1 = m /\ n + 1 - 1 = m + 1
  BY <1>1
<1>3. m * size \in Nat /\ (m + 1) * size = m * size + size
  OBVIOUS
<1>. QED
  BY <1>2, <1>3

\* A page by offset continues the beginning of the list.
LEMMA OffsetPageStep ==
  ASSUME ListInv, NEW v \in Visitors, List!OffsetPage(v)
  PROVE  ListInv'
<1> DEFINE from == List!Offset(v)
           page == List!FirstOf(List!Listed, from + SitePage) \ List!FirstOf(List!Listed, from)
           next == [walk[v] EXCEPT !.counting = TRUE]
<1>1. /\ walk[v].by = "offset" /\ walk[v].more /\ ~walk[v].counting /\ List!Show(v, page)
      /\ walk' = [walk EXCEPT ![v] = next]
      /\ UNCHANGED <<rows, active, time, saving, edits, kept, lowered, moved, overtaken>>
  BY DEF List!OffsetPage, List!editHistory
<1>2. walk[v] \in [by : {"offset"}, number : Nat \ {0}, counting : BOOLEAN, more : BOOLEAN]
  BY <1>1, WalkStates DEF ListInv
<1>3. from \in Nat /\ from + SitePage \in Nat /\ from <= from + SitePage
  <2>1. walk[v].number \in Nat \ {0} /\ SitePage \in Nat
    BY <1>2, AccessAssumption
  <2>2. (walk[v].number - 1) * SitePage \in Nat
    BY <2>1, Offsets
  <2>. QED
    BY <2>1, <2>2 DEF List!Offset
<1>4. /\ next \in List!Walk /\ walk'[v] = next /\ next.by = "offset" /\ next.more
      /\ next.counting /\ next.number = walk[v].number
  BY <1>1, <1>2 DEF List!Walk, ListInv, List!TypeOK
<1>5. page \subseteq Profiles
  BY RowsOfInv, Listing DEF List!FirstOf
<1>6. /\ shown' = [shown EXCEPT ![v] = shown[v] \cup page]
      /\ again' = [again EXCEPT ![v] = again[v] \cup (page \cap shown[v])]
      /\ kept' = [kept EXCEPT ![v] = kept[v]] /\ lowered' = [lowered EXCEPT ![v] = lowered[v]]
      /\ shown'[v] = shown[v] \cup page /\ again'[v] = again[v] \cup (page \cap shown[v])
      /\ shown[v] \in SUBSET Profiles /\ again[v] \in SUBSET Profiles
      /\ kept[v] \in SUBSET Profiles /\ lowered[v] \in SUBSET Profiles
  BY <1>1 DEF List!Show, ListInv, List!TypeOK
<1>7. (kept[v] \subseteq List!Listed)'
  BY <1>1, SameList DEF ListInv
<1>8. CursorOK(v)'
  BY <1>4 DEF CursorOK
<1>9. OffsetOK(v)'
  <2>1. SUFFICES ASSUME v \notin moved PROVE OffsetOK(v)'
    BY <1>1 DEF OffsetOK
  <2>2. /\ again[v] = {} /\ kept[v] = List!Listed
        /\ shown[v] = List!FirstOf(List!Listed, from)
    BY <1>1, <2>1 DEF ListInv, OffsetOK
  <2>3. List!FirstOf(List!Listed, from) \subseteq List!FirstOf(List!Listed, from + SitePage)
    BY <1>3, RowsOfInv, Listing, FirstOfMore
  <2>4. shown'[v] = List!FirstOf(List!Listed, from + SitePage) /\ again'[v] = {}
    BY <1>6, <2>2, <2>3
  <2>5. List!Offset(v)' = from
    BY <1>4 DEF List!Offset
  <2> HIDE DEF from, page, next
  <2>. QED
    BY <1>1, <1>4, <2>2, <2>4, <2>5, SameList DEF OffsetOK
<1> HIDE DEF next, page
<1>. QED
  BY <1>1, <1>4, <1>5, <1>6, <1>7, <1>8, <1>9, VisitStep

\* The site goes on to the next page, or has shown the whole list.
LEMMA CountProfilesStep ==
  ASSUME ListInv, NEW v \in Visitors, List!CountProfiles(v)
  PROVE  ListInv'
<1> DEFINE from == List!Offset(v)
           next == [walk[v] EXCEPT !.number = walk[v].number + 1, !.counting = FALSE]
           last == [walk[v] EXCEPT !.more = FALSE]
<1>1. /\ walk[v].by = "offset" /\ walk[v].more /\ walk[v].counting
      /\ \/ walk' = [walk EXCEPT ![v] = next]
         \/ from + SitePage >= Cardinality(List!Listed) /\ walk' = [walk EXCEPT ![v] = last]
      /\ UNCHANGED <<rows, active, time, saving, edits, shown, again, kept, lowered, moved, overtaken>>
  BY SameCardinality DEF List!CountProfiles, List!editHistory
<1>2. walk[v] \in [by : {"offset"}, number : Nat \ {0}, counting : BOOLEAN, more : BOOLEAN]
  BY <1>1, WalkStates DEF ListInv
<1>3. from \in Nat /\ from + SitePage \in Nat /\ SitePage \in Nat
  <2>1. walk[v].number \in Nat \ {0} /\ SitePage \in Nat
    BY <1>2, AccessAssumption
  <2>2. (walk[v].number - 1) * SitePage \in Nat
    BY <2>1, Offsets
  <2>. QED
    BY <2>1, <2>2 DEF List!Offset
<1>4. /\ shown' = [shown EXCEPT ![v] = shown[v]] /\ again' = [again EXCEPT ![v] = again[v]]
      /\ kept' = [kept EXCEPT ![v] = kept[v]] /\ lowered' = [lowered EXCEPT ![v] = lowered[v]]
      /\ shown[v] \in SUBSET Profiles /\ again[v] \in SUBSET Profiles
      /\ kept[v] \in SUBSET Profiles /\ lowered[v] \in SUBSET Profiles
  BY <1>1 DEF ListInv, List!TypeOK
<1>5. (kept[v] \subseteq List!Listed)'
  BY <1>1, SameList DEF ListInv
<1>6. v \notin moved =>
        /\ again[v] = {} /\ kept[v] = List!Listed
        /\ shown[v] = List!FirstOf(List!Listed, from + SitePage)
  BY <1>1 DEF ListInv, OffsetOK
<1>7. ASSUME walk' = [walk EXCEPT ![v] = next] PROVE ListInv'
  <2>1. /\ next \in List!Walk /\ walk'[v] = next /\ next.by = "offset" /\ next.more
        /\ ~next.counting /\ next.number = walk[v].number + 1
    <3>1. walk[v].number + 1 \in Nat \ {0}
      BY <1>2
    <3>2. /\ next \in [by : {"offset"}, number : Nat \ {0}, counting : BOOLEAN, more : BOOLEAN]
          /\ next.more /\ ~next.counting /\ next.number = walk[v].number + 1
      BY <1>1, <1>2, <3>1
    <3>. QED
      BY <1>7, <3>2 DEF List!Walk, ListInv, List!TypeOK
  <2>2. List!Offset(v)' = from + SitePage
    <3>1. walk'[v].number = walk[v].number + 1
      BY <2>1
    <3>2. List!Offset(v)' = (walk[v].number + 1 - 1) * SitePage
      BY <1>2, <3>1 DEF List!Offset
    <3>3. (walk[v].number + 1 - 1) * SitePage = (walk[v].number - 1) * SitePage + SitePage
      BY <1>2, <1>3, Offsets
    <3>. QED
      BY <3>2, <3>3 DEF List!Offset
  <2>3. CursorOK(v)'
    BY <2>1 DEF CursorOK
  <2> HIDE DEF next, from
  <2>4. OffsetOK(v)'
    BY <1>1, <1>6, <2>1, <2>2, SameList DEF OffsetOK
  <2>. QED
    BY <1>1, <1>4, <1>5, <1>7, <2>1, <2>3, <2>4, VisitStep
<1>8. ASSUME from + SitePage >= Cardinality(List!Listed), walk' = [walk EXCEPT ![v] = last]
      PROVE  ListInv'
  <2>1. /\ last \in List!Walk /\ walk'[v] = last /\ last.by = "offset" /\ ~last.more
    BY <1>2, <1>8 DEF List!Walk, ListInv, List!TypeOK
  <2>2. CursorOK(v)'
    BY <2>1 DEF CursorOK
  <2>3. List!FirstOf(List!Listed, from + SitePage) = List!Listed
    BY <1>3, <1>8, RowsOfInv, Listing, FirstOfFew, FS_CardinalityType
  <2> HIDE DEF last, from
  <2>4. OffsetOK(v)'
    BY <1>1, <1>6, <2>1, <2>3, SameList DEF OffsetOK
  <2>. QED
    BY <1>1, <1>4, <1>5, <1>8, <2>1, <2>2, <2>4, VisitStep
<1>. QED
  BY <1>1, <1>7, <1>8

-----------------------------------------------------------------------------
(* The list of profiles: the invariant                                     *)

LEMMA ListInit == ASSUME List!Init PROVE ListInv
<1>1. /\ rows = [p \in Profiles |-> [at |-> 0, public |-> TRUE]] /\ active = Profiles
      /\ time = 0 /\ edits = 0 /\ moved = {} /\ overtaken = {}
      /\ \A w \in Savers : saving[w].pc = "idle"
      /\ \A v \in Visitors : walk[v] = List!NoWalk /\ kept[v] = {}
  BY DEF List!Init
<1>2. List!TypeOK
  BY AccessAssumption DEF List!Init, List!TypeOK, List!Row, List!Walk
<1>3. TimesOK
  BY <1>1 DEF TimesOK
<1>4. \A w \in Savers : EditOK(w)
  BY <1>1 DEF EditOK
<1>5. \A v \in Visitors : kept[v] \subseteq List!Listed /\ CursorOK(v) /\ OffsetOK(v)
  BY <1>1 DEF CursorOK, OffsetOK
<1>. QED
  BY <1>2, <1>3, <1>4, <1>5 DEF ListInv

LEMMA ListNext ==
  ASSUME ListInv, [List!Next]_(List!listVars)
  PROVE  ListInv'
<1>1. CASE UNCHANGED List!listVars
  <2>1. List!TypeOK' /\ TimesOK' /\ \A w \in Savers : EditOK(w)'
    BY <1>1 DEF List!listVars, ListInv, List!TypeOK, TimesOK, EditOK
  <2>. QED
    BY <1>1, <2>1, WalksKept DEF List!listVars, ListInv
<1>2. CASE List!Next
  <2>1. CASE List!Tick
    BY <2>1, TickStep
  <2>2. ASSUME NEW w \in Savers, NEW p \in Profiles, NEW public \in BOOLEAN,
               NEW next \in {"check", "load"}, List!Edit(w, p, public, next)
        PROVE  ListInv'
    BY <2>2, EditStarts
  <2>3. ASSUME NEW w \in Savers,
               List!CheckHandle(w) \/ List!SaveLoad(w) \/ List!SaveFlush(w) \/ List!Abort(w)
        PROVE  ListInv'
    BY <2>3, CheckHandleStep, SaveLoadStep, SaveFlushStep, EditAborts
  <2>4. ASSUME NEW p \in Profiles, List!ClearIcon(p) \/ List!OwnerChanges(p)
        PROVE  ListInv'
    BY <2>4, ClearIconStep, OwnerChangesStep
  <2>5. ASSUME NEW v \in Visitors,
               NEW start \in {[by |-> "cursor", after |-> {}, more |-> TRUE],
                              [by |-> "offset", number |-> 1, counting |-> FALSE, more |-> TRUE]},
               List!OpenList(v, start)
        PROVE  ListInv'
    BY <2>5, OpenListStep
  <2>6. ASSUME NEW v \in Visitors, NEW limit \in PageSizes, List!CursorPage(v, limit)
        PROVE  ListInv'
    BY <2>6, CursorPageStep
  <2>7. ASSUME NEW v \in Visitors, List!OffsetPage(v) \/ List!CountProfiles(v)
        PROVE  ListInv'
    BY <2>7, OffsetPageStep, CountProfilesStep
  <2>. QED
    BY <1>2, <2>1, <2>2, <2>3, <2>4, <2>5, <2>6, <2>7 DEF List!Next
<1>. QED
  BY <1>1, <1>2

-----------------------------------------------------------------------------
(* The parts together                                                      *)

\* Sessions keep their invariant in every behaviour (UserService and the stores
\* on KV).
THEOREM SessionInvariant == Session!Spec => []SessionInv
<1>1. Session!Init => SessionInv
  BY SessionInit
<1>2. SessionInv /\ [Session!Next]_(Session!vars) => SessionInv'
  BY SessionNext
<1>. QED
  BY <1>1, <1>2, PTL DEF Session!Spec

\* The list and the walks through it keep their invariant in every behaviour
\* (listPublicProfiles and listPublicProfilesOffset).
THEOREM ListInvariant == List!Spec => []ListInv
<1>1. List!Init => ListInv
  BY ListInit
<1>2. ListInv /\ [List!Next]_(List!listVars) => ListInv'
  BY ListNext
<1>. QED
  BY <1>1, <1>2, PTL DEF List!Spec

\* What Access does is, in each of its parts, what the part does or nothing, so
\* that every theorem about a part is one about Access.
THEOREM PartsRun == AccessSpec => Spec /\ KeySpec /\ Session!Spec /\ List!Spec
<1>1. AccessInit => Init /\ KeyInit /\ Session!Init /\ List!Init
  BY DEF AccessInit
<1>2. ASSUME [AccessNext]_accessVars
      PROVE  /\ [Next]_vars /\ [KeyNext]_keyVars
             /\ [Session!Next]_(Session!vars) /\ [List!Next]_(List!listVars)
  BY <1>2 DEF AccessNext, LimiterWorks, KeysWork, SessionsWork, ListWorks, accessVars,
     limiterVars, sessionVars, listVars, Session!vars, List!listVars
<1>. QED
  BY <1>1, <1>2, PTL DEF AccessSpec, Spec, KeySpec, Session!Spec, List!Spec

\* All parts keep their types.
THEOREM AccessTyped == AccessSpec => []AccessTypeOK
<1>1. TypeOK /\ KeyTypeOK /\ SessionInv /\ ListInv => AccessTypeOK
  BY DEF SessionInv, ListInv, AccessTypeOK
<1>. QED
  BY <1>1, PartsRun, TypeCorrect, ApiKeysTyped, SessionInvariant, ListInvariant, PTL

\* A session that was logged out is gone, unless a request was between the get
\* and the put of its renewal when that happened (expire on KV).
THEOREM LogoutsHold == AccessSpec => []LogoutHolds
<1>1. SessionInv => LogoutHolds
  BY DEF SessionInv
<1>. QED
  BY <1>1, PartsRun, SessionInvariant, PTL

\* A reset link sets one password, unless two requests got its token before
\* either deleted it (consume).
THEOREM ResetLinksAreUsedOnce == AccessSpec => []ResetLinkUsedOnce
<1>1. SessionInv => ResetLinkUsedOnce
  BY DEF SessionInv, TokenOK, ResetLinkUsedOnce, Session!ResetLinkUsedOnce, Session!TypeOK
<1>. QED
  BY <1>1, PartsRun, SessionInvariant, PTL

\* A request that comes after a withdrawal is admitted or logs in only if the
\* account was revived since, whatever sessions and cookies are left (findById,
\* findByEmailNormalized, verifyEmail).
THEOREM WithdrawnUsersStayOut == AccessSpec => []WithdrawnStaysOut
<1>1. SessionInv => WithdrawnStaysOut
  BY DEF SessionInv, StartsOK, WithdrawnStaysOut, Session!WithdrawnStaysOut, WithSession
<1>. QED
  BY <1>1, PartsRun, SessionInvariant, PTL

\* A walk by cursor shows no profile twice that no overtaken edit lowered, and
\* all that were listed and not saved; so does one by offset while nothing
\* moves (listPublicProfiles, listPublicProfilesOffset).
THEOREM ProfilesAreShownOnce == AccessSpec => []EachShownOnce
<1>1. ListInv => EachShownOnce
  BY DEF ListInv, CursorOK, OffsetOK, EachShownOnce, List!EachShownOnce
<1>. QED
  BY <1>1, PartsRun, ListInvariant, PTL

\* What is promised of API keys and their rate limit holds whatever part of
\* Access works (ApiKeyAuthGuard, ApiKeyThrottlerGuard).
THEOREM GuardsHold ==
  AccessSpec =>
    /\ [](BlockOutlastsWindow /\ NoServiceAfterLeaving /\ RevokedForGood /\ FreezeRevokesKeys)
    /\ QuotaSpec /\ RetryAfterHonoured
BY PartsRun, BlocksOutlastWindow, LeaversAreRefused, RevocationsHold, FreezesRevokeKeys,
   LimiterImplementsQuota, RetryAfterIsHonoured, PTL
=============================================================================
