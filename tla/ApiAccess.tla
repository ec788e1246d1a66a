------------------------------ MODULE ApiAccess ------------------------------
(***************************************************************************)
(* API keys of one user and the guards that public-api asks of them on     *)
(* every request: ApiKeyAuthGuard (the key, then its owner),               *)
(* ApiKeyThrottlerGuard and ApiScopeGuard, in that order. Keys are made    *)
(* and revoked in apps/api, by the user, by moderators, and all together   *)
(* when the user is frozen. The owner's status is that of OwnerStatus;     *)
(* what the throttler counts is RateLimiter's matter, it may refuse any    *)
(* request here.                                                           *)
(***************************************************************************)
EXTENDS OwnerStatus

CONSTANTS
  ApiKeys,    \* keys, by id
  Calls,      \* requests to both APIs in flight at once
  NoKey

VARIABLES
  apiKeys,    \* apiKeys[k]: the row of key k
  touching,   \* keys whose last use is being written, after their request went on
  guard,      \* guard[r]: where request r is
  \* History:
  sawActive,  \* requests during which the owner has been ACTIVE
  revoked,    \* keys that have been revoked
  madeLate,   \* keys that were inserted after the owner was frozen or had withdrawn
  broken      \* owners of whom a freeze died before it revoked the keys

keyVars == <<status, apiKeys, touching, guard, sawActive, revoked, madeLate, broken>>
history == <<sawActive, revoked, madeLate, broken>>

Scopes == {"read", "full"}
Key == [owner : Users, scope : Scopes, status : {"active", "revoked"}]
ASSUME KeyAssumption == NoKey \notin Key

Existing == {k \in ApiKeys : apiKeys[k] # NoKey}
Active == {k \in Existing : apiKeys[k].status = "active"}
Idle == [pc |-> "idle"]
Goto(r, state) == guard' = [guard EXCEPT ![r] = state]

KeyInit ==
  /\ OwnerInit
  /\ apiKeys = [k \in ApiKeys |-> NoKey]
  /\ touching = {}
  /\ guard = [r \in Calls |-> Idle]
  /\ sawActive = {} /\ revoked = {} /\ madeLate = {} /\ broken = {}

-----------------------------------------------------------------------------
(* The owner of the keys                                                   *)

Serving == {"owner", "limit", "scope", "serve"}
RequestsOf(u) == {r \in Calls : guard[r].pc \in Serving /\ guard[r].row.owner = u}
KeysOf(u) == {k \in Existing : apiKeys[k].owner = u}

\* Registration, confirmation, reinstatement, and withdrawal, which leaves the keys.
ChangeStatus(u) ==
  /\ \/ Registers(u) /\ UNCHANGED history
     \/ /\ Becomes(u, "WITHDRAWN")
        /\ UNCHANGED history
     \/ /\ Becomes(u, "ACTIVE")
        /\ sawActive' = sawActive \cup RequestsOf(u)
        /\ madeLate' = madeLate \ KeysOf(u)
        /\ broken' = broken \ {u}
        /\ UNCHANGED revoked
  /\ UNCHANGED <<apiKeys, touching, guard>>

\* freezeUser: the status is read, written, and all active keys revoked.
FreezeUser(r, u) ==
  /\ guard[r] = Idle
  /\ status[u] = "ACTIVE"
  /\ Goto(r, [pc |-> "freeze", owner |-> u])
  /\ UNCHANGED <<status, apiKeys, touching, history>>

SetFrozen(r) ==
  /\ guard[r].pc = "freeze"
  /\ Becomes(guard[r].owner, "FROZEN")
  /\ Goto(r, [guard[r] EXCEPT !.pc = "revokeAll"])
  /\ UNCHANGED <<apiKeys, touching, history>>

FirstRevoked(u) ==   \* mutant: one key of the owner is found and revoked
  LET mine == Active \cap KeysOf(u) IN
  IF mine = {} THEN apiKeys
  ELSE [apiKeys EXCEPT ![CHOOSE k \in mine : TRUE].status = "revoked"]
AllRevoked(u) ==
  [k \in ApiKeys |->
     IF k \in Active \cap KeysOf(u)
     THEN [apiKeys[k] EXCEPT !.status = "revoked"] ELSE apiKeys[k]]

RevokeAllForUser(r) ==
  /\ guard[r].pc = "revokeAll"
  /\ apiKeys' = AllRevoked(guard[r].owner)
  /\ revoked' = revoked \cup {k \in Active : apiKeys'[k].status = "revoked"}
  /\ Goto(r, Idle)
  /\ UNCHANGED <<status, touching, sawActive, madeLate, broken>>

-----------------------------------------------------------------------------
(* Keys are made and revoked                                               *)

\* The user is logged in, frozen or not; createApiKey does not look.
CreateApiKey(r, u, scope) ==
  /\ guard[r] = Idle
  /\ status[u] \in {"UNVERIFIED", "ACTIVE", "FROZEN"}
  /\ Goto(r, [pc |-> "insert", owner |-> u, scope |-> scope])
  /\ UNCHANGED <<status, apiKeys, touching, history>>

InsertApiKey(r, k) ==
  LET u == guard[r].owner IN
  /\ guard[r].pc = "insert"
  /\ apiKeys[k] = NoKey
  /\ apiKeys' = [apiKeys EXCEPT
       ![k] = [owner |-> u, scope |-> guard[r].scope, status |-> "active"]]
  /\ madeLate' = IF status[u] \in {"FROZEN", "WITHDRAWN"} THEN madeLate \cup {k} ELSE madeLate
  /\ Goto(r, Idle)
  /\ UNCHANGED <<status, touching, sawActive, revoked, broken>>

\* revokeApiKey of the user and revokeKey of the console.
RevokeApiKey(k) ==
  /\ k \in Active
  /\ apiKeys' = [apiKeys EXCEPT ![k].status = "revoked"]
  /\ revoked' = revoked \cup {k}
  /\ UNCHANGED <<status, touching, guard, sawActive, madeLate, broken>>

-----------------------------------------------------------------------------
(* A request to public-api passes the guards                               *)

\* ApiKeyAuthGuard finds the key by its hash,
FindByKeyHash(r, k, operation) ==
  /\ guard[r] = Idle
  /\ k \in Active
  /\ Goto(r, [pc |-> "owner", key |-> k, row |-> apiKeys[k], operation |-> operation])
  /\ sawActive' = IF status[apiKeys[k].owner] = "ACTIVE" THEN sawActive \cup {r}
                  ELSE sawActive \ {r}
  /\ UNCHANGED <<status, apiKeys, touching, revoked, madeLate, broken>>

\* and its owner, then writes the time of use without waiting for it.
NotFrozen(s) == s # "FROZEN"   \* mutant: only freezing is looked for
MayUseKeys(s) == s = "ACTIVE"
FindOwner(r) ==
  /\ guard[r].pc = "owner"
  /\ \/ /\ MayUseKeys(status[guard[r].row.owner])
        /\ touching' = touching \cup {guard[r].key}
        /\ Goto(r, [guard[r] EXCEPT !.pc = "limit"])
     \/ /\ ~MayUseKeys(status[guard[r].row.owner])
        /\ Goto(r, Idle)
        /\ UNCHANGED touching
  /\ UNCHANGED <<status, apiKeys, history>>

RowTouched(k) ==   \* mutant: the row is saved as it was authenticated
  [apiKeys EXCEPT ![k].status = "active"]
Touched(k) == apiKeys   \* one update of one column
TouchLastUsed(k) ==
  /\ k \in touching
  /\ apiKeys' = Touched(k)
  /\ touching' = touching \ {k}
  /\ UNCHANGED <<status, guard, history>>

\* ApiKeyThrottlerGuard counts the request against the key, or answers 429.
Throttle(r) ==
  /\ guard[r].pc = "limit"
  /\ \/ Goto(r, [guard[r] EXCEPT !.pc = "scope"])
     \/ Goto(r, Idle)
  /\ UNCHANGED <<status, apiKeys, touching, history>>

\* ApiScopeGuard: what writes needs a key with the scope full.
CheckScope(r) ==
  /\ guard[r].pc = "scope"
  /\ Goto(r, IF guard[r].operation = "full" => guard[r].row.scope = "full"
             THEN [guard[r] EXCEPT !.pc = "serve"] ELSE Idle)
  /\ UNCHANGED <<status, apiKeys, touching, history>>

\* The controller calls PublicProfileService.
Serve(r) ==
  /\ guard[r].pc = "serve"
  /\ Goto(r, Idle)
  /\ UNCHANGED <<status, apiKeys, touching, history>>

\* A request dies. (A request to public-api that dies leaves its write of the
\* last use, which fails in silence as well.)
Abort(r) ==
  /\ guard[r] # Idle
  /\ broken' = IF guard[r].pc = "revokeAll" THEN broken \cup {guard[r].owner} ELSE broken
  /\ Goto(r, Idle)
  /\ UNCHANGED <<status, apiKeys, touching, sawActive, revoked, madeLate>>

KeyNext ==
  \/ \E u \in Users : ChangeStatus(u)
  \/ \E r \in Calls, u \in Users :
       FreezeUser(r, u) \/ \E scope \in Scopes : CreateApiKey(r, u, scope)
  \/ \E r \in Calls, k \in ApiKeys :
       InsertApiKey(r, k) \/ \E operation \in Scopes : FindByKeyHash(r, k, operation)
  \/ \E k \in ApiKeys : RevokeApiKey(k) \/ TouchLastUsed(k)
  \/ \E r \in Calls :
       \/ SetFrozen(r) \/ RevokeAllForUser(r) \/ FindOwner(r)
       \/ Throttle(r) \/ CheckScope(r) \/ Serve(r) \/ Abort(r)

KeySpec == KeyInit /\ [][KeyNext]_keyVars

-----------------------------------------------------------------------------
(* Properties                                                              *)

KeyTypeOK ==
  /\ status \in [Users -> {"NONE", "UNVERIFIED"} \cup LaterStatus]
  /\ apiKeys \in [ApiKeys -> Key \cup {NoKey}]
  /\ touching \subseteq ApiKeys
  /\ guard \in [Calls -> {Idle}
       \cup [pc : {"freeze", "revokeAll"}, owner : Users]
       \cup [pc : {"insert"}, owner : Users, scope : Scopes]
       \cup [pc : Serving, key : ApiKeys, row : Key,
             operation : Scopes]]
  /\ sawActive \subseteq Calls
  /\ revoked \subseteq ApiKeys /\ madeLate \subseteq ApiKeys
  /\ broken \subseteq Users

\* A request that starts after its owner was frozen or has withdrawn is not
\* counted and not served, though withdrawal leaves the key active (BR-API-003).
NoServiceAfterLeaving ==
  \A r \in Calls : guard[r].pc \in {"limit", "scope", "serve"} => r \in sawActive

\* A key that was revoked is revoked for good, though requests that had found
\* it active still write its last use (touchLastUsed).
RevokedForGood == revoked \cap Active = {}

\* While its owner is frozen a key is active only if it was made during the
\* freeze, or the freeze is not over, or died half way (freezeUser, createApiKey).
FreezeRevokesKeys ==
  \A k \in Active :
    status[apiKeys[k].owner] = "FROZEN"
      => \/ k \in madeLate \/ apiKeys[k].owner \in broken
         \/ \E r \in Calls :
              guard[r].pc = "revokeAll" /\ guard[r].owner = apiKeys[k].owner
=============================================================================
