----------------------------- MODULE Moderation -----------------------------
(***************************************************************************)
(* ModerationService of apps/api: freezing a user and reviewing the        *)
(* request to unfreeze it, with the suspension records and the API keys    *)
(* they touch, and the owner's and the administrator's key operations.     *)
(* The administrator's permission is checked first and changes nothing.    *)
(***************************************************************************)
EXTENDS UserTable

CONSTANTS
  Suspensions,       \* ids of suspension records
  UnfreezeRequests,  \* ids of unfreeze requests
  ApiKeys,           \* ids of API keys
  None               \* a record that does not exist

VARIABLES
  suspensions,       \* suspensions[s]: [user, status]
  unfreezeRequests,  \* unfreezeRequests[q]: [user, status]
  apiKeys            \* apiKeys[k]: [user, status]

moderationVars == <<suspensions, unfreezeRequests, apiKeys>>

Suspension == [user : Users, status : {"active", "lifted"}]
ReviewStatus == {"PENDING", "APPROVED", "REJECTED"}
UnfreezeRequest == [user : Users, status : ReviewStatus]
ApiKey == [user : Users, status : {"active", "revoked"}]

ASSUME ModerationAssumption ==
  None \notin Suspension /\ None \notin UnfreezeRequest /\ None \notin ApiKey

ModerationInit ==
  /\ suspensions = [s \in Suspensions |-> None]
  /\ unfreezeRequests = [q \in UnfreezeRequests |-> None]
  /\ apiKeys = [k \in ApiKeys |-> None]

-----------------------------------------------------------------------------
(* freezeUser                                                              *)

\* The status is read and may go to FROZEN; its write comes next.
AnyStatus(u) == users[u].status # "NONE"   \* mutant: no assertTransition
Freezable(u) == CanTransition(users[u].status, "FROZEN")
FreezeUser(r, u) ==
  /\ req[r] = Idle
  /\ Freezable(u)
  /\ Goto(r, Writing(u, SetStatus("FROZEN"), [pc |-> "suspend", user |-> u]))
  /\ UNCHANGED <<users, moderationVars>>

CreateSuspension(r, s) ==
  /\ req[r].pc = "suspend"
  /\ suspensions[s] = None
  /\ suspensions' = [suspensions EXCEPT ![s] =
       [user |-> req[r].user, status |-> "active"]]
  /\ Goto(r, [pc |-> "revokeAll", user |-> req[r].user])
  /\ UNCHANGED <<users, unfreezeRequests, apiKeys>>

Revoked(key) == [key EXCEPT !.status = "revoked"]

\* revokeAllForUser: one update of all active keys. The audit record follows.
RevokeAllForUser(r) ==
  /\ req[r].pc = "revokeAll"
  /\ apiKeys' = [k \in ApiKeys |->
       IF apiKeys[k] # None /\ apiKeys[k].user = req[r].user
       THEN Revoked(apiKeys[k]) ELSE apiKeys[k]]
  /\ Goto(r, Idle)
  /\ UNCHANGED <<users, suspensions, unfreezeRequests>>

-----------------------------------------------------------------------------
(* Unfreeze requests                                                       *)

\* A frozen user asks to be unfrozen. No code in src/ creates the record.
FileUnfreezeRequest(u, q) ==
  /\ users[u].status = "FROZEN"
  /\ unfreezeRequests[q] = None
  /\ unfreezeRequests' = [unfreezeRequests EXCEPT ![q] =
       [user |-> u, status |-> "PENDING"]]
  /\ UNCHANGED <<users, req, suspensions, apiKeys>>

\* reviewUnfreezeRequest reads a pending request.
ReviewUnfreezeRequest(r, q, decision) ==
  /\ req[r] = Idle
  /\ unfreezeRequests[q] # None
  /\ unfreezeRequests[q].status = "PENDING"
  /\ Goto(r, [pc |-> "setReviewed", request |-> q, decision |-> decision])
  /\ UNCHANGED <<users, moderationVars>>

Lifting(u) == [pc |-> "lift", user |-> u]
StillFrozen == SetStatus("FROZEN")   \* mutant: the status is written back
Reinstated == SetStatus("ACTIVE")

\* setReviewed loads the request once more.
FindReview(r) ==
  /\ req[r].pc = "setReviewed"
  /\ Goto(r, [pc |-> "flushReview", request |-> req[r].request,
               decision |-> req[r].decision,
               seen |-> unfreezeRequests[req[r].request].status])
  /\ UNCHANGED <<users, moderationVars>>

\* It writes the decision; an approval goes on to the user's status.
SetReviewed(r) ==
  LET q == req[r].request
      u == unfreezeRequests[q].user
  IN
  /\ req[r].pc = "flushReview"
  /\ unfreezeRequests' = [unfreezeRequests EXCEPT
       ![q].status = Column(unfreezeRequests[q].status, req[r].seen, req[r].decision)]
  /\ \/ /\ req[r].decision = "APPROVED"
        /\ Goto(r, Writing(u, Reinstated, Lifting(u)))
     \/ /\ req[r].decision = "REJECTED"
        /\ Goto(r, Idle)
  /\ UNCHANGED <<users, suspensions, apiKeys>>

ActiveSuspensions(u) ==
  {s \in Suspensions : suspensions[s] # None /\ suspensions[s].user = u
                       /\ suspensions[s].status = "active"}

\* One active suspension of the user is lifted, if there is one.
LiftSuspension(r) ==
  /\ req[r].pc = "lift"
  /\ \/ \E s \in ActiveSuspensions(req[r].user) :
          suspensions' = [suspensions EXCEPT ![s].status = "lifted"]
     \/ ActiveSuspensions(req[r].user) = {} /\ UNCHANGED suspensions
  /\ Goto(r, Idle)
  /\ UNCHANGED <<users, unfreezeRequests, apiKeys>>

-----------------------------------------------------------------------------
(* API keys: createApiKey and revokeApiKey of UserService, and revokeKey   *)
(* of the admin console. Revoking has the same effect for both.            *)

\* The viewer is resolved; the service itself does not look at the status.
CreateApiKey(r, u) ==
  /\ req[r] = Idle
  /\ Live(users[u])
  /\ Goto(r, [pc |-> "insertKey", user |-> u])
  /\ UNCHANGED <<users, moderationVars>>

InsertApiKey(r, k) ==
  /\ req[r].pc = "insertKey"
  /\ apiKeys[k] = None
  /\ apiKeys' = [apiKeys EXCEPT ![k] = [user |-> req[r].user, status |-> "active"]]
  /\ Goto(r, Idle)
  /\ UNCHANGED <<users, suspensions, unfreezeRequests>>

RevokeApiKey(k) ==
  /\ apiKeys[k] # None /\ apiKeys[k].status = "active"
  /\ apiKeys' = [apiKeys EXCEPT ![k] = Revoked(@)]
  /\ UNCHANGED <<users, req, suspensions, unfreezeRequests>>

ModerationNext ==
  \/ \E r \in Requests, u \in Users : FreezeUser(r, u) \/ CreateApiKey(r, u)
  \/ \E r \in Requests, s \in Suspensions : CreateSuspension(r, s)
  \/ \E r \in Requests :
       RevokeAllForUser(r) \/ FindReview(r) \/ SetReviewed(r) \/ LiftSuspension(r)
  \/ \E u \in Users, q \in UnfreezeRequests : FileUnfreezeRequest(u, q)
  \/ \E r \in Requests, q \in UnfreezeRequests, d \in {"APPROVED", "REJECTED"} :
       ReviewUnfreezeRequest(r, q, d)
  \/ \E r \in Requests, k \in ApiKeys : InsertApiKey(r, k)
  \/ \E k \in ApiKeys : RevokeApiKey(k)
=============================================================================
