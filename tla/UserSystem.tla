---------------------------- MODULE UserSystem ------------------------------
(***************************************************************************)
(* The accounts of apps/api as a whole: users act through Accounts,        *)
(* administrators through Moderation, and both write the same rows. Any    *)
(* two requests interleave at their awaits.                                *)
(***************************************************************************)
EXTENDS Accounts, Moderation

vars == <<users, req, tokens, proven, suspensions, unfreezeRequests, apiKeys>>

Init == UserInit /\ AccountInit /\ ModerationInit

\* A step of a request that does not die.
Work ==
  \/ AccountNext /\ UNCHANGED moderationVars
  \/ ModerationNext /\ UNCHANGED accountVars
  \/ \E r \in Requests :
       (LoadRow(r) \/ FlushRow(r)) /\ UNCHANGED <<accountVars, moderationVars>>

Die == \E r \in Requests : Abort(r) /\ UNCHANGED <<accountVars, moderationVars>>

Next == Work \/ Die

Spec == Init /\ [][Next]_vars

\* No request dies, and each one that can go on with its row, with the review
\* or with the lift does so: the runtime resumes a handler after its await.
GoesOn(r) ==
  \/ (LoadRow(r) \/ FlushRow(r)) /\ UNCHANGED <<accountVars, moderationVars>>
  \/ (FindReview(r) \/ SetReviewed(r) \/ LiftSuspension(r)) /\ UNCHANGED accountVars

UndisturbedSpec ==
  Init /\ [][Work]_vars /\ \A r \in Requests : WF_vars(GoesOn(r))

-----------------------------------------------------------------------------
(* Types                                                                   *)

\* What a request holds between two awaits.
Continuation == {Idle} \cup [pc : {"suspend", "lift"}, user : Users]
Loading == [pc : {"load"}, user : Users, set : Changes, next : Continuation]
Flushing == [pc : {"flush"}, user : Users, set : Changes,
             row : Row \cup {NoRow}, next : Continuation]
Addressed ==
  [pc : {"create", "sendVerify", "sendChange", "confirm"}, user : Users, email : Emails]
Consuming == [pc : {"consume"}, token : Tokens, value : TokenValue]
Reviewing == [pc : {"setReviewed"}, request : UnfreezeRequests,
              decision : {"APPROVED", "REJECTED"}]
Reviewed == [pc : {"flushReview"}, request : UnfreezeRequests,
             decision : {"APPROVED", "REJECTED"}, seen : ReviewStatus]
Moderating == [pc : {"revokeAll", "insertKey"}, user : Users]

RequestState == Continuation \cup Loading \cup Flushing \cup Addressed
                  \cup Consuming \cup Reviewing \cup Reviewed \cup Moderating

TypeOK ==
  /\ users \in [Users -> Row \cup {NoRow}]
  /\ req \in [Requests -> RequestState]
  /\ tokens \in [Tokens -> TokenValue \cup {NoToken}]
  /\ proven \in [Users -> SUBSET Emails]
  /\ suspensions \in [Suspensions -> Suspension \cup {None}]
  /\ unfreezeRequests \in [UnfreezeRequests -> UnfreezeRequest \cup {None}]
  /\ apiKeys \in [ApiKeys -> ApiKey \cup {None}]

-----------------------------------------------------------------------------
(* Properties                                                              *)

\* The status and email_verified_at agree, however confirmations, freezes and
\* approvals interleave: an active or frozen user is verified, an unverified
\* one is not. resendVerificationEmail relies on it: a user stuck as UNVERIFIED
\* with the time set could never get another link (user.service.ts:236).
VerifiedMatchesStatus ==
  \A u \in Users :
    /\ users[u].status \in {"ACTIVE", "FROZEN"} => users[u].verified
    /\ users[u].status = "UNVERIFIED" => ~users[u].verified

\* A verified user has opened a link that was sent to the address the row
\* holds now, whatever other address changes were under way (verifyEmail,
\* verifyEmailChange).
EmailProven ==
  \A u \in Users : users[u].verified => users[u].email \in proven[u]

\* The accounts keep what the other parts rely on, whatever requests overlap or
\* die: no account becomes unverified again or is frozen before it was
\* confirmed, and one step changes one account (UserTable's writes).
Owner == INSTANCE OwnerStatus WITH status <- [u \in Users |-> users[u].status]
OwnerStatusSpec == Owner!OwnerSpec

\* r has recorded an approval and still owes u its status.
Approving(r, u) ==
  req[r].pc = "load" /\ req[r].user = u /\ req[r].next = Lifting(u)

\* An approval reaches the user: once the decision is recorded the user becomes
\* ACTIVE, whatever else writes the row meanwhile, unless it has withdrawn
\* (reviewUnfreezeRequest).
ApprovalTakesEffect ==
  \A r \in Requests, u \in Users :
    Approving(r, u) ~> (users[u].status \in {"ACTIVE", "WITHDRAWN"})

-----------------------------------------------------------------------------
(* What the documents say and the code does not do.                        *)

\* user-status.ts:14: a withdrawn account never comes back.
WithdrawnIsTerminal ==
  [][\A u \in Users :
       users[u].status = "WITHDRAWN" => users'[u].status = "WITHDRAWN"]_vars

\* moderation.ts:52-53: a decided unfreeze request is not decided again.
DecisionIsFinal ==
  [][\A q \in UnfreezeRequests :
       (unfreezeRequests[q] # None /\ unfreezeRequests[q].status # "PENDING")
       => unfreezeRequests'[q] = unfreezeRequests[q]]_vars

\* 01-data-model.md:291: email_normalized is the normal form of email.
NormMatchesEmail ==
  \A u \in Users : users[u].email # NoEmail => users[u].norm = Norm[users[u].email]
=============================================================================
