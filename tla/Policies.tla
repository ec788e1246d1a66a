------------------------------ MODULE Policies ------------------------------
(***************************************************************************)
(* The terms and privacy policy of apps/api: PolicyService, by which a     *)
(* super_admin adds versions and puts one of them in force, and            *)
(* PublicPolicyService, which shows them to visitors. A publication is     *)
(* four queries without a transaction: it finds the row, withdraws every   *)
(* version of its type, publishes its own and writes the audit log.        *)
(***************************************************************************)
EXTENDS Naturals, Sequences

CONSTANTS
  Types,     \* kinds of policy: terms, privacy
  Editors,   \* requests of administrators in flight at once
  MaxRows    \* bound on the rows of the table

ASSUME PolicyAssumption == MaxRows \in Nat

VARIABLES
  policies,   \* the rows of the table, in the order they were inserted
  publisher,  \* publisher[r]: where request r is
  \* History:
  inForce,    \* rows that have been in force, however briefly
  overlapped  \* publications during which another one of the type wrote

policyVars == <<policies, publisher, inForce, overlapped>>
policyHistory == <<inForce, overlapped>>

Row == [type : Types, version : 1..MaxRows, isPublished : BOOLEAN]
OfType(t) == {i \in DOMAIN policies : policies[i].type = t}
Published(t) == {i \in OfType(t) : policies[i].isPublished}

EditorIdle == [pc |-> "idle"]
EditorGoes(r, state) == publisher' = [publisher EXCEPT ![r] = state]

PolicyInit ==
  /\ policies = <<>>
  /\ publisher = [r \in Editors |-> EditorIdle]
  /\ inForce = {} /\ overlapped = {}

-----------------------------------------------------------------------------
(* createVersion                                                           *)

\* maxVersion: the versions are listed with the highest first.
MaxVersion(t) ==
  IF OfType(t) = {} THEN 0
  ELSE CHOOSE n \in {policies[i].version : i \in OfType(t)} :
         \A i \in OfType(t) : policies[i].version <= n

CreateVersion(r, t) ==
  /\ publisher[r] = EditorIdle
  /\ Len(policies) < MaxRows
  /\ EditorGoes(r, [pc |-> "insert", type |-> t, version |-> MaxVersion(t) + 1])
  /\ UNCHANGED <<policies, policyHistory>>

Indexed(t, n) == \E i \in OfType(t) : policies[i].version = n

\* save inserts the row, unless uq_policies_type_version refuses it.
InsertVersion(r) ==
  LET q == publisher[r] IN
  /\ q.pc = "insert"
  /\ \/ Indexed(q.type, q.version) /\ UNCHANGED policies
     \/ /\ ~Indexed(q.type, q.version) /\ Len(policies) < MaxRows
        /\ policies' = Append(policies,
             [type |-> q.type, version |-> q.version, isPublished |-> FALSE])
  /\ EditorGoes(r, EditorIdle)
  /\ UNCHANGED policyHistory

-----------------------------------------------------------------------------
(* publish                                                                 *)

FindPolicy(r, i) ==
  /\ publisher[r] = EditorIdle
  /\ EditorGoes(r, [pc |-> "withdraw", id |-> i])
  /\ overlapped' = overlapped \ {r}
  /\ UNCHANGED <<policies, inForce>>

TypeOf(r) == policies[publisher[r].id].type

\* The first update: no version of the type is published.
OlderWithdrawn(r) ==   \* mutant: only versions up to the new one are withdrawn
  [i \in DOMAIN policies |->
    IF policies[i].type = TypeOf(r) /\ i <= publisher[r].id
    THEN [policies[i] EXCEPT !.isPublished = FALSE] ELSE policies[i]]
Withdrawn(r) ==
  [i \in DOMAIN policies |->
    IF policies[i].type = TypeOf(r)
    THEN [policies[i] EXCEPT !.isPublished = FALSE] ELSE policies[i]]

\* The other publications of the type that rely on an update they have made.
Publishing(r) ==
  {q \in Editors \ {r} :
     publisher[q].pc \in {"publish", "audit"} /\ TypeOf(q) = TypeOf(r)}

WithdrawAll(r) ==
  /\ publisher[r].pc = "withdraw"
  /\ policies' = Withdrawn(r)
  /\ overlapped' = overlapped \cup Publishing(r)
  /\ EditorGoes(r, [publisher[r] EXCEPT !.pc = "publish"])
  /\ UNCHANGED inForce

\* The second update.
PublishOne(r) ==
  /\ publisher[r].pc = "publish"
  /\ policies' = [policies EXCEPT ![publisher[r].id].isPublished = TRUE]
  /\ inForce' = inForce \cup {publisher[r].id}
  /\ overlapped' = overlapped \cup Publishing(r)
  /\ EditorGoes(r, [publisher[r] EXCEPT !.pc = "audit"])

\* The entry POLICY_PUBLISHED; the operation reports success.
RecordPublished(r) ==
  /\ publisher[r].pc = "audit"
  /\ EditorGoes(r, EditorIdle)
  /\ UNCHANGED <<policies, policyHistory>>

\* A request dies between two queries.
AbortPublication(r) ==
  /\ publisher[r].pc # "idle"
  /\ EditorGoes(r, EditorIdle)
  /\ UNCHANGED <<policies, policyHistory>>

PolicyNext ==
  \/ \E r \in Editors, t \in Types : CreateVersion(r, t)
  \/ \E r \in Editors : \E i \in DOMAIN policies : FindPolicy(r, i)
  \/ \E r \in Editors :
       \/ InsertVersion(r) \/ WithdrawAll(r) \/ PublishOne(r)
       \/ RecordPublished(r) \/ AbortPublication(r)

PolicySpec == PolicyInit /\ [][PolicyNext]_policyVars

-----------------------------------------------------------------------------
(* What visitors are shown: PublicPolicyService.                           *)

\* getPublished: the highest version that is published, or none.
Current(t) ==
  {i \in Published(t) : \A j \in Published(t) : policies[j].version <= policies[i].version}

\* listVersions and getVersion show every row, drafts as versions of the past.

-----------------------------------------------------------------------------
(* Properties                                                              *)

PolicyTypeOK ==
  /\ policies \in Seq(Row) /\ Len(policies) <= MaxRows
  /\ publisher \in [Editors ->
       {EditorIdle} \cup [pc : {"insert"}, type : Types, version : 1..(MaxRows + 1)]
              \cup [pc : {"withdraw", "publish", "audit"}, id : 1..MaxRows]]
  /\ inForce \subseteq 1..MaxRows
  /\ overlapped \subseteq Editors

\* A publication that nobody overlapped leaves its version, and it alone, in
\* force and shown, be it newer or older than the one before, and whatever
\* happened to earlier publications (publish).
LonePublicationTakesEffect ==
  \A r \in Editors :
    (publisher[r].pc = "audit" /\ r \notin overlapped)
      => /\ Published(TypeOf(r)) = {publisher[r].id}
         /\ Current(TypeOf(r)) = {publisher[r].id}

\* Of a policy that has been in force exactly one version is, but for the moment
\* between the two updates of a publication (BR-CONTENT-008; publish).
ExactlyOneInForce ==
  \A t \in Types :
    (/\ inForce \cap OfType(t) # {}
     /\ \A r \in Editors : publisher[r].pc = "publish" => TypeOf(r) # t)
      => \E i \in OfType(t) : Published(t) = {i}

\* No two versions of a policy are in force (content.repositories.ts:176).
AtMostOneInForce == \A t \in Types : \A i, j \in Published(t) : i = j
=============================================================================
