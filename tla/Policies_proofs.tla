-------------------------- MODULE Policies_proofs ---------------------------
(***************************************************************************)
(* Proofs about Policies, for any number of types, rows and requests.      *)
(*                                                                         *)
(* Between its two updates a publication that no other one of its type has *)
(* overlapped finds no version in force, and after the second only its own *)
(* (AloneOK). Rows are never deleted and keep their type (RowsStay), and   *)
(* no row has a version beyond its place in the table, which bounds what   *)
(* createVersion can ask for.                                              *)
(***************************************************************************)
EXTENDS Policies, SequenceTheorems, WellFoundedInduction, TLAPS

USE DEF EditorIdle

\* The i-th row has a version of at most i.
VersionsOK ==
  /\ \A i \in DOMAIN policies : policies[i].version <= i
  /\ \A r \in Editors :
       publisher[r].pc = "insert" => publisher[r].version <= Len(policies) + 1

\* A row that was found is still there.
RowsFound ==
  \A r \in Editors :
    publisher[r].pc \in {"withdraw", "publish", "audit"}
      => publisher[r].id \in DOMAIN policies

\* What a publication relies on until another one of its type writes.
AloneOK ==
  \A r \in Editors \ overlapped :
    /\ publisher[r].pc = "publish" => Published(TypeOf(r)) = {}
    /\ publisher[r].pc = "audit" => Published(TypeOf(r)) = {publisher[r].id}

PolicyInv == PolicyTypeOK /\ VersionsOK /\ RowsFound /\ AloneOK

-----------------------------------------------------------------------------
(* Sequences of rows                                                       *)

\* A set of numbers up to n that is not empty has a greatest one.
LEMMA GreatestExists ==
  ASSUME NEW n \in Nat, NEW S, S \subseteq 0..n, S # {}
  PROVE  \E m \in S : \A k \in S : k <= m
<1> DEFINE T == {n - k : k \in S}
<1>1. T \subseteq Nat /\ T # {}
  <2>1. \A k \in S : n - k \in Nat
    OBVIOUS
  <2>2. PICK k \in S : TRUE
    OBVIOUS
  <2>3. n - k \in T
    OBVIOUS
  <2>. QED
    BY <2>1, <2>3
<1>2. PICK x \in T : \A y \in T : ~ <<y, x>> \in OpToRel(<, Nat)
  BY <1>1, NatLessThanWellFounded, WFMin, Zenon
<1>3. PICK m \in S : x = n - m
  OBVIOUS
<1>4. ASSUME NEW k \in S PROVE k <= m
  <2>1. n - k \in T /\ n - k \in Nat /\ x \in Nat
    BY <1>1
  <2>2. ~ (n - k < x)
    BY <1>2, <2>1 DEF OpToRel
  <2>. QED
    BY <2>2, <1>3
<1>. QED
  BY <1>4

\* The greatest version of a type is that of one of its rows.
LEMMA MaxVersionBound ==
  ASSUME MaxRows \in Nat, PolicyInv, NEW t \in Types
  PROVE  MaxVersion(t) \in 0..Len(policies)
<1> DEFINE S == {policies[i].version : i \in OfType(t)}
<1>1. CASE OfType(t) = {}
  BY <1>1, LenProperties DEF MaxVersion, PolicyInv, PolicyTypeOK
<1>2. CASE OfType(t) # {}
  <2>1. S \subseteq 0..Len(policies) /\ S # {}
    <3>1. ASSUME NEW i \in OfType(t) PROVE policies[i].version \in 0..Len(policies)
      <4>1. i \in 1..Len(policies) /\ Len(policies) \in Nat
        BY LenProperties DEF PolicyInv, PolicyTypeOK, OfType
      <4>2. policies[i] \in Row
        BY <4>1, ElementOfSeq DEF PolicyInv, PolicyTypeOK
      <4>3. policies[i].version <= i
        BY DEF PolicyInv, VersionsOK, OfType
      <4>4. policies[i].version \in Nat
        BY <4>2 DEF Row
      <4>. QED
        BY <4>1, <4>3, <4>4
    <3>. QED
      BY <1>2, <3>1
  <2>2. \E m \in S : \A k \in S : k <= m
    BY <2>1, GreatestExists, LenProperties DEF PolicyInv, PolicyTypeOK
  <2>3. \E m \in S : \A i \in OfType(t) : policies[i].version <= m
    BY <2>2
  <2>4. MaxVersion(t) \in S
    BY <1>2, <2>3 DEF MaxVersion
  <2>. QED
    BY <2>1, <2>4
<1>. QED
  BY <1>1, <1>2

\* What an update leaves of the rows: their number, types and versions.
LEMMA WithdrawnRows ==
  ASSUME PolicyInv, NEW r \in Editors, publisher[r].pc = "withdraw"
  PROVE  /\ Withdrawn(r) \in Seq(Row) /\ Len(Withdrawn(r)) = Len(policies)
         /\ DOMAIN Withdrawn(r) = DOMAIN policies
         /\ \A i \in DOMAIN policies :
              /\ Withdrawn(r)[i].type = policies[i].type
              /\ Withdrawn(r)[i].version = policies[i].version
              /\ Withdrawn(r)[i].isPublished =
                   (policies[i].isPublished /\ policies[i].type # TypeOf(r))
<1> DEFINE new == Withdrawn(r)
<1>1. Len(policies) \in Nat /\ DOMAIN policies = 1..Len(policies)
  BY LenProperties DEF PolicyInv, PolicyTypeOK
<1>2. ASSUME NEW i \in DOMAIN policies
      PROVE  /\ policies[i] \in Row /\ new[i] \in Row
             /\ new[i].type = policies[i].type
             /\ new[i].version = policies[i].version
             /\ new[i].isPublished =
                  (policies[i].isPublished /\ policies[i].type # TypeOf(r))
  <2>1. policies[i] \in Row
    BY <1>1, ElementOfSeq DEF PolicyInv, PolicyTypeOK
  <2>2. CASE policies[i].type = TypeOf(r)
    <3>1. new[i] = [policies[i] EXCEPT !.isPublished = FALSE]
      BY <2>2 DEF Withdrawn
    <3>. QED
      BY <2>1, <2>2, <3>1 DEF Row
  <2>3. CASE policies[i].type # TypeOf(r)
    <3>1. new[i] = policies[i]
      BY <2>3 DEF Withdrawn
    <3>2. policies[i].isPublished \in BOOLEAN
      BY <2>1 DEF Row
    <3>. QED
      BY <2>1, <2>3, <3>1, <3>2
  <2>. QED
    BY <2>1, <2>2, <2>3
<1>3. DOMAIN new = 1..Len(policies)
  BY <1>1 DEF Withdrawn
<1>4. new \in [1..Len(policies) -> Row]
  BY <1>1, <1>2, <1>3 DEF Withdrawn
<1>5. new \in Seq(Row)
  BY <1>1, <1>4, SeqDef
<1>6. Len(new) = Len(policies)
  BY <1>1, <1>3, <1>5, LenProperties
<1>. QED
  BY <1>1, <1>2, <1>3, <1>5, <1>6

LEMMA PublishedRows ==
  ASSUME PolicyInv, NEW r \in Editors, publisher[r].pc = "publish"
  PROVE  LET new == [policies EXCEPT ![publisher[r].id].isPublished = TRUE] IN
         /\ new \in Seq(Row) /\ Len(new) = Len(policies)
         /\ DOMAIN new = DOMAIN policies
         /\ \A i \in DOMAIN policies :
              /\ new[i].type = policies[i].type
              /\ new[i].version = policies[i].version
              /\ new[i].isPublished = (policies[i].isPublished \/ i = publisher[r].id)
<1> DEFINE id == publisher[r].id
           row == [policies[id] EXCEPT !.isPublished = TRUE]
           new == [policies EXCEPT ![id] = row]
<1>1. Len(policies) \in Nat /\ DOMAIN policies = 1..Len(policies)
  BY LenProperties DEF PolicyInv, PolicyTypeOK
<1>2. id \in 1..Len(policies)
  BY <1>1 DEF PolicyInv, RowsFound
<1>3. \A i \in DOMAIN policies : policies[i] \in Row
  BY <1>1, ElementOfSeq DEF PolicyInv, PolicyTypeOK
<1>4. /\ row \in Row /\ row.isPublished = TRUE
      /\ row.type = policies[id].type /\ row.version = policies[id].version
  BY <1>1, <1>2, <1>3 DEF Row
<1>5. /\ new \in Seq(Row) /\ Len(new) = Len(policies)
      /\ \A j \in 1..Len(policies) : new[j] = IF j = id THEN row ELSE policies[j]
  BY <1>2, <1>4, ExceptSeq DEF PolicyInv, PolicyTypeOK
<1>6. ASSUME NEW i \in DOMAIN policies
      PROVE  /\ new[i].type = policies[i].type
             /\ new[i].version = policies[i].version
             /\ new[i].isPublished = (policies[i].isPublished \/ i = id)
  <2>1. policies[i].isPublished \in BOOLEAN
    BY <1>3 DEF Row
  <2>. QED
    BY <1>1, <1>4, <1>5, <2>1
<1>7. DOMAIN new = DOMAIN policies
  OBVIOUS
<1>8. new = [policies EXCEPT ![publisher[r].id].isPublished = TRUE]
  OBVIOUS
<1> HIDE DEF new
<1>. QED
  BY <1>5, <1>6, <1>7, <1>8

-----------------------------------------------------------------------------
(* States and steps                                                        *)

LEMMA PolicyGotoState ==
  ASSUME PolicyTypeOK, NEW r \in Editors, NEW s, EditorGoes(r, s)
  PROVE  /\ publisher'[r] = s
         /\ \A q \in Editors \ {r} : publisher'[q] = publisher[q]
         /\ publisher' = [publisher EXCEPT ![r] = s]
BY DEF PolicyTypeOK, EditorGoes

\* The state of a request tells by its pc which record it is.
LEMMA PolicyStateKinds ==
  ASSUME PolicyTypeOK, NEW r \in Editors
  PROVE  /\ publisher[r].pc \in {"idle", "insert", "withdraw", "publish", "audit"}
         /\ publisher[r].pc = "insert" =>
              publisher[r] \in [pc : {"insert"}, type : Types, version : 1..(MaxRows + 1)]
         /\ publisher[r].pc \in {"withdraw", "publish", "audit"} =>
              publisher[r] \in [pc : {"withdraw", "publish", "audit"}, id : 1..MaxRows]
BY DEF PolicyTypeOK

\* A row that was found has a type, and keeps it.
LEMMA TypeOfFound ==
  ASSUME PolicyInv, NEW r \in Editors, publisher[r].pc \in {"withdraw", "publish", "audit"}
  PROVE  TypeOf(r) \in Types
<1>1. publisher[r].id \in 1..Len(policies)
  BY LenProperties DEF PolicyInv, PolicyTypeOK, RowsFound
<1>2. policies[publisher[r].id] \in Row
  BY <1>1, ElementOfSeq DEF PolicyInv, PolicyTypeOK
<1>. QED
  BY <1>2 DEF TypeOf, Row

\* What is published of a type after a step, when the type itself is no other.
LEMMA PublishedOfPrimed ==
  ASSUME NEW r, NEW t, TypeOf(r)' = t
  PROVE  Published(TypeOf(r))' = {i \in DOMAIN policies' :
                                    policies'[i].type = t /\ policies'[i].isPublished}
BY DEF Published, OfType

\* A step that changes no row and takes r to a state that claims nothing of
\* them.
LEMMA PolicyQuietStep ==
  ASSUME PolicyInv, NEW r \in Editors, NEW s, EditorGoes(r, s),
         s \in {EditorIdle} \cup [pc : {"insert"}, type : Types, version : 1..(MaxRows + 1)]
               \cup [pc : {"withdraw"}, id : 1..MaxRows],
         s.pc = "insert" => s.version <= Len(policies) + 1,
         s.pc = "withdraw" => s.id \in DOMAIN policies,
         UNCHANGED <<policies, inForce>>,
         overlapped \ {r} \subseteq overlapped', overlapped' \subseteq Editors
  PROVE  PolicyInv'
<1>1. /\ publisher'[r] = s /\ \A q \in Editors \ {r} : publisher'[q] = publisher[q]
      /\ publisher' = [publisher EXCEPT ![r] = s]
  BY PolicyGotoState DEF PolicyInv
<1>2. s.pc \in {"idle", "insert", "withdraw"}
  OBVIOUS
<1>3. PolicyTypeOK'
  BY <1>1 DEF PolicyInv, PolicyTypeOK
<1>4. VersionsOK'
  BY <1>1 DEF PolicyInv, VersionsOK
<1>5. RowsFound'
  BY <1>1, <1>2 DEF PolicyInv, RowsFound
<1>6. AloneOK'
  BY <1>1, <1>2 DEF PolicyInv, AloneOK, Published, OfType, TypeOf
<1>. QED
  BY <1>3, <1>4, <1>5, <1>6 DEF PolicyInv

LEMMA CreateVersionStep ==
  ASSUME MaxRows \in Nat, PolicyInv, NEW r \in Editors, NEW t \in Types, CreateVersion(r, t)
  PROVE  PolicyInv'
<1> DEFINE s == [pc |-> "insert", type |-> t, version |-> MaxVersion(t) + 1]
<1>1. MaxVersion(t) \in 0..Len(policies) /\ Len(policies) \in Nat /\ Len(policies) <= MaxRows
  BY MaxVersionBound, LenProperties DEF PolicyInv, PolicyTypeOK
<1>2. /\ s \in [pc : {"insert"}, type : Types, version : 1..(MaxRows + 1)]
      /\ s.pc = "insert" /\ s.version <= Len(policies) + 1
  BY <1>1
<1>3. EditorGoes(r, s) /\ UNCHANGED <<policies, inForce, overlapped>>
  BY DEF CreateVersion, policyHistory
<1>4. publisher[r].pc = "idle"
  BY DEF CreateVersion
<1> HIDE DEF s
<1>5. overlapped \subseteq Editors
  BY DEF PolicyInv, PolicyTypeOK
<1>. QED
  BY <1>2, <1>3, <1>4, <1>5, PolicyQuietStep

LEMMA FindPolicyStep ==
  ASSUME MaxRows \in Nat, PolicyInv, NEW r \in Editors, NEW i \in DOMAIN policies, FindPolicy(r, i)
  PROVE  PolicyInv'
<1> DEFINE s == [pc |-> "withdraw", id |-> i]
<1>1. i \in 1..Len(policies) /\ Len(policies) \in Nat /\ Len(policies) <= MaxRows
  BY LenProperties DEF PolicyInv, PolicyTypeOK
<1>2. s \in [pc : {"withdraw"}, id : 1..MaxRows] /\ s.pc = "withdraw" /\ s.id = i
  <2>1. i \in 1..MaxRows
    BY <1>1, LenProperties DEF PolicyInv, PolicyTypeOK
  <2>. QED
    BY <2>1
<1>3. EditorGoes(r, s) /\ UNCHANGED <<policies, inForce>> /\ overlapped' = overlapped \ {r}
  BY DEF FindPolicy
<1>4. publisher[r].pc = "idle"
  BY DEF FindPolicy
<1> HIDE DEF s
<1>5. overlapped \subseteq Editors
  BY DEF PolicyInv, PolicyTypeOK
<1>. QED
  BY <1>2, <1>3, <1>4, <1>5, PolicyQuietStep

LEMMA RecordPublishedStep ==
  ASSUME PolicyInv, NEW r \in Editors, RecordPublished(r)
  PROVE  PolicyInv'
<1>1. EditorGoes(r, EditorIdle) /\ UNCHANGED <<policies, inForce, overlapped>>
  BY DEF RecordPublished, policyHistory
<1>2. publisher[r].pc = "audit"
  BY DEF RecordPublished
<1>3. overlapped \subseteq Editors
  BY DEF PolicyInv, PolicyTypeOK
<1>. QED
  BY <1>1, <1>2, <1>3, PolicyQuietStep

LEMMA AbortPublicationStep ==
  ASSUME PolicyInv, NEW r \in Editors, AbortPublication(r)
  PROVE  PolicyInv'
<1>1. EditorGoes(r, EditorIdle) /\ UNCHANGED <<policies, inForce, overlapped>>
  BY DEF AbortPublication, policyHistory
<1>2. overlapped \subseteq Editors
  BY DEF PolicyInv, PolicyTypeOK
<1>. QED
  BY <1>1, <1>2, PolicyQuietStep

LEMMA InsertVersionStep ==
  ASSUME MaxRows \in Nat, PolicyInv, NEW r \in Editors, InsertVersion(r)
  PROVE  PolicyInv'
<1> DEFINE q == publisher[r]
           row == [type |-> q.type, version |-> q.version, isPublished |-> FALSE]
<1>1. q.pc = "insert" /\ EditorGoes(r, EditorIdle) /\ UNCHANGED <<inForce, overlapped>>
  BY DEF InsertVersion, policyHistory
<1>2. overlapped \subseteq Editors
  BY DEF PolicyInv, PolicyTypeOK
<1>3. CASE UNCHANGED policies
  BY <1>1, <1>2, <1>3, PolicyQuietStep
<1>4. CASE Len(policies) < MaxRows /\ policies' = Append(policies, row)
  <2>1. /\ Len(policies) \in Nat /\ DOMAIN policies = 1..Len(policies)
        /\ policies \in Seq(Row)
    BY LenProperties DEF PolicyInv, PolicyTypeOK
  <2>2. q.version \in Nat \ {0} /\ q.version <= Len(policies) + 1 /\ q.type \in Types
    BY <1>1, <2>1, PolicyStateKinds DEF PolicyInv, VersionsOK
  <2>3. row \in Row
    BY <1>4, <2>1, <2>2 DEF Row
  <2>4. /\ policies' \in Seq(Row) /\ Len(policies') = Len(policies) + 1
        /\ DOMAIN policies' = 1..(Len(policies) + 1)
        /\ \A i \in 1..Len(policies) : policies'[i] = policies[i]
        /\ policies'[Len(policies) + 1] = row
    BY <1>4, <2>1, <2>3, AppendProperties, LenProperties
  <2>5. /\ publisher'[r] = EditorIdle /\ \A p \in Editors \ {r} : publisher'[p] = publisher[p]
        /\ publisher' = [publisher EXCEPT ![r] = EditorIdle]
    BY <1>1, PolicyGotoState DEF PolicyInv
  <2>6. PolicyTypeOK'
    <3>1. Len(policies') <= MaxRows
      BY <1>4, <2>1, <2>4
    <3>. QED
      BY <1>1, <2>4, <2>5, <3>1 DEF PolicyInv, PolicyTypeOK
  <2>7. row.version <= Len(policies) + 1 /\ row.isPublished = FALSE
    BY <2>2
  <2> HIDE DEF row
  <2>8. VersionsOK'
    <3>1. ASSUME NEW i \in DOMAIN policies' PROVE policies'[i].version <= i
      BY <2>1, <2>4, <2>7 DEF PolicyInv, VersionsOK
    <3>2. ASSUME NEW p \in Editors, publisher'[p].pc = "insert"
          PROVE  publisher'[p].version <= Len(policies') + 1
      <4>1. p # r /\ publisher'[p] = publisher[p]
        BY <2>5, <3>2
      <4>2. publisher[p].version \in Nat /\ publisher[p].version <= Len(policies) + 1
        BY <3>2, <4>1, PolicyStateKinds DEF PolicyInv, VersionsOK
      <4>. QED
        BY <2>1, <2>4, <4>1, <4>2
    <3>. QED
      BY <3>1, <3>2 DEF VersionsOK
  <2>9. DOMAIN policies \subseteq DOMAIN policies'
    BY <2>1, <2>4
  <2>10. RowsFound'
    BY <1>1, <2>5, <2>9 DEF PolicyInv, RowsFound
  <2>11. \A p \in Editors \ {r} :
           publisher[p].pc \in {"withdraw", "publish", "audit"} => TypeOf(p)' = TypeOf(p)
    BY <2>1, <2>4, <2>5 DEF PolicyInv, RowsFound, TypeOf
  <2>12. \A t \in Types : Published(t)' = Published(t)
    BY <2>1, <2>4, <2>7 DEF Published, OfType
  <2>13. AloneOK'
    <3>1. ASSUME NEW p \in Editors \ overlapped',
                 publisher'[p].pc \in {"publish", "audit"}
          PROVE  /\ p \in Editors \ overlapped /\ publisher'[p] = publisher[p]
                 /\ Published(TypeOf(p))' = Published(TypeOf(p))
      <4>1. p # r /\ p \notin overlapped
        BY <1>1, <2>5, <3>1
      <4>2. publisher'[p] = publisher[p] /\ TypeOf(p)' = TypeOf(p) /\ TypeOf(p) \in Types
        BY <2>5, <2>11, <3>1, <4>1, TypeOfFound
      <4>3. Published(TypeOf(p))' = {i \in OfType(TypeOf(p))' : policies'[i].isPublished}
        BY <4>2 DEF Published, OfType
      <4>4. Published(TypeOf(p)) = {i \in OfType(TypeOf(p))' : policies'[i].isPublished}
        BY <2>12, <4>2 DEF Published, OfType
      <4>. QED
        BY <4>1, <4>2, <4>3, <4>4
    <3>. QED
      BY <3>1 DEF PolicyInv, AloneOK
  <2>. QED
    BY <2>6, <2>8, <2>10, <2>13 DEF PolicyInv
<1>. QED
  BY <1>3, <1>4 DEF InsertVersion

\* The first update leaves no version of the type in force, and touches no
\* other type; who relied on one of the type is overlapped.
LEMMA WithdrawAllStep ==
  ASSUME PolicyInv, NEW r \in Editors, WithdrawAll(r)
  PROVE  PolicyInv'
<1> DEFINE s == [publisher[r] EXCEPT !.pc = "publish"]
<1>1. /\ publisher[r].pc = "withdraw" /\ policies' = Withdrawn(r)
      /\ UNCHANGED inForce /\ EditorGoes(r, s)
      /\ overlapped' = overlapped \cup Publishing(r)
  BY DEF WithdrawAll
<1>2. /\ policies' \in Seq(Row) /\ Len(policies') = Len(policies)
      /\ DOMAIN policies' = DOMAIN policies
      /\ \A i \in DOMAIN policies :
           /\ policies'[i].type = policies[i].type
           /\ policies'[i].version = policies[i].version
           /\ policies'[i].isPublished =
                (policies[i].isPublished /\ policies[i].type # TypeOf(r))
  BY <1>1, WithdrawnRows
<1>3. publisher[r] \in [pc : {"withdraw", "publish", "audit"}, id : 1..MaxRows]
  BY <1>1, PolicyStateKinds DEF PolicyInv
<1>4. /\ s \in [pc : {"withdraw", "publish", "audit"}, id : 1..MaxRows]
      /\ s.pc = "publish" /\ s.id = publisher[r].id
  BY <1>3
<1>5. /\ publisher'[r] = s /\ \A p \in Editors \ {r} : publisher'[p] = publisher[p]
      /\ publisher' = [publisher EXCEPT ![r] = s]
  BY <1>1, PolicyGotoState DEF PolicyInv
<1> HIDE DEF s
<1>6. PolicyTypeOK'
  BY <1>1, <1>2, <1>4, <1>5 DEF PolicyInv, PolicyTypeOK, Publishing
<1>7. VersionsOK'
  BY <1>2, <1>4, <1>5 DEF PolicyInv, VersionsOK
<1>8. RowsFound'
  BY <1>1, <1>2, <1>4, <1>5 DEF PolicyInv, RowsFound
<1>9. \A p \in Editors :
        publisher[p].pc \in {"withdraw", "publish", "audit"} => TypeOf(p)' = TypeOf(p)
  BY <1>2, <1>4, <1>5 DEF PolicyInv, RowsFound, TypeOf
<1>10. \A t \in Types : OfType(t)' = OfType(t)
  BY <1>2 DEF OfType
<1>11. \A t \in Types : Published(t)' = IF t = TypeOf(r) THEN {} ELSE Published(t)
  BY <1>2, <1>10 DEF OfType, Published
<1>12. AloneOK'
  BY <1>1, <1>4, <1>5, <1>9, <1>11, TypeOfFound, PublishedOfPrimed
  DEF PolicyInv, AloneOK, Publishing
<1>. QED
  BY <1>6, <1>7, <1>8, <1>12 DEF PolicyInv

\* The second update adds the request's own version to those in force.
LEMMA PublishOneStep ==
  ASSUME PolicyInv, NEW r \in Editors, PublishOne(r)
  PROVE  PolicyInv'
<1> DEFINE s == [publisher[r] EXCEPT !.pc = "audit"]
           id == publisher[r].id
<1>1. /\ publisher[r].pc = "publish" /\ EditorGoes(r, s)
      /\ policies' = [policies EXCEPT ![id].isPublished = TRUE]
      /\ inForce' = inForce \cup {id}
      /\ overlapped' = overlapped \cup Publishing(r)
  BY DEF PublishOne
<1>2. /\ policies' \in Seq(Row) /\ Len(policies') = Len(policies)
      /\ DOMAIN policies' = DOMAIN policies
      /\ \A i \in DOMAIN policies :
           /\ policies'[i].type = policies[i].type
           /\ policies'[i].version = policies[i].version
           /\ policies'[i].isPublished = (policies[i].isPublished \/ i = id)
  BY <1>1, PublishedRows
<1>3. publisher[r] \in [pc : {"withdraw", "publish", "audit"}, id : 1..MaxRows]
  BY <1>1, PolicyStateKinds DEF PolicyInv
<1>4. /\ s \in [pc : {"withdraw", "publish", "audit"}, id : 1..MaxRows]
      /\ s.pc = "audit" /\ s.id = id /\ id \in 1..MaxRows
  BY <1>3
<1>5. /\ publisher'[r] = s /\ \A p \in Editors \ {r} : publisher'[p] = publisher[p]
      /\ publisher' = [publisher EXCEPT ![r] = s]
  BY <1>1, PolicyGotoState DEF PolicyInv
<1> HIDE DEF s
<1>6. PolicyTypeOK'
  BY <1>1, <1>2, <1>4, <1>5 DEF PolicyInv, PolicyTypeOK, Publishing
<1>7. VersionsOK'
  BY <1>2, <1>4, <1>5 DEF PolicyInv, VersionsOK
<1>8. RowsFound'
  BY <1>1, <1>2, <1>4, <1>5 DEF PolicyInv, RowsFound
<1>9. \A p \in Editors :
        publisher[p].pc \in {"withdraw", "publish", "audit"} => TypeOf(p)' = TypeOf(p)
  BY <1>2, <1>4, <1>5 DEF PolicyInv, RowsFound, TypeOf
<1>10. \A t \in Types : OfType(t)' = OfType(t)
  BY <1>2 DEF OfType
<1>11. id \in OfType(TypeOf(r)) /\ \A t \in Types \ {TypeOf(r)} : id \notin OfType(t)
  BY <1>1 DEF PolicyInv, RowsFound, OfType, TypeOf
<1>12. \A t \in Types : Published(t)' = IF t = TypeOf(r) THEN Published(t) \cup {id}
                                                      ELSE Published(t)
  <2> SUFFICES ASSUME NEW t \in Types
               PROVE  Published(t)' = IF t = TypeOf(r) THEN Published(t) \cup {id}
                                                      ELSE Published(t)
    OBVIOUS
  <2>1. OfType(t) \subseteq DOMAIN policies
    BY DEF OfType
  <2>2. Published(t)' = {i \in OfType(t) : policies[i].isPublished \/ i = id}
    BY <1>2, <1>10, <2>1 DEF Published
  <2>3. (id \in OfType(t)) = (t = TypeOf(r))
    BY <1>11
  <2>. QED
    BY <2>2, <2>3 DEF Published
<1>13. AloneOK'
  BY <1>1, <1>4, <1>5, <1>9, <1>12, TypeOfFound, PublishedOfPrimed
  DEF PolicyInv, AloneOK, Publishing
<1>. QED
  BY <1>6, <1>7, <1>8, <1>13 DEF PolicyInv

-----------------------------------------------------------------------------
(* The theorems                                                            *)

LEMMA PolicyInitInv == ASSUME MaxRows \in Nat, PolicyInit PROVE PolicyInv
<1>1. policies = <<>> /\ policies \in Seq(Row) /\ Len(policies) = 0 /\ DOMAIN policies = {}
  BY EmptySeq, LenProperties DEF PolicyInit
<1>2. \A r \in Editors : publisher[r] = EditorIdle
  BY DEF PolicyInit
<1>3. PolicyTypeOK
  BY <1>1 DEF PolicyInit, PolicyTypeOK
<1>4. VersionsOK /\ RowsFound
  BY <1>1, <1>2 DEF PolicyInit, VersionsOK, RowsFound
<1>5. AloneOK
  BY <1>2 DEF AloneOK
<1>. QED
  BY <1>3, <1>4, <1>5 DEF PolicyInv

LEMMA PolicyStepInv == ASSUME MaxRows \in Nat, PolicyInv, [PolicyNext]_policyVars PROVE PolicyInv'
<1>1. CASE UNCHANGED policyVars
  BY <1>1 DEF policyVars, PolicyInv, PolicyTypeOK, VersionsOK, RowsFound, AloneOK,
              Published, OfType, TypeOf
<1>2. CASE PolicyNext
  BY <1>2, CreateVersionStep, FindPolicyStep, InsertVersionStep, WithdrawAllStep,
     PublishOneStep, RecordPublishedStep, AbortPublicationStep DEF PolicyNext
<1>. QED
  BY <1>1, <1>2

\* The inductive invariant holds in every behaviour, for any number of types,
\* rows and requests (PolicyService).
THEOREM PolicyInvariant == PolicySpec => []PolicyInv
<1>1. PolicyInit => PolicyInv
  BY PolicyInitInv, PolicyAssumption
<1>2. PolicyInv /\ [PolicyNext]_policyVars => PolicyInv'
  BY PolicyStepInv, PolicyAssumption
<1>. QED
  BY <1>1, <1>2, PTL DEF PolicySpec

\* Rows and requests keep their types, and no request asks for a version beyond
\* the bound (createVersion).
THEOREM PoliciesTyped == PolicySpec => []PolicyTypeOK
<1>1. PolicyInv => PolicyTypeOK
  BY DEF PolicyInv
<1>. QED
  BY <1>1, PolicyInvariant, PTL

\* A publication that no other one overlapped leaves its version in force and
\* shown, and no other (publish, getPublished).
THEOREM PublicationsTakeEffect == PolicySpec => []LonePublicationTakesEffect
<1>1. PolicyInv => LonePublicationTakesEffect
  <2> SUFFICES ASSUME PolicyInv, NEW r \in Editors,
                      publisher[r].pc = "audit", r \notin overlapped
               PROVE  /\ Published(TypeOf(r)) = {publisher[r].id}
                      /\ Current(TypeOf(r)) = {publisher[r].id}
    BY DEF LonePublicationTakesEffect
  <2>1. Published(TypeOf(r)) = {publisher[r].id}
    BY DEF PolicyInv, AloneOK
  <2>2. policies[publisher[r].id].version \in Nat
    <3>1. publisher[r].id \in 1..Len(policies)
      BY LenProperties DEF PolicyInv, PolicyTypeOK, RowsFound
    <3>2. policies[publisher[r].id] \in Row
      BY <3>1, ElementOfSeq DEF PolicyInv, PolicyTypeOK
    <3>. QED
      BY <3>2 DEF Row
  <2>. QED
    BY <2>1, <2>2 DEF Current
<1>. QED
  BY <1>1, PolicyInvariant, PTL

\* What BR-CONTENT-008 says is half true while publications come one at a time:
\* no two versions of a policy are in force, whichever requests have died and
\* wherever (publish, content.repositories.ts:176).
THEOREM OneAtATimePolicies ==
  ASSUME \A p, r \in Editors : p = r
  PROVE  PolicySpec => []AtMostOneInForce
<1> DEFINE Kept == overlapped = {} /\ AtMostOneInForce
<1>1. PolicyInit => Kept
  BY DEF PolicyInit, AtMostOneInForce, Published, OfType
<1>2. PolicyInv /\ [PolicyNext]_policyVars /\ Kept => Kept'
  <2> SUFFICES ASSUME PolicyInv, [PolicyNext]_policyVars, Kept PROVE Kept'
    OBVIOUS
  <2>1. CASE policies' = policies /\ overlapped' \subseteq overlapped
    BY <2>1 DEF AtMostOneInForce, Published, OfType
  <2>2. ASSUME NEW r \in Editors PROVE Publishing(r) = {}
    BY DEF Publishing
  <2>3. ASSUME NEW r \in Editors, InsertVersion(r) PROVE Kept'
    <3>1. CASE policies' = policies
      BY <2>1, <2>3, <3>1 DEF InsertVersion, policyHistory
    <3>2. CASE policies' # policies
      <4>1. policies' = Append(policies, [type |-> publisher[r].type,
              version |-> publisher[r].version, isPublished |-> FALSE])
        BY <2>3, <3>2 DEF InsertVersion
      <4>2. publisher[r].type \in Types /\ publisher[r].version \in Nat
        BY <2>3, PolicyStateKinds DEF InsertVersion, PolicyInv
      <4>3. \A i \in DOMAIN policies' :
              policies'[i].isPublished => /\ i \in DOMAIN policies
                                          /\ policies'[i] = policies[i]
        <5>1. policies \in Seq(Row)
          BY DEF PolicyInv, PolicyTypeOK
        <5>. QED
          BY <4>1, <5>1
      <4>. QED
        BY <2>3, <4>3 DEF AtMostOneInForce, Published, OfType, InsertVersion, policyHistory
    <3>. QED
      BY <3>1, <3>2
  <2>4. ASSUME NEW r \in Editors, WithdrawAll(r) PROVE Kept'
    <3>1. overlapped' = {}
      BY <2>2, <2>4 DEF WithdrawAll
    <3>2. /\ publisher[r].pc = "withdraw" /\ policies' = Withdrawn(r)
          /\ DOMAIN policies' = DOMAIN policies
          /\ \A i \in DOMAIN policies :
               /\ policies'[i].type = policies[i].type
               /\ policies'[i].isPublished => policies[i].isPublished
      BY <2>4, WithdrawnRows DEF WithdrawAll
    <3>. QED
      BY <3>1, <3>2 DEF AtMostOneInForce, Published, OfType
  <2>5. ASSUME NEW r \in Editors, PublishOne(r) PROVE Kept'
    <3>1. overlapped' = {}
      BY <2>2, <2>5 DEF PublishOne
    <3>2. publisher[r].pc = "publish" /\ Published(TypeOf(r)) = {}
      BY <2>5 DEF PublishOne, PolicyInv, AloneOK
    <3>3. /\ DOMAIN policies' = DOMAIN policies
          /\ \A i \in DOMAIN policies :
               /\ policies'[i].type = policies[i].type
               /\ policies'[i].isPublished = (policies[i].isPublished \/ i = publisher[r].id)
      BY <2>5, <3>2, PublishedRows DEF PublishOne
    <3>4. ASSUME NEW t \in Types, NEW i \in Published(t)', NEW j \in Published(t)' PROVE i = j
      <4>1. CASE t = TypeOf(r)
        BY <3>2, <3>3, <3>4, <4>1 DEF Published, OfType
      <4>2. CASE t # TypeOf(r)
        <5>1. policies[publisher[r].id].type # t
          BY <4>2 DEF TypeOf
        <5>2. i \in Published(t) /\ j \in Published(t)
          BY <3>3, <3>4, <5>1 DEF Published, OfType
        <5>. QED
          BY <5>2 DEF AtMostOneInForce
      <4>. QED
        BY <4>1, <4>2
    <3>. QED
      BY <3>1, <3>4 DEF AtMostOneInForce
  <2>6. CASE UNCHANGED policyVars
    BY <2>1, <2>6 DEF policyVars
  <2>7. ASSUME NEW r \in Editors, NEW t \in Types, CreateVersion(r, t) PROVE Kept'
    BY <2>1, <2>7 DEF CreateVersion, policyHistory
  <2>8. ASSUME NEW r \in Editors, NEW i \in DOMAIN policies, FindPolicy(r, i) PROVE Kept'
    BY <2>1, <2>8 DEF FindPolicy
  <2>9. ASSUME NEW r \in Editors, RecordPublished(r) \/ AbortPublication(r) PROVE Kept'
    BY <2>1, <2>9 DEF RecordPublished, AbortPublication, policyHistory
  <2>. QED
    BY <2>3, <2>4, <2>5, <2>6, <2>7, <2>8, <2>9 DEF PolicyNext
<1>3. Kept => AtMostOneInForce
  OBVIOUS
<1>. QED
  BY <1>1, <1>2, <1>3, PolicyInvariant, PTL DEF PolicySpec
=============================================================================
