-------------------------- MODULE Profiles_proofs ---------------------------
(***************************************************************************)
(* Proofs about Profiles, for any number of users, handles, requests and   *)
(* links.                                                                  *)
(*                                                                         *)
(* The invariant is about what a request holds. As long as no other write  *)
(* has come between, the row it read is still the row and the record it    *)
(* will save is that row with what was asked for (AloneOK); as long as its *)
(* owner's status has not changed, the owner may still edit (PromptOK).    *)
(* Each step writes one row or one set of links, and puts whoever relied   *)
(* on it among the overlapped: lemma KeepsOthers.                          *)
(***************************************************************************)
EXTENDS Profiles, TLAPS

USE DEF Idle, LaterStatus

\* The record is the row with what was asked for; the search name is derived
\* anew if the name may change.
Derived(q, row) ==
  \E derive \in BOOLEAN :
    /\ q.record = Edited(row, q.ask, derive)
    /\ derive \/ \A p \in NameParts : q.ask[p] = Keep

\* What a request relies on until another write comes between.
AloneOK(q) ==
  /\ q.pc \in {"checkHandle", "save"} => Derived(q, profiles[q.user])
  /\ q.pc = "flush" => q.row = profiles[q.user] /\ Derived(q, q.row)
  /\ q.pc = "gate" => q.visibility = profiles[q.user].visibility
  /\ q.pc = "insertLinks" => links[q.user] = {}

\* What it relies on until its owner's status changes.
PromptOK(q) ==
  /\ q.pc = "admitted" => /\ status[q.user] = q.status
                          /\ q.via = "key" => q.status = "ACTIVE"
  /\ (q.pc \in {"checkHandle", "save", "flush", "deleteLinks", "insertLinks"}
        /\ q.via # "console") => status[q.user] \in {"UNVERIFIED", "ACTIVE"}

\* A profile that was found is still there.
Present(q) ==
  q.pc \in {"checkHandle", "save", "flush", "gate"} => profiles[q.user] # NoProfile

HeldOK(r) ==
  /\ Present(req[r])
  /\ r \notin overlapped => AloneOK(req[r])
  /\ r \notin late => PromptOK(req[r])

ProfileInv == TypeOK /\ \A r \in Requests : HeldOK(r)

-----------------------------------------------------------------------------
(* Rows                                                                    *)

\* The columns are told apart by their names.
LEMMA ColumnNames ==
  /\ "searchName" \notin Columns
  /\ \A p \in NameParts : /\ p \in Columns
                          /\ p \notin {"handle", "visibility", "icon", "searchName"}
BY ProfileAssumption DEF Columns

LEMMA RowExists == ASSUME NEW row, IsRow(row) PROVE row # NoProfile
<1>1. "handle" \in DOMAIN row
  BY DEF IsRow, Columns
<1>. QED
  BY <1>1 DEF NoProfile

LEMMA NewRowOK == ASSUME NEW u \in Users PROVE IsRow(NewRow(u))
BY ProfileAssumption, ColumnNames DEF IsRow, NewRow, ColumnValues, Columns, Visibility

LEMMA AskOK ==
  ASSUME NEW h \in Handles \cup {Keep}, NEW v \in Visibility \cup {Keep},
         NEW i \in {"none", Keep}, NEW n \in [NameParts -> Names \cup {NoName, Keep}]
  PROVE  IsAsk(Ask(h, v, i, n)) /\ \A p \in NameParts : Ask(h, v, i, n)[p] = n[p]
BY ColumnNames DEF IsAsk, Ask, ColumnValues, Columns

LEMMA EditedOK ==
  ASSUME NEW row, IsRow(row), NEW ask, IsAsk(ask), NEW derive \in BOOLEAN
  PROVE  IsRow(Edited(row, ask, derive))
<1> DEFINE new == Edited(row, ask, derive)
<1>1. DOMAIN new = Columns \cup {"searchName"}
  BY DEF Edited
<1>2. ASSUME NEW c \in Columns PROVE new[c] \in ColumnValues(c)
  <2>1. new[c] = IF ask[c] = Keep THEN row[c] ELSE ask[c]
    BY ColumnNames DEF Edited
  <2>. QED
    BY <2>1 DEF IsRow, IsAsk
<1>3. new["searchName"] \in ColumnValues("searchName")
  <2>1. new["searchName"] =
          IF derive THEN [p \in NameParts |-> IF ask[p] = Keep THEN row[p] ELSE ask[p]]
                    ELSE row["searchName"]
    BY DEF Edited
  <2>2. row["searchName"] \in ColumnValues("searchName")
    BY DEF IsRow
  <2>3. ASSUME NEW p \in NameParts
        PROVE  (IF ask[p] = Keep THEN row[p] ELSE ask[p]) \in Names \cup {NoName}
    BY ColumnNames DEF IsRow, IsAsk, ColumnValues
  <2>. QED
    BY <2>1, <2>2, <2>3 DEF ColumnValues
<1>. QED
  BY <1>1, <1>2, <1>3 DEF IsRow

LEMMA FlushedOK ==
  ASSUME NEW now, IsRow(now), NEW loaded, NEW record, IsRow(record)
  PROVE  IsRow(Flushed(now, loaded, record))
BY DEF IsRow, Flushed

-----------------------------------------------------------------------------
(* States                                                                  *)

\* The state of a request tells by its pc which record it is.
LEMMA StateKinds ==
  ASSUME NEW q, IsState(q)
  PROVE  /\ q.pc = "admitted" => q \in Admission
         /\ q.pc \in {"checkHandle", "save", "flush"} => IsEdit(q)
         /\ q.pc \in {"deleteLinks", "insertLinks"} => q \in Linking
         /\ q.pc = "gate" => q \in Looking
         /\ q.pc = "insertProfile" => q \in Naming
         /\ q.pc # "idle" => q.user \in Users
BY DEF IsState, IsEdit, Admission, Linking, Looking, Naming

LEMMA GotoState ==
  ASSUME TypeOK, NEW r \in Requests, NEW s, Goto(r, s)
  PROVE  /\ DOMAIN req' = Requests /\ req'[r] = s
         /\ \A q \in Requests : q # r => req'[q] = req[q]
         /\ IsState(s) => \A q \in Requests : IsState(req'[q])
BY DEF TypeOK, Goto

\* What a request holds is still good if nobody wrote what it relies on.
LEMMA KeepsOthers ==
  ASSUME ProfileInv, NEW q \in Requests, req'[q] = req[q],
         \A u \in Users : profiles[u] # NoProfile => profiles'[u] # NoProfile,
         q \notin overlapped' =>
           /\ q \notin overlapped
           /\ req[q].pc \in {"checkHandle", "save", "flush", "gate"} =>
                profiles'[req[q].user] = profiles[req[q].user]
           /\ (req[q].pc = "insertLinks" /\ links[req[q].user] = {}) =>
                links'[req[q].user] = {},
         q \notin late' =>
           /\ q \notin late
           /\ (/\ req[q].pc \in {"admitted", "checkHandle", "save", "flush",
                                 "deleteLinks", "insertLinks"}
               /\ req[q].pc # "admitted" => req[q].via # "console") =>
                status'[req[q].user] = status[req[q].user]
  PROVE  HeldOK(q)'
<1> PICK x : x = req[q]
  OBVIOUS
<1>1. req'[q] = x /\ IsState(x)
  BY DEF ProfileInv, TypeOK
<1>2. Present(x) /\ (q \notin overlapped => AloneOK(x)) /\ (q \notin late => PromptOK(x))
  BY DEF ProfileInv, HeldOK
<1>3. Present(x)'
  BY <1>1, <1>2, StateKinds DEF Present
<1>4. q \notin overlapped' => AloneOK(x)'
  BY <1>1, <1>2 DEF AloneOK
<1>5. q \notin late' => PromptOK(x)'
  BY <1>1, <1>2 DEF PromptOK
<1>. QED
  BY <1>1, <1>3, <1>4, <1>5 DEF HeldOK

\* A step that only moves r.
LEMMA QuietStep ==
  ASSUME ProfileInv, NEW r \in Requests, NEW s, Goto(r, s), IsState(s),
         UNCHANGED <<status, profiles, links>>, ops' \in 0..MaxOps,
         overlapped' = overlapped \/ overlapped' = overlapped \ {r},
         late' = late \/ late' = late \ {r},
         Present(s), r \notin overlapped' => AloneOK(s), r \notin late' => PromptOK(s)
  PROVE  ProfileInv'
<1>1. TypeOK'
  BY GotoState DEF ProfileInv, TypeOK
<1>2. ASSUME NEW q \in Requests, q # r PROVE HeldOK(q)'
  <2>1. req'[q] = req[q]
    BY <1>2, GotoState DEF ProfileInv
  <2>. QED
    BY <1>2, <2>1, KeepsOthers
<1>3. HeldOK(r)'
  <2>1. req'[r] = s
    BY GotoState DEF ProfileInv
  <2>2. Present(s)' /\ (r \notin overlapped' => AloneOK(s)') /\ (r \notin late' => PromptOK(s)')
    BY DEF Present, AloneOK, PromptOK, Derived
  <2>. QED
    BY <2>1, <2>2 DEF HeldOK
<1>. QED
  BY <1>1, <1>2, <1>3 DEF ProfileInv

-----------------------------------------------------------------------------
(* Steps that only move a request                                          *)

LEMMA InitInv == Init => ProfileInv
<1>. SUFFICES ASSUME Init PROVE ProfileInv
  OBVIOUS
<1>1. TypeOK
  BY ProfileAssumption DEF Init, OwnerInit, TypeOK, IsState
<1>2. ASSUME NEW r \in Requests PROVE HeldOK(r)
  BY DEF Init, HeldOK, Present, AloneOK, PromptOK
<1>. QED
  BY <1>1, <1>2 DEF ProfileInv

LEMMA StartsCount == ASSUME TypeOK, NEW r, Starts(r) PROVE ops' \in 0..MaxOps
BY ProfileAssumption DEF TypeOK, Starts

LEMMA ResolveViewerInv ==
  ASSUME ProfileInv, NEW r \in Requests, NEW u \in Users, ResolveViewer(r, u)
  PROVE  ProfileInv'
<1> DEFINE s == [pc |-> "admitted", user |-> u, via |-> "session", status |-> status[u]]
<1>1. IsState(s)
  BY DEF ResolveViewer, IsState, Admission
<1>2. Goto(r, s) /\ Present(s) /\ AloneOK(s) /\ PromptOK(s)
  BY DEF ResolveViewer, Present, AloneOK, PromptOK
<1>3. ops' \in 0..MaxOps
  BY StartsCount DEF ResolveViewer, ProfileInv
<1>. HIDE DEF s
<1>. QED
  BY <1>1, <1>2, <1>3, QuietStep DEF ResolveViewer, profileVars

LEMMA AuthenticateInv ==
  ASSUME ProfileInv, NEW r \in Requests, NEW u \in Users, Authenticate(r, u)
  PROVE  ProfileInv'
<1> DEFINE s == [pc |-> "admitted", user |-> u, via |-> "key", status |-> status[u]]
<1>1. IsState(s)
  BY DEF Authenticate, IsState, Admission
<1>2. Goto(r, s) /\ Present(s) /\ AloneOK(s) /\ PromptOK(s)
  BY DEF Authenticate, Present, AloneOK, PromptOK
<1>3. ops' \in 0..MaxOps
  BY StartsCount DEF Authenticate, ProfileInv
<1>. HIDE DEF s
<1>. QED
  BY <1>1, <1>2, <1>3, QuietStep DEF Authenticate, profileVars

LEMMA FindByHandleInv ==
  ASSUME ProfileInv, NEW r \in Requests, NEW u \in Users, FindByHandle(r, u)
  PROVE  ProfileInv'
<1> DEFINE s == [pc |-> "gate", user |-> u, visibility |-> profiles[u].visibility]
<1>1. IsState(s)
  <2>1. IsRow(profiles[u])
    BY DEF ProfileInv, TypeOK, FindByHandle
  <2>2. profiles[u].visibility \in Visibility
    BY <2>1 DEF IsRow, Columns, ColumnValues
  <2>. QED
    BY <2>2 DEF IsState, Looking
<1>2. Goto(r, s) /\ Present(s) /\ AloneOK(s) /\ PromptOK(s)
  BY DEF FindByHandle, Present, AloneOK, PromptOK
<1>3. ops' \in 0..MaxOps
  BY StartsCount DEF FindByHandle, ProfileInv
<1>. HIDE DEF s
<1>. QED
  BY <1>1, <1>2, <1>3, QuietStep DEF FindByHandle, profileVars

LEMMA DeleteIconInv ==
  ASSUME ProfileInv, NEW r \in Requests, NEW u \in Users, DeleteIcon(r, u)
  PROVE  ProfileInv'
<1> DEFINE ask == Ask(Keep, Keep, "none", SameName)
           s == [pc |-> "flush", user |-> u, via |-> "console", ask |-> ask,
                 record |-> Edited(profiles[u], ask, FALSE), newLinks |-> Keep,
                 row |-> profiles[u]]
<1>1. IsRow(profiles[u]) /\ profiles[u] # NoProfile
  BY DEF ProfileInv, TypeOK, DeleteIcon
<1>2. IsAsk(ask) /\ \A p \in NameParts : ask[p] = Keep
  <2>1. SameName \in [NameParts -> Names \cup {NoName, Keep}]
    BY DEF SameName
  <2>. QED
    BY <2>1, AskOK DEF SameName
<1>3. IsRow(Edited(profiles[u], ask, FALSE))
  BY <1>1, <1>2, EditedOK
<1>4. Goto(r, s)
  BY DEF DeleteIcon
<1>5. ops' \in 0..MaxOps
  BY StartsCount DEF DeleteIcon, ProfileInv
<1>. HIDE DEF ask
<1>6. IsState(s)
  BY <1>1, <1>2, <1>3 DEF IsState, IsEdit
<1>7. Present(s) /\ AloneOK(s) /\ PromptOK(s)
  BY <1>1, <1>2 DEF Present, AloneOK, Derived, PromptOK
<1>. HIDE DEF s
<1>. QED
  BY <1>4, <1>5, <1>6, <1>7, QuietStep DEF DeleteIcon, profileVars

\* An edit that has been allowed holds the row it read and may go on.
LEMMA EditOwnInv ==
  ASSUME ProfileInv, NEW r \in Requests, NEW via \in {"session", "key"},
         NEW ask, IsAsk(ask), NEW derive \in BOOLEAN,
         derive \/ \A p \in NameParts : ask[p] = Keep,
         NEW newLinks \in 0..MaxLinks \cup {Keep}, EditOwn(r, via, ask, derive, newLinks)
  PROVE  ProfileInv'
<1> DEFINE u == req[r].user
           s == [pc |-> IF ask["handle"] = Keep THEN "save" ELSE "checkHandle",
                 user |-> u, via |-> via, ask |-> ask,
                 record |-> Edited(profiles[u], ask, derive), newLinks |-> newLinks]
<1>1. u \in Users /\ req[r] \in Admission
  BY StateKinds DEF ProfileInv, TypeOK, EditOwn, OwnProfile
<1>2. IsRow(profiles[u]) /\ profiles[u] # NoProfile
  BY <1>1 DEF ProfileInv, TypeOK, EditOwn, OwnProfile
<1>3. IsRow(Edited(profiles[u], ask, derive))
  BY <1>2, EditedOK
<1>4. Goto(r, s)
  BY DEF EditOwn
<1>5. IsState(s)
  BY <1>1, <1>3 DEF IsState, IsEdit
<1>6. Present(s) /\ AloneOK(s)
  BY <1>2 DEF Present, AloneOK, Derived
<1>7. r \notin late => PromptOK(s)
  <2>1. r \notin late => PromptOK(req[r])
    BY DEF ProfileInv, HeldOK
  <2>. QED
    BY <1>1, <2>1 DEF PromptOK, EditOwn, OwnProfile, CanEditProfile, Admission
<1>8. ops \in 0..MaxOps
  BY DEF ProfileInv, TypeOK
<1>. HIDE DEF s
<1>. QED
  BY <1>4, <1>5, <1>6, <1>7, <1>8, QuietStep DEF EditOwn, profileVars

\* Whatever the caller of a service sends, the request keeps the invariant.
LEMMA AskedInv ==
  ASSUME ProfileInv, NEW r \in Requests
  PROVE  /\ \A h \in Handles \cup {Keep}, n \in [NameParts -> Sent] :
              UpdateProfileContent(r, h, n) => ProfileInv'
         /\ \A v \in Visibility : UpdateVisibility(r, v) => ProfileInv'
         /\ \A h \in Handles : ChangeHandle(r, h) => ProfileInv'
         /\ \A v \in SentVisibility, n \in [NameParts -> Sent], l \in 0..MaxLinks \cup {Keep} :
              PatchMyProfile(r, v, n, l) => ProfileInv'
         /\ \A v \in SentVisibility, n \in [NameParts -> Names \cup {NoName}], l \in 0..MaxLinks :
              ReplaceMyProfile(r, v, n, l) => ProfileInv'
         /\ DeleteMyProfile(r) => ProfileInv'
<1> DEFINE N == [NameParts -> Names \cup {NoName, Keep}]
<1>1. /\ SameName \in N /\ \A p \in NameParts : SameName[p] = Keep
      /\ [p \in NameParts |-> NoName] \in N
      /\ \A n \in [NameParts -> Sent] : n \in N
      /\ \A n \in [NameParts -> Names \cup {NoName}] : n \in N
  BY DEF SameName, Sent
<1>2. ASSUME NEW h \in Handles \cup {Keep}, NEW n \in [NameParts -> Sent],
             UpdateProfileContent(r, h, n)
      PROVE  ProfileInv'
  <2>1. IsAsk(Ask(h, Keep, Keep, n))
    BY <1>1, AskOK
  <2>. QED
    BY <1>2, <2>1, EditOwnInv DEF UpdateProfileContent
<1>3. ASSUME NEW v \in Visibility, UpdateVisibility(r, v) PROVE ProfileInv'
  <2>1. /\ IsAsk(Ask(Keep, v, Keep, SameName))
        /\ \A p \in NameParts : Ask(Keep, v, Keep, SameName)[p] = Keep
    BY <1>1, AskOK
  <2>. QED
    BY <1>3, <2>1, EditOwnInv DEF UpdateVisibility
<1>4. ASSUME NEW h \in Handles, ChangeHandle(r, h) PROVE ProfileInv'
  <2>1. /\ IsAsk(Ask(h, Keep, Keep, SameName))
        /\ \A p \in NameParts : Ask(h, Keep, Keep, SameName)[p] = Keep
    BY <1>1, AskOK
  <2>. QED
    BY <1>4, <2>1, EditOwnInv DEF ChangeHandle
<1>5. ASSUME NEW v \in SentVisibility, NEW n \in [NameParts -> Sent],
             NEW l \in 0..MaxLinks \cup {Keep}, PatchMyProfile(r, v, n, l)
      PROVE  ProfileInv'
  <2>1. IsAsk(Ask(Keep, v, Keep, n))
    BY <1>1, AskOK DEF SentVisibility
  <2>. QED
    BY <1>5, <2>1, EditOwnInv DEF PatchMyProfile
<1>6. ASSUME NEW v \in SentVisibility, NEW n \in [NameParts -> Names \cup {NoName}],
             NEW l \in 0..MaxLinks, ReplaceMyProfile(r, v, n, l)
      PROVE  ProfileInv'
  <2>1. IsAsk(Ask(Keep, v, Keep, n))
    BY <1>1, AskOK DEF SentVisibility
  <2>2. l \in 0..MaxLinks \cup {Keep}
    OBVIOUS
  <2>. QED
    BY <1>6, <2>1, <2>2, EditOwnInv DEF ReplaceMyProfile
<1>7. ASSUME DeleteMyProfile(r) PROVE ProfileInv'
  <2>1. IsAsk(Ask(Keep, "PRIVATE", "none", [p \in NameParts |-> NoName]))
    BY <1>1, AskOK DEF Visibility
  <2>2. 0 \in 0..MaxLinks \cup {Keep}
    BY ProfileAssumption
  <2>. QED
    BY <1>7, <2>1, <2>2, EditOwnInv DEF DeleteMyProfile
<1>. QED
  BY <1>2, <1>3, <1>4, <1>5, <1>6, <1>7

LEMMA ReplaceSnsLinksInv ==
  ASSUME ProfileInv, NEW r \in Requests, NEW n \in 0..MaxLinks, ReplaceSnsLinks(r, n)
  PROVE  ProfileInv'
<1> DEFINE u == req[r].user
           s == [pc |-> "deleteLinks", user |-> u, via |-> "session", newLinks |-> n]
<1>1. u \in Users /\ req[r] \in Admission
  BY StateKinds DEF ProfileInv, TypeOK, ReplaceSnsLinks, OwnProfile
<1>2. Goto(r, s) /\ IsState(s) /\ Present(s) /\ AloneOK(s)
  BY <1>1 DEF ReplaceSnsLinks, IsState, Linking, Present, AloneOK
<1>3. r \notin late => PromptOK(s)
  <2>1. r \notin late => PromptOK(req[r])
    BY DEF ProfileInv, HeldOK
  <2>. QED
    BY <1>1, <2>1 DEF PromptOK, ReplaceSnsLinks, OwnProfile, CanEditProfile, Admission
<1>4. ops \in 0..MaxOps
  BY DEF ProfileInv, TypeOK
<1>. HIDE DEF s
<1>. QED
  BY <1>2, <1>3, <1>4, QuietStep DEF ReplaceSnsLinks, profileVars, historyVars

\* A request ends and nothing else happens.
LEMMA EndInv ==
  ASSUME ProfileInv, NEW r \in Requests, Goto(r, Idle),
         UNCHANGED <<status, profileVars, historyVars>>
  PROVE  ProfileInv'
<1>1. IsState(Idle) /\ Present(Idle) /\ AloneOK(Idle) /\ PromptOK(Idle)
  BY DEF IsState, Present, AloneOK, PromptOK
<1>2. ops \in 0..MaxOps
  BY DEF ProfileInv, TypeOK
<1>. QED
  BY <1>1, <1>2, QuietStep DEF profileVars, historyVars

LEMMA CheckHandleInv ==
  ASSUME ProfileInv, NEW r \in Requests, CheckHandle(r)
  PROVE  ProfileInv'
<1> DEFINE s == [req[r] EXCEPT !.pc = "save"]
<1>1. CASE Goto(r, s)
  <2> PICK q : q = req[r]
    OBVIOUS
  <2>1. IsEdit(q) /\ q.pc = "checkHandle"
    BY StateKinds DEF ProfileInv, TypeOK, CheckHandle
  <2>2. /\ s.pc = "save" /\ s.user = q.user /\ s.via = q.via /\ s.ask = q.ask
        /\ s.record = q.record /\ s.newLinks = q.newLinks /\ DOMAIN s = DOMAIN q
    BY <2>1 DEF IsEdit
  <2>3. Present(q) /\ (r \notin overlapped => AloneOK(q)) /\ (r \notin late => PromptOK(q))
    BY DEF ProfileInv, HeldOK
  <2>. HIDE DEF s
  <2>4. IsState(s)
    BY <2>1, <2>2 DEF IsState, IsEdit
  <2>5. Present(s)
    BY <2>1, <2>2, <2>3 DEF Present
  <2>6. r \notin overlapped => AloneOK(s)
    BY <2>1, <2>2, <2>3 DEF AloneOK, Derived
  <2>7. r \notin late => PromptOK(s)
    BY <2>1, <2>2, <2>3 DEF PromptOK
  <2>8. ops \in 0..MaxOps
    BY DEF ProfileInv, TypeOK
  <2>. QED
    BY <1>1, <2>4, <2>5, <2>6, <2>7, <2>8, QuietStep DEF CheckHandle, profileVars, historyVars
<1>2. CASE Goto(r, Idle)
  BY <1>2, EndInv DEF CheckHandle
<1>. QED
  BY <1>1, <1>2 DEF CheckHandle

LEMMA SaveLoadInv ==
  ASSUME ProfileInv, NEW r \in Requests, SaveLoad(r)
  PROVE  ProfileInv'
<1> PICK q : q = req[r]
  OBVIOUS
<1> DEFINE s == [pc |-> "flush", user |-> q.user, via |-> q.via, ask |-> q.ask,
                 record |-> q.record, newLinks |-> q.newLinks, row |-> profiles[q.user]]
<1>1. IsEdit(q) /\ q.pc = "save"
  BY StateKinds DEF ProfileInv, TypeOK, SaveLoad
<1>2. Present(q) /\ (r \notin overlapped => AloneOK(q)) /\ (r \notin late => PromptOK(q))
  BY DEF ProfileInv, HeldOK
<1>3. IsRow(profiles[q.user]) /\ profiles[q.user] # NoProfile
  BY <1>1, <1>2 DEF Present, IsEdit, ProfileInv, TypeOK
<1>4. IsState(s)
  BY <1>1, <1>3 DEF IsState, IsEdit
<1>5. Present(s) /\ (r \notin overlapped => AloneOK(s)) /\ (r \notin late => PromptOK(s))
  BY <1>1, <1>2, <1>3 DEF Present, AloneOK, Derived, PromptOK
<1>6. Goto(r, s)
  BY DEF SaveLoad
<1>7. ops \in 0..MaxOps
  BY DEF ProfileInv, TypeOK
<1>. HIDE DEF s
<1>. QED
  BY <1>4, <1>5, <1>6, <1>7, QuietStep DEF SaveLoad, profileVars, historyVars

LEMMA GateInv ==
  ASSUME ProfileInv, NEW r \in Requests, Gate(r)
  PROVE  ProfileInv'
<1> DEFINE s == [pc |-> "shown", user |-> req[r].user]
<1>1. CASE Goto(r, s)
  <2>1. req[r].user \in Users
    BY StateKinds DEF ProfileInv, TypeOK, Gate
  <2>2. IsState(s) /\ Present(s) /\ AloneOK(s) /\ PromptOK(s)
    BY <2>1 DEF IsState, Naming, Present, AloneOK, PromptOK
  <2>3. ops \in 0..MaxOps
    BY DEF ProfileInv, TypeOK
  <2>. HIDE DEF s
  <2>. QED
    BY <1>1, <2>2, <2>3, QuietStep DEF Gate, profileVars, historyVars
<1>2. CASE Goto(r, Idle)
  BY <1>2, EndInv DEF Gate
<1>. QED
  BY <1>1, <1>2 DEF Gate

-----------------------------------------------------------------------------
(* Steps that write                                                        *)

LEMMA RegisterInv ==
  ASSUME ProfileInv, NEW r \in Requests, NEW u \in Users, Register(r, u)
  PROVE  ProfileInv'
<1> DEFINE s == [pc |-> "insertProfile", user |-> u]
<1>1. Goto(r, s) /\ IsState(s) /\ UNCHANGED <<profiles, links, ops, overlapped, late>>
  BY DEF Register, IsState, Naming, profileVars, historyVars
<1>2. status[u] = "NONE" /\ status' = [status EXCEPT ![u] = "UNVERIFIED"]
  BY DEF Register, Registers
<1>3. TypeOK'
  BY <1>1, <1>2, GotoState DEF ProfileInv, TypeOK
<1>4. ASSUME NEW q \in Requests, q # r PROVE HeldOK(q)'
  <2>1. req'[q] = req[q] /\ IsState(req[q])
    BY <1>1, <1>4, GotoState DEF ProfileInv, TypeOK
  <2>2. ASSUME q \notin late, req[q].pc \in {"admitted", "checkHandle", "save", "flush",
                                              "deleteLinks", "insertLinks"},
               req[q].pc # "admitted" => req[q].via # "console"
        PROVE  status'[req[q].user] = status[req[q].user]
    <3>1. req[q].user \in Users /\ status \in [Users -> {"NONE", "UNVERIFIED"} \cup LaterStatus]
      BY <2>1, <2>2, StateKinds DEF ProfileInv, TypeOK
    <3>2. status[req[q].user] # "NONE"
      <4>1. PromptOK(req[q])
        BY <2>2 DEF ProfileInv, HeldOK
      <4>2. req[q].pc = "admitted" => req[q].status # "NONE"
        BY <2>1, StateKinds DEF Admission
      <4>. QED
        BY <2>2, <4>1, <4>2 DEF PromptOK
    <3>. QED
      BY <1>2, <3>1, <3>2
  <2>. QED
    BY <1>1, <2>1, <2>2, KeepsOthers
<1>5. HeldOK(r)'
  <2>1. req'[r] = s
    BY <1>1, GotoState DEF ProfileInv
  <2>. QED
    BY <2>1 DEF HeldOK, Present, AloneOK, PromptOK
<1>. QED
  BY <1>3, <1>4, <1>5 DEF ProfileInv

LEMMA StatusChangesInv ==
  ASSUME ProfileInv, NEW u \in Users, NEW s \in LaterStatus, StatusChanges(u, s)
  PROVE  ProfileInv'
<1>1. /\ status' = [status EXCEPT ![u] = s] /\ late' = late \cup Admitted(u)
      /\ UNCHANGED <<profiles, links, req, ops, overlapped>>
  BY DEF StatusChanges, Becomes, profileVars
<1>2. TypeOK'
  BY <1>1 DEF ProfileInv, TypeOK, Admitted
<1>3. ASSUME NEW q \in Requests PROVE HeldOK(q)'
  <2>1. status \in [Users -> {"NONE", "UNVERIFIED"} \cup LaterStatus]
    BY DEF ProfileInv, TypeOK
  <2>2. q \notin late' => (req[q].pc \in {"admitted", "checkHandle", "save", "flush",
                                         "deleteLinks", "insertLinks"} =>
                            status'[req[q].user] = status[req[q].user])
    BY <1>1, <2>1 DEF Admitted
  <2>. QED
    BY <1>1, <2>2, KeepsOthers
<1>. QED
  BY <1>2, <1>3 DEF ProfileInv

LEMMA InsertProfileInv ==
  ASSUME ProfileInv, NEW r \in Requests, InsertProfile(r)
  PROVE  ProfileInv'
<1> DEFINE u == req[r].user
<1>1. u \in Users
  BY StateKinds DEF ProfileInv, TypeOK, InsertProfile
<1>2. CASE profiles' = profiles
  BY <1>2, EndInv DEF InsertProfile, profileVars
<1>3. CASE profiles[u] = NoProfile /\ profiles' = [profiles EXCEPT ![u] = NewRow(u)]
  <2>1. Goto(r, Idle) /\ UNCHANGED <<status, links, ops, overlapped, late>>
    BY DEF InsertProfile, historyVars
  <2>2. DOMAIN profiles = Users
    BY DEF ProfileInv, TypeOK
  <2>3. IsRow(NewRow(u)) /\ NewRow(u) # NoProfile
    BY <1>1, NewRowOK, RowExists
  <2>4. TypeOK'
    <3>1. IsState(Idle)
      BY DEF IsState
    <3>. QED
      BY <1>1, <1>3, <2>1, <2>2, <2>3, <3>1, GotoState DEF ProfileInv, TypeOK
  <2>5. ASSUME NEW q \in Requests, q # r PROVE HeldOK(q)'
    <3>1. req'[q] = req[q]
      BY <2>1, <2>5, GotoState DEF ProfileInv
    <3>2. req[q].pc \in {"checkHandle", "save", "flush", "gate"} =>
            profiles'[req[q].user] = profiles[req[q].user]
      BY <1>1, <1>3, <2>2 DEF ProfileInv, HeldOK, Present
    <3>3. \A v \in Users : profiles[v] # NoProfile => profiles'[v] # NoProfile
      BY <1>3, <2>2, <2>3
    <3>. QED
      BY <2>1, <3>1, <3>2, <3>3, KeepsOthers
  <2>6. HeldOK(r)'
    <3>1. req'[r] = Idle
      BY <2>1, GotoState DEF ProfileInv
    <3>. QED
      BY <3>1 DEF HeldOK, Present, AloneOK, PromptOK
  <2>. QED
    BY <2>4, <2>5, <2>6 DEF ProfileInv
<1>. QED
  BY <1>2, <1>3 DEF InsertProfile

LEMMA UploadIconInv ==
  ASSUME ProfileInv, NEW u \in Users, UploadIcon(u)
  PROVE  ProfileInv'
<1> DEFINE row == [profiles[u] EXCEPT !.icon = "set"]
<1>1. IsRow(profiles[u]) /\ profiles[u] # NoProfile /\ DOMAIN profiles = Users
  BY DEF ProfileInv, TypeOK, UploadIcon
<1>2. /\ profiles' = [profiles EXCEPT ![u] = row]
      /\ overlapped' = overlapped \cup Readers(u)
      /\ UNCHANGED <<status, links, req, ops, late>>
  BY DEF UploadIcon
<1>3. IsRow(row)
  BY <1>1 DEF IsRow, ColumnValues
<1>4. row # NoProfile
  BY <1>3, RowExists
<1>. HIDE DEF row
<1>5. TypeOK'
  BY <1>1, <1>2, <1>3 DEF ProfileInv, TypeOK, Readers
<1>6. ASSUME NEW q \in Requests PROVE HeldOK(q)'
  <2>1. q \notin overlapped' => (req[q].pc \in {"checkHandle", "save", "flush", "gate"} =>
                                   profiles'[req[q].user] = profiles[req[q].user])
    <3>1. req[q].pc \in {"checkHandle", "save", "flush", "gate"} => req[q].user \in Users
      BY StateKinds DEF ProfileInv, TypeOK
    <3>. QED
      BY <1>1, <1>2, <3>1 DEF Readers
  <2>2. \A v \in Users : profiles[v] # NoProfile => profiles'[v] # NoProfile
    BY <1>1, <1>2, <1>4
  <2>. QED
    BY <1>2, <2>1, <2>2, KeepsOthers
<1>. QED
  BY <1>5, <1>6 DEF ProfileInv

LEMMA SaveFlushInv ==
  ASSUME ProfileInv, NEW r \in Requests, SaveFlush(r)
  PROVE  ProfileInv'
<1> PICK q : q = req[r]
  OBVIOUS
<1> DEFINE u == q.user
           row == Flushed(profiles[u], q.row, q.record)
           s == AfterSave(q)
<1>1. IsEdit(q) /\ q.pc = "flush" /\ u \in Users
  BY StateKinds DEF ProfileInv, TypeOK, SaveFlush, IsEdit
<1>2. CASE UNCHANGED profiles /\ UNCHANGED overlapped /\ Goto(r, Idle)
  BY <1>2, EndInv DEF SaveFlush, profileVars, historyVars
<1>3. CASE /\ profiles' = [profiles EXCEPT ![u] = row]
           /\ overlapped' = (overlapped \cup Readers(u)) \ {r}
           /\ Goto(r, s)
  <2>1. UNCHANGED <<status, links, ops, late>>
    BY DEF SaveFlush
  <2>2. Present(q) /\ (r \notin late => PromptOK(q))
    BY DEF ProfileInv, HeldOK
  <2>3. IsRow(row) /\ row # NoProfile /\ DOMAIN profiles = Users
    <3>1. IsRow(profiles[u]) /\ IsRow(q.record) /\ DOMAIN profiles = Users
      BY <1>1, <2>2 DEF ProfileInv, TypeOK, Present, IsEdit
    <3>2. IsRow(row)
      BY <3>1, FlushedOK
    <3>. QED
      BY <3>1, <3>2, RowExists
  <2>. HIDE DEF row
  <2>4. IsState(s)
    BY <1>1 DEF IsState, IsEdit, AfterSave, Linking
  <2>5. TypeOK'
    BY <1>3, <2>1, <2>3, <2>4, GotoState DEF ProfileInv, TypeOK, Readers
  <2>6. ASSUME NEW p \in Requests, p # r PROVE HeldOK(p)'
    <3>1. req'[p] = req[p]
      BY <1>3, <2>6, GotoState DEF ProfileInv
    <3>2. p \notin overlapped' => (req[p].pc \in {"checkHandle", "save", "flush", "gate"} =>
                                     profiles'[req[p].user] = profiles[req[p].user])
      <4>1. req[p].pc \in {"checkHandle", "save", "flush", "gate"} => req[p].user \in Users
        BY StateKinds DEF ProfileInv, TypeOK
      <4>. QED
        BY <1>3, <2>3, <2>6, <4>1 DEF Readers
    <3>3. \A v \in Users : profiles[v] # NoProfile => profiles'[v] # NoProfile
      BY <1>3, <2>3
    <3>. QED
      BY <1>3, <2>1, <2>6, <3>1, <3>2, <3>3, KeepsOthers
  <2>7. HeldOK(r)'
    <3>1. req'[r] = s
      BY <1>3, GotoState DEF ProfileInv
    <3>2. s = Idle \/ s = [pc |-> "deleteLinks", user |-> u, via |-> q.via,
                           newLinks |-> q.newLinks]
      BY DEF AfterSave
    <3>. HIDE DEF s
    <3>. QED
      BY <1>1, <2>1, <2>2, <3>1, <3>2 DEF HeldOK, Present, AloneOK, PromptOK
  <2>. QED
    BY <2>5, <2>6, <2>7 DEF ProfileInv
<1>. QED
  BY <1>2, <1>3 DEF SaveFlush

LEMMA DeleteLinksInv ==
  ASSUME ProfileInv, NEW r \in Requests, DeleteLinks(r)
  PROVE  ProfileInv'
<1> PICK q : q = req[r]
  OBVIOUS
<1> DEFINE u == q.user
           s == [q EXCEPT !.pc = "insertLinks"]
<1>1. q \in Linking /\ q.pc = "deleteLinks" /\ u \in Users
  BY StateKinds DEF ProfileInv, TypeOK, DeleteLinks, Linking
<1>2. /\ links' = [links EXCEPT ![u] = {}] /\ overlapped' = overlapped \ {r}
      /\ Goto(r, s) /\ UNCHANGED <<status, profiles, ops, late>>
  BY DEF DeleteLinks, WithoutLinks
<1>3. /\ s \in Linking /\ IsState(s)
      /\ s.pc = "insertLinks" /\ s.user = u /\ s.via = q.via
  BY <1>1 DEF Linking, IsState
<1>4. links \in [Users -> SUBSET [by : Requests, place : 1..MaxLinks]]
  BY DEF ProfileInv, TypeOK
<1>. HIDE DEF s
<1>5. TypeOK'
  BY <1>1, <1>2, <1>3, GotoState DEF ProfileInv, TypeOK
<1>6. ASSUME NEW p \in Requests, p # r PROVE HeldOK(p)'
  <2>1. req'[p] = req[p]
    BY <1>2, <1>6, GotoState DEF ProfileInv
  <2>2. links[req[p].user] = {} /\ req[p].pc = "insertLinks" => links'[req[p].user] = {}
    <3>1. req[p].pc = "insertLinks" => req[p].user \in Users
      BY StateKinds DEF ProfileInv, TypeOK
    <3>. QED
      BY <1>2, <1>4, <3>1
  <2>. QED
    BY <1>2, <1>6, <2>1, <2>2, KeepsOthers
<1>7. HeldOK(r)'
  <2>1. req'[r] = s /\ links'[u] = {}
    BY <1>1, <1>2, <1>4, GotoState DEF ProfileInv
  <2>2. r \notin late => PromptOK(q)
    BY DEF ProfileInv, HeldOK
  <2>. QED
    BY <1>1, <1>2, <1>3, <2>1, <2>2 DEF HeldOK, Present, AloneOK, PromptOK
<1>. QED
  BY <1>5, <1>6, <1>7 DEF ProfileInv

LEMMA InsertLinksInv ==
  ASSUME ProfileInv, NEW r \in Requests, InsertLinks(r)
  PROVE  ProfileInv'
<1> PICK q : q = req[r]
  OBVIOUS
<1> DEFINE u == q.user
           new == OwnLinks(r, q.newLinks)
           Same == {p \in Requests : req[p].pc = "insertLinks" /\ req[p].user = u}
<1>1. q \in Linking /\ u \in Users
  BY StateKinds DEF ProfileInv, TypeOK, InsertLinks, Linking
<1>2. /\ links' = [links EXCEPT ![u] = links[u] \cup new]
      /\ overlapped' = (overlapped \cup Same) \ {r}
      /\ Goto(r, Idle) /\ UNCHANGED <<status, profiles, ops, late>>
  BY DEF InsertLinks
<1>3. links \in [Users -> SUBSET [by : Requests, place : 1..MaxLinks]]
  BY DEF ProfileInv, TypeOK
<1>4. new \subseteq [by : Requests, place : 1..MaxLinks]
  BY <1>1, ProfileAssumption DEF OwnLinks, Linking
<1>. HIDE DEF new
<1>5. TypeOK'
  <2>1. links' \in [Users -> SUBSET [by : Requests, place : 1..MaxLinks]]
    BY <1>1, <1>2, <1>3, <1>4
  <2>2. IsState(Idle)
    BY DEF IsState
  <2>. QED
    BY <1>2, <2>1, <2>2, GotoState DEF ProfileInv, TypeOK
<1>6. ASSUME NEW p \in Requests, p # r PROVE HeldOK(p)'
  <2>1. req'[p] = req[p]
    BY <1>2, <1>6, GotoState DEF ProfileInv
  <2>2. p \notin overlapped' => (req[p].pc = "insertLinks" =>
                                   links'[req[p].user] = links[req[p].user])
    <3>1. req[p].pc = "insertLinks" => req[p].user \in Users
      BY StateKinds DEF ProfileInv, TypeOK
    <3>. QED
      BY <1>2, <1>3, <1>6, <3>1
  <2>. QED
    BY <1>2, <1>6, <2>1, <2>2, KeepsOthers
<1>7. HeldOK(r)'
  <2>1. req'[r] = Idle
    BY <1>2, GotoState DEF ProfileInv
  <2>. QED
    BY <2>1 DEF HeldOK, Present, AloneOK, PromptOK
<1>. QED
  BY <1>5, <1>6, <1>7 DEF ProfileInv

-----------------------------------------------------------------------------
(* The invariant                                                           *)

LEMMA EditNextInv ==
  ASSUME ProfileInv, NEW r \in Requests, EditNext(r)
  PROVE  ProfileInv'
BY AskedInv, ReplaceSnsLinksInv, CheckHandleInv, SaveLoadInv, SaveFlushInv,
   DeleteLinksInv, InsertLinksInv DEF EditNext

LEMMA NextInv == ProfileInv /\ [Next]_vars => ProfileInv'
<1>. SUFFICES ASSUME ProfileInv, [Next]_vars PROVE ProfileInv'
  OBVIOUS
<1>1. CASE UNCHANGED vars
  BY <1>1 DEF vars, profileVars, ProfileInv, TypeOK, HeldOK, Present, AloneOK, PromptOK, Derived
<1>2. ASSUME NEW u \in Users, UploadIcon(u) \/ \E s \in LaterStatus : StatusChanges(u, s)
      PROVE  ProfileInv'
  BY <1>2, UploadIconInv, StatusChangesInv
<1>3. ASSUME NEW r \in Requests, NEW u \in Users,
             \/ Register(r, u) \/ ResolveViewer(r, u) \/ Authenticate(r, u)
             \/ DeleteIcon(r, u) \/ FindByHandle(r, u)
      PROVE  ProfileInv'
  BY <1>3, RegisterInv, ResolveViewerInv, AuthenticateInv, DeleteIconInv, FindByHandleInv
<1>4. ASSUME NEW r \in Requests, InsertProfile(r) \/ EditNext(r) \/ Gate(r) \/ Abort(r)
      PROVE  ProfileInv'
  BY <1>4, InsertProfileInv, EditNextInv, GateInv, EndInv DEF Abort
<1>. QED
  BY <1>1, <1>2, <1>3, <1>4 DEF Next

\* What requests hold is good in every state that can be reached, whichever
\* requests and services run at once.
THEOREM ProfileInvariant == Spec => []ProfileInv
BY InitInv, NextInv, PTL DEF Spec

\* Profiles, links and requests keep their types: the two applications store
\* only what the columns admit.
THEOREM ProfilesTyped == Spec => []TypeOK
<1>1. ProfileInv => TypeOK
  BY DEF ProfileInv
<1>. QED
  BY <1>1, ProfileInvariant, PTL

-----------------------------------------------------------------------------
(* The properties                                                          *)

\* Which action of which request wrote, told by what has changed.
LEMMA Writers ==
  ASSUME TypeOK, Next, NEW r \in Requests, req'[r] # req[r]
  PROVE  /\ profiles' # profiles => InsertProfile(r) \/ SaveFlush(r)
         /\ links' # links => DeleteLinks(r) \/ InsertLinks(r)
         /\ req[r].pc = "gate" /\ req'[r] # Idle => Gate(r)
<1>1. ASSUME NEW q \in Requests, NEW s, Goto(q, s) PROVE q = r
  BY <1>1, GotoState
<1>2. ASSUME NEW u \in Users, UploadIcon(u) \/ \E s \in LaterStatus : StatusChanges(u, s)
      PROVE  FALSE
  BY <1>2 DEF UploadIcon, StatusChanges
<1>3. ASSUME NEW q \in Requests, NEW u \in Users,
             \/ Register(q, u) \/ ResolveViewer(q, u) \/ Authenticate(q, u)
             \/ DeleteIcon(q, u) \/ FindByHandle(q, u)
      PROVE  UNCHANGED <<profiles, links>> /\ req[r] = Idle
  BY <1>1, <1>3 DEF Register, ResolveViewer, Authenticate, DeleteIcon, FindByHandle,
                    Starts, profileVars
<1>4. ASSUME NEW q \in Requests, NEW via, NEW ask, NEW derive, NEW n,
             EditOwn(q, via, ask, derive, n)
      PROVE  q = r /\ UNCHANGED <<profiles, links>> /\ req[r].pc = "admitted"
  BY <1>1, <1>4 DEF EditOwn, OwnProfile, profileVars
<1>5. ASSUME NEW q \in Requests, EditNext(q)
      PROVE  \/ UNCHANGED <<profiles, links>> /\ req[r].pc # "gate"
             \/ SaveFlush(r) \/ DeleteLinks(r) \/ InsertLinks(r)
  <2>1. ASSUME NEW n, ReplaceSnsLinks(q, n)
        PROVE  q = r /\ UNCHANGED <<profiles, links>> /\ req[r].pc = "admitted"
    BY <1>1, <2>1 DEF ReplaceSnsLinks, OwnProfile, profileVars
  <2>2. ASSUME CheckHandle(q) \/ SaveLoad(q)
        PROVE  UNCHANGED <<profiles, links>> /\ req[r].pc # "gate"
    BY <1>1, <2>2 DEF CheckHandle, SaveLoad, profileVars
  <2>3. ASSUME SaveFlush(q) \/ DeleteLinks(q) \/ InsertLinks(q) PROVE q = r
    BY <1>1, <2>3 DEF SaveFlush, DeleteLinks, InsertLinks
  <2>. QED
    BY <1>4, <1>5, <2>1, <2>2, <2>3
       DEF EditNext, UpdateProfileContent, UpdateVisibility, ChangeHandle,
           PatchMyProfile, ReplaceMyProfile, DeleteMyProfile
<1>6. ASSUME NEW q \in Requests, InsertProfile(q) \/ Gate(q) \/ Abort(q)
      PROVE  /\ q = r /\ UNCHANGED links
             /\ Gate(q) \/ Abort(q) => UNCHANGED profiles
             /\ InsertProfile(q) => req[r].pc # "gate"
             /\ Abort(q) => req'[r] = Idle
  BY <1>1, <1>6, GotoState DEF InsertProfile, Gate, Abort, profileVars
<1>7. SaveFlush(r) => UNCHANGED links /\ req[r].pc = "flush"
  BY DEF SaveFlush
<1>8. DeleteLinks(r) \/ InsertLinks(r) => UNCHANGED profiles /\ req[r].pc # "gate"
  BY DEF DeleteLinks, InsertLinks
<1>. QED
  BY <1>2, <1>3, <1>5, <1>6, <1>7, <1>8 DEF Next

\* Which actions write a row.
LEMMA RowWriters ==
  ASSUME Next, profiles' # profiles
  PROVE  \/ \E u \in Users : UploadIcon(u)
         \/ \E r \in Requests : InsertProfile(r) \/ SaveFlush(r)
<1>1. ASSUME NEW r, EditNext(r) PROVE UNCHANGED profiles \/ SaveFlush(r)
  BY <1>1 DEF EditNext, UpdateProfileContent, UpdateVisibility, ChangeHandle,
              PatchMyProfile, ReplaceMyProfile, DeleteMyProfile, EditOwn, ReplaceSnsLinks, CheckHandle,
              SaveLoad, DeleteLinks, InsertLinks, profileVars
<1>2. ASSUME NEW r, NEW u,
             \/ Register(r, u) \/ ResolveViewer(r, u) \/ Authenticate(r, u)
             \/ DeleteIcon(r, u) \/ FindByHandle(r, u)
      PROVE  UNCHANGED profiles
  BY <1>2 DEF Register, ResolveViewer, Authenticate, DeleteIcon, FindByHandle, profileVars
<1>3. ASSUME NEW r, Gate(r) \/ Abort(r) PROVE UNCHANGED profiles
  BY <1>3 DEF Gate, Abort, profileVars
<1>4. ASSUME NEW u, NEW s, StatusChanges(u, s) PROVE UNCHANGED profiles
  BY <1>4 DEF StatusChanges, profileVars
<1>. QED
  BY <1>1, <1>2, <1>3, <1>4 DEF Next

\* A row that is written from a record derived from it is as it was asked for.
LEMMA FlushedAsAsked ==
  ASSUME NEW row, IsRow(row), NEW ask, IsAsk(ask), NEW derive \in BOOLEAN,
         derive \/ \A p \in NameParts : ask[p] = Keep
  PROVE  AsAsked(row, Flushed(row, row, Edited(row, ask, derive)), ask)
<1> DEFINE new == Edited(row, ask, derive)
           q == Flushed(row, row, new)
<1>1. DOMAIN row = Columns \cup {"searchName"} /\ DOMAIN new = DOMAIN row
  BY DEF IsRow, Edited
<1>2. \A c \in DOMAIN row : q[c] = new[c]
  BY DEF Flushed
<1>3. \A c \in Columns : q[c] = IF ask[c] = Keep THEN row[c] ELSE ask[c]
  BY <1>1, <1>2, ColumnNames DEF Edited
<1>4. \A p \in NameParts :
        q.searchName[p] = IF ~derive THEN row.searchName[p]
                          ELSE IF ask[p] = Keep THEN row[p] ELSE ask[p]
  <2>1. new.searchName =
          IF derive THEN [p \in NameParts |-> IF ask[p] = Keep THEN row[p] ELSE ask[p]]
                    ELSE row.searchName
    BY DEF Edited
  <2>. QED
    BY <1>1, <1>2, <2>1
<1>. HIDE DEF q
<1>5. AsAsked(row, q, ask)
  BY <1>3, <1>4, ColumnNames DEF AsAsked
<1>. QED
  BY <1>5 DEF q

\* A save that no other write came between does what it was asked to, column
\* by column, and nothing else (save of MikroProfileRepository).
THEOREM UpdatesAreLostOnlyToOverlap == Spec => LostUpdateNeedsOverlap
<1> DEFINE Kept ==
      \A r \in Requests :
        (Saves(r) /\ r \notin overlapped) =>
          LET u == req[r].user IN AsAsked(profiles[u], profiles'[u], req[r].ask)
<1>1. ProfileInv /\ [Next]_vars => [Kept]_vars
  <2>. SUFFICES ASSUME ProfileInv, Next, NEW r \in Requests, Saves(r), r \notin overlapped
                PROVE  LET u == req[r].user IN AsAsked(profiles[u], profiles'[u], req[r].ask)
    OBVIOUS
  <2> PICK q : q = req[r]
    OBVIOUS
  <2>1. SaveFlush(r)
    <3>1. req'[r] # req[r] /\ req[r].pc = "flush" /\ profiles' # profiles
      BY DEF Saves
    <3>. QED
      BY <3>1, Writers DEF ProfileInv, InsertProfile
  <2>2. IsEdit(q) /\ q.pc = "flush"
    BY <2>1, StateKinds DEF ProfileInv, TypeOK, SaveFlush
  <2>3. AloneOK(q) /\ Present(q)
    BY DEF ProfileInv, HeldOK
  <2>4. q.row = profiles[q.user] /\ IsRow(q.row)
    BY <2>2, <2>3 DEF AloneOK, IsEdit
  <2>5. PICK derive \in BOOLEAN : /\ q.record = Edited(q.row, q.ask, derive)
                                  /\ derive \/ \A p \in NameParts : q.ask[p] = Keep
    BY <2>2, <2>3 DEF AloneOK, Derived
  <2>6. profiles'[q.user] = Flushed(q.row, q.row, q.record)
    <3>1. DOMAIN profiles = Users /\ q.user \in Users
      BY <2>2 DEF ProfileInv, TypeOK, IsEdit
    <3>. QED
      BY <2>1, <2>4, <3>1 DEF SaveFlush, Saves
  <2>. QED
    BY <2>2, <2>4, <2>5, <2>6, FlushedAsAsked DEF IsEdit
<1>. QED
  BY <1>1, ProfileInvariant, PTL DEF Spec, LostUpdateNeedsOverlap

\* Only a page that was written after it was read is shown though it is private
\* or its owner not active: a status that changes after the read is seen.
THEOREM PagesLeakOnlyToOverlap == Spec => LeakNeedsOverlap
<1> DEFINE Kept ==
      \A r \in Requests :
        (req[r].pc = "gate" /\ req'[r].pc = "shown" /\ r \notin overlapped) =>
          LET u == req[r].user IN
          profiles[u].visibility = "PUBLIC" /\ status[u] = "ACTIVE"
<1>1. ProfileInv /\ [Next]_vars => [Kept]_vars
  <2>. SUFFICES ASSUME ProfileInv, Next, NEW r \in Requests, req[r].pc = "gate",
                       req'[r].pc = "shown", r \notin overlapped
                PROVE  profiles[req[r].user].visibility = "PUBLIC"
                       /\ status[req[r].user] = "ACTIVE"
    OBVIOUS
  <2>1. Gate(r)
    BY Writers DEF ProfileInv
  <2>2. req[r].visibility = profiles[req[r].user].visibility
    BY DEF ProfileInv, HeldOK, AloneOK
  <2>3. req'[r] # Idle /\ (Goto(r, Idle) => req'[r] = Idle)
    BY GotoState DEF ProfileInv
  <2>. QED
    BY <2>1, <2>2, <2>3 DEF Gate, EffectivePublic
<1>. QED
  BY <1>1, ProfileInvariant, PTL DEF Spec, LeakNeedsOverlap

\* Once an owner is frozen or withdrawn only requests admitted before write the
\* profile or its links, on either application (BR-COMMON-005).
THEOREM EditsStop == Spec => EditsStopAtFreeze
<1> DEFINE Kept ==
      \A r \in Requests :
        (/\ req[r].pc \in {"flush", "deleteLinks", "insertLinks"}
         /\ req[r].via # "console"
         /\ <<profiles, links>>' # <<profiles, links>>
         /\ req'[r] # req[r]
         /\ status[req[r].user] \in {"FROZEN", "WITHDRAWN"})
        => r \in late
<1>1. ProfileInv /\ [Next]_vars => [Kept]_vars
  BY DEF ProfileInv, HeldOK, PromptOK
<1>. QED
  BY <1>1, ProfileInvariant, PTL DEF Spec, EditsStopAtFreeze

\* A replacement of the links that no other one came between leaves its own
\* links and no others (replaceForProfile).
THEOREM LinksAreReplaced == Spec => MixedLinksNeedOverlap
<1> DEFINE Kept ==
      \A r \in Requests :
        (req[r].pc = "insertLinks" /\ links' # links /\ req'[r] = Idle
           /\ r \notin overlapped)
        => \A l \in links'[req[r].user] : l.by = r
<1>1. ProfileInv /\ [Next]_vars => [Kept]_vars
  <2>. SUFFICES ASSUME ProfileInv, Next, NEW r \in Requests, req[r].pc = "insertLinks",
                       links' # links, req'[r] = Idle, r \notin overlapped
                PROVE  \A l \in links'[req[r].user] : l.by = r
    OBVIOUS
  <2> PICK u : u = req[r].user
    OBVIOUS
  <2>1. InsertLinks(r)
    <3>1. req'[r] # req[r]
      OBVIOUS
    <3>. QED
      BY <3>1, Writers DEF ProfileInv, DeleteLinks
  <2>2. links[u] = {}
    BY DEF ProfileInv, HeldOK, AloneOK
  <2>3. u \in Users /\ DOMAIN links = Users
    BY StateKinds DEF ProfileInv, TypeOK
  <2>4. links'[u] = OwnLinks(r, req[r].newLinks)
    BY <2>1, <2>2, <2>3 DEF InsertLinks
  <2>. QED
    BY <2>4 DEF OwnLinks
<1>. QED
  BY <1>1, ProfileInvariant, PTL DEF Spec, MixedLinksNeedOverlap
=============================================================================
