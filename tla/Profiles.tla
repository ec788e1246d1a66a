------------------------------ MODULE Profiles ------------------------------
(***************************************************************************)
(* Profiles and their links: ProfileService of apps/api (the owner's       *)
(* session), PublicProfileService of apps/public-api (the owner's API      *)
(* key), the deletion of an icon by a moderator, and the page a visitor    *)
(* sees. All of them work on one table without transactions: an edit reads *)
(* the profile, builds a whole record from it and saves that record, in    *)
(* three queries. The owner's status changes meanwhile as OwnerStatus      *)
(* says, which UserSystem implements.                                      *)
(*                                                                         *)
(* nameDisplayOrder, occupation and bio are saved as the names are;        *)
(* updatedAt only orders lists.                                            *)
(***************************************************************************)
EXTENDS OwnerStatus, Naturals, FiniteSets

CONSTANTS
  Requests,      \* requests in flight at once
  Handles,       \* handles that may be chosen
  FirstHandle,   \* the handle made from the id of a new profile
  NameParts,     \* firstName and lastName
  Names,         \* what a part of a name may be set to
  NoName,        \* the empty string
  MaxLinks,      \* SNS_LINKS_MAX_COUNT
  Keep,          \* a field the caller does not send
  MaxOps         \* bound: operations on profiles started over a behaviour

Visibility == {"PUBLIC", "PRIVATE"}

\* The columns an edit may set. searchName is derived from the name.
Columns == {"handle", "visibility", "icon"} \cup NameParts

\* No row: a function without columns.
NoProfile == [c \in {} |-> c]

ASSUME ProfileAssumption ==
  /\ FirstHandle \in [Users -> Handles]
  /\ NameParts \cap {"handle", "visibility", "icon", "searchName"} = {}
  /\ MaxLinks \in Nat
  /\ MaxOps \in Nat
  /\ Keep \notin Handles \cup Visibility \cup {"set", "none"} \cup Names \cup {NoName}
  /\ Keep \notin 0..MaxLinks

VARIABLES
  profiles,    \* profiles[u]: the row of u's profile
  links,       \* links[u]: its SNS links
  req,         \* req[r]: where request r is
  ops,         \* operations started so far
  overlapped,  \* history: requests whose profile another one wrote after they
               \* read it
  late         \* history: requests whose owner's status changed after they
               \* were admitted

profileVars == <<profiles, links>>
historyVars == <<ops, overlapped, late>>
vars == <<status, profiles, links, req, ops, overlapped, late>>

Idle == [pc |-> "idle"]
Goto(r, state) == req' = [req EXCEPT ![r] = state]

Init ==
  /\ OwnerInit
  /\ profiles = [u \in Users |-> NoProfile]
  /\ links = [u \in Users |-> {}]
  /\ req = [r \in Requests |-> Idle]
  /\ ops = 0
  /\ overlapped = {}
  /\ late = {}

\* r starts an operation on a profile.
Starts(r) ==
  /\ req[r] = Idle
  /\ ops < MaxOps
  /\ ops' = ops + 1

\* The requests that have read u's profile and rely on it.
Readers(u) ==
  {r \in Requests : req[r].pc \in {"checkHandle", "save", "flush", "gate"}
                    /\ req[r].user = u}

-----------------------------------------------------------------------------
(* Owners                                                                  *)

\* createWithProfile: the user's row and then, in the same flush but in no
\* transaction, the profile's row with the columns' defaults.
Register(r, u) ==
  /\ req[r] = Idle
  /\ Registers(u)
  /\ Goto(r, [pc |-> "insertProfile", user |-> u])
  /\ UNCHANGED <<profileVars, historyVars>>

NewRow(u) ==
  [c \in Columns \cup {"searchName"} |->
     CASE c = "handle" -> FirstHandle[u]
       [] c = "visibility" -> "PUBLIC"
       [] c = "icon" -> "none"
       [] c = "searchName" -> [p \in NameParts |-> NoName]
       [] OTHER -> NoName]

\* Unique index uq_profiles_handle, over the profiles of all users, withdrawn
\* ones too; every write of a handle meets it.
Indexed(ps) ==
  \A u, v \in Users :
    (u # v /\ ps[u] # NoProfile /\ ps[v] # NoProfile) => ps[u].handle # ps[v].handle

\* The row is inserted, unless uq_profiles_user_id or the handle refuses it.
InsertProfile(r) ==
  LET u == req[r].user
      new == [profiles EXCEPT ![u] = NewRow(u)]
  IN
  /\ req[r].pc = "insertProfile"
  /\ \/ profiles[u] = NoProfile /\ Indexed(new) /\ profiles' = new
     \/ ~(profiles[u] = NoProfile /\ Indexed(new)) /\ UNCHANGED profiles
  /\ Goto(r, Idle)
  /\ UNCHANGED <<status, links, historyVars>>

\* Requests admitted with a status of u that they do not read again.
Admitted(u) ==
  {r \in Requests : req[r].pc \in {"admitted", "checkHandle", "save", "flush",
                                   "deleteLinks", "insertLinks"} /\ req[r].user = u}

\* The owner's status changes: UserSystem's part.
StatusChanges(u, s) ==
  /\ Becomes(u, s)
  /\ s # status[u]
  /\ late' = late \cup Admitted(u)
  /\ UNCHANGED <<profileVars, req, ops, overlapped>>

\* An icon is uploaded. No code in src/ writes the column but to clear it.
\* Bound: it comes before the first operation.
UploadIcon(u) ==
  /\ ops = 0
  /\ profiles[u] # NoProfile
  /\ profiles' = [profiles EXCEPT ![u].icon = "set"]
  /\ overlapped' = overlapped \cup Readers(u)
  /\ UNCHANGED <<status, links, req, ops, late>>

-----------------------------------------------------------------------------
(* Admission                                                               *)

\* ViewerProvider.resolve: the session's user, unless it is withdrawn.
ResolveViewer(r, u) ==
  /\ Starts(r)
  /\ status[u] \in {"UNVERIFIED", "ACTIVE", "FROZEN"}
  /\ Goto(r, [pc |-> "admitted", user |-> u, via |-> "session", status |-> status[u]])
  /\ late' = late \ {r}
  /\ UNCHANGED <<status, profileVars, overlapped>>

\* ApiKeyAuthGuard and ApiScopeGuard, for a key of u that may write.
Authenticate(r, u) ==
  /\ Starts(r)
  /\ status[u] = "ACTIVE"
  /\ Goto(r, [pc |-> "admitted", user |-> u, via |-> "key", status |-> status[u]])
  /\ late' = late \ {r}
  /\ UNCHANGED <<status, profileVars, overlapped>>

\* canEditProfile
AnyLive(s) == s # "WITHDRAWN"   \* mutant: a frozen owner may edit
CanEditProfile(s) == s \in {"UNVERIFIED", "ACTIVE"}

\* requireEditableOwnProfile, and requireOwnProfile of the public API. When
\* they refuse, the request ends (Abort).
OwnProfile(r, via) ==
  LET u == req[r].user IN
  /\ req[r].pc = "admitted" /\ req[r].via = via
  /\ profiles[u] # NoProfile
  /\ via = "session" => status[u] # "WITHDRAWN" /\ CanEditProfile(req[r].status)

-----------------------------------------------------------------------------
(* Edits. `ask` is what the caller sent for each column.                   *)

Ask(handle, visibility, icon, name) ==
  [c \in Columns |-> CASE c = "handle" -> handle
                       [] c = "visibility" -> visibility
                       [] c = "icon" -> icon
                       [] OTHER -> name[c]]
SameName == [p \in NameParts |-> Keep]

\* The record to save: the one that was read with the fields that were sent. A
\* change of the content derives the search name anew.
EditedPart(row, ask, derive) ==   \* mutant: derived from what was sent alone
  [c \in Columns \cup {"searchName"} |->
     IF c = "searchName"
       THEN IF derive THEN [p \in NameParts |-> IF ask[p] = Keep THEN NoName ELSE ask[p]]
                      ELSE row[c]
       ELSE IF ask[c] = Keep THEN row[c] ELSE ask[c]]
Edited(row, ask, derive) ==
  [c \in Columns \cup {"searchName"} |->
     IF c = "searchName"
       THEN IF derive THEN [p \in NameParts |-> IF ask[p] = Keep THEN row[p] ELSE ask[p]]
                      ELSE row[c]
       ELSE IF ask[c] = Keep THEN row[c] ELSE ask[c]]

\* The profile is read and the edit goes on, by way of a look at the handle if
\* there is one; newLinks is the number of links sent, if any.
EditOwn(r, via, ask, derive, newLinks) ==
  LET u == req[r].user IN
  /\ OwnProfile(r, via)
  /\ Goto(r, [pc |-> IF ask["handle"] = Keep THEN "save" ELSE "checkHandle",
              user |-> u, via |-> via, ask |-> ask,
              record |-> Edited(profiles[u], ask, derive), newLinks |-> newLinks])
  /\ overlapped' = overlapped \ {r}
  /\ UNCHANGED <<status, profileVars, ops, late>>

\* To send the handle the profile has is to send none.
UpdateProfileContent(r, handle, name) ==
  /\ EditOwn(r, "session", Ask(handle, Keep, Keep, name), TRUE, Keep)
  /\ profiles[req[r].user].handle # handle

UpdateVisibility(r, visibility) ==
  EditOwn(r, "session", Ask(Keep, visibility, Keep, SameName), FALSE, Keep)

ChangeHandle(r, handle) ==
  EditOwn(r, "session", Ask(handle, Keep, Keep, SameName), FALSE, Keep)

\* What is not sent keeps its value,
PatchMyProfile(r, visibility, name, newLinks) ==
  EditOwn(r, "key", Ask(Keep, visibility, Keep, name), TRUE, newLinks)

\* or goes back to the default; only the visibility keeps its value here too.
ReplaceMyProfile(r, visibility, name, newLinks) ==
  EditOwn(r, "key", Ask(Keep, visibility, Keep, name), TRUE, newLinks)

DeleteMyProfile(r) ==
  EditOwn(r, "key", Ask(Keep, "PRIVATE", "none", [p \in NameParts |-> NoName]), TRUE, 0)

\* findByHandle: nobody else that is not withdrawn has the handle.
CheckHandle(r) ==
  LET holders == {v \in Users \ {req[r].user} :
                    /\ profiles[v] # NoProfile /\ status[v] # "WITHDRAWN"
                    /\ profiles[v].handle = req[r].ask["handle"]}
  IN
  /\ req[r].pc = "checkHandle"
  /\ \/ holders = {} /\ Goto(r, [req[r] EXCEPT !.pc = "save"])
     \/ holders # {} /\ Goto(r, Idle)
  /\ UNCHANGED <<status, profileVars, historyVars>>

\* save: findOne of the row by the id,
SaveLoad(r) ==
  LET q == req[r] IN
  /\ q.pc = "save"
  /\ Goto(r, [pc |-> "flush", user |-> q.user, via |-> q.via, ask |-> q.ask,
              record |-> q.record, newLinks |-> q.newLinks, row |-> profiles[q.user]])
  /\ UNCHANGED <<status, profileVars, historyVars>>

\* and the update of the columns in which the record differs from it.
Flushed(now, loaded, record) ==
  [c \in DOMAIN now |-> IF record[c] = loaded[c] THEN now[c] ELSE record[c]]

\* After the save the links are replaced, if any were sent.
AlwaysLinks(q) ==   \* mutant: no test for undefined
  [pc |-> "deleteLinks", user |-> q.user, via |-> q.via, newLinks |-> q.newLinks]
AfterSave(q) ==
  IF q.newLinks = Keep THEN Idle
  ELSE [pc |-> "deleteLinks", user |-> q.user, via |-> q.via, newLinks |-> q.newLinks]

SaveFlush(r) ==
  LET q == req[r]
      u == q.user
      new == [profiles EXCEPT ![u] = Flushed(@, q.row, q.record)]
  IN
  /\ q.pc = "flush"
  /\ \/ /\ Indexed(new)
        /\ profiles' = new
        /\ overlapped' = (overlapped \cup Readers(u)) \ {r}
        /\ Goto(r, AfterSave(q))
     \/ /\ ~Indexed(new)
        /\ Goto(r, Idle)
        /\ UNCHANGED <<profiles, overlapped>>
  /\ UNCHANGED <<status, links, ops, late>>

-----------------------------------------------------------------------------
(* Links: replaceForProfile deletes all and inserts the new ones.          *)

ReplaceSnsLinks(r, newLinks) ==
  /\ OwnProfile(r, "session")
  /\ Goto(r, [pc |-> "deleteLinks", user |-> req[r].user, via |-> "session",
              newLinks |-> newLinks])
  /\ UNCHANGED <<status, profileVars, historyVars>>

NotDeleted(u) == links   \* mutant: the old links are left in place
WithoutLinks(u) == [links EXCEPT ![u] = {}]
DeleteLinks(r) ==
  LET q == req[r] IN
  /\ q.pc = "deleteLinks"
  /\ links' = WithoutLinks(q.user)
  /\ overlapped' = overlapped \ {r}
  /\ Goto(r, [q EXCEPT !.pc = "insertLinks"])
  /\ UNCHANGED <<status, profiles, ops, late>>

OwnLinks(r, n) == {[by |-> r, place |-> i] : i \in 1..n}
InsertLinks(r) ==
  LET u == req[r].user IN
  /\ req[r].pc = "insertLinks"
  /\ links' = [links EXCEPT ![u] = @ \cup OwnLinks(r, req[r].newLinks)]
  /\ overlapped' = (overlapped \cup {q \in Requests :
       req[q].pc = "insertLinks" /\ req[q].user = u}) \ {r}
  /\ Goto(r, Idle)
  /\ UNCHANGED <<status, profiles, ops, late>>

-----------------------------------------------------------------------------
\* deleteIcon of the moderators: clearIcon loads the row and will flush it.
DeleteIcon(r, u) ==
  LET ask == Ask(Keep, Keep, "none", SameName) IN
  /\ Starts(r)
  /\ profiles[u] # NoProfile
  /\ Goto(r, [pc |-> "flush", user |-> u, via |-> "console", ask |-> ask,
              record |-> Edited(profiles[u], ask, FALSE), newLinks |-> Keep,
              row |-> profiles[u]])
  /\ overlapped' = overlapped \ {r}
  /\ UNCHANGED <<status, profileVars, late>>

-----------------------------------------------------------------------------
(* The public page: getPublicProfileByHandle of both applications.         *)

FindByHandle(r, u) ==
  /\ Starts(r)
  /\ profiles[u] # NoProfile
  /\ Goto(r, [pc |-> "gate", user |-> u, visibility |-> profiles[u].visibility])
  /\ overlapped' = overlapped \ {r}
  /\ UNCHANGED <<status, profileVars, late>>

OnlyVisibility(visibility, ownerStatus) ==   \* mutant: the owner is not asked
  visibility = "PUBLIC"
EffectivePublic(visibility, ownerStatus) ==
  visibility = "PUBLIC" /\ ownerStatus = "ACTIVE"

\* The owner is read and the page is shown, or the visitor is told 404.
Gate(r) ==
  LET q == req[r]
      public == EffectivePublic(q.visibility, status[q.user])
  IN
  /\ q.pc = "gate"
  /\ \/ public /\ Goto(r, [pc |-> "shown", user |-> q.user])
     \/ ~public /\ Goto(r, Idle)
  /\ UNCHANGED <<status, profileVars, historyVars>>

\* The request is answered, is refused or dies.
Abort(r) ==
  /\ req[r].pc # "idle"
  /\ Goto(r, Idle)
  /\ UNCHANGED <<status, profileVars, historyVars>>

-----------------------------------------------------------------------------
Sent == Names \cup {Keep}
SentVisibility == Visibility \cup {Keep}

EditNext(r) ==
  \/ \E h \in Handles \cup {Keep}, n \in [NameParts -> Sent] :
       UpdateProfileContent(r, h, n)
  \/ \E v \in Visibility : UpdateVisibility(r, v)
  \/ \E h \in Handles : ChangeHandle(r, h)
  \/ \E v \in SentVisibility, n \in [NameParts -> Sent], l \in 0..MaxLinks \cup {Keep} :
       PatchMyProfile(r, v, n, l)
  \/ \E v \in SentVisibility, n \in [NameParts -> Names \cup {NoName}], l \in 0..MaxLinks :
       ReplaceMyProfile(r, v, n, l)
  \/ \E l \in 0..MaxLinks : ReplaceSnsLinks(r, l)
  \/ DeleteMyProfile(r)
  \/ CheckHandle(r) \/ SaveLoad(r) \/ SaveFlush(r)
  \/ DeleteLinks(r) \/ InsertLinks(r)

Next ==
  \/ \E u \in Users : UploadIcon(u) \/ \E s \in LaterStatus : StatusChanges(u, s)
  \/ \E r \in Requests, u \in Users :
       \/ Register(r, u) \/ ResolveViewer(r, u) \/ Authenticate(r, u)
       \/ DeleteIcon(r, u) \/ FindByHandle(r, u)
  \/ \E r \in Requests :
       InsertProfile(r) \/ EditNext(r) \/ Gate(r) \/ Abort(r)

Spec == Init /\ [][Next]_vars

-----------------------------------------------------------------------------
(* Properties                                                              *)

ColumnValues(c) ==
  CASE c = "handle" -> Handles
    [] c = "visibility" -> Visibility
    [] c = "icon" -> {"set", "none"}
    [] c = "searchName" -> [NameParts -> Names \cup {NoName}]
    [] OTHER -> Names \cup {NoName}

IsRow(row) ==
  /\ DOMAIN row = Columns \cup {"searchName"}
  /\ \A c \in DOMAIN row : row[c] \in ColumnValues(c)

IsAsk(ask) ==
  /\ DOMAIN ask = Columns
  /\ \A c \in Columns : ask[c] \in ColumnValues(c) \cup {Keep}

\* What request r holds: the fields of its pc.
Admission == [pc : {"admitted"}, user : Users, via : {"session", "key"},
              status : LaterStatus \cup {"UNVERIFIED"}]
Linking == [pc : {"deleteLinks", "insertLinks"}, user : Users,
            via : {"session", "key"}, newLinks : 0..MaxLinks]
Looking == [pc : {"gate"}, user : Users, visibility : Visibility]
Naming == [pc : {"insertProfile", "shown"}, user : Users]

IsEdit(q) ==
  /\ {"pc", "user", "via", "ask", "record", "newLinks"} \subseteq DOMAIN q
  /\ q.pc \in {"checkHandle", "save", "flush"}
  /\ q.user \in Users
  /\ IsAsk(q.ask) /\ IsRow(q.record)
  /\ q.newLinks \in 0..MaxLinks \cup {Keep}
  /\ q.via \in {"session", "key", "console"}
  /\ q.newLinks # Keep => q.via \in {"session", "key"}
  /\ q.pc = "flush" => IsRow(q.row)

IsState(q) == q \in {Idle} \cup Admission \cup Linking \cup Looking \cup Naming \/ IsEdit(q)

TypeOK ==
  /\ status \in [Users -> {"NONE", "UNVERIFIED"} \cup LaterStatus]
  /\ DOMAIN profiles = Users
  /\ \A u \in Users : profiles[u] = NoProfile \/ IsRow(profiles[u])
  /\ links \in [Users -> SUBSET [by : Requests, place : 1..MaxLinks]]
  /\ DOMAIN req = Requests
  /\ \A r \in Requests : IsState(req[r])
  /\ ops \in 0..MaxOps
  /\ overlapped \subseteq Requests
  /\ late \subseteq Requests

\* r saves its record in this step.
Saves(r) == req[r].pc = "flush" /\ req'[r].pc # "flush" /\ profiles' # profiles

\* The row q is the row p with what was asked for, and nothing else; the search
\* name goes with the name if it did before.
AsAsked(p, q, ask) ==
  /\ \A c \in Columns : q[c] = IF ask[c] = Keep THEN p[c] ELSE ask[c]
  /\ (\A x \in NameParts : p.searchName[x] = p[x])
       => \A x \in NameParts : q.searchName[x] = q[x]

\* A save that no other write came between changes the columns it was asked to
\* change and no other, and the list finds the profile under its name: only
\* edits that overlap lose an update or bring back an old visibility, handle
\* or icon (save of MikroProfileRepository).
LostUpdateNeedsOverlap ==
  [][\A r \in Requests :
       (Saves(r) /\ r \notin overlapped) =>
         LET u == req[r].user IN AsAsked(profiles[u], profiles'[u], req[r].ask)]_vars

\* A visitor is shown a page that is public and of an active owner at that
\* moment, unless the profile was written after it was read.
LeakNeedsOverlap ==
  [][\A r \in Requests :
       (req[r].pc = "gate" /\ req'[r].pc = "shown" /\ r \notin overlapped) =>
         LET u == req[r].user IN
         profiles[u].visibility = "PUBLIC" /\ status[u] = "ACTIVE"]_vars

\* The profile and the links of a frozen or withdrawn owner are edited only by
\* requests that were admitted before the status changed (BR-COMMON-005).
EditsStopAtFreeze ==
  [][\A r \in Requests :
       (/\ req[r].pc \in {"flush", "deleteLinks", "insertLinks"}
        /\ req[r].via # "console"
        /\ <<profiles, links>>' # <<profiles, links>>
        /\ req'[r] # req[r]
        /\ status[req[r].user] \in {"FROZEN", "WITHDRAWN"})
       => r \in late]_vars

\* Links are replaced as a whole: after a replacement that no other one came
\* between, the profile shows that one's links and no others.
MixedLinksNeedOverlap ==
  [][\A r \in Requests :
       (req[r].pc = "insertLinks" /\ links' # links /\ req'[r] = Idle
          /\ r \notin overlapped)
       => \A l \in links'[req[r].user] : l.by = r]_vars

-----------------------------------------------------------------------------
(* What the documents say and the code does not do.                        *)

\* 01-data-model.md:328: a profile has at most ten links.
LinksBounded == \A u \in Users : Cardinality(links[u]) <= MaxLinks
=============================================================================
