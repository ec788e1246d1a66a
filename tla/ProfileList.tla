----------------------------- MODULE ProfileList -----------------------------
(***************************************************************************)
(* The list of public profiles, read page by page while profiles are       *)
(* edited, hidden and moderated. public-api and the profiles query of      *)
(* apps/api go on from a cursor, the updatedAt and id of the last profile  *)
(* shown; the site's own pages (publicProfiles) count an offset. An edit   *)
(* is stamped with the time before it is saved.                            *)
(***************************************************************************)
EXTENDS Naturals, FiniteSets

CONSTANTS
  Profiles,   \* profiles, by id: numbers, for ULIDs are ordered
  Savers,     \* edits in flight at once
  Visitors,   \* who walks through the list
  PageSizes,  \* what a client of the cursor may ask for
  SitePage,   \* PAGE_SIZE of the site
  MaxClock, MaxEdits   \* bounds of a run

VARIABLES
  rows,       \* rows[p]: updatedAt and visibility of profile p
  active,     \* profiles whose owner is ACTIVE
  time,
  saving,     \* saving[w]: where edit w is
  walk,       \* walk[v]: how far visitor v is
  edits,      \* edits so far, for the bound
  \* History:
  shown,      \* shown[v]: the profiles v has been shown in this walk
  again,      \* again[v]: those it was shown twice
  kept,       \* kept[v]: those listed since its walk began that nobody saved
  lowered,    \* lowered[v]: those an overtaken edit was saved to meanwhile
  moved,      \* visitors during whose walk anything about the list changed
  overtaken   \* edits whose profile was saved by another after they had read it

listVars == <<rows, active, time, saving, walk, edits,
              shown, again, kept, lowered, moved, overtaken>>
editHistory == <<kept, lowered, moved, overtaken>>
walkHistory == <<shown, again, kept, lowered, moved>>

Row == [at : 0..MaxClock, public : BOOLEAN]
Idle == [pc |-> "idle"]
NoWalk == [by |-> "none", more |-> FALSE]
Goto(w, state) == saving' = [saving EXCEPT ![w] = state]

\* Some profiles were published at one moment.
Init ==
  /\ rows = [p \in Profiles |-> [at |-> 0, public |-> TRUE]]
  /\ active = Profiles
  /\ time = 0 /\ edits = 0
  /\ saving = [w \in Savers |-> Idle]
  /\ walk = [v \in Visitors |-> NoWalk]
  /\ shown = [v \in Visitors |-> {}] /\ again = [v \in Visitors |-> {}]
  /\ kept = [v \in Visitors |-> {}] /\ lowered = [v \in Visitors |-> {}]
  /\ moved = {} /\ overtaken = {}

Tick ==
  /\ time < MaxClock
  /\ time' = time + 1
  /\ UNCHANGED <<rows, active, saving, walk, edits, shown, again, editHistory>>

-----------------------------------------------------------------------------
(* Profiles change                                                         *)

Counts == edits < MaxEdits /\ edits' = edits + 1

ReadersOf(p) == {w \in Savers : saving[w] # Idle /\ saving[w].profile = p}

\* What a save of profile p by the edits in by does to the histories.
Saved(p, by) ==
  /\ kept' = [v \in Visitors |-> kept[v] \ {p}]
  /\ lowered' = [v \in Visitors |->
       IF by \cap overtaken # {} THEN lowered[v] \cup {p} ELSE lowered[v]]
  /\ moved' = Visitors
  /\ overtaken' = (overtaken \cup ReadersOf(p)) \ by

\* An operation of the owner reads the profile and stamps the record; one with
\* a handle looks for that first and is stamped again.
Edit(w, p, public, next) ==
  /\ Counts
  /\ saving[w] = Idle
  /\ p \in active
  /\ Goto(w, [pc |-> next, profile |-> p, new |-> [at |-> time, public |-> public]])
  /\ UNCHANGED <<rows, active, time, walk, shown, again, editHistory>>

CheckHandle(w) ==
  /\ saving[w].pc = "check"
  /\ \/ Goto(w, [saving[w] EXCEPT !.pc = "load", !.new.at = time])
        /\ UNCHANGED overtaken
     \/ Goto(w, Idle) /\ overtaken' = overtaken \ {w}
  /\ UNCHANGED <<rows, active, time, walk, edits, walkHistory>>

SaveLoad(w) ==
  /\ saving[w].pc = "load"
  /\ Goto(w, [pc |-> "flush", profile |-> saving[w].profile, new |-> saving[w].new,
              loaded |-> rows[saving[w].profile]])
  /\ UNCHANGED <<rows, active, time, walk, edits, shown, again, editHistory>>

Column(new, loaded, now) == IF new = loaded THEN now ELSE new

\* The flush writes what differs from the loaded row. updatedAt has an onUpdate
\* as well: the stamp is stored, or the time of the flush.
SaveFlush(w) ==
  LET q == saving[w]
      p == q.profile
      stamp == Column(q.new.at, q.loaded.at, rows[p].at)
      public == Column(q.new.public, q.loaded.public, rows[p].public)
  IN
  /\ q.pc = "flush"
  /\ \E at \in {stamp, time} :
       rows' = [rows EXCEPT ![p] = [at |-> at, public |-> public]]
  /\ Saved(p, {w})
  /\ Goto(w, Idle)
  /\ UNCHANGED <<active, time, walk, edits, shown, again>>

\* clearIcon of the moderators names no time: only onUpdate does.
ClearIcon(p) ==
  /\ Counts
  /\ rows' = [rows EXCEPT ![p].at = time]
  /\ Saved(p, {})
  /\ UNCHANGED <<active, time, saving, walk, shown, again>>

\* The owner is frozen, reinstated, or leaves.
OwnerChanges(p) ==
  /\ Counts
  /\ active' = IF p \in active THEN active \ {p} ELSE active \cup {p}
  /\ kept' = [v \in Visitors |-> kept[v] \ {p}]
  /\ moved' = Visitors
  /\ UNCHANGED <<rows, time, saving, walk, shown, again, lowered, overtaken>>

Abort(w) ==
  /\ saving[w] # Idle
  /\ Goto(w, Idle)
  /\ overtaken' = overtaken \ {w}
  /\ UNCHANGED <<rows, active, time, walk, edits, walkHistory>>

-----------------------------------------------------------------------------
(* Pages                                                                   *)

Listed == {p \in active : rows[p].public}
Key(p) == [at |-> rows[p].at, id |-> p]

\* The order of the list: updatedAt and id, both descending.
Before(k, l) == k.at > l.at \/ (k.at = l.at /\ k.id > l.id)

\* A cursor is the set of keys to go on behind: none on the first page.
Behind(cursor) == {p \in Listed : \A k \in cursor : Before(k, Key(p))}
Rank(p, S) == Cardinality({q \in S : Before(Key(q), Key(p))})
FirstOf(S, n) == {p \in S : Rank(p, S) < n}
LastOf(S) == CHOOSE p \in S : \A q \in S \ {p} : Before(Key(q), Key(p))

CursorOfExtra(found, page) ==   \* mutant: the row too many is the cursor
  {Key(LastOf(found))}
NextCursor(found, page) == {Key(LastOf(page))}

Show(v, page) ==
  /\ shown' = [shown EXCEPT ![v] = @ \cup page]
  /\ again' = [again EXCEPT ![v] = @ \cup (page \cap shown[v])]

\* A visitor opens the list, by cursor or by offset.
OpenList(v, start) ==
  /\ ~walk[v].more
  /\ walk' = [walk EXCEPT ![v] = start]
  /\ shown' = [shown EXCEPT ![v] = {}] /\ again' = [again EXCEPT ![v] = {}]
  /\ kept' = [kept EXCEPT ![v] = Listed] /\ lowered' = [lowered EXCEPT ![v] = {}]
  /\ moved' = moved \ {v}
  /\ UNCHANGED <<rows, active, time, saving, edits, overtaken>>

\* listPublicProfiles: one row more than the page tells whether there are more.
CursorPage(v, limit) ==
  LET found == FirstOf(Behind(walk[v].after), limit + 1)
      page == FirstOf(found, limit)
  IN
  /\ walk[v].by = "cursor" /\ walk[v].more
  /\ Show(v, page)
  /\ \/ /\ Cardinality(found) > limit
        /\ walk' = [walk EXCEPT ![v].after = NextCursor(found, page)]
     \/ /\ Cardinality(found) <= limit
        /\ walk' = [walk EXCEPT ![v].more = FALSE]
  /\ UNCHANGED <<rows, active, time, saving, edits, editHistory>>

\* listPublicProfilesOffset cuts the page from the whole list, and asks in a
\* second query for the total that tells the site how many pages there are.
Offset(v) == (walk[v].number - 1) * SitePage
OffsetPage(v) ==
  /\ walk[v].by = "offset" /\ walk[v].more /\ ~walk[v].counting
  /\ Show(v, FirstOf(Listed, Offset(v) + SitePage) \ FirstOf(Listed, Offset(v)))
  /\ walk' = [walk EXCEPT ![v].counting = TRUE]
  /\ UNCHANGED <<rows, active, time, saving, edits, editHistory>>

CountProfiles(v) ==
  /\ walk[v].by = "offset" /\ walk[v].more /\ walk[v].counting
  /\ \/ /\ Offset(v) + SitePage < Cardinality(Listed)
        /\ walk' = [walk EXCEPT ![v].number = walk[v].number + 1, ![v].counting = FALSE]
     \/ /\ Offset(v) + SitePage >= Cardinality(Listed)
        /\ walk' = [walk EXCEPT ![v].more = FALSE]
  /\ UNCHANGED <<rows, active, time, saving, edits, shown, again, editHistory>>

Next ==
  \/ Tick
  \/ \E w \in Savers, p \in Profiles, public \in BOOLEAN, next \in {"check", "load"} :
       Edit(w, p, public, next)
  \/ \E w \in Savers : CheckHandle(w) \/ SaveLoad(w) \/ SaveFlush(w) \/ Abort(w)
  \/ \E p \in Profiles : ClearIcon(p) \/ OwnerChanges(p)
  \/ \E v \in Visitors :
       \/ OpenList(v, [by |-> "cursor", after |-> {}, more |-> TRUE])
       \/ OpenList(v, [by |-> "offset", number |-> 1, counting |-> FALSE,
                        more |-> TRUE])
       \/ \E limit \in PageSizes : CursorPage(v, limit)
       \/ OffsetPage(v) \/ CountProfiles(v)

Spec == Init /\ [][Next]_listVars

-----------------------------------------------------------------------------
(* Properties                                                              *)

Walk ==
  {NoWalk}
    \cup [by : {"cursor"}, after : SUBSET [at : 0..MaxClock, id : Profiles], more : BOOLEAN]
    \cup [by : {"offset"}, number : Nat \ {0}, counting : BOOLEAN, more : BOOLEAN]

TypeOK ==
  /\ rows \in [Profiles -> Row]
  /\ active \subseteq Profiles
  /\ time \in 0..MaxClock /\ edits \in 0..MaxEdits
  /\ saving \in [Savers -> {Idle}
       \cup [pc : {"check", "load"}, profile : Profiles, new : Row]
       \cup [pc : {"flush"}, profile : Profiles, new : Row, loaded : Row]]
  /\ walk \in [Visitors -> Walk]
  /\ \A h \in {shown, again, kept, lowered} : h \in [Visitors -> SUBSET Profiles]
  /\ moved \subseteq Visitors /\ overtaken \subseteq Savers

\* A walk by cursor shows a profile twice only if an edit that another save had
\* overtaken moved it down again, and does not end before it has shown every
\* profile that was listed all along and not saved, however many others move
\* (listPublicProfiles, BR-DISC-003). One by offset is right as long as nothing moves.
EachShownOnce ==
  \A v \in Visitors :
    walk[v].by = "cursor" \/ (walk[v].by = "offset" /\ v \notin moved)
      => /\ again[v] \subseteq lowered[v]
         /\ walk[v].more \/ kept[v] \subseteq shown[v]
=============================================================================
