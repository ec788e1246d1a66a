---------------------------- MODULE Announcements ----------------------------
(***************************************************************************)
(* The announcements of apps/api (AnnouncementService over the             *)
(* announcements table) and the pages of the administration console that   *)
(* edit them. Every operation reads the record, changes it and saves all   *)
(* of it; save reads the row again and writes the columns that differ.     *)
(* A form keeps the values it was opened with: the console renders the     *)
(* page again after an operation, and the form does not follow. A form     *)
(* shows dates to the minute, and sends them so.                           *)
(***************************************************************************)
EXTENDS Naturals

CONSTANTS
  Notices,   \* announcements, by id
  Tabs,      \* pages of the console that are open
  Clerks,    \* requests of administrators in flight at once
  Words,     \* texts that are told apart
  Times,     \* what the clock may show
  ToMinute,  \* a time without its seconds
  NoNotice   \* no row under an id; a tab without a form; no date

\* Dates as a form shows and sends them, and as the column start holds them.
\* start is publishStartAt (create and update treat publishEndAt like it); the
\* title stands for all the text, which is handled alike.
FormDates == {NoNotice} \cup {ToMinute[time] : time \in Times}
Dates == {NoNotice} \cup Times

Form == [title : Words, start : FormDates]
Notice == [title : Words, start : Dates, status : {"draft", "published"}]

VARIABLES
  notices,    \* notices[x]: the row of x
  unused,     \* ids that have not been given away
  form,       \* form[t]: the announcement tab t shows and the values of its form
  clerk,      \* clerk[r]: where request r is
  \* History:
  stale,      \* tabs whose announcement was written after the form was opened
  disturbed   \* requests whose form was stale, or during which their
              \* announcement was written

vars == <<notices, unused, form, clerk, stale, disturbed>>
history == <<stale, disturbed>>

Idle == [pc |-> "idle"]
Goto(r, state) == clerk' = [clerk EXCEPT ![r] = state]
NoForm == [notice |-> NoNotice]

Init ==
  /\ notices = [x \in Notices |-> NoNotice]
  /\ unused = Notices
  /\ form = [t \in Tabs |-> NoForm]
  /\ clerk = [r \in Clerks |-> Idle]
  /\ stale = {} /\ disturbed = {}

-----------------------------------------------------------------------------
(* The console                                                             *)

LocalInput(start) == IF start = NoNotice THEN NoNotice ELSE ToMinute[start]
Shown(row) == [title |-> row.title, start |-> LocalInput(row.start)]

OpenPage(t, x) ==
  /\ notices[x] # NoNotice
  /\ form' = [form EXCEPT ![t] = [notice |-> x, values |-> Shown(notices[x])]]
  /\ stale' = stale \ {t}
  /\ UNCHANGED <<notices, unused, clerk, disturbed>>

ClosePage(t) ==
  /\ form[t] # NoForm
  /\ form' = [form EXCEPT ![t] = NoForm]
  /\ stale' = stale \ {t}
  /\ UNCHANGED <<notices, unused, clerk, disturbed>>

-----------------------------------------------------------------------------
(* AnnouncementService                                                     *)

\* create saves what an empty form was filled with under a fresh id.
Create(r, x, sent) ==
  /\ clerk[r] = Idle
  /\ x \in unused
  /\ unused' = unused \ {x}
  /\ notices' = [notices EXCEPT ![x] =
       [title |-> sent.title, start |-> sent.start, status |-> "draft"]]
  /\ UNCHANGED <<form, clerk, history>>

\* An operation that read the record, the columns it was asked to change, and
\* what it will save.
Require(r, x, asked, record) ==
  /\ clerk[r] = Idle
  /\ notices[x] # NoNotice
  /\ Goto(r, [pc |-> "find", asked |-> asked, notice |-> x, record |-> record])

\* update: the values of the form, of which the administrator has changed some,
\* over the record; the date, changed or not, is one to the minute. What the
\* form shows after it is what OpenPage would show, or did when it was opened.
StatusReset(row, sent) ==   \* mutant: the record is not spread
  [title |-> sent.title, start |-> sent.start, status |-> "draft"]
Edited(row, sent) == [row EXCEPT !.title = sent.title, !.start = sent.start]

Update(r, t, sent) ==
  LET x == form[t].notice IN
  /\ form[t] # NoForm
  /\ Require(r, x, {c \in DOMAIN sent : sent[c] # form[t].values[c]},
             Edited(notices[x], sent))
  /\ form' = [form EXCEPT ![t] = NoForm]
  /\ disturbed' = IF t \in stale THEN disturbed \cup {r} ELSE disturbed \ {r}
  /\ stale' = stale \ {t}
  /\ UNCHANGED <<notices, unused>>

\* publish: from now on, if there is no date to start at.
Starting(row, time) == IF row.start = NoNotice THEN time ELSE row.start
Publish(r, x, time) ==
  /\ Require(r, x, {"status"} \cup {c \in {"start"} : notices[x].start = NoNotice},
             [notices[x] EXCEPT !.status = "published", !.start = Starting(notices[x], time)])
  /\ disturbed' = disturbed \ {r}
  /\ UNCHANGED <<notices, unused, form, stale>>

Unpublish(r, x) ==
  /\ Require(r, x, {"status"}, [notices[x] EXCEPT !.status = "draft"])
  /\ disturbed' = disturbed \ {r}
  /\ UNCHANGED <<notices, unused, form, stale>>

\* remove refuses an announcement that is published.
Anything(row) == TRUE   \* mutant: a published announcement is deleted
Removable(row) == row.status # "published"
Remove(r, x) ==
  /\ clerk[r] = Idle
  /\ notices[x] # NoNotice
  /\ Removable(notices[x])
  /\ Goto(r, [pc |-> "delete", notice |-> x])
  /\ disturbed' = disturbed \ {r}
  /\ UNCHANGED <<notices, unused, form, stale>>

-----------------------------------------------------------------------------
(* MikroAnnouncementRepository                                             *)

\* save: findOne,
FindRow(r) ==
  /\ clerk[r].pc = "find"
  /\ Goto(r, [pc |-> "flush", asked |-> clerk[r].asked, notice |-> clerk[r].notice,
              record |-> clerk[r].record, loaded |-> notices[clerk[r].notice]])
  /\ UNCHANGED <<notices, unused, form, history>>

\* The row changes: requests that work on it are disturbed, forms that show it
\* are out of date.
Writing(r, x) ==
  /\ disturbed' = disturbed \cup
       {q \in Clerks \ {r} : clerk[q].pc # "idle" /\ clerk[q].notice = x}
  /\ stale' = stale \cup {t \in Tabs : form[t].notice = x}

\* and then the update of the columns that differ from the row that was found,
\* or an insert when there was none.
Column(now, loaded, assigned) == IF assigned = loaded THEN now ELSE assigned
Flushed(now, loaded, record) ==
  [c \in DOMAIN now |-> Column(now[c], loaded[c], record[c])]

Flush(r) ==
  LET q == clerk[r]
      now == notices[q.notice]
  IN
  /\ q.pc = "flush"
  /\ \/ /\ q.loaded # NoNotice /\ now # NoNotice
        /\ notices' = [notices EXCEPT ![q.notice] = Flushed(now, q.loaded, q.record)]
     \/ /\ q.loaded = NoNotice /\ now = NoNotice
        /\ notices' = [notices EXCEPT ![q.notice] = q.record]
     \* no row to update; or the id is taken again and the insert fails
     \/ (q.loaded = NoNotice) # (now = NoNotice) /\ UNCHANGED notices
  /\ Writing(r, q.notice)
  /\ Goto(r, Idle)
  /\ UNCHANGED <<unused, form>>

Delete(r) ==
  LET x == clerk[r].notice IN
  /\ clerk[r].pc = "delete"
  /\ notices' = [notices EXCEPT ![x] = NoNotice]
  /\ Writing(r, x)
  /\ Goto(r, Idle)
  /\ UNCHANGED <<unused, form>>

Abort(r) ==
  /\ clerk[r].pc # "idle"
  /\ Goto(r, Idle)
  /\ UNCHANGED <<notices, unused, form, history>>

Next ==
  \/ \E t \in Tabs : ClosePage(t) \/ \E x \in Notices : OpenPage(t, x)
  \/ \E r \in Clerks : FindRow(r) \/ Flush(r) \/ Delete(r) \/ Abort(r)
  \/ \E r \in Clerks, x \in Notices :
       \/ Unpublish(r, x) \/ Remove(r, x)
       \/ \E time \in Times : Publish(r, x, time)
       \/ \E sent \in Form : Create(r, x, sent)
  \/ \E r \in Clerks, t \in Tabs, sent \in Form : Update(r, t, sent)

Spec == Init /\ [][Next]_vars

-----------------------------------------------------------------------------
(* Properties                                                              *)

Finding == [pc : {"find"}, asked : SUBSET {"title", "start", "status"},
            notice : Notices, record : Notice]
Flushing == [pc : {"flush"}, asked : SUBSET {"title", "start", "status"},
             notice : Notices, record : Notice, loaded : Notice \cup {NoNotice}]

TypeOK ==
  /\ notices \in [Notices -> Notice \cup {NoNotice}]
  /\ unused \subseteq Notices
  /\ form \in [Tabs -> {NoForm} \cup [notice : Notices, values : Form]]
  /\ clerk \in [Clerks -> {Idle} \cup Finding \cup Flushing
                                 \cup [pc : {"delete"}, notice : Notices]]
  /\ stale \subseteq Tabs
  /\ disturbed \subseteq Clerks

\* What operation q, which was not disturbed, leaves of a column.
AsAsked(q, c, old, new) ==
  \/ c \in q.asked /\ new = q.record[c]
  \/ c \notin q.asked /\ new = old
  \/ c = "start" /\ q.asked \cap {"start", "status"} = {} /\ new = LocalInput(old)

\* An operation writes what its administrator asked for and nothing else:
\* it undoes no edit, publishes nothing it was not asked to publish and brings
\* nothing deleted back, unless its form was older than the row or the row
\* was written while it ran (update, publish and unpublish save all they
\* read). Only, an edit that does not touch the date sets it back to the
\* minute (toLocalInput); publish and unpublish do not.
OnlyWhatWasAsked ==
  [][\A r \in Clerks : \A x \in Notices :
       (clerk[r].pc = "flush" /\ clerk'[r] = Idle /\ clerk[r].notice = x
          /\ r \notin disturbed /\ notices'[x] # notices[x])
       => /\ notices[x] # NoNotice /\ notices'[x] # NoNotice
          /\ \A c \in {"title", "start", "status"} :
               AsAsked(clerk[r], c, notices[x][c], notices'[x][c])]_vars

\* A published announcement is deleted only by a request that was admitted
\* while it was a draft (remove checks, and deletes in a later query).
DeletedOnlyAsDraft ==
  [][\A x \in Notices :
       (notices[x] # NoNotice /\ notices[x].status = "published" /\ notices'[x] = NoNotice)
       => \E r \in disturbed : clerk[r].pc = "delete" /\ clerk[r].notice = x]_vars
=============================================================================
