---------------------------- MODULE HelpArticles -----------------------------
(***************************************************************************)
(* The help articles of apps/api: HelpArticleService, by which support     *)
(* staff write and publish them, over the help_articles table, which the   *)
(* public pages read by the slug. Every operation looks first and saves    *)
(* the whole record in later queries.                                      *)
(***************************************************************************)
EXTENDS Naturals

CONSTANTS
  Articles,   \* help articles, by id
  Slugs,      \* addresses an article can have
  Agents,     \* requests of administrators in flight at once
  NoArticle   \* no row under an id

Article == [slug : Slugs, status : {"published", "unpublished"}]

VARIABLES
  articles,   \* articles[x]: the row of x
  agent,      \* agent[r]: where request r is
  \* History:
  crossed     \* requests during which another one wrote their row

vars == <<articles, agent, crossed>>

Idle == [pc |-> "idle"]
Goto(r, state) == agent' = [agent EXCEPT ![r] = state]

Init ==
  /\ articles = [x \in Articles |-> NoArticle]
  /\ agent = [r \in Agents |-> Idle]
  /\ crossed = {}

-----------------------------------------------------------------------------
(* HelpArticleService                                                      *)

BySlug(s) == {x \in Articles : articles[x] # NoArticle /\ articles[x].slug = s}

WorkingOn(r, x) ==
  {q \in Agents \ {r} : agent[q].pc \in {"findArticle", "findRow", "flush"}
                          /\ agent[q].article = x}

\* upsert: findBySlug finds no article but the one to be written, which exists
\* or has a fresh id.
FindBySlug(r, x, s, status) ==
  /\ agent[r] = Idle
  /\ BySlug(s) \subseteq {x}
  /\ articles[x] # NoArticle \/ WorkingOn(r, x) = {}
  /\ Goto(r, [pc |-> "findArticle", article |-> x, slug |-> s, status |-> status])
  /\ crossed' = crossed \ {r}
  /\ UNCHANGED articles

\* findById: the status is kept unless the input names one. A new article has
\* a fresh id.
StatusDropped(row, status) ==   \* mutant: an edit without a status unpublishes
  IF status # "kept" THEN status ELSE "unpublished"
StatusAsGiven(row, status) == status   \* mutant: what is absent is saved
KeptStatus(row, status) ==
  CASE status # "kept" -> status
    [] status = "kept" /\ row # NoArticle -> row.status
    [] OTHER -> "unpublished"

Saving(r, x, asked, record) ==
  Goto(r, [pc |-> "findRow", article |-> x, asked |-> asked, record |-> record])

FindArticle(r) ==
  LET q == agent[r] IN
  /\ q.pc = "findArticle"
  /\ Saving(r, q.article, IF q.status = "kept" THEN {"slug"} ELSE {"slug", "status"},
            [slug |-> q.slug, status |-> KeptStatus(articles[q.article], q.status)])
  /\ UNCHANGED <<articles, crossed>>

\* setStatus
SetStatus(r, x, status) ==
  /\ agent[r] = Idle
  /\ articles[x] # NoArticle
  /\ Saving(r, x, {"status"}, [articles[x] EXCEPT !.status = status])
  /\ crossed' = crossed \ {r}
  /\ UNCHANGED articles

-----------------------------------------------------------------------------
(* MikroHelpArticleRepository.save                                         *)

FindRow(r) ==
  LET q == agent[r] IN
  /\ q.pc = "findRow"
  /\ Goto(r, [pc |-> "flush", article |-> q.article, asked |-> q.asked,
              record |-> q.record, loaded |-> articles[q.article]])
  /\ UNCHANGED <<articles, crossed>>

Column(now, loaded, assigned) == IF assigned = loaded THEN now ELSE assigned
Flushed(now, loaded, record) ==
  [c \in DOMAIN now |-> Column(now[c], loaded[c], record[c])]
Written(q) ==
  IF q.loaded = NoArticle THEN q.record
  ELSE Flushed(articles[q.article], q.loaded, q.record)

\* uq_help_articles_slug
Taken(x, s) == BySlug(s) \ {x} # {}

\* The entry HELP_ARTICLE_UPDATED follows; nothing else depends on it.
FlushArticle(r) ==
  LET q == agent[r] IN
  /\ q.pc = "flush"
  /\ \/ /\ ~Taken(q.article, Written(q).slug)
        /\ articles' = [articles EXCEPT ![q.article] = Written(q)]
        /\ crossed' = crossed \cup WorkingOn(r, q.article)
     \/ Taken(q.article, Written(q).slug) /\ UNCHANGED <<articles, crossed>>
  /\ Goto(r, Idle)

-----------------------------------------------------------------------------
Abort(r) ==
  /\ agent[r].pc # "idle"
  /\ Goto(r, Idle)
  /\ UNCHANGED <<articles, crossed>>

Next ==
  \/ \E r \in Agents : FindArticle(r) \/ FindRow(r) \/ FlushArticle(r) \/ Abort(r)
  \/ \E r \in Agents, x \in Articles :
       \/ \E status \in {"published", "unpublished"} : SetStatus(r, x, status)
       \/ \E s \in Slugs, status \in {"published", "unpublished", "kept"} :
            FindBySlug(r, x, s, status)

Spec == Init /\ [][Next]_vars

-----------------------------------------------------------------------------
(* What visitors are shown: PublicHelpArticleService.findPublishedBySlug.   *)

Shown(s) == {x \in BySlug(s) : articles[x].status = "published"}

-----------------------------------------------------------------------------
(* Properties                                                              *)

Asking == [pc : {"findArticle"}, article : Articles, slug : Slugs,
           status : {"published", "unpublished", "kept"}]
Finding == [pc : {"findRow"}, article : Articles, asked : SUBSET {"slug", "status"},
            record : Article]
Flushing == [pc : {"flush"}, article : Articles, asked : SUBSET {"slug", "status"},
             record : Article, loaded : Article \cup {NoArticle}]

TypeOK ==
  /\ articles \in [Articles -> Article \cup {NoArticle}]
  /\ agent \in [Agents -> {Idle} \cup Asking \cup Finding \cup Flushing]
  /\ crossed \subseteq Agents

\* An edit that no other save crossed neither publishes nor hides an article
\* unless it was asked to, nor moves it to another address (upsert and
\* setStatus save the whole record they read).
EditsKeepTheRest ==
  [][\A r \in Agents :
       LET q == agent[r] IN
       (q.pc = "flush" /\ agent'[r] = Idle /\ r \notin crossed)
       => \/ UNCHANGED articles
          \/ articles[q.article] = NoArticle
          \/ \A c \in {"slug", "status"} \ q.asked :
               articles'[q.article][c] = articles[q.article][c]]_vars
=============================================================================
