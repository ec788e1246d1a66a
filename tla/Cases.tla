-------------------------------- MODULE Cases --------------------------------
(***************************************************************************)
(* What support staff handle in the console of apps/api: InquiryService,   *)
(* which moves inquiries through their states, and the review of reports   *)
(* in ModerationService, which decides them. Both look at the status,      *)
(* write it in a later query, and write the audit log last.                *)
(***************************************************************************)

CONSTANTS
  Inquiries,  \* inquiries, by id
  Reports,    \* reports of profiles, by id
  Agents      \* requests of administrators in flight at once

InquiryStatus == {"OPEN", "IN_PROGRESS", "CLOSED"}
ReportStatus == {"OPEN", "IN_REVIEW", "RESOLVED", "DISMISSED"}
Ids == Inquiries \cup Reports
CaseStatus == {"NONE"} \cup InquiryStatus \cup ReportStatus

VARIABLES
  cases,      \* cases[i]: the status of inquiry or report i
  audited,    \* audited[i]: the status the last entry of the audit log gives i
  handler,    \* handler[r]: where request r is
  \* History:
  crossed,    \* requests during which another one wrote their row
  unrecorded  \* cases whose last write was left without an entry, or was
              \* recorded out of order

vars == <<cases, audited, handler, crossed, unrecorded>>

Idle == [pc |-> "idle"]
Goto(r, state) == handler' = [handler EXCEPT ![r] = state]

\* Inquiries are written outside the API; they and reports start open.
Init ==
  /\ cases = [i \in Ids |-> IF i \in Reports THEN "NONE" ELSE "OPEN"]
  /\ audited = [i \in Ids |-> "OPEN"]
  /\ handler = [r \in Agents |-> Idle]
  /\ crossed = {} /\ unrecorded = {}

-----------------------------------------------------------------------------
(* InquiryService.updateStatus, ModerationService.reviewReport             *)

\* reportProfile: a visitor reports a profile that is public.
ReportProfile(i) ==
  /\ i \in Reports /\ cases[i] = "NONE"
  /\ cases' = [cases EXCEPT ![i] = "OPEN"]
  /\ UNCHANGED <<audited, handler, crossed, unrecorded>>

InquiryTransitions ==
  [OPEN |-> {"IN_PROGRESS", "CLOSED"}, IN_PROGRESS |-> {"CLOSED", "OPEN"},
   CLOSED |-> {"OPEN"}]
ReportTransitions ==
  [OPEN |-> {"IN_REVIEW", "RESOLVED", "DISMISSED"}, IN_REVIEW |-> {"RESOLVED", "DISMISSED"},
   RESOLVED |-> {}, DISMISSED |-> {}]

\* An inquiry moves along its transitions; a report is reviewed with a decision.
Allowed(i, from) ==
  IF i \in Inquiries THEN InquiryTransitions[from]
  ELSE ReportTransitions[from] \cap {"RESOLVED", "DISMISSED"}

FindCase(r, i, to) ==
  /\ handler[r] = Idle
  /\ cases[i] # "NONE" /\ to \in Allowed(i, cases[i])
  /\ Goto(r, [pc |-> IF i \in Inquiries THEN "setStatus" ELSE "loadReport",
              id |-> i, from |-> cases[i], to |-> to])
  /\ crossed' = crossed \ {r}
  /\ UNCHANGED <<cases, audited, unrecorded>>

Handling(r, i) ==
  {q \in Agents \ {r} :
     handler[q].pc \in {"loadReport", "setStatus", "record"} /\ handler[q].id = i}

\* A column is written when what was assigned differs from what was loaded.
Column(now, loaded, assigned) == IF assigned = loaded THEN now ELSE assigned

\* The repository of reports loads the row, assigns, and flushes what differs;
\* that of inquiries makes one update.
LoadReport(r) ==
  /\ handler[r].pc = "loadReport"
  /\ Goto(r, [handler[r] EXCEPT !.pc = "setStatus", !.from = cases[handler[r].id]])
  /\ UNCHANGED <<cases, audited, crossed, unrecorded>>

SetCaseStatus(r) ==
  LET i == handler[r].id IN
  /\ handler[r].pc = "setStatus"
  /\ cases' = IF i \in Reports
              THEN [cases EXCEPT ![i] = Column(cases[i], handler[r].from, handler[r].to)]
              ELSE [cases EXCEPT ![i] = handler[r].to]
  /\ crossed' = crossed \cup Handling(r, i)
  /\ unrecorded' = unrecorded \cup {i}
  /\ Goto(r, [handler[r] EXCEPT !.pc = "record"])
  /\ UNCHANGED audited

\* The entry INQUIRY_UPDATED, with metadata { from, to }, or REPORT_REVIEWED,
\* with { decision }.
Swapped(q) == q.from   \* mutant: the entry names the old status
Recorded(q) == q.to
RecordCase(r) ==
  LET i == handler[r].id IN
  /\ handler[r].pc = "record"
  /\ audited' = [audited EXCEPT ![i] = Recorded(handler[r])]
  /\ unrecorded' = IF r \in crossed THEN unrecorded \cup {i} ELSE unrecorded \ {i}
  /\ Goto(r, Idle)
  /\ UNCHANGED <<cases, crossed>>

Abort(r) ==
  /\ handler[r] # Idle
  /\ Goto(r, Idle)
  /\ UNCHANGED <<cases, audited, crossed, unrecorded>>

Next ==
  \/ \E i \in Ids :
       ReportProfile(i) \/ \E r \in Agents, to \in CaseStatus : FindCase(r, i, to)
  \/ \E r \in Agents : LoadReport(r) \/ SetCaseStatus(r) \/ RecordCase(r) \/ Abort(r)

Spec == Init /\ [][Next]_vars

-----------------------------------------------------------------------------
(* Properties                                                              *)

TypeOK ==
  /\ cases \in [Ids -> CaseStatus]
  /\ audited \in [Ids -> CaseStatus]
  /\ handler \in [Agents -> {Idle} \cup
       [pc : {"loadReport", "setStatus", "record"}, id : Ids,
        from : CaseStatus, to : CaseStatus]]
  /\ crossed \subseteq Agents
  /\ unrecorded \subseteq Ids

\* The audit log tells the state of a case: when no request is between its
\* write and its entry, the last entry names the status the inquiry or report
\* has, unless a request died there or another one crossed it (updateStatus,
\* reviewReport).
LogTellsStatus ==
  \A i \in Ids : cases[i] # "NONE" /\ i \notin unrecorded => audited[i] = cases[i]
=============================================================================
