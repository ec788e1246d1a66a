------------------------------ MODULE Console -------------------------------
(***************************************************************************)
(* What administrators do in the console beside moderation and the care of *)
(* their accounts: they register passkeys and log in with them, publish    *)
(* policies and announcements, write help articles, handle inquiries and   *)
(* reports, and send mail. Each part has tables of its own, so that their  *)
(* steps commute and one of them works in a behaviour: atWork says which.  *)
(***************************************************************************)
EXTENDS Passkeys, Policies, Mailings

CONSTANTS
  Notices, Tabs, Words, Times, ToMinute,   \* of Announcements
  Articles, Slugs,        \* of HelpArticles
  Inquiries, Reports,     \* of Cases
  None                    \* no row, no form

VARIABLES
  atWork,
  notices, unused, form, clerk, stale, disturbed,
  articles, agent, crossed,
  cases, audited, handler, contested, unrecorded

Announcement == INSTANCE Announcements WITH Clerks <- Requests, NoNotice <- None
Help == INSTANCE HelpArticles WITH Agents <- Requests, NoArticle <- None
Case == INSTANCE Cases WITH Agents <- Requests, crossed <- contested

\* None is not a row or a date, and ids of different tables differ.
ASSUME ConsoleAssumption ==
  /\ None \notin Times
  /\ ToMinute \in [Times -> Times]
  /\ \A time \in Times : ToMinute[ToMinute[time]] = ToMinute[time]
  /\ None \notin Announcement!Notice \cup Help!Article
  /\ Inquiries \cap Reports = {}

noticeVars == <<notices, unused, form, clerk, stale, disturbed>>
helpVars == <<articles, agent, crossed>>
caseVars == <<cases, audited, handler, contested, unrecorded>>
vars == <<passkeyVars, policyVars, noticeVars, helpVars, caseVars, mailingVars, atWork>>

\* Parts that stand still are in the same one of their initial states.
Init ==
  /\ atWork \in {"passkeys", "policies", "announcements", "help", "cases", "mailings"}
  /\ PasskeyInit /\ PolicyInit /\ MailingInit
  /\ Announcement!Init /\ Help!Init /\ Case!Init
  /\ atWork # "passkeys" => accounts = [e \in Emails |-> "active"]
  /\ atWork # "mailings" =>
       users = [u \in Users |-> [optIn |-> TRUE, status |-> "ACTIVE"]]

PasskeysWork ==
  /\ atWork = "passkeys" /\ PasskeyNext
  /\ UNCHANGED <<policyVars, noticeVars, helpVars, caseVars, mailingVars, atWork>>
PoliciesWork ==
  /\ atWork = "policies" /\ PolicyNext
  /\ UNCHANGED <<passkeyVars, noticeVars, helpVars, caseVars, mailingVars, atWork>>
AnnouncementsWork ==
  /\ atWork = "announcements" /\ Announcement!Next
  /\ UNCHANGED <<passkeyVars, policyVars, helpVars, caseVars, mailingVars, atWork>>
HelpWorks ==
  /\ atWork = "help" /\ Help!Next
  /\ UNCHANGED <<passkeyVars, policyVars, noticeVars, caseVars, mailingVars, atWork>>
CasesWork ==
  /\ atWork = "cases" /\ Case!Next
  /\ UNCHANGED <<passkeyVars, policyVars, noticeVars, helpVars, mailingVars, atWork>>
MailingsWork ==
  /\ atWork = "mailings" /\ MailingNext
  /\ UNCHANGED <<passkeyVars, policyVars, noticeVars, helpVars, caseVars, atWork>>

Next ==
  \/ PasskeysWork \/ PoliciesWork \/ AnnouncementsWork
  \/ HelpWorks \/ CasesWork \/ MailingsWork

Spec == Init /\ [][Next]_vars

-----------------------------------------------------------------------------
(* Properties: those of Passkeys, Policies and Mailings, and those below,  *)
(* which are explained in the module of their part.                        *)

TypeOK ==
  /\ PasskeyTypeOK /\ PolicyTypeOK /\ MailingTypeOK
  /\ Announcement!TypeOK /\ Help!TypeOK /\ Case!TypeOK

\* An operation on an announcement writes what was asked of it (save).
OnlyWhatWasAsked == Announcement!OnlyWhatWasAsked

\* A published announcement is deleted only as the draft it was (remove).
DeletedOnlyAsDraft == Announcement!DeletedOnlyAsDraft

\* An edit of a help article leaves the other column alone (save).
EditsKeepTheRest == Help!EditsKeepTheRest

\* The audit log tells the status of inquiries and reports (updateStatus).
LogTellsStatus == Case!LogTellsStatus
=============================================================================
