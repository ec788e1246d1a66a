------------------------------ MODULE Mailings -------------------------------
(***************************************************************************)
(* Mail notifications of apps/api: EmailNotificationService.send reads the *)
(* list of recipients, mails them one after another through the mail       *)
(* service, and only then marks the notification SENT. The mail service    *)
(* may refuse a mail, and its answer may be lost after it took one; either *)
(* ends the request with an error, after which the administrator may try   *)
(* again.                                                                  *)
(***************************************************************************)
EXTENDS Naturals, FiniteSets

CONSTANTS
  Notifications,  \* notifications, by id
  Users,          \* users, who have one address each
  Senders,        \* requests of administrators in flight at once
  MaxMails,       \* bound on the mails a user gets of one notification
  MaxChanges      \* bound on the changes of users

ASSUME MailingAssumption == MaxMails \in Nat \ {0} /\ MaxChanges \in Nat

Conditions == {"all", "verified"}
User == [optIn : BOOLEAN, status : {"UNVERIFIED", "ACTIVE", "FROZEN", "WITHDRAWN"}]

VARIABLES
  notification,  \* notification[n]: its condition and status, "none" before
  users,         \* users[u]: the columns recipients are chosen by
  sender,        \* sender[r]: where request r is
  mails,         \* mails[n][u]: mails that reached u
  changes,       \* changes of users so far
  \* History:
  troubled,      \* notifications of which a sending failed, died or was overlapped
  dropped        \* dropped[r]: users that stopped to be recipients while r runs

mailingVars == <<notification, users, sender, mails, changes, troubled, dropped>>

SenderIdle == [pc |-> "idle"]
SenderGoes(r, state) == sender' = [sender EXCEPT ![r] = state]
NoNotification == [status |-> "none", condition |-> "all"]

MailingInit ==
  /\ notification = [n \in Notifications |-> NoNotification]
  /\ users \in [Users -> [optIn : BOOLEAN, status : {"ACTIVE", "UNVERIFIED"}]]
  /\ sender = [r \in Senders |-> SenderIdle]
  /\ mails = [n \in Notifications |-> [u \in Users |-> 0]]
  /\ changes = 0
  /\ troubled = {}
  /\ dropped = [r \in Senders |-> {}]

-----------------------------------------------------------------------------
(* The users                                                               *)

\* listRecipientEmails
OptInForgotten(row, condition) ==   \* mutant: the opt-in is not asked for
  IF condition = "verified" THEN row.status = "ACTIVE"
  ELSE row.status \in {"ACTIVE", "UNVERIFIED"}
Receives(row, condition) ==
  /\ row.optIn
  /\ \/ condition = "verified" /\ row.status = "ACTIVE"
     \/ condition = "all" /\ row.status \in {"ACTIVE", "UNVERIFIED"}

Recipients(n) == {u \in Users : Receives(users[u], notification[n].condition)}

\* A user opts in or out, or moves to a status that follows.
Follows(status) ==
  CASE status = "UNVERIFIED" -> {"ACTIVE", "WITHDRAWN"}
    [] status = "ACTIVE" -> {"FROZEN", "WITHDRAWN"}
    [] status = "FROZEN" -> {"ACTIVE", "WITHDRAWN"}
    [] OTHER -> {}

ChangeUser(u, row) ==
  /\ changes < MaxChanges
  /\ \/ row = [users[u] EXCEPT !.optIn = ~users[u].optIn]
     \/ \E status \in Follows(users[u].status) : row = [users[u] EXCEPT !.status = status]
  /\ users' = [users EXCEPT ![u] = row]
  /\ changes' = changes + 1
  /\ dropped' = [r \in Senders |->
       IF sender[r] # SenderIdle THEN dropped[r] \cup {u} ELSE dropped[r]]
  /\ UNCHANGED <<notification, sender, mails, troubled>>

-----------------------------------------------------------------------------
(* EmailNotificationService                                                *)

\* createDraft
CreateDraft(n, condition) ==
  /\ notification[n].status = "none"
  /\ notification' = [notification EXCEPT ![n] = [status |-> "draft", condition |-> condition]]
  /\ UNCHANGED <<users, sender, mails, changes, troubled, dropped>>

\* send refuses a notification that is marked SENT. (testSend refuses none,
\* mails one address the administrator names and changes nothing.)
Sending(n) == {r \in Senders : sender[r] # SenderIdle /\ sender[r].notification = n}

Always(status) == status # "none"   \* mutant: send does not look at the status
Sendable(status) == status = "draft"
Send(r, n) ==
  /\ sender[r] = SenderIdle
  /\ Sendable(notification[n].status)
  /\ SenderGoes(r, [pc |-> "list", notification |-> n, to |-> {}, rest |-> {}])
  /\ troubled' = IF Sending(n) # {} THEN troubled \cup {n} ELSE troubled
  /\ dropped' = [dropped EXCEPT ![r] = {}]
  /\ UNCHANGED <<notification, users, mails, changes>>

ListRecipients(r) ==
  LET n == sender[r].notification IN
  /\ sender[r].pc = "list"
  /\ SenderGoes(r, [pc |-> "mail", notification |-> n,
                    to |-> Recipients(n), rest |-> Recipients(n)])
  /\ dropped' = [dropped EXCEPT ![r] = {}]
  /\ UNCHANGED <<notification, users, mails, changes, troubled>>

\* The mail service takes the mail and says so,
Mailed(n, u) ==
  mails' = [mails EXCEPT ![n] = [mails[n] EXCEPT ![u] = mails[n][u] + 1]]
Mail(r, u) ==
  LET n == sender[r].notification IN
  /\ sender[r].pc = "mail" /\ u \in sender[r].rest
  /\ mails[n][u] < MaxMails
  /\ Mailed(n, u)
  /\ SenderGoes(r, [sender[r] EXCEPT !.rest = sender[r].rest \ {u}])
  /\ UNCHANGED <<notification, users, changes, troubled, dropped>>

\* or it does not, having taken the mail or not: send throws.
SkipFailed(q, u) == [q EXCEPT !.rest = q.rest \ {u}]   \* mutant: errors are swallowed
AfterFailure(q, u) == SenderIdle
MailFails(r, u) ==
  LET n == sender[r].notification IN
  /\ sender[r].pc = "mail" /\ u \in sender[r].rest
  /\ \/ UNCHANGED mails
     \/ mails[n][u] < MaxMails /\ Mailed(n, u)
  /\ SenderGoes(r, AfterFailure(sender[r], u))
  /\ troubled' = troubled \cup {n}
  /\ UNCHANGED <<notification, users, changes, dropped>>

\* The notification is saved as SENT.
SaveSent(r) ==
  LET n == sender[r].notification IN
  /\ sender[r].pc = "mail" /\ sender[r].rest = {}
  /\ notification' = [notification EXCEPT ![n].status = "sent"]
  /\ SenderGoes(r, [sender[r] EXCEPT !.pc = "audit"])
  /\ UNCHANGED <<users, mails, changes, troubled, dropped>>

\* The entry EMAIL_SENT, with the number of recipients; the dialog closes.
RecordSent(r) ==
  /\ sender[r].pc = "audit"
  /\ SenderGoes(r, SenderIdle)
  /\ UNCHANGED <<notification, users, mails, changes, troubled, dropped>>

AbortSending(r) ==
  /\ sender[r].pc # "idle"
  /\ SenderGoes(r, SenderIdle)
  /\ troubled' = troubled \cup {sender[r].notification}
  /\ UNCHANGED <<notification, users, mails, changes, dropped>>

MailingNext ==
  \/ \E u \in Users, row \in User : ChangeUser(u, row)
  \/ \E n \in Notifications, condition \in Conditions : CreateDraft(n, condition)
  \/ \E r \in Senders, n \in Notifications : Send(r, n)
  \/ \E r \in Senders, u \in Users : Mail(r, u) \/ MailFails(r, u)
  \/ \E r \in Senders : ListRecipients(r) \/ SaveSent(r) \/ RecordSent(r) \/ AbortSending(r)

MailingSpec == MailingInit /\ [][MailingNext]_mailingVars

-----------------------------------------------------------------------------
(* Properties                                                              *)

MailingTypeOK ==
  /\ notification \in [Notifications ->
       [status : {"none", "draft", "sent"}, condition : Conditions]]
  /\ users \in [Users -> User]
  /\ sender \in [Senders -> {SenderIdle} \cup
       [pc : {"list", "mail", "audit"}, notification : Notifications,
        to : SUBSET Users, rest : SUBSET Users]]
  /\ mails \in [Notifications -> [Users -> 0..MaxMails]]
  /\ changes \in 0..MaxChanges
  /\ troubled \subseteq Notifications
  /\ dropped \in [Senders -> SUBSET Users]

\* A user gets a notification twice only when a sending of it failed or died,
\* or two administrators sent it at once (send mails before it marks SENT).
MailedOnce ==
  \A n \in Notifications, u \in Users : mails[n][u] > 1 => n \in troubled

\* A notification is marked SENT only by a sending that reached every recipient
\* on its list: an error on the way leaves it a draft that can be sent again.
SentMeansMailed ==
  \A r \in Senders :
    sender[r].pc = "audit"
      => \A u \in sender[r].to : mails[sender[r].notification][u] > 0

\* Nobody is mailed who had opted out, was frozen or had left before the
\* sending read its list (listRecipientEmails, BR-CONTENT-004).
OptOutsRespected ==
  [][\A n \in Notifications, u \in Users :
       mails'[n][u] > mails[n][u]
         => \/ users[u].optIn /\ users[u].status \in {"ACTIVE", "UNVERIFIED"}
            \/ \E r \in Sending(n) : u \in dropped[r]]_mailingVars
=============================================================================
