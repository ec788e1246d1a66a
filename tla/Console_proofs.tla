--------------------------- MODULE Console_proofs ---------------------------
(***************************************************************************)
(* Proofs about Console, for any number of requests and rows in every one  *)
(* of its parts. Those about passkeys and policies are in modules of their *)
(* own; a behaviour of the console is one of each part (ConsoleParts), so  *)
(* that what is proved of a part holds of the console.                     *)
(*                                                                         *)
(* Mail: of a notification nothing has gone wrong with, one request at     *)
(* most is about to mail, and who is left on its list has no mail yet      *)
(* (CalmOK). Who is off its list has one (ListOK), and who is on it wanted *)
(* it when the list was read, or has changed since (WantedOK).             *)
(*                                                                         *)
(* Announcements, help articles, inquiries and reports: what a request     *)
(* holds of a row is right as long as nobody else writes the row (Right,   *)
(* RightArticle, RightCase). For announcements that takes forms that show  *)
(* the row they were opened for (FormsFollow) and ids that nobody works on *)
(* before they are given away (IdsFresh); for articles, rows that stay;    *)
(* for cases, that one which was written had been opened (CasesOpen).      *)
(***************************************************************************)
EXTENDS Console, Passkeys_proofs, Policies_proofs

-----------------------------------------------------------------------------
(* Mail                                                                    *)

USE DEF SenderIdle

Sender == [pc : {"list", "mail", "audit"}, notification : Notifications,
           to : SUBSET Users, rest : SUBSET Users]

At(r, n) == sender[r].pc # "idle" /\ sender[r].notification = n

\* Of a notification that met no trouble.
Untouched(n) == \A u \in Users : mails[n][u] = 0
Calm(n) ==
  /\ \A u \in Users : mails[n][u] <= 1
  /\ notification[n].status = "none" => Untouched(n) /\ \A r \in Senders : ~At(r, n)
  /\ (notification[n].status = "draft" /\ \A r \in Senders : ~At(r, n)) => Untouched(n)
  /\ \A r \in Senders : At(r, n) =>
       /\ \A q \in Senders \ {r} : ~At(q, n)
       /\ sender[r].pc = "list" => notification[n].status = "draft" /\ Untouched(n)
       /\ sender[r].pc = "mail" => /\ notification[n].status = "draft"
                                   /\ \A u \in sender[r].rest : mails[n][u] = 0
       /\ sender[r].pc = "audit" => notification[n].status = "sent"
CalmOK == \A n \in Notifications \ troubled : Calm(n)

\* Who is off the list has been mailed.
ListOK ==
  \A r \in Senders :
    /\ sender[r].pc = "mail" =>
         \A u \in sender[r].to \ sender[r].rest : mails[sender[r].notification][u] > 0
    /\ sender[r].pc = "audit" =>
         \A u \in sender[r].to : mails[sender[r].notification][u] > 0

\* Who is on the list has opted in and not left, or has changed since.
Wants(u) == users[u].optIn /\ users[u].status \in {"ACTIVE", "UNVERIFIED"}
WantedOK ==
  \A r \in Senders :
    sender[r].pc = "mail" => \A u \in sender[r].rest : Wants(u) \/ u \in dropped[r]

MailingInv == MailingTypeOK /\ CalmOK /\ ListOK /\ WantedOK

LEMMA SenderKinds ==
  ASSUME MailingTypeOK, NEW r \in Senders
  PROVE  /\ sender[r].pc # "idle" => sender[r] \in Sender
         /\ (sender[r] # SenderIdle) = (sender[r].pc # "idle")
BY DEF MailingTypeOK, Sender

LEMMA SenderMoves ==
  ASSUME MailingTypeOK, NEW r \in Senders, NEW s, SenderGoes(r, s)
  PROVE  /\ sender'[r] = s
         /\ \A q \in Senders \ {r} : sender'[q] = sender[q]
         /\ sender' = [sender EXCEPT ![r] = s]
BY DEF MailingTypeOK, SenderGoes

LEMMA MailedOne ==
  ASSUME MaxMails \in Nat, MailingTypeOK, NEW n \in Notifications, NEW u \in Users,
         mails[n][u] < MaxMails, Mailed(n, u)
  PROVE  /\ mails' \in [Notifications -> [Users -> 0..MaxMails]]
         /\ mails'[n][u] = mails[n][u] + 1
         /\ \A m \in Notifications, v \in Users :
              (m # n \/ v # u) => mails'[m][v] = mails[m][v]
<1> DEFINE new == [mails[n] EXCEPT ![u] = mails[n][u] + 1]
<1>1. mails[n] \in [Users -> 0..MaxMails]
  BY DEF MailingTypeOK
<1>2. mails[n][u] + 1 \in 0..MaxMails
  BY <1>1
<1>3. /\ new \in [Users -> 0..MaxMails] /\ new[u] = mails[n][u] + 1
      /\ \A v \in Users \ {u} : new[v] = mails[n][v]
  BY <1>1, <1>2
<1>4. mails' = [mails EXCEPT ![n] = new]
  BY DEF Mailed
<1> HIDE DEF new
<1>. QED
  BY <1>3, <1>4 DEF MailingTypeOK

\* A step that is about other notifications leaves m calm.
LEMMA CalmKept ==
  ASSUME MailingTypeOK, NEW m, Calm(m), notification'[m] = notification[m],
         \A u \in Users : mails'[m][u] = mails[m][u],
         \A q \in Senders : At(q, m)' = At(q, m) /\ (At(q, m) => sender'[q] = sender[q])
  PROVE  Calm(m)'
<1>1. \A q \in Senders : At(q, m) => sender[q].rest \subseteq Users
  BY SenderKinds DEF At, Sender
<1>. QED
  BY <1>1 DEF Calm, Untouched

\* A request ends: nothing is said of it any more, and if its notification met
\* no trouble it has been sent.
LEMMA SendingEnds ==
  ASSUME MailingInv, NEW r \in Senders, SenderGoes(r, SenderIdle), sender[r].pc # "idle",
         mails' \in [Notifications -> [Users -> 0..MaxMails]],
         \A n \in Notifications, u \in Users :
           \/ mails'[n][u] = mails[n][u]
           \/ n = sender[r].notification /\ mails'[n][u] >= mails[n][u],
         \/ troubled' = troubled \cup {sender[r].notification}
         \/ troubled' = troubled /\ sender[r].pc = "audit" /\ mails' = mails,
         UNCHANGED <<notification, users, changes, dropped>>
  PROVE  MailingInv'
<1>0. sender[r] \in Sender
  BY SenderKinds DEF MailingInv
<1>1. PICK n \in Notifications : n = sender[r].notification
  BY <1>0 DEF Sender
<1>2. /\ sender'[r] = SenderIdle /\ \A q \in Senders \ {r} : sender'[q] = sender[q]
      /\ sender' = [sender EXCEPT ![r] = SenderIdle]
  BY SenderMoves DEF MailingInv
<1>3. MailingTypeOK'
  BY <1>1, <1>2 DEF MailingInv, MailingTypeOK
<1>4. CalmOK'
  <2>1. ASSUME NEW m \in Notifications, m \notin troubled', m # n PROVE Calm(m)'
    <3>1. m \notin troubled /\ \A u \in Users : mails'[m][u] = mails[m][u]
      BY <1>1, <2>1
    <3>2. \A q \in Senders : At(q, m)' = At(q, m) /\ (At(q, m) => sender'[q] = sender[q])
      BY <1>1, <1>2, <2>1 DEF At
    <3>. QED
      BY <3>1, <3>2, CalmKept DEF MailingInv, CalmOK
  <2>2. ASSUME n \notin troubled' PROVE Calm(n)'
    <3>1. n \notin troubled /\ sender[r].pc = "audit" /\ mails' = mails
      BY <1>1, <2>2
    <3>2. Calm(n) /\ At(r, n)
      BY <1>1, <3>1 DEF MailingInv, CalmOK, At
    <3>3. /\ notification[n].status = "sent" /\ \A u \in Users : mails[n][u] <= 1
          /\ \A q \in Senders \ {r} : ~At(q, n)
      BY <3>1, <3>2 DEF Calm
    <3>4. \A q \in Senders : ~At(q, n)'
      BY <1>2, <3>3 DEF At
    <3>. QED
      BY <3>1, <3>3, <3>4 DEF Calm
  <2>. QED
    BY <2>1, <2>2 DEF CalmOK
<1>5. ListOK'
  <2>1. \A m \in Notifications, u \in Users :
          mails[m][u] \in Nat /\ mails'[m][u] \in Nat /\ mails'[m][u] >= mails[m][u]
    BY DEF MailingInv, MailingTypeOK
  <2>2. \A q \in Senders \ {r} :
          sender[q].pc # "idle" =>
            sender[q].notification \in Notifications /\ sender[q].to \subseteq Users
    BY SenderKinds DEF MailingInv, Sender
  <2>. QED
    BY <1>2, <2>1, <2>2 DEF MailingInv, ListOK
<1>6. WantedOK'
  BY <1>2 DEF MailingInv, WantedOK, Wants
<1>. QED
  BY <1>3, <1>4, <1>5, <1>6 DEF MailingInv

\* A change of a user is remembered by the requests that are running.
LEMMA ChangeUserStep ==
  ASSUME MaxChanges \in Nat, MailingInv, NEW u \in Users, NEW row \in User, ChangeUser(u, row)
  PROVE  MailingInv'
<1>1. /\ changes < MaxChanges /\ changes' = changes + 1
      /\ users' = [users EXCEPT ![u] = row]
      /\ dropped' = [r \in Senders |->
           IF sender[r] # SenderIdle THEN dropped[r] \cup {u} ELSE dropped[r]]
      /\ UNCHANGED <<notification, sender, mails, troubled>>
  BY DEF ChangeUser
<1>2. MailingTypeOK'
  BY <1>1 DEF MailingInv, MailingTypeOK
<1>3. CalmOK'
  BY <1>1 DEF MailingInv, CalmOK, Calm, Untouched, At
<1>4. ListOK'
  BY <1>1 DEF MailingInv, ListOK
<1>5. WantedOK'
  <2>1. ASSUME NEW r \in Senders, sender[r].pc = "mail", NEW v \in sender[r].rest
        PROVE  Wants(v)' \/ v \in dropped'[r]
    <3>1. CASE v = u
      BY <1>1, <2>1, <3>1
    <3>2. CASE v # u
      <4>1. v \in Users
        BY <2>1, SenderKinds DEF MailingInv, Sender
      <4>2. users'[v] = users[v] /\ dropped[r] \subseteq dropped'[r]
        BY <1>1, <3>2, <4>1 DEF MailingInv, MailingTypeOK
      <4>. QED
        BY <2>1, <4>2 DEF MailingInv, WantedOK, Wants
    <3>. QED
      BY <3>1, <3>2
  <2>. QED
    BY <1>1, <2>1 DEF WantedOK
<1>. QED
  BY <1>2, <1>3, <1>4, <1>5 DEF MailingInv

LEMMA CreateDraftStep ==
  ASSUME MailingInv, NEW n \in Notifications, NEW condition \in Conditions,
         CreateDraft(n, condition)
  PROVE  MailingInv'
<1> DEFINE row == [status |-> "draft", condition |-> condition]
<1>1. /\ notification[n].status = "none" /\ notification' = [notification EXCEPT ![n] = row]
      /\ UNCHANGED <<users, sender, mails, changes, troubled, dropped>>
  BY DEF CreateDraft
<1>2. /\ row \in [status : {"none", "draft", "sent"}, condition : Conditions]
      /\ row.status = "draft"
  OBVIOUS
<1> HIDE DEF row
<1>3. notification'[n] = row /\ \A m \in Notifications \ {n} : notification'[m] = notification[m]
  BY <1>1 DEF MailingInv, MailingTypeOK
<1>4. MailingTypeOK'
  BY <1>1, <1>2 DEF MailingInv, MailingTypeOK
<1>5. CalmOK'
  <2>1. ASSUME NEW m \in Notifications \ troubled, m # n PROVE Calm(m)'
    BY <1>1, <1>3, <2>1, CalmKept DEF MailingInv, CalmOK, At
  <2>2. ASSUME n \notin troubled PROVE Calm(n)'
    BY <1>1, <1>2, <1>3, <2>2 DEF MailingInv, CalmOK, Calm, Untouched, At
  <2>. QED
    BY <1>1, <2>1, <2>2 DEF CalmOK
<1>6. ListOK' /\ WantedOK'
  BY <1>1 DEF MailingInv, ListOK, WantedOK, Wants
<1>. QED
  BY <1>4, <1>5, <1>6 DEF MailingInv

\* A second request for one notification is trouble.
LEMMA SendStep ==
  ASSUME MailingInv, NEW r \in Senders, NEW n \in Notifications, Send(r, n)
  PROVE  MailingInv'
<1> DEFINE s == [pc |-> "list", notification |-> n, to |-> {}, rest |-> {}]
<1>1. /\ sender[r] = SenderIdle /\ notification[n].status = "draft" /\ SenderGoes(r, s)
      /\ troubled' = IF Sending(n) # {} THEN troubled \cup {n} ELSE troubled
      /\ dropped' = [dropped EXCEPT ![r] = {}]
      /\ UNCHANGED <<notification, users, mails, changes>>
  BY DEF Send, Sendable
<1>2. s \in Sender /\ s.pc = "list" /\ s.notification = n
  BY DEF Sender
<1> HIDE DEF s
<1>3. /\ sender'[r] = s /\ \A q \in Senders \ {r} : sender'[q] = sender[q]
      /\ sender' = [sender EXCEPT ![r] = s]
  BY <1>1, SenderMoves DEF MailingInv
<1>4. MailingTypeOK'
  BY <1>1, <1>2, <1>3 DEF MailingInv, MailingTypeOK, Sender
<1>5. CalmOK'
  <2>1. ASSUME NEW m \in Notifications, m \notin troubled', m # n PROVE Calm(m)'
    BY <1>1, <1>2, <1>3, <2>1, CalmKept DEF MailingInv, CalmOK, At
  <2>2. ASSUME n \notin troubled' PROVE Calm(n)'
    <3>1. n \notin troubled /\ Sending(n) = {}
      BY <1>1, <2>2
    <3>2. \A q \in Senders : ~At(q, n)
      BY <3>1, SenderKinds DEF MailingInv, Sending, At
    <3>3. Untouched(n) /\ \A u \in Users : mails[n][u] <= 1
      BY <1>1, <3>1, <3>2 DEF MailingInv, CalmOK, Calm
    <3>4. \A q \in Senders \ {r} : ~At(q, n)'
      BY <1>3, <3>2 DEF At
    <3>. QED
      BY <1>1, <1>2, <1>3, <3>3, <3>4 DEF Calm, Untouched, At
  <2>. QED
    BY <2>1, <2>2 DEF CalmOK
<1>6. ListOK'
  BY <1>1, <1>2, <1>3 DEF MailingInv, ListOK
<1>7. WantedOK'
  BY <1>1, <1>2, <1>3 DEF MailingInv, WantedOK, Wants, MailingTypeOK
<1>. QED
  BY <1>4, <1>5, <1>6, <1>7 DEF MailingInv

\* Whom the list names receives.
LEMMA ListRecipientsStep ==
  ASSUME MailingInv, NEW r \in Senders, ListRecipients(r)
  PROVE  MailingInv'
<1>1. PICK n : n = sender[r].notification
  OBVIOUS
<1> DEFINE s == [pc |-> "mail", notification |-> n, to |-> Recipients(n), rest |-> Recipients(n)]
<1>2. /\ sender[r].pc = "list" /\ SenderGoes(r, s) /\ dropped' = [dropped EXCEPT ![r] = {}]
      /\ UNCHANGED <<notification, users, mails, changes, troubled>>
  BY <1>1 DEF ListRecipients
<1>3. n \in Notifications
  BY <1>1, <1>2, SenderKinds DEF MailingInv, Sender
<1>4. /\ s \in Sender /\ s.pc = "mail" /\ s.notification = n /\ s.to = s.rest
      /\ \A u \in s.rest : u \in Users /\ Wants(u)
  <2>1. Recipients(n) \subseteq Users /\ \A u \in Recipients(n) : Wants(u)
    BY DEF Recipients, Receives, Wants
  <2>. QED
    BY <1>3, <2>1 DEF Sender
<1> HIDE DEF s
<1>5. /\ sender'[r] = s /\ \A q \in Senders \ {r} : sender'[q] = sender[q]
      /\ sender' = [sender EXCEPT ![r] = s]
  BY <1>2, SenderMoves DEF MailingInv
<1>6. MailingTypeOK'
  BY <1>2, <1>4, <1>5 DEF MailingInv, MailingTypeOK, Sender
<1>7. CalmOK'
  <2>1. ASSUME NEW m \in Notifications, m \notin troubled', m # n PROVE Calm(m)'
    BY <1>1, <1>2, <1>4, <1>5, <2>1, CalmKept DEF MailingInv, CalmOK, At
  <2>2. ASSUME n \notin troubled' PROVE Calm(n)'
    <3>1. Calm(n) /\ At(r, n)
      BY <1>1, <1>2, <1>3, <2>2 DEF MailingInv, CalmOK, At
    <3>2. /\ notification[n].status = "draft" /\ Untouched(n)
          /\ \A q \in Senders \ {r} : ~At(q, n)
      BY <1>2, <3>1 DEF Calm
    <3>3. At(r, n)' /\ \A q \in Senders \ {r} : ~At(q, n)'
      BY <1>4, <1>5, <3>2 DEF At
    <3>. QED
      BY <1>2, <1>4, <1>5, <3>1, <3>2, <3>3 DEF Calm, Untouched
  <2>. QED
    BY <2>1, <2>2 DEF CalmOK
<1>8. ListOK'
  BY <1>2, <1>4, <1>5 DEF MailingInv, ListOK
<1>9. WantedOK'
  BY <1>2, <1>4, <1>5 DEF MailingInv, WantedOK, Wants, MailingTypeOK
<1>. QED
  BY <1>6, <1>7, <1>8, <1>9 DEF MailingInv

\* A mail reaches a user that is left on the list.
LEMMA MailStep ==
  ASSUME MaxMails \in Nat, MailingInv, NEW r \in Senders, NEW u \in Users, Mail(r, u)
  PROVE  MailingInv'
<1>0. sender[r].pc = "mail" /\ sender[r] \in Sender
  BY SenderKinds DEF Mail, MailingInv
<1>1. PICK n \in Notifications : n = sender[r].notification
  BY <1>0 DEF Sender
<1> DEFINE s == [sender[r] EXCEPT !.rest = sender[r].rest \ {u}]
<1>2. /\ u \in sender[r].rest /\ mails[n][u] < MaxMails /\ Mailed(n, u) /\ SenderGoes(r, s)
      /\ UNCHANGED <<notification, users, changes, troubled, dropped>>
  BY <1>1 DEF Mail
<1>3. /\ s \in Sender /\ s.pc = "mail" /\ s.notification = n
      /\ s.to = sender[r].to /\ s.rest = sender[r].rest \ {u}
  BY <1>0, <1>1 DEF Sender
<1> HIDE DEF s
<1>4. /\ sender'[r] = s /\ \A q \in Senders \ {r} : sender'[q] = sender[q]
      /\ sender' = [sender EXCEPT ![r] = s]
  BY <1>2, SenderMoves DEF MailingInv
<1>5. /\ mails' \in [Notifications -> [Users -> 0..MaxMails]]
      /\ mails'[n][u] = mails[n][u] + 1
      /\ \A m \in Notifications, v \in Users :
           (m # n \/ v # u) => mails'[m][v] = mails[m][v]
  BY <1>2, MailedOne DEF MailingInv
<1>6. /\ sender[r].to \subseteq Users /\ sender[r].rest \subseteq Users
      /\ \A m \in Notifications, v \in Users : mails[m][v] \in Nat /\ mails'[m][v] \in Nat
  BY <1>0, <1>5 DEF Sender, MailingInv, MailingTypeOK
<1>7. MailingTypeOK'
  BY <1>2, <1>3, <1>4, <1>5 DEF MailingInv, MailingTypeOK, Sender
<1>8. CalmOK'
  <2>1. ASSUME NEW m \in Notifications, m \notin troubled', m # n PROVE Calm(m)'
    <3>1. m \notin troubled /\ notification'[m] = notification[m]
          /\ \A v \in Users : mails'[m][v] = mails[m][v]
      BY <1>2, <1>5, <2>1
    <3>2. \A q \in Senders : At(q, m)' = At(q, m) /\ (At(q, m) => sender'[q] = sender[q])
      BY <1>1, <1>3, <1>4, <2>1 DEF At
    <3>. QED
      BY <3>1, <3>2, CalmKept DEF MailingInv, CalmOK
  <2>2. ASSUME n \notin troubled' PROVE Calm(n)'
    <3>1. Calm(n) /\ At(r, n)
      BY <1>0, <1>1, <1>2, <2>2 DEF MailingInv, CalmOK, At
    <3>2. /\ notification[n].status = "draft" /\ \A v \in Users : mails[n][v] <= 1
          /\ \A v \in sender[r].rest : mails[n][v] = 0
          /\ \A q \in Senders \ {r} : ~At(q, n)
      BY <1>0, <3>1 DEF Calm
    <3>3. At(r, n)' /\ \A q \in Senders \ {r} : ~At(q, n)'
      BY <1>3, <1>4, <3>2 DEF At
    <3>4. \A v \in Users : mails'[n][v] <= 1
      BY <1>2, <1>5, <3>2
    <3>5. \A v \in s.rest : mails'[n][v] = 0
      BY <1>3, <1>5, <1>6, <3>2
    <3>. QED
      BY <1>2, <1>3, <1>4, <3>2, <3>3, <3>4, <3>5 DEF Calm
  <2>. QED
    BY <2>1, <2>2 DEF CalmOK
<1>9. ListOK'
  <2>1. \A m \in Notifications, v \in Users : mails[m][v] > 0 => mails'[m][v] > 0
    BY <1>5, <1>6
  <2>2. \A v \in s.to \ s.rest : mails'[n][v] > 0
    BY <1>0, <1>1, <1>3, <1>5, <1>6, <2>1 DEF MailingInv, ListOK
  <2>3. \A q \in Senders \ {r} :
          sender[q].pc # "idle" =>
            sender[q].notification \in Notifications /\ sender[q].to \subseteq Users
    BY SenderKinds DEF MailingInv, Sender
  <2>. QED
    BY <1>3, <1>4, <2>1, <2>2, <2>3 DEF MailingInv, ListOK
<1>10. WantedOK'
  BY <1>0, <1>2, <1>3, <1>4 DEF MailingInv, WantedOK, Wants
<1>. QED
  BY <1>7, <1>8, <1>9, <1>10 DEF MailingInv

LEMMA MailFailsStep ==
  ASSUME MaxMails \in Nat, MailingInv, NEW r \in Senders, NEW u \in Users, MailFails(r, u)
  PROVE  MailingInv'
<1>0. sender[r].pc = "mail" /\ sender[r] \in Sender
  BY SenderKinds DEF MailFails, MailingInv
<1>1. PICK n \in Notifications : n = sender[r].notification
  BY <1>0 DEF Sender
<1>2. /\ SenderGoes(r, SenderIdle) /\ troubled' = troubled \cup {n}
      /\ UNCHANGED <<notification, users, changes, dropped>>
      /\ \/ UNCHANGED mails
         \/ mails[n][u] < MaxMails /\ Mailed(n, u)
  BY <1>1 DEF MailFails, AfterFailure
<1>3. /\ mails' \in [Notifications -> [Users -> 0..MaxMails]]
      /\ \A m \in Notifications, v \in Users :
           \/ mails'[m][v] = mails[m][v]
           \/ m = n /\ mails'[m][v] >= mails[m][v]
  <2>1. CASE UNCHANGED mails
    BY <2>1 DEF MailingInv, MailingTypeOK
  <2>2. CASE mails[n][u] < MaxMails /\ Mailed(n, u)
    <3>1. /\ mails' \in [Notifications -> [Users -> 0..MaxMails]]
          /\ mails'[n][u] = mails[n][u] + 1
          /\ \A m \in Notifications, v \in Users :
               (m # n \/ v # u) => mails'[m][v] = mails[m][v]
      BY <2>2, MailedOne DEF MailingInv
    <3>2. mails[n][u] \in Nat
      BY DEF MailingInv, MailingTypeOK
    <3>. QED
      BY <3>1, <3>2
  <2>. QED
    BY <1>2, <2>1, <2>2
<1>. QED
  BY <1>0, <1>1, <1>2, <1>3, SendingEnds

LEMMA SaveSentStep ==
  ASSUME MailingInv, NEW r \in Senders, SaveSent(r)
  PROVE  MailingInv'
<1>0. sender[r].pc = "mail" /\ sender[r] \in Sender
  BY SenderKinds DEF SaveSent, MailingInv
<1>1. PICK n \in Notifications : n = sender[r].notification
  BY <1>0 DEF Sender
<1> DEFINE s == [sender[r] EXCEPT !.pc = "audit"]
           row == [notification[n] EXCEPT !.status = "sent"]
<1>2. /\ sender[r].rest = {} /\ notification' = [notification EXCEPT ![n] = row] /\ SenderGoes(r, s)
      /\ UNCHANGED <<users, mails, changes, troubled, dropped>>
  BY <1>1 DEF SaveSent
<1>3. /\ s \in Sender /\ s.pc = "audit" /\ s.notification = n
      /\ s.to = sender[r].to
  BY <1>0, <1>1 DEF Sender
<1>4. /\ row \in [status : {"none", "draft", "sent"}, condition : Conditions]
      /\ row.status = "sent"
  BY DEF MailingInv, MailingTypeOK
<1> HIDE DEF s, row
<1>5. /\ sender'[r] = s /\ \A q \in Senders \ {r} : sender'[q] = sender[q]
      /\ sender' = [sender EXCEPT ![r] = s]
  BY <1>2, SenderMoves DEF MailingInv
<1>6. notification'[n] = row /\ \A m \in Notifications \ {n} : notification'[m] = notification[m]
  BY <1>2 DEF MailingInv, MailingTypeOK
<1>7. MailingTypeOK'
  BY <1>2, <1>3, <1>4, <1>5 DEF MailingInv, MailingTypeOK, Sender
<1>8. CalmOK'
  <2>1. ASSUME NEW m \in Notifications, m \notin troubled', m # n PROVE Calm(m)'
    <3>1. \A q \in Senders : At(q, m)' = At(q, m) /\ (At(q, m) => sender'[q] = sender[q])
      BY <1>1, <1>3, <1>5, <2>1 DEF At
    <3>. QED
      BY <1>2, <1>6, <2>1, <3>1, CalmKept DEF MailingInv, CalmOK
  <2>2. ASSUME n \notin troubled' PROVE Calm(n)'
    <3>1. Calm(n) /\ At(r, n)
      BY <1>0, <1>1, <1>2, <2>2 DEF MailingInv, CalmOK, At
    <3>2. \A q \in Senders \ {r} : ~At(q, n)'
      BY <1>5, <3>1 DEF Calm, At
    <3>3. \A v \in Users : mails'[n][v] <= 1
      BY <1>2, <3>1 DEF Calm
    <3>. QED
      BY <1>3, <1>4, <1>5, <1>6, <3>2, <3>3 DEF Calm
  <2>. QED
    BY <2>1, <2>2 DEF CalmOK
<1>9. ListOK'
  BY <1>0, <1>1, <1>2, <1>3, <1>5 DEF MailingInv, ListOK
<1>10. WantedOK'
  BY <1>2, <1>3, <1>5 DEF MailingInv, WantedOK, Wants
<1>. QED
  BY <1>7, <1>8, <1>9, <1>10 DEF MailingInv

LEMMA SendingEndSteps ==
  ASSUME MailingInv, NEW r \in Senders, RecordSent(r) \/ AbortSending(r)
  PROVE  MailingInv'
<1>1. mails \in [Notifications -> [Users -> 0..MaxMails]]
  BY DEF MailingInv, MailingTypeOK
<1>2. /\ sender[r].pc # "idle" /\ SenderGoes(r, SenderIdle)
      /\ UNCHANGED <<notification, users, mails, changes, dropped>>
  BY DEF RecordSent, AbortSending
<1>3. \/ troubled' = troubled \cup {sender[r].notification}
      \/ troubled' = troubled /\ sender[r].pc = "audit" /\ mails' = mails
  BY DEF RecordSent, AbortSending
<1>. QED
  BY <1>1, <1>2, <1>3, SendingEnds

LEMMA MailingInitInv ==
  ASSUME MaxMails \in Nat, MaxChanges \in Nat, MailingInit
  PROVE  MailingInv
<1>1. MailingTypeOK
  BY DEF MailingInit, MailingTypeOK, NoNotification, User, Conditions
<1>2. CalmOK /\ ListOK /\ WantedOK
  BY DEF MailingInit, CalmOK, Calm, Untouched, At, ListOK, WantedOK, NoNotification
<1>. QED
  BY <1>1, <1>2 DEF MailingInv

LEMMA MailingStepInv ==
  ASSUME MaxMails \in Nat, MaxChanges \in Nat, MailingInv, [MailingNext]_mailingVars
  PROVE  MailingInv'
<1>1. CASE UNCHANGED mailingVars
  BY <1>1 DEF mailingVars, MailingInv, MailingTypeOK, CalmOK, Calm, Untouched, At, ListOK,
     WantedOK, Wants
<1>2. CASE MailingNext
  BY <1>2, ChangeUserStep, CreateDraftStep, SendStep, ListRecipientsStep, MailStep,
     MailFailsStep, SaveSentStep, SendingEndSteps DEF MailingNext
<1>. QED
  BY <1>1, <1>2

\* The inductive invariant holds in every behaviour (EmailNotificationService).
THEOREM MailingInvariant == MailingSpec => []MailingInv
<1>1. MailingInit => MailingInv
  BY MailingInitInv, MailingAssumption
<1>2. MailingInv /\ [MailingNext]_mailingVars => MailingInv'
  BY MailingStepInv, MailingAssumption
<1>. QED
  BY <1>1, <1>2, PTL DEF MailingSpec

\* Notifications, users and requests keep their types.
THEOREM MailingsTyped == MailingSpec => []MailingTypeOK
<1>1. MailingInv => MailingTypeOK
  BY DEF MailingInv
<1>. QED
  BY <1>1, MailingInvariant, PTL

\* Nobody gets a notification twice unless a sending of it failed, died or was
\* overlapped, for any number of users and requests (send).
THEOREM NobodyIsMailedTwice == MailingSpec => []MailedOnce
<1>1. MailingInv => MailedOnce
  <2> SUFFICES ASSUME MailingInv, NEW n \in Notifications \ troubled, NEW u \in Users
               PROVE  ~ (mails[n][u] > 1)
    BY DEF MailedOnce
  <2>1. mails[n][u] <= 1 /\ mails[n][u] \in Nat
    BY DEF MailingInv, CalmOK, Calm, MailingTypeOK
  <2>. QED
    BY <2>1
<1>. QED
  BY <1>1, MailingInvariant, PTL

\* What is marked SENT reached everybody on its list (send).
THEOREM SentReachesAll == MailingSpec => []SentMeansMailed
<1>1. MailingInv => SentMeansMailed
  BY DEF MailingInv, ListOK, SentMeansMailed
<1>. QED
  BY <1>1, MailingInvariant, PTL

\* A step that mails somebody mails one who wanted it when the list was read, or
\* who has changed since (listRecipientEmails).
THEOREM OptOutsAreRespected == MailingSpec => OptOutsRespected
<1> DEFINE Respected ==
      \A n \in Notifications, u \in Users :
        mails'[n][u] > mails[n][u]
          => \/ users[u].optIn /\ users[u].status \in {"ACTIVE", "UNVERIFIED"}
             \/ \E r \in Sending(n) : u \in dropped[r]
<1>1. MailingInv /\ [MailingNext]_mailingVars => [Respected]_mailingVars
  <2> SUFFICES ASSUME MailingInv, MailingNext, NEW n \in Notifications, NEW u \in Users,
                      mails'[n][u] > mails[n][u]
               PROVE  Wants(u) \/ \E r \in Sending(n) : u \in dropped[r]
    BY DEF Wants
  <2>1. mails[n][u] \in Nat
    BY DEF MailingInv, MailingTypeOK
  <2>2. PICK r \in Senders, v \in Users : Mail(r, v) \/ MailFails(r, v)
    <3>1. mails' # mails
      BY <2>1
    <3>2. \A w \in Users, row \in User : ~ChangeUser(w, row)
      BY <3>1 DEF ChangeUser
    <3>3. \A m \in Notifications, condition \in Conditions : ~CreateDraft(m, condition)
      BY <3>1 DEF CreateDraft
    <3>4. \A r \in Senders, m \in Notifications : ~Send(r, m)
      BY <3>1 DEF Send
    <3>5. \A r \in Senders :
            ~ListRecipients(r) /\ ~SaveSent(r) /\ ~RecordSent(r) /\ ~AbortSending(r)
      BY <3>1 DEF ListRecipients, SaveSent, RecordSent, AbortSending
    <3>. QED
      BY <3>2, <3>3, <3>4, <3>5 DEF MailingNext
  <2>3. PICK m : m = sender[r].notification
    OBVIOUS
  <2>4. /\ sender[r].pc = "mail" /\ v \in sender[r].rest
        /\ \/ UNCHANGED mails
           \/ mails[m][v] < MaxMails /\ Mailed(m, v)
    BY <2>2, <2>3 DEF Mail, MailFails
  <2>5. m \in Notifications
    BY <2>3, <2>4, SenderKinds DEF MailingInv, Sender
  <2>6. m = n /\ v = u
    <3>1. Mailed(m, v)
      BY <2>1, <2>4
    <3>2. \A k \in Notifications, w \in Users :
            (k # m \/ w # v) => mails'[k][w] = mails[k][w]
      BY <2>5, <3>1 DEF Mailed, MailingInv, MailingTypeOK
    <3>. QED
      BY <2>1, <3>2
  <2>7. r \in Sending(n)
    <3>1. sender[r] # SenderIdle
      BY <2>4, SenderKinds DEF MailingInv
    <3>. QED
      BY <3>1, <2>3, <2>6 DEF Sending
  <2>. QED
    BY <2>4, <2>6, <2>7 DEF MailingInv, WantedOK
<1>. QED
  BY <1>1, MailingInvariant, PTL DEF MailingSpec, OptOutsRespected

-----------------------------------------------------------------------------
(* Announcements                                                           *)

USE DEF Announcement!Idle

Removing == [pc : {"delete"}, notice : Notices]
Working == Announcement!Finding \cup Announcement!Flushing \cup Removing
Columns == {"title", "start", "status"}

\* An id that was not given away is nobody's.
IdsFresh ==
  \A x \in unused :
    /\ notices[x] = None
    /\ \A t \in Tabs : form[t] # Announcement!NoForm => form[t].notice # x
    /\ \A r \in Requests : clerk[r] # Announcement!Idle => clerk[r].notice # x

\* A form that is up to date shows the row, its date to the minute.
ShowsRow(f) == notices[f.notice] # None /\ f.values = Announcement!Shown(notices[f.notice])
FormsFollow == \A t \in Tabs \ stale : form[t] # Announcement!NoForm => ShowsRow(form[t])

\* What an operation that was asked to change the columns altered may save of
\* column c: a date that was not asked about is kept by publish and unpublish,
\* and set to the minute by update.
Keeps(altered, c, record, row) ==
  IF c = "start" /\ altered \cap {"start", "status"} = {}
  THEN record[c] = Announcement!LocalInput(row[c])
  ELSE record[c] = row[c]

\* What a request holds of a row that nobody else has written is right.
Right(q) ==
  /\ notices[q.notice] # None
  /\ q.pc = "delete" => notices[q.notice].status # "published"
  /\ q.pc \in {"find", "flush"} =>
       \A c \in Columns \ q.asked : Keeps(q.asked, c, q.record, notices[q.notice])
  /\ q.pc = "flush" => q.loaded = notices[q.notice]
RequestsRight ==
  \A r \in Requests \ disturbed : clerk[r] # Announcement!Idle => Right(clerk[r])

NoticeInv == Announcement!TypeOK /\ IdsFresh /\ FormsFollow /\ RequestsRight

\* A form shows dates that it can send, and those can be saved.
LEMMA DatesTyped ==
  /\ Announcement!FormDates \subseteq Announcement!Dates
  /\ \A date \in Announcement!Dates : Announcement!LocalInput(date) \in Announcement!FormDates
BY ConsoleAssumption DEF Announcement!FormDates, Announcement!Dates, Announcement!LocalInput

LEMMA ClerkKinds ==
  ASSUME Announcement!TypeOK, NEW r \in Requests
  PROVE  /\ clerk[r] # Announcement!Idle => clerk[r] \in Working
         /\ (clerk[r] # Announcement!Idle) = (clerk[r].pc # "idle")
         /\ clerk[r].pc = "find" => clerk[r] \in Announcement!Finding
         /\ clerk[r].pc = "flush" => clerk[r] \in Announcement!Flushing
         /\ clerk[r].pc = "delete" => clerk[r] \in Removing
BY DEF Announcement!TypeOK, Working, Announcement!Finding, Announcement!Flushing, Removing

LEMMA WorkingKinds ==
  ASSUME NEW s \in Working
  PROVE  s # Announcement!Idle /\ s.pc # "idle" /\ s.notice \in Notices
BY DEF Working, Announcement!Finding, Announcement!Flushing, Removing

LEMMA ClerkGoto ==
  ASSUME Announcement!TypeOK, NEW r \in Requests, NEW s, Announcement!Goto(r, s)
  PROVE  /\ clerk'[r] = s
         /\ \A q \in Requests \ {r} : clerk'[q] = clerk[q]
         /\ s \in {Announcement!Idle} \cup Working
              => clerk' \in [Requests -> {Announcement!Idle} \cup Working]
BY DEF Announcement!TypeOK, Announcement!Goto, Working, Removing

LEMMA ClerkTyped ==
  ASSUME Announcement!TypeOK
  PROVE  clerk \in [Requests -> {Announcement!Idle} \cup Working]
BY DEF Announcement!TypeOK, Working, Removing

\* A tab is closed, or left alone.
Closes(t) == form' = [form EXCEPT ![t] = Announcement!NoForm] /\ stale' = stale \ {t}
FormsMove == UNCHANGED <<form, stale>> \/ \E t \in Tabs : Closes(t)

\* The rows stay, and one request moves on.
LEMMA ClerkStep ==
  ASSUME NoticeInv, NEW r \in Requests, NEW s, Announcement!Goto(r, s),
         s = Announcement!Idle
           \/ (s \in Working /\ s.notice \notin unused /\ (r \notin disturbed' => Right(s))),
         UNCHANGED <<notices, unused>>, FormsMove,
         disturbed' \subseteq Requests, disturbed' \cup {r} = disturbed \cup {r}
  PROVE  NoticeInv'
<1>1. /\ clerk'[r] = s /\ \A q \in Requests \ {r} : clerk'[q] = clerk[q]
      /\ clerk' \in [Requests -> {Announcement!Idle} \cup Working]
  BY ClerkGoto DEF NoticeInv
<1>2. /\ form' \in [Tabs -> {Announcement!NoForm} \cup
                          [notice : Notices, values : Announcement!Form]]
      /\ stale' \subseteq Tabs
      /\ \A t \in Tabs : \/ form'[t] = Announcement!NoForm
                         \/ form'[t] = form[t] /\ (t \notin stale' => t \notin stale)
  BY DEF NoticeInv, Announcement!TypeOK, FormsMove, Closes
<1>3. Announcement!TypeOK'
  BY <1>1, <1>2 DEF NoticeInv, Announcement!TypeOK, Working, Removing
<1>4. IdsFresh'
  BY <1>1, <1>2 DEF NoticeInv, IdsFresh
<1>5. FormsFollow'
  BY <1>2 DEF NoticeInv, FormsFollow, ShowsRow
<1>6. RequestsRight'
  <2> SUFFICES ASSUME NEW q \in Requests, q \notin disturbed', clerk'[q] # Announcement!Idle
               PROVE  Right(clerk[q])'
    BY DEF RequestsRight
  <2>1. CASE q = r
    BY <1>1, <2>1 DEF Right
  <2>2. CASE q # r
    BY <1>1, <2>2 DEF NoticeInv, RequestsRight, Right
  <2>. QED
    BY <2>1, <2>2
<1>. QED
  BY <1>3, <1>4, <1>5, <1>6 DEF NoticeInv

\* A request writes its row, or leaves it as it was, and ends.
LEMMA WriteStep ==
  ASSUME NoticeInv, NEW r \in Requests, clerk[r] # Announcement!Idle,
         NEW x, x = clerk[r].notice,
         NEW row \in Announcement!Notice \cup {None},
         notices' = [notices EXCEPT ![x] = row],
         Announcement!Writing(r, x), Announcement!Goto(r, Announcement!Idle),
         UNCHANGED <<unused, form>>
  PROVE  NoticeInv'
<1>1. /\ clerk'[r] = Announcement!Idle /\ \A q \in Requests \ {r} : clerk'[q] = clerk[q]
      /\ clerk' \in [Requests -> {Announcement!Idle} \cup Working]
  BY ClerkGoto DEF NoticeInv
<1>2. x \in Notices /\ x \notin unused
  BY ClerkKinds, WorkingKinds DEF NoticeInv, IdsFresh
<1>3. /\ notices' \in [Notices -> Announcement!Notice \cup {None}]
      /\ \A y \in Notices \ {x} : notices'[y] = notices[y]
  BY <1>2 DEF NoticeInv, Announcement!TypeOK
<1>4. /\ disturbed' \subseteq Requests /\ stale' \subseteq Tabs
      /\ disturbed \subseteq disturbed' /\ stale \subseteq stale'
      /\ \A q \in Requests \ {r} :
           clerk[q] # Announcement!Idle /\ clerk[q].notice = x => q \in disturbed'
      /\ \A t \in Tabs : form[t].notice = x => t \in stale'
  BY ClerkKinds DEF NoticeInv, Announcement!TypeOK, Announcement!Writing
<1>5. Announcement!TypeOK'
  BY <1>1, <1>3, <1>4 DEF NoticeInv, Announcement!TypeOK, Working, Removing
<1>6. IdsFresh'
  <2>1. unused \subseteq Notices
    BY DEF NoticeInv, Announcement!TypeOK
  <2>. QED
    BY <1>1, <1>2, <1>3, <2>1 DEF NoticeInv, IdsFresh
<1>7. FormsFollow'
  <2> SUFFICES ASSUME NEW t \in Tabs, t \notin stale', form[t] # Announcement!NoForm
               PROVE  ShowsRow(form[t])'
    BY DEF FormsFollow, ShowsRow
  <2>1. ShowsRow(form[t]) /\ form[t].notice # x
    BY <1>4 DEF NoticeInv, FormsFollow
  <2>2. form[t].notice \in Notices
    BY DEF NoticeInv, Announcement!TypeOK
  <2>. QED
    BY <1>3, <2>1, <2>2 DEF ShowsRow
<1>8. RequestsRight'
  <2> SUFFICES ASSUME NEW q \in Requests, q \notin disturbed', clerk'[q] # Announcement!Idle
               PROVE  Right(clerk[q])'
    BY DEF RequestsRight
  <2>1. q # r /\ clerk'[q] = clerk[q] /\ q \notin disturbed /\ clerk[q].notice # x
    BY <1>1, <1>4
  <2>2. clerk[q].notice \in Notices
    BY <2>1, ClerkKinds, WorkingKinds DEF NoticeInv
  <2>. QED
    BY <1>3, <2>1, <2>2 DEF NoticeInv, RequestsRight, Right
<1>. QED
  BY <1>5, <1>6, <1>7, <1>8 DEF NoticeInv

LEMMA CreateNoticeStep ==
  ASSUME NoticeInv, NEW r \in Requests, NEW x \in Notices,
         NEW sent \in Announcement!Form, Announcement!Create(r, x, sent)
  PROVE  NoticeInv'
<1> DEFINE row == [title |-> sent.title, start |-> sent.start, status |-> "draft"]
<1>1. /\ x \in unused /\ unused' = unused \ {x} /\ notices' = [notices EXCEPT ![x] = row]
      /\ UNCHANGED <<form, clerk, stale, disturbed>>
  BY DEF Announcement!Create, Announcement!history
<1>2. row \in Announcement!Notice
  BY DatesTyped DEF Announcement!Notice, Announcement!Form
<1> HIDE DEF row
<1>3. /\ notices' \in [Notices -> Announcement!Notice \cup {None}]
      /\ \A y \in Notices \ {x} : notices'[y] = notices[y]
  BY <1>1, <1>2 DEF NoticeInv, Announcement!TypeOK
<1>4. Announcement!TypeOK'
  BY <1>1, <1>3 DEF NoticeInv, Announcement!TypeOK
<1>5. IdsFresh'
  BY <1>1, <1>3 DEF NoticeInv, IdsFresh, Announcement!TypeOK
<1>6. FormsFollow'
  <2> SUFFICES ASSUME NEW t \in Tabs, t \notin stale, form[t] # Announcement!NoForm
               PROVE  ShowsRow(form[t])'
    BY <1>1 DEF FormsFollow, ShowsRow
  <2>1. ShowsRow(form[t]) /\ form[t].notice # x /\ form[t].notice \in Notices
    BY <1>1 DEF NoticeInv, FormsFollow, IdsFresh, Announcement!TypeOK
  <2>. QED
    BY <1>1, <1>3, <2>1 DEF ShowsRow
<1>7. RequestsRight'
  <2> SUFFICES ASSUME NEW q \in Requests, q \notin disturbed, clerk[q] # Announcement!Idle
               PROVE  Right(clerk[q])'
    BY <1>1 DEF RequestsRight, Right
  <2>1. Right(clerk[q]) /\ clerk[q].notice # x
    BY <1>1 DEF NoticeInv, RequestsRight, IdsFresh
  <2>2. clerk[q].notice \in Notices
    BY ClerkKinds, WorkingKinds DEF NoticeInv
  <2>. QED
    BY <1>1, <1>3, <2>1, <2>2 DEF Right
<1>. QED
  BY <1>4, <1>5, <1>6, <1>7 DEF NoticeInv

LEMMA OpenPageStep ==
  ASSUME NoticeInv, NEW t \in Tabs, NEW x \in Notices, Announcement!OpenPage(t, x)
  PROVE  NoticeInv'
<1> DEFINE f == [notice |-> x, values |-> Announcement!Shown(notices[x])]
<1>1. /\ notices[x] # None /\ form' = [form EXCEPT ![t] = f] /\ stale' = stale \ {t}
      /\ UNCHANGED <<notices, unused, clerk, disturbed>>
  BY DEF Announcement!OpenPage
<1>2. /\ f \in [notice : Notices, values : Announcement!Form] /\ f.notice = x
      /\ ShowsRow(f)
  <2>1. notices[x] \in Announcement!Notice
    BY <1>1 DEF NoticeInv, Announcement!TypeOK
  <2>. QED
    BY <1>1, <2>1, DatesTyped
       DEF ShowsRow, Announcement!Shown, Announcement!Notice, Announcement!Form
<1>3. x \notin unused
  BY <1>1 DEF NoticeInv, IdsFresh
<1> HIDE DEF f
<1>4. form'[t] = f /\ \A u \in Tabs \ {t} : form'[u] = form[u]
  BY <1>1 DEF NoticeInv, Announcement!TypeOK
<1>5. Announcement!TypeOK'
  BY <1>1, <1>2 DEF NoticeInv, Announcement!TypeOK
<1>6. IdsFresh'
  BY <1>1, <1>2, <1>3, <1>4 DEF NoticeInv, IdsFresh
<1>7. FormsFollow'
  BY <1>1, <1>2, <1>4 DEF NoticeInv, FormsFollow, ShowsRow
<1>8. RequestsRight'
  BY <1>1 DEF NoticeInv, RequestsRight, Right
<1>. QED
  BY <1>5, <1>6, <1>7, <1>8 DEF NoticeInv

LEMMA ClosePageStep ==
  ASSUME NoticeInv, NEW t \in Tabs, Announcement!ClosePage(t)
  PROVE  NoticeInv'
<1>1. /\ form' = [form EXCEPT ![t] = Announcement!NoForm] /\ stale' = stale \ {t}
      /\ UNCHANGED <<notices, unused, clerk, disturbed>>
  BY DEF Announcement!ClosePage
<1>2. form'[t] = Announcement!NoForm /\ \A u \in Tabs \ {t} : form'[u] = form[u]
  BY <1>1 DEF NoticeInv, Announcement!TypeOK
<1>3. Announcement!TypeOK'
  BY <1>1 DEF NoticeInv, Announcement!TypeOK
<1>4. IdsFresh'
  BY <1>1, <1>2 DEF NoticeInv, IdsFresh
<1>5. FormsFollow'
  BY <1>1, <1>2 DEF NoticeInv, FormsFollow, ShowsRow
<1>6. RequestsRight'
  BY <1>1 DEF NoticeInv, RequestsRight, Right
<1>. QED
  BY <1>3, <1>4, <1>5, <1>6 DEF NoticeInv

\* An operation that keeps the columns it was not asked to change.
LEMMA RequireStep ==
  ASSUME NoticeInv, NEW r \in Requests, NEW x \in Notices, NEW altered \in SUBSET Columns,
         NEW record \in Announcement!Notice,
         Announcement!Require(r, x, altered, record),
         r \notin disturbed' => \A c \in Columns \ altered : Keeps(altered, c, record, notices[x]),
         UNCHANGED <<notices, unused>>, FormsMove,
         disturbed' \subseteq Requests, disturbed' \cup {r} = disturbed \cup {r}
  PROVE  NoticeInv'
<1> DEFINE s == [pc |-> "find", asked |-> altered, notice |-> x, record |-> record]
<1>1. notices[x] # None /\ Announcement!Goto(r, s)
  BY DEF Announcement!Require
<1>2. /\ s \in Working /\ s.pc = "find" /\ s.notice = x /\ s.asked = altered /\ s.record = record
  BY DEF Working, Announcement!Finding, Columns
<1>3. x \notin unused
  BY <1>1 DEF NoticeInv, IdsFresh
<1> HIDE DEF s
<1>4. r \notin disturbed' => Right(s)
  BY <1>1, <1>2 DEF Right
<1>. QED
  BY <1>1, <1>2, <1>3, <1>4, ClerkStep

LEMMA UpdateNoticeStep ==
  ASSUME NoticeInv, NEW r \in Requests, NEW t \in Tabs, NEW sent \in Announcement!Form,
         Announcement!Update(r, t, sent)
  PROVE  NoticeInv'
<1>1. PICK x : x = form[t].notice
  OBVIOUS
<1> DEFINE altered == {c \in DOMAIN sent : sent[c] # form[t].values[c]}
           record == Announcement!Edited(notices[x], sent)
<1>2. /\ form[t] # Announcement!NoForm /\ Announcement!Require(r, x, altered, record)
      /\ form' = [form EXCEPT ![t] = Announcement!NoForm]
      /\ disturbed' = IF t \in stale THEN disturbed \cup {r} ELSE disturbed \ {r}
      /\ stale' = stale \ {t}
      /\ UNCHANGED <<notices, unused>>
  BY <1>1 DEF Announcement!Update
<1>3. form[t] \in [notice : Notices, values : Announcement!Form] /\ x \in Notices
  BY <1>1, <1>2 DEF NoticeInv, Announcement!TypeOK
<1>4. notices[x] \in Announcement!Notice
  BY <1>2, <1>3 DEF NoticeInv, Announcement!TypeOK, Announcement!Require
<1>5. DOMAIN sent = {"title", "start"} /\ altered \in SUBSET Columns
  BY DEF Announcement!Form, Columns
<1>6. /\ record \in Announcement!Notice /\ record.title = sent.title /\ record.start = sent.start
      /\ record.status = notices[x].status
  BY <1>4, DatesTyped DEF Announcement!Edited, Announcement!Notice, Announcement!Form
<1>7. ASSUME r \notin disturbed', NEW c \in Columns \ altered
      PROVE  Keeps(altered, c, record, notices[x])
  <2>1. form[t].values = Announcement!Shown(notices[x])
    BY <1>1, <1>2, <1>7 DEF NoticeInv, FormsFollow, ShowsRow
  <2>2. CASE c = "status"
    BY <1>6, <2>2 DEF Keeps
  <2>3. CASE c = "title"
    <3>1. sent.title = form[t].values.title
      BY <1>5, <1>7, <2>3
    <3>. QED
      BY <1>6, <2>1, <2>3, <3>1 DEF Announcement!Shown, Keeps
  <2>4. CASE c = "start"
    <3>1. sent.start = form[t].values.start
      BY <1>5, <1>7, <2>4
    <3>2. record.start = Announcement!LocalInput(notices[x].start)
      BY <1>6, <2>1, <3>1 DEF Announcement!Shown
    <3>3. altered \cap {"start", "status"} = {}
      BY <1>5, <1>7, <2>4
    <3>. QED
      BY <2>4, <3>2, <3>3 DEF Keeps
  <2>. QED
    BY <1>7, <2>2, <2>3, <2>4 DEF Columns
<1> HIDE DEF altered, record
<1>8. FormsMove /\ disturbed' \subseteq Requests /\ disturbed' \cup {r} = disturbed \cup {r}
  BY <1>2 DEF FormsMove, Closes, NoticeInv, Announcement!TypeOK
<1>. QED
  BY <1>2, <1>3, <1>5, <1>6, <1>7, <1>8, RequireStep

\* publish and unpublish keep the text; publish may set the date.
LEMMA PublishNoticeStep ==
  ASSUME NoticeInv, NEW r \in Requests, NEW x \in Notices, NEW now \in Times,
         Announcement!Publish(r, x, now)
  PROVE  NoticeInv'
<1> DEFINE altered == {"status"} \cup {c \in {"start"} : notices[x].start = None}
           record == [notices[x] EXCEPT !.status = "published",
                                        !.start = Announcement!Starting(notices[x], now)]
<1>1. /\ Announcement!Require(r, x, altered, record)
      /\ UNCHANGED <<notices, unused, form, stale>> /\ disturbed' = disturbed \ {r}
  BY DEF Announcement!Publish
<1>2. notices[x] \in Announcement!Notice
  BY <1>1 DEF NoticeInv, Announcement!TypeOK, Announcement!Require
<1>3. /\ record \in Announcement!Notice /\ record.title = notices[x].title
      /\ notices[x].start # None => record.start = notices[x].start
  BY <1>2 DEF Announcement!Notice, Announcement!Dates, Announcement!Starting
<1>4. /\ altered \in SUBSET Columns /\ "status" \in altered
      /\ notices[x].start = None => "start" \in altered
  BY DEF Columns
<1> HIDE DEF altered, record
<1>5. \A c \in Columns \ altered : Keeps(altered, c, record, notices[x])
  BY <1>3, <1>4 DEF Columns, Keeps
<1>6. FormsMove /\ disturbed' \subseteq Requests /\ disturbed' \cup {r} = disturbed \cup {r}
  BY <1>1 DEF FormsMove, NoticeInv, Announcement!TypeOK
<1>. QED
  BY <1>1, <1>3, <1>4, <1>5, <1>6, RequireStep

LEMMA UnpublishNoticeStep ==
  ASSUME NoticeInv, NEW r \in Requests, NEW x \in Notices, Announcement!Unpublish(r, x)
  PROVE  NoticeInv'
<1> DEFINE record == [notices[x] EXCEPT !.status = "draft"]
<1>1. /\ Announcement!Require(r, x, {"status"}, record)
      /\ UNCHANGED <<notices, unused, form, stale>> /\ disturbed' = disturbed \ {r}
  BY DEF Announcement!Unpublish
<1>2. notices[x] \in Announcement!Notice
  BY <1>1 DEF NoticeInv, Announcement!TypeOK, Announcement!Require
<1>3. /\ record \in Announcement!Notice /\ record.title = notices[x].title
      /\ record.start = notices[x].start
  BY <1>2 DEF Announcement!Notice
<1> HIDE DEF record
<1>4. /\ {"status"} \in SUBSET Columns
      /\ \A c \in Columns \ {"status"} : Keeps({"status"}, c, record, notices[x])
  BY <1>3 DEF Columns, Keeps
<1>5. FormsMove /\ disturbed' \subseteq Requests /\ disturbed' \cup {r} = disturbed \cup {r}
  BY <1>1 DEF FormsMove, NoticeInv, Announcement!TypeOK
<1>. QED
  BY <1>1, <1>3, <1>4, <1>5, RequireStep

LEMMA RemoveNoticeStep ==
  ASSUME NoticeInv, NEW r \in Requests, NEW x \in Notices, Announcement!Remove(r, x)
  PROVE  NoticeInv'
<1> DEFINE s == [pc |-> "delete", notice |-> x]
<1>1. /\ notices[x] # None /\ notices[x].status # "published" /\ Announcement!Goto(r, s)
      /\ disturbed' = disturbed \ {r} /\ UNCHANGED <<notices, unused, form, stale>>
  BY DEF Announcement!Remove, Announcement!Removable
<1>2. s \in Working /\ s.pc = "delete" /\ s.notice = x
  BY DEF Working, Removing
<1>3. x \notin unused
  BY <1>1 DEF NoticeInv, IdsFresh
<1> HIDE DEF s
<1>4. Right(s)
  BY <1>1, <1>2 DEF Right
<1>5. FormsMove /\ disturbed' \subseteq Requests /\ disturbed' \cup {r} = disturbed \cup {r}
  BY <1>1 DEF FormsMove, NoticeInv, Announcement!TypeOK
<1>. QED
  BY <1>1, <1>2, <1>3, <1>4, <1>5, ClerkStep

LEMMA FindNoticeStep ==
  ASSUME NoticeInv, NEW r \in Requests, Announcement!FindRow(r)
  PROVE  NoticeInv'
<1> DEFINE q == clerk[r]
           s == [pc |-> "flush", asked |-> q.asked, notice |-> q.notice,
                 record |-> q.record, loaded |-> notices[q.notice]]
<1>1. /\ q.pc = "find" /\ Announcement!Goto(r, s)
      /\ UNCHANGED <<notices, unused, form, stale, disturbed>>
  BY DEF Announcement!FindRow, Announcement!history
<1>2. q \in Announcement!Finding /\ q # Announcement!Idle
  BY <1>1, ClerkKinds DEF NoticeInv
<1>3. notices[q.notice] \in Announcement!Notice \cup {None}
  BY <1>2 DEF NoticeInv, Announcement!TypeOK, Announcement!Finding
<1>4. /\ s \in Working /\ s.pc = "flush" /\ s.notice = q.notice /\ s.asked = q.asked
      /\ s.record = q.record /\ s.loaded = notices[q.notice]
  BY <1>2, <1>3 DEF Working, Announcement!Finding, Announcement!Flushing
<1>5. s.notice \notin unused
  BY <1>2, <1>4 DEF NoticeInv, IdsFresh
<1>6. r \notin disturbed => Right(q)
  BY <1>2 DEF NoticeInv, RequestsRight
<1> HIDE DEF s
<1>7. r \notin disturbed' => Right(s)
  BY <1>1, <1>4, <1>6 DEF Right
<1>8. FormsMove /\ disturbed' \subseteq Requests
  BY <1>1 DEF FormsMove, NoticeInv, Announcement!TypeOK
<1>. QED
  BY <1>1, <1>4, <1>5, <1>7, <1>8, ClerkStep

\* What flush leaves of a row.
LEMMA FlushedTyped ==
  ASSUME NEW now \in Announcement!Notice, NEW loaded, NEW record \in Announcement!Notice
  PROVE  Announcement!Flushed(now, loaded, record) \in Announcement!Notice
<1>1. DOMAIN now = Columns
  BY DEF Announcement!Notice, Columns
<1>2. \A c \in Columns : \/ Announcement!Column(now[c], loaded[c], record[c]) = now[c]
                         \/ Announcement!Column(now[c], loaded[c], record[c]) = record[c]
  BY DEF Announcement!Column
<1>. DEFINE f == Announcement!Flushed(now, loaded, record)
<1>3. f = [c \in Columns |-> Announcement!Column(now[c], loaded[c], record[c])]
  BY <1>1 DEF Announcement!Flushed
<1>4. f = [title |-> f.title, start |-> f.start, status |-> f.status]
  BY <1>3 DEF Columns
<1>5. f.title \in Words /\ f.start \in Announcement!Dates /\ f.status \in {"draft", "published"}
  BY <1>2, <1>3 DEF Columns, Announcement!Notice
<1>. QED
  BY <1>4, <1>5 DEF Announcement!Notice

LEMMA FlushNoticeStep ==
  ASSUME NoticeInv, NEW r \in Requests, Announcement!Flush(r)
  PROVE  /\ NoticeInv'
         /\ \E row \in Announcement!Notice \cup {None} :
              /\ notices' = [notices EXCEPT ![clerk[r].notice] = row]
              /\ notices[clerk[r].notice] # None => row # None
<1>1. PICK x : x = clerk[r].notice
  OBVIOUS
<1> DEFINE q == clerk[r]
           now == notices[x]
<1>2. /\ q.pc = "flush" /\ q \in Announcement!Flushing /\ q # Announcement!Idle
      /\ x \in Notices
  BY <1>1, ClerkKinds DEF Announcement!Flush, NoticeInv, Announcement!Flushing
<1>3. now \in Announcement!Notice \cup {None}
  BY <1>2 DEF NoticeInv, Announcement!TypeOK
<1>4. /\ Announcement!Writing(r, x) /\ Announcement!Goto(r, Announcement!Idle)
      /\ UNCHANGED <<unused, form>>
  BY <1>1 DEF Announcement!Flush
<1>5. PICK row \in Announcement!Notice \cup {None} :
        /\ notices' = [notices EXCEPT ![x] = row]
        /\ notices[x] # None => row # None
  <2>1. CASE /\ now # None
             /\ notices' = [notices EXCEPT ![x] = Announcement!Flushed(now, q.loaded, q.record)]
    <3>1. Announcement!Flushed(now, q.loaded, q.record) \in Announcement!Notice
      BY <1>2, <1>3, <2>1, FlushedTyped DEF Announcement!Flushing
    <3>2. Announcement!Flushed(now, q.loaded, q.record) # None
      BY <3>1, ConsoleAssumption
    <3>. QED
      BY <2>1, <3>1, <3>2
  <2>2. CASE now = None /\ notices' = [notices EXCEPT ![x] = q.record]
    BY <1>2, <2>2 DEF Announcement!Flushing
  <2>3. CASE UNCHANGED notices
    <3>1. notices = [notices EXCEPT ![x] = now]
      BY <1>2 DEF NoticeInv, Announcement!TypeOK
    <3>. QED
      BY <1>3, <2>3, <3>1
  <2>. QED
    BY <1>1, <2>1, <2>2, <2>3 DEF Announcement!Flush
<1>. QED
  BY <1>1, <1>2, <1>4, <1>5, WriteStep

LEMMA DeleteNoticeStep ==
  ASSUME NoticeInv, NEW r \in Requests, Announcement!Delete(r)
  PROVE  NoticeInv'
<1>1. clerk[r] # Announcement!Idle
  BY ClerkKinds DEF Announcement!Delete, NoticeInv
<1>. QED
  BY <1>1, WriteStep DEF Announcement!Delete

LEMMA AbortNoticeStep ==
  ASSUME NoticeInv, NEW r \in Requests, Announcement!Abort(r)
  PROVE  NoticeInv'
<1>1. /\ Announcement!Goto(r, Announcement!Idle)
      /\ UNCHANGED <<notices, unused, form, stale, disturbed>>
  BY DEF Announcement!Abort, Announcement!history
<1>2. FormsMove /\ disturbed' \subseteq Requests
  BY <1>1 DEF FormsMove, NoticeInv, Announcement!TypeOK
<1>. QED
  BY <1>1, <1>2, ClerkStep

LEMMA NoticeInit == ASSUME Announcement!Init PROVE NoticeInv
<1>1. Announcement!TypeOK
  BY DEF Announcement!Init, Announcement!TypeOK
<1>2. IdsFresh /\ FormsFollow /\ RequestsRight
  BY DEF Announcement!Init, IdsFresh, FormsFollow, RequestsRight
<1>. QED
  BY <1>1, <1>2 DEF NoticeInv

LEMMA NoticeNext ==
  ASSUME NoticeInv, [Announcement!Next]_noticeVars
  PROVE  NoticeInv'
<1>1. CASE UNCHANGED noticeVars
  BY <1>1 DEF noticeVars, NoticeInv, Announcement!TypeOK, IdsFresh, FormsFollow, ShowsRow,
     RequestsRight, Right
<1>2. CASE Announcement!Next
  BY <1>2, ClosePageStep, OpenPageStep, FindNoticeStep, FlushNoticeStep, DeleteNoticeStep,
     AbortNoticeStep, PublishNoticeStep, UnpublishNoticeStep, RemoveNoticeStep,
     CreateNoticeStep, UpdateNoticeStep
     DEF Announcement!Next
<1>. QED
  BY <1>1, <1>2

\* The inductive invariant holds in every behaviour (AnnouncementService).
THEOREM NoticeInvariant == Announcement!Spec => []NoticeInv
<1>1. NoticeInv /\ [Announcement!Next]_(Announcement!vars) => NoticeInv'
  BY NoticeNext DEF Announcement!vars, noticeVars
<1>. QED
  BY NoticeInit, <1>1, PTL DEF Announcement!Spec

\* A request whose row was its own writes the columns it was asked for.
LEMMA NoticeWritten ==
  ASSUME NoticeInv, Announcement!Next, NEW r \in Requests, NEW x \in Notices,
         clerk[r].pc = "flush", clerk'[r] = Announcement!Idle, clerk[r].notice = x,
         r \notin disturbed, notices'[x] # notices[x]
  PROVE  /\ notices[x] # None /\ notices'[x] # None
         /\ \A c \in {"title", "start", "status"} :
              Announcement!AsAsked(clerk[r], c, notices[x][c], notices'[x][c])
<1> DEFINE q == clerk[r]
           now == notices[x]
<1>1. q \in Announcement!Flushing /\ q # Announcement!Idle
  BY ClerkKinds DEF NoticeInv
<1>2. /\ now # None /\ q.loaded = now
      /\ \A c \in Columns \ q.asked : Keeps(q.asked, c, q.record, now)
  BY <1>1 DEF NoticeInv, RequestsRight, Right
<1>3. now \in Announcement!Notice
  BY <1>2 DEF NoticeInv, Announcement!TypeOK
<1>4. Announcement!Flush(r)
  <2>1. clerk' # clerk
    BY <1>1
  <2>2. \A p \in Requests : \A s : p # r => ~Announcement!Goto(p, s)
    BY <1>1, ClerkGoto DEF NoticeInv
  <2>3. \A s : s # Announcement!Idle => ~Announcement!Goto(r, s)
    BY <1>1, ClerkGoto DEF NoticeInv
  <2>4. ~Announcement!Abort(r)
    BY DEF Announcement!Abort
  <2>5. \A p \in Requests : ~Announcement!FindRow(p) /\ ~Announcement!Delete(p)
    BY <2>2 DEF Announcement!FindRow, Announcement!Delete
  <2>6. \A p \in Requests : p # r => ~Announcement!Flush(p) /\ ~Announcement!Abort(p)
    BY <2>2 DEF Announcement!Flush, Announcement!Abort
  <2>7. \A p \in Requests : \A y, a, d : ~Announcement!Require(p, y, a, d)
    BY <1>1, <2>2 DEF Announcement!Require
  <2>8. \A p \in Requests, y \in Notices :
          /\ ~Announcement!Unpublish(p, y) /\ ~Announcement!Remove(p, y)
          /\ \A d \in Times : ~Announcement!Publish(p, y, d)
          /\ \A sent \in Announcement!Form : ~Announcement!Create(p, y, sent)
    BY <1>1, <2>1, <2>2, <2>7 DEF Announcement!Publish, Announcement!Unpublish,
       Announcement!Remove, Announcement!Create
  <2>9. \A p \in Requests, t \in Tabs, sent \in Announcement!Form : ~Announcement!Update(p, t, sent)
    BY <2>7 DEF Announcement!Update
  <2>10. \A t \in Tabs : /\ ~Announcement!ClosePage(t)
                         /\ \A y \in Notices : ~Announcement!OpenPage(t, y)
    BY <2>1 DEF Announcement!ClosePage, Announcement!OpenPage
  <2>. QED
    BY <2>4, <2>5, <2>6, <2>8, <2>9, <2>10 DEF Announcement!Next
<1>5. notices' = [notices EXCEPT ![x] = Announcement!Flushed(now, now, q.record)]
  BY <1>2, <1>4 DEF Announcement!Flush
<1>6. notices'[x] = Announcement!Flushed(now, now, q.record)
  BY <1>5 DEF NoticeInv, Announcement!TypeOK
<1>7. DOMAIN now = Columns
  BY <1>3 DEF Announcement!Notice, Columns
<1>8. \A c \in Columns : Announcement!Column(now[c], now[c], q.record[c]) = q.record[c]
  BY DEF Announcement!Column
<1>9. \A c \in Columns : notices'[x][c] = q.record[c]
  BY <1>6, <1>7, <1>8 DEF Announcement!Flushed
<1>10. notices'[x] # None
  <2>1. q.record \in Announcement!Notice
    BY <1>1 DEF Announcement!Flushing
  <2>. QED
    BY <1>3, <1>6, <2>1, FlushedTyped, ConsoleAssumption
<1>11. ASSUME NEW c \in Columns
       PROVE  Announcement!AsAsked(q, c, now[c], notices'[x][c])
  <2>1. CASE c \in q.asked
    BY <1>9, <2>1 DEF Announcement!AsAsked
  <2>2. CASE c \notin q.asked
    <3>1. Keeps(q.asked, c, q.record, now) /\ notices'[x][c] = q.record[c]
      BY <1>2, <1>9, <2>2
    <3>. QED
      BY <2>2, <3>1 DEF Announcement!AsAsked, Keeps
  <2>. QED
    BY <2>1, <2>2
<1>. QED
  BY <1>2, <1>10, <1>11 DEF Columns

\* A row goes by a request to delete it.
LEMMA NoticeDeleted ==
  ASSUME NoticeInv, Announcement!Next, NEW x \in Notices,
         notices[x] # None, notices[x].status = "published", notices'[x] = None
  PROVE  \E r \in disturbed : clerk[r].pc = "delete" /\ clerk[r].notice = x
<1>1. PICK r \in Requests : Announcement!Delete(r)
  <2>1. notices' # notices
    OBVIOUS
  <2>2. \A p \in Requests : ~Announcement!FindRow(p) /\ ~Announcement!Abort(p)
    BY <2>1 DEF Announcement!FindRow, Announcement!Abort
  <2>3. \A p \in Requests, y \in Notices :
          /\ ~Announcement!Unpublish(p, y) /\ ~Announcement!Remove(p, y)
          /\ \A d \in Times : ~Announcement!Publish(p, y, d)
    BY <2>1 DEF Announcement!Publish, Announcement!Unpublish, Announcement!Remove
  <2>4. \A p \in Requests, t \in Tabs, sent \in Announcement!Form : ~Announcement!Update(p, t, sent)
    BY <2>1 DEF Announcement!Update
  <2>5. \A t \in Tabs : /\ ~Announcement!ClosePage(t)
                        /\ \A y \in Notices : ~Announcement!OpenPage(t, y)
    BY <2>1 DEF Announcement!ClosePage, Announcement!OpenPage
  <2>6. \A p \in Requests, y \in Notices, sent \in Announcement!Form :
          ~Announcement!Create(p, y, sent)
    BY DEF Announcement!Create, NoticeInv, IdsFresh, Announcement!TypeOK
  <2>7. ASSUME NEW p \in Requests, Announcement!Flush(p) PROVE FALSE
    <3>1. PICK row \in Announcement!Notice \cup {None} :
            /\ notices' = [notices EXCEPT ![clerk[p].notice] = row]
            /\ notices[clerk[p].notice] # None => row # None
      BY <2>7, FlushNoticeStep
    <3>. QED
      BY <3>1 DEF NoticeInv, Announcement!TypeOK
  <2>. QED
    BY <2>2, <2>3, <2>4, <2>5, <2>6, <2>7 DEF Announcement!Next
<1>2. /\ clerk[r].pc = "delete" /\ clerk[r] # Announcement!Idle
      /\ clerk[r].notice = x
  BY <1>1, ClerkKinds DEF Announcement!Delete, NoticeInv, Announcement!TypeOK
<1>3. r \in disturbed
  BY <1>2 DEF NoticeInv, RequestsRight, Right
<1>. QED
  BY <1>2, <1>3

-----------------------------------------------------------------------------
(* Help articles                                                           *)

USE DEF Help!Idle

HelpWork == Help!Asking \cup Help!Finding \cup Help!Flushing

\* What a request holds of an article that no other one has saved is right.
RightArticle(q) ==
  /\ q.pc \in {"findRow", "flush"} /\ articles[q.article] # None =>
       \A c \in {"slug", "status"} \ q.asked : q.record[c] = articles[q.article][c]
  /\ q.pc = "flush" => q.loaded = articles[q.article]

\* A row that was loaded is still there.
LoadedStays(q) == q.pc = "flush" /\ q.loaded # None => articles[q.article] # None

HelpInv ==
  /\ Help!TypeOK
  /\ \A r \in Requests \ crossed : RightArticle(agent[r])
  /\ \A r \in Requests : LoadedStays(agent[r])

LEMMA AgentKinds ==
  ASSUME Help!TypeOK, NEW r \in Requests
  PROVE  /\ agent[r].pc # "idle" => agent[r] \in HelpWork
         /\ agent[r].pc = "findArticle" => agent[r] \in Help!Asking
         /\ agent[r].pc = "findRow" => agent[r] \in Help!Finding
         /\ agent[r].pc = "flush" => agent[r] \in Help!Flushing
BY DEF Help!TypeOK, HelpWork, Help!Asking, Help!Finding, Help!Flushing

LEMMA AgentGoto ==
  ASSUME Help!TypeOK, NEW r \in Requests, NEW s, Help!Goto(r, s)
  PROVE  /\ agent'[r] = s
         /\ \A q \in Requests \ {r} : agent'[q] = agent[q]
         /\ s \in {Help!Idle} \cup HelpWork
              => agent' \in [Requests -> {Help!Idle} \cup HelpWork]
BY DEF Help!TypeOK, Help!Goto, HelpWork

\* The articles stay, and one request moves on.
LEMMA AgentStep ==
  ASSUME HelpInv, NEW r \in Requests, NEW s \in {Help!Idle} \cup HelpWork, Help!Goto(r, s),
         LoadedStays(s), r \notin crossed' => RightArticle(s),
         articles' = articles, crossed' \subseteq Requests, crossed' \cup {r} = crossed \cup {r}
  PROVE  HelpInv'
<1>1. /\ agent'[r] = s /\ \A q \in Requests \ {r} : agent'[q] = agent[q]
      /\ agent' \in [Requests -> {Help!Idle} \cup HelpWork]
  BY AgentGoto DEF HelpInv
<1>2. Help!TypeOK'
  BY <1>1 DEF HelpInv, Help!TypeOK, HelpWork
<1>3. ASSUME NEW q \in Requests, q \notin crossed' PROVE RightArticle(agent[q])'
  <2>1. CASE q = r
    BY <1>1, <1>3, <2>1 DEF RightArticle
  <2>2. CASE q # r
    BY <1>1, <1>3, <2>2 DEF HelpInv, RightArticle
  <2>. QED
    BY <2>1, <2>2
<1>4. \A q \in Requests : LoadedStays(agent[q])'
  BY <1>1 DEF HelpInv, LoadedStays
<1>. QED
  BY <1>2, <1>3, <1>4 DEF HelpInv

LEMMA FindBySlugStep ==
  ASSUME HelpInv, NEW r \in Requests, NEW x \in Articles, NEW s \in Slugs,
         NEW status \in {"published", "unpublished", "kept"}, Help!FindBySlug(r, x, s, status)
  PROVE  HelpInv'
<1> DEFINE q == [pc |-> "findArticle", article |-> x, slug |-> s, status |-> status]
<1>1. Help!Goto(r, q) /\ crossed' = crossed \ {r} /\ articles' = articles
  BY DEF Help!FindBySlug
<1>2. q \in HelpWork /\ q.pc = "findArticle"
  BY DEF HelpWork, Help!Asking
<1> HIDE DEF q
<1>3. /\ LoadedStays(q) /\ RightArticle(q)
      /\ crossed' \subseteq Requests /\ crossed' \cup {r} = crossed \cup {r}
  BY <1>1, <1>2 DEF LoadedStays, RightArticle, HelpInv, Help!TypeOK
<1>. QED
  BY <1>1, <1>2, <1>3, AgentStep

\* A request goes on to save a record that keeps the columns it leaves alone.
LEMMA SavingStep ==
  ASSUME HelpInv, NEW r \in Requests, NEW x \in Articles,
         NEW altered \in SUBSET {"slug", "status"}, NEW record \in Help!Article,
         Help!Saving(r, x, altered, record), articles' = articles,
         articles[x] # None =>
           \A c \in {"slug", "status"} \ altered : record[c] = articles[x][c],
         crossed' \subseteq Requests, crossed' \cup {r} = crossed \cup {r}
  PROVE  HelpInv'
<1> DEFINE s == [pc |-> "findRow", article |-> x, asked |-> altered, record |-> record]
<1>1. Help!Goto(r, s)
  BY DEF Help!Saving
<1>2. /\ s \in HelpWork /\ s.pc = "findRow" /\ s.article = x /\ s.asked = altered /\ s.record = record
  BY DEF HelpWork, Help!Finding
<1> HIDE DEF s
<1>3. LoadedStays(s) /\ RightArticle(s)
  BY <1>2 DEF LoadedStays, RightArticle
<1>. QED
  BY <1>1, <1>2, <1>3, AgentStep

LEMMA FindArticleStep ==
  ASSUME HelpInv, NEW r \in Requests, Help!FindArticle(r)
  PROVE  HelpInv'
<1> DEFINE q == agent[r]
           altered == IF q.status = "kept" THEN {"slug"} ELSE {"slug", "status"}
           record == [slug |-> q.slug, status |-> Help!KeptStatus(articles[q.article], q.status)]
<1>1. /\ q.pc = "findArticle" /\ Help!Saving(r, q.article, altered, record)
      /\ articles' = articles /\ crossed' = crossed
  BY DEF Help!FindArticle
<1>2. q \in Help!Asking
  BY <1>1, AgentKinds DEF HelpInv
<1>3. /\ q.article \in Articles /\ q.slug \in Slugs
      /\ q.status \in {"published", "unpublished", "kept"}
  BY <1>2 DEF Help!Asking
<1>4. articles[q.article] # None => articles[q.article] \in Help!Article
  BY <1>3 DEF HelpInv, Help!TypeOK
<1>5. Help!KeptStatus(articles[q.article], q.status) \in {"published", "unpublished"}
  BY <1>3, <1>4 DEF Help!KeptStatus, Help!Article
<1>6. record \in Help!Article /\ altered \in SUBSET {"slug", "status"}
  BY <1>3, <1>5 DEF Help!Article
<1>7. ASSUME articles[q.article] # None, NEW c \in {"slug", "status"} \ altered
      PROVE  record[c] = articles[q.article][c]
  <2>1. c = "status" /\ q.status = "kept"
    BY <1>7
  <2>2. Help!KeptStatus(articles[q.article], q.status) = articles[q.article].status
    BY <1>7, <2>1 DEF Help!KeptStatus
  <2>. QED
    BY <2>1, <2>2
<1>8. crossed' \subseteq Requests /\ crossed' \cup {r} = crossed \cup {r}
  BY <1>1 DEF HelpInv, Help!TypeOK
<1> HIDE DEF altered, record
<1>. QED
  BY <1>1, <1>3, <1>6, <1>7, <1>8, SavingStep

LEMMA SetStatusStep ==
  ASSUME HelpInv, NEW r \in Requests, NEW x \in Articles,
         NEW status \in {"published", "unpublished"}, Help!SetStatus(r, x, status)
  PROVE  HelpInv'
<1> DEFINE record == [articles[x] EXCEPT !.status = status]
<1>1. /\ articles[x] # None /\ Help!Saving(r, x, {"status"}, record)
      /\ crossed' = crossed \ {r} /\ articles' = articles
  BY DEF Help!SetStatus
<1>2. articles[x] \in Help!Article
  BY <1>1 DEF HelpInv, Help!TypeOK
<1>3. record \in Help!Article /\ record.slug = articles[x].slug
  BY <1>2 DEF Help!Article
<1>4. crossed' \subseteq Requests /\ crossed' \cup {r} = crossed \cup {r}
  BY <1>1 DEF HelpInv, Help!TypeOK
<1> HIDE DEF record
<1>. QED
  BY <1>1, <1>3, <1>4, SavingStep

LEMMA FindArticleRowStep ==
  ASSUME HelpInv, NEW r \in Requests, Help!FindRow(r)
  PROVE  HelpInv'
<1> DEFINE q == agent[r]
           s == [pc |-> "flush", article |-> q.article, asked |-> q.asked,
                 record |-> q.record, loaded |-> articles[q.article]]
<1>1. /\ q.pc = "findRow" /\ Help!Goto(r, s) /\ articles' = articles /\ crossed' = crossed
  BY DEF Help!FindRow
<1>2. q \in Help!Finding
  BY <1>1, AgentKinds DEF HelpInv
<1>3. articles[q.article] \in Help!Article \cup {None}
  BY <1>2 DEF HelpInv, Help!TypeOK, Help!Finding
<1>4. /\ s \in HelpWork /\ s.pc = "flush" /\ s.article = q.article /\ s.asked = q.asked
      /\ s.record = q.record /\ s.loaded = articles[q.article]
  BY <1>2, <1>3 DEF HelpWork, Help!Finding, Help!Flushing
<1> HIDE DEF s
<1>5. LoadedStays(s) /\ (r \notin crossed' => RightArticle(s))
  BY <1>1, <1>4 DEF HelpInv, LoadedStays, RightArticle
<1>6. crossed' \subseteq Requests
  BY <1>1 DEF HelpInv, Help!TypeOK
<1>. QED
  BY <1>1, <1>4, <1>5, <1>6, AgentStep

LEMMA WrittenTyped ==
  ASSUME Help!TypeOK, NEW q \in Help!Flushing, LoadedStays(q)
  PROVE  Help!Written(q) \in Help!Article
<1> DEFINE now == articles[q.article]
           f == Help!Flushed(now, q.loaded, q.record)
<1>1. q.record \in Help!Article
  BY DEF Help!Flushing
<1>2. CASE q.loaded = None
  BY <1>1, <1>2 DEF Help!Written
<1>3. CASE q.loaded # None
  <2>1. now \in Help!Article
    BY <1>3 DEF Help!TypeOK, Help!Flushing, LoadedStays
  <2>2. DOMAIN now = {"slug", "status"}
    BY <2>1 DEF Help!Article
  <2>3. \A c \in {"slug", "status"} :
          \/ Help!Column(now[c], q.loaded[c], q.record[c]) = now[c]
          \/ Help!Column(now[c], q.loaded[c], q.record[c]) = q.record[c]
    BY DEF Help!Column
  <2>4. f = [c \in {"slug", "status"} |-> Help!Column(now[c], q.loaded[c], q.record[c])]
    BY <2>2 DEF Help!Flushed
  <2>5. f = [slug |-> f.slug, status |-> f.status]
    BY <2>4
  <2>6. f.slug \in Slugs /\ f.status \in {"published", "unpublished"}
    BY <1>1, <2>1, <2>3, <2>4 DEF Help!Article
  <2>7. f \in Help!Article
    BY <2>5, <2>6 DEF Help!Article
  <2>. QED
    BY <1>3, <2>7 DEF Help!Written
<1>. QED
  BY <1>2, <1>3

\* A request saves its record, which crosses the others that work on the
\* article, or is refused the address.
LEMMA FlushArticleStep ==
  ASSUME HelpInv, NEW r \in Requests, Help!FlushArticle(r)
  PROVE  HelpInv'
<1> DEFINE q == agent[r]
<1>1. PICK x : x = q.article
  OBVIOUS
<1>2. q.pc = "flush" /\ q \in Help!Flushing /\ Help!Goto(r, Help!Idle)
  BY AgentKinds DEF Help!FlushArticle, HelpInv
<1>3. x \in Articles
  BY <1>1, <1>2 DEF Help!Flushing
<1>4. /\ agent'[r] = Help!Idle /\ \A p \in Requests \ {r} : agent'[p] = agent[p]
      /\ agent' \in [Requests -> {Help!Idle} \cup HelpWork]
  BY <1>2, AgentGoto DEF HelpInv
<1>5. CASE UNCHANGED <<articles, crossed>>
  <2>1. crossed' \subseteq Requests /\ LoadedStays(Help!Idle) /\ RightArticle(Help!Idle)
    BY <1>5 DEF HelpInv, Help!TypeOK, LoadedStays, RightArticle
  <2>. QED
    BY <1>2, <1>5, <2>1, AgentStep
<1>6. CASE /\ articles' = [articles EXCEPT ![x] = Help!Written(q)]
           /\ crossed' = crossed \cup Help!WorkingOn(r, x)
  <2>1. Help!Written(q) \in Help!Article /\ Help!Written(q) # None
    BY <1>2, WrittenTyped, ConsoleAssumption DEF HelpInv
  <2>2. /\ articles'[x] = Help!Written(q) /\ \A y \in Articles \ {x} : articles'[y] = articles[y]
        /\ articles' \in [Articles -> Help!Article \cup {None}]
    BY <1>3, <1>6, <2>1 DEF HelpInv, Help!TypeOK
  <2>3. /\ crossed \subseteq crossed' /\ crossed' \subseteq Requests
        /\ \A p \in Requests \ {r} :
             agent[p].pc \in {"findArticle", "findRow", "flush"} /\ agent[p].article = x
               => p \in crossed'
    BY <1>6 DEF Help!WorkingOn, HelpInv, Help!TypeOK
  <2>4. Help!TypeOK'
    BY <1>4, <2>2, <2>3 DEF HelpInv, Help!TypeOK, HelpWork
  <2>5. \A p \in Requests : agent[p].pc \in {"findRow", "flush"} => agent[p].article \in Articles
    BY AgentKinds DEF HelpInv, Help!Finding, Help!Flushing
  <2>6. ASSUME NEW p \in Requests, p \notin crossed' PROVE RightArticle(agent[p])'
    <3>1. CASE p = r
      BY <1>4, <3>1 DEF RightArticle
    <3>2. CASE p # r
      <4>1. /\ agent'[p] = agent[p] /\ p \notin crossed
            /\ agent[p].pc \in {"findRow", "flush"} => agent[p].article # x
        BY <1>4, <2>3, <2>6, <3>2
      <4>. QED
        BY <2>2, <2>5, <4>1 DEF HelpInv, RightArticle
    <3>. QED
      BY <3>1, <3>2
  <2>7. \A p \in Requests : LoadedStays(agent[p])'
    BY <1>4, <2>1, <2>2, <2>5 DEF HelpInv, LoadedStays
  <2>. QED
    BY <2>4, <2>6, <2>7 DEF HelpInv
<1>. QED
  BY <1>1, <1>5, <1>6 DEF Help!FlushArticle

LEMMA AbortArticleStep ==
  ASSUME HelpInv, NEW r \in Requests, Help!Abort(r)
  PROVE  HelpInv'
<1>1. Help!Goto(r, Help!Idle) /\ UNCHANGED <<articles, crossed>>
  BY DEF Help!Abort
<1>2. crossed' \subseteq Requests /\ LoadedStays(Help!Idle) /\ RightArticle(Help!Idle)
  BY <1>1 DEF HelpInv, Help!TypeOK, LoadedStays, RightArticle
<1>. QED
  BY <1>1, <1>2, AgentStep

LEMMA HelpInit == ASSUME Help!Init PROVE HelpInv
BY DEF Help!Init, HelpInv, Help!TypeOK, RightArticle, LoadedStays

LEMMA HelpNext ==
  ASSUME HelpInv, [Help!Next]_helpVars
  PROVE  HelpInv'
<1>1. CASE UNCHANGED helpVars
  BY <1>1 DEF helpVars, HelpInv, Help!TypeOK, RightArticle, LoadedStays
<1>2. CASE Help!Next
  BY <1>2, FindArticleStep, FindArticleRowStep, FlushArticleStep, AbortArticleStep,
     SetStatusStep, FindBySlugStep DEF Help!Next
<1>. QED
  BY <1>1, <1>2

\* The inductive invariant holds in every behaviour (HelpArticleService).
THEOREM HelpInvariant == Help!Spec => []HelpInv
<1>1. HelpInv /\ [Help!Next]_(Help!vars) => HelpInv'
  BY HelpNext DEF Help!vars, helpVars
<1>. QED
  BY HelpInit, <1>1, PTL DEF Help!Spec

\* What a request whose article was its own writes.
LEMMA ArticleWritten ==
  ASSUME HelpInv, Help!Next, NEW r \in Requests,
         agent[r].pc = "flush", agent'[r] = Help!Idle, r \notin crossed
  PROVE  \/ UNCHANGED articles
         \/ articles[agent[r].article] = None
         \/ \A c \in {"slug", "status"} \ agent[r].asked :
              articles'[agent[r].article][c] = articles[agent[r].article][c]
<1> DEFINE q == agent[r]
<1>1. PICK x : x = q.article
  OBVIOUS
<1> DEFINE now == articles[x]
<1>2. SUFFICES ASSUME articles' # articles, now # None, NEW c \in {"slug", "status"} \ q.asked
               PROVE  articles'[x][c] = now[c]
  BY <1>1
<1>3. q \in Help!Flushing /\ x \in Articles
  BY <1>1, AgentKinds DEF HelpInv, Help!Flushing
<1>4. q.loaded = now /\ q.record[c] = now[c]
  BY <1>1, <1>2 DEF HelpInv, RightArticle
<1>5. Help!FlushArticle(r)
  <2>1. PICK p \in Requests : Help!FlushArticle(p)
    BY <1>2 DEF Help!Next, Help!FindArticle, Help!FindRow, Help!Abort, Help!SetStatus,
       Help!FindBySlug
  <2>2. Help!Goto(p, Help!Idle)
    BY <2>1 DEF Help!FlushArticle
  <2>3. p = r
    BY <2>2, AgentGoto DEF HelpInv
  <2>. QED
    BY <2>1, <2>3
<1>6. articles' = [articles EXCEPT ![x] = Help!Flushed(now, now, q.record)]
  BY <1>1, <1>2, <1>4, <1>5 DEF Help!FlushArticle, Help!Written
<1>7. articles'[x] = Help!Flushed(now, now, q.record)
  BY <1>3, <1>6 DEF HelpInv, Help!TypeOK
<1>8. DOMAIN now = {"slug", "status"}
  BY <1>2, <1>3 DEF HelpInv, Help!TypeOK, Help!Article
<1>9. Help!Flushed(now, now, q.record)[c] = Help!Column(now[c], now[c], q.record[c])
  BY <1>8 DEF Help!Flushed
<1>. QED
  BY <1>4, <1>7, <1>9 DEF Help!Column

-----------------------------------------------------------------------------
(* Inquiries and reports                                                   *)

USE DEF Case!Idle

Handling == [pc : {"loadReport", "setStatus", "record"}, id : Case!Ids,
             from : Case!CaseStatus, to : Case!CaseStatus]

\* A case that was written has been opened, and goes where its kind can go.
Goals(i) == IF i \in Inquiries THEN Case!InquiryStatus ELSE {"RESOLVED", "DISMISSED"}
CasesOpen ==
  /\ \A i \in Inquiries : cases[i] \in Case!InquiryStatus
  /\ \A i \in Case!Ids : cases[i] = "NONE" => audited[i] = "OPEN"
  /\ \A r \in Requests : handler[r].pc # "idle" =>
       cases[handler[r].id] # "NONE" /\ handler[r].to \in Goals(handler[r].id)

\* What a request holds of a case that no other one has written is right.
RightCase(q) ==
  /\ q.pc = "setStatus" => q.from = cases[q.id]
  /\ q.pc = "record" => q.to = cases[q.id]

CaseInv ==
  /\ Case!TypeOK /\ CasesOpen /\ Case!LogTellsStatus
  /\ \A r \in Requests \ contested : RightCase(handler[r])

LEMMA HandlerKinds ==
  ASSUME Case!TypeOK, NEW r \in Requests
  PROVE  /\ handler[r].pc # "idle" => handler[r] \in Handling
         /\ (handler[r] # Case!Idle) = (handler[r].pc # "idle")
BY DEF Case!TypeOK, Handling

LEMMA HandlerGoto ==
  ASSUME Case!TypeOK, NEW r \in Requests, NEW s, Case!Goto(r, s)
  PROVE  /\ handler'[r] = s
         /\ \A q \in Requests \ {r} : handler'[q] = handler[q]
         /\ s \in {Case!Idle} \cup Handling
              => handler' \in [Requests -> {Case!Idle} \cup Handling]
BY DEF Case!TypeOK, Case!Goto, Handling

\* The cases stay, and one request moves on.
LEMMA HandlerStep ==
  ASSUME CaseInv, NEW r \in Requests, NEW s, Case!Goto(r, s),
         s = Case!Idle \/ (s \in Handling /\ cases[s.id] # "NONE" /\ s.to \in Goals(s.id)),
         r \notin contested' => RightCase(s),
         cases' = cases, audited' \in [Case!Ids -> Case!CaseStatus],
         unrecorded' \subseteq Case!Ids,
         \A i \in Case!Ids : cases[i] = "NONE" => audited'[i] = audited[i],
         Case!LogTellsStatus',
         contested' \subseteq Requests, contested' \cup {r} = contested \cup {r}
  PROVE  CaseInv'
<1>1. /\ handler'[r] = s /\ \A q \in Requests \ {r} : handler'[q] = handler[q]
      /\ handler' \in [Requests -> {Case!Idle} \cup Handling]
  BY HandlerGoto DEF CaseInv
<1>2. Case!TypeOK'
  BY <1>1 DEF CaseInv, Case!TypeOK, Handling
<1>3. CasesOpen'
  BY <1>1 DEF CaseInv, CasesOpen, Goals
<1>4. ASSUME NEW q \in Requests, q \notin contested' PROVE RightCase(handler[q])'
  <2>1. CASE q = r
    BY <1>1, <1>4, <2>1 DEF RightCase
  <2>2. CASE q # r
    BY <1>1, <1>4, <2>2 DEF CaseInv, RightCase
  <2>. QED
    BY <2>1, <2>2
<1>. QED
  BY <1>2, <1>3, <1>4 DEF CaseInv

LEMMA ReportProfileStep ==
  ASSUME CaseInv, NEW i \in Case!Ids, Case!ReportProfile(i)
  PROVE  CaseInv'
<1>1. /\ cases[i] = "NONE" /\ cases' = [cases EXCEPT ![i] = "OPEN"]
      /\ UNCHANGED <<audited, handler, contested, unrecorded>>
  BY DEF Case!ReportProfile
<1>2. /\ cases'[i] = "OPEN" /\ \A j \in Case!Ids \ {i} : cases'[j] = cases[j]
      /\ cases' \in [Case!Ids -> Case!CaseStatus]
  BY <1>1 DEF CaseInv, Case!TypeOK, Case!CaseStatus, Case!InquiryStatus
<1>3. Case!TypeOK'
  BY <1>1, <1>2 DEF CaseInv, Case!TypeOK
<1>4. \A r \in Requests : handler[r].pc # "idle" => handler[r].id \in Case!Ids /\ handler[r].id # i
  BY <1>1, HandlerKinds DEF CaseInv, CasesOpen, Handling
<1>5. CasesOpen'
  <2>1. \A j \in Inquiries : j \in Case!Ids /\ j # i
    BY <1>1 DEF CaseInv, CasesOpen, Case!InquiryStatus, Case!Ids
  <2>. QED
    BY <1>1, <1>2, <1>4, <2>1 DEF CaseInv, CasesOpen, Goals
<1>6. Case!LogTellsStatus'
  BY <1>1, <1>2 DEF CaseInv, CasesOpen, Case!LogTellsStatus
<1>7. \A r \in Requests \ contested' : RightCase(handler[r])'
  BY <1>1, <1>2, <1>4 DEF CaseInv, RightCase
<1>. QED
  BY <1>3, <1>5, <1>6, <1>7 DEF CaseInv

LEMMA FindCaseStep ==
  ASSUME CaseInv, NEW i \in Case!Ids, NEW r \in Requests, NEW to \in Case!CaseStatus,
         Case!FindCase(r, i, to)
  PROVE  CaseInv'
<1> DEFINE s == [pc |-> IF i \in Inquiries THEN "setStatus" ELSE "loadReport",
                 id |-> i, from |-> cases[i], to |-> to]
<1>1. /\ cases[i] # "NONE" /\ to \in Case!Allowed(i, cases[i]) /\ Case!Goto(r, s)
      /\ contested' = contested \ {r} /\ UNCHANGED <<cases, audited, unrecorded>>
  BY DEF Case!FindCase
<1>2. to \in Goals(i)
  <2>1. CASE i \in Inquiries
    <3>1. cases[i] \in Case!InquiryStatus
      BY <2>1 DEF CaseInv, CasesOpen
    <3>. QED
      BY <1>1, <2>1, <3>1 DEF Case!Allowed, Case!InquiryTransitions, Case!InquiryStatus, Goals
  <2>2. CASE i \notin Inquiries
    BY <1>1, <2>2 DEF Case!Allowed, Goals
  <2>. QED
    BY <2>1, <2>2
<1>3. /\ s \in Handling /\ s.id = i /\ s.from = cases[i] /\ s.to = to
      /\ s.pc # "record"
  BY DEF Handling, CaseInv, Case!TypeOK
<1> HIDE DEF s
<1>4. RightCase(s)
  BY <1>3 DEF RightCase
<1>5. Case!LogTellsStatus'
  BY <1>1 DEF CaseInv, Case!LogTellsStatus
<1>6. /\ audited' \in [Case!Ids -> Case!CaseStatus] /\ unrecorded' \subseteq Case!Ids
      /\ contested' \subseteq Requests /\ contested' \cup {r} = contested \cup {r}
  BY <1>1 DEF CaseInv, Case!TypeOK
<1>. QED
  BY <1>1, <1>2, <1>3, <1>4, <1>5, <1>6, HandlerStep

LEMMA LoadReportStep ==
  ASSUME CaseInv, NEW r \in Requests, Case!LoadReport(r)
  PROVE  CaseInv'
<1> DEFINE q == handler[r]
           s == [q EXCEPT !.pc = "setStatus", !.from = cases[q.id]]
<1>1. /\ q.pc = "loadReport" /\ Case!Goto(r, s)
      /\ UNCHANGED <<cases, audited, contested, unrecorded>>
  BY DEF Case!LoadReport
<1>2. q \in Handling /\ cases[q.id] # "NONE" /\ q.to \in Goals(q.id)
  BY <1>1, HandlerKinds DEF CaseInv, CasesOpen
<1>3. cases[q.id] \in Case!CaseStatus
  BY <1>2 DEF CaseInv, Case!TypeOK, Handling
<1>4. /\ s \in Handling /\ s.pc = "setStatus" /\ s.id = q.id /\ s.to = q.to
      /\ s.from = cases[q.id]
  BY <1>2, <1>3 DEF Handling
<1> HIDE DEF s
<1>5. RightCase(s)
  BY <1>4 DEF RightCase
<1>6. Case!LogTellsStatus'
  BY <1>1 DEF CaseInv, Case!LogTellsStatus
<1>7. /\ audited' \in [Case!Ids -> Case!CaseStatus] /\ unrecorded' \subseteq Case!Ids
      /\ contested' \subseteq Requests
  BY <1>1 DEF CaseInv, Case!TypeOK
<1>. QED
  BY <1>1, <1>2, <1>4, <1>5, <1>6, <1>7, HandlerStep

\* The status is written; the case waits for its entry.
LEMMA SetCaseStatusStep ==
  ASSUME CaseInv, NEW r \in Requests, Case!SetCaseStatus(r)
  PROVE  CaseInv'
<1> DEFINE q == handler[r]
           s == [q EXCEPT !.pc = "record"]
<1>1. PICK i : i = q.id
  OBVIOUS
<1> DEFINE new == IF i \in Reports THEN Case!Column(cases[i], q.from, q.to) ELSE q.to
<1>2. /\ q.pc = "setStatus" /\ Case!Goto(r, s) /\ audited' = audited
      /\ cases' = [cases EXCEPT ![i] = new]
      /\ contested' = contested \cup Case!Handling(r, i) /\ unrecorded' = unrecorded \cup {i}
  BY <1>1 DEF Case!SetCaseStatus
<1>3. q \in Handling /\ i \in Case!Ids /\ cases[i] # "NONE" /\ q.to \in Goals(i)
  BY <1>1, <1>2, HandlerKinds DEF CaseInv, CasesOpen, Handling
<1>4. cases[i] \in Case!CaseStatus /\ q.to \in Case!CaseStatus
  BY <1>3 DEF CaseInv, Case!TypeOK, Handling
<1>5. new = cases[i] \/ new = q.to
  BY DEF Case!Column
<1>6. q.to # "NONE" /\ (i \in Inquiries => q.to \in Case!InquiryStatus)
  BY <1>3 DEF Goals, Case!InquiryStatus
<1>7. /\ new \in Case!CaseStatus /\ new # "NONE"
      /\ i \in Inquiries => new \in Case!InquiryStatus
  <2>1. i \in Inquiries => cases[i] \in Case!InquiryStatus
    BY DEF CaseInv, CasesOpen
  <2>. QED
    BY <1>3, <1>4, <1>5, <1>6, <2>1
<1>8. r \notin contested => new = q.to
  BY <1>1, <1>2 DEF CaseInv, RightCase, Case!Column
<1>9. s \in Handling /\ s.pc = "record" /\ s.id = i /\ s.to = q.to
  BY <1>1, <1>3 DEF Handling
<1> HIDE DEF s, new
<1>10. /\ handler'[r] = s /\ \A p \in Requests \ {r} : handler'[p] = handler[p]
       /\ handler' \in [Requests -> {Case!Idle} \cup Handling]
  BY <1>2, <1>9, HandlerGoto DEF CaseInv
<1>11. /\ cases'[i] = new /\ \A j \in Case!Ids \ {i} : cases'[j] = cases[j]
       /\ cases' \in [Case!Ids -> Case!CaseStatus]
  BY <1>2, <1>3, <1>7 DEF CaseInv, Case!TypeOK
<1>12. /\ contested \subseteq contested' /\ contested' \subseteq Requests
       /\ \A p \in Requests \ {r} :
            handler[p].pc # "idle" /\ handler[p].id = i => p \in contested'
  BY <1>2, HandlerKinds DEF CaseInv, Case!TypeOK, Case!Handling, Handling
<1>13. Case!TypeOK'
  BY <1>2, <1>3, <1>10, <1>11, <1>12 DEF CaseInv, Case!TypeOK, Handling
<1>14. \A p \in Requests : handler[p].pc # "idle" => handler[p].id \in Case!Ids
  BY HandlerKinds DEF CaseInv, Handling
<1>15. CasesOpen'
  <2>1. \A j \in Inquiries : cases'[j] \in Case!InquiryStatus
    BY <1>7, <1>11 DEF CaseInv, CasesOpen, Case!Ids
  <2>2. \A j \in Case!Ids : cases'[j] = "NONE" => audited'[j] = "OPEN"
    BY <1>2, <1>7, <1>11 DEF CaseInv, CasesOpen
  <2>3. ASSUME NEW p \in Requests, handler'[p].pc # "idle"
        PROVE  cases'[handler'[p].id] # "NONE" /\ handler'[p].to \in Goals(handler'[p].id)
    <3>1. CASE p = r
      BY <1>3, <1>7, <1>9, <1>10, <1>11, <3>1
    <3>2. CASE p # r
      BY <1>7, <1>10, <1>11, <1>14, <2>3, <3>2 DEF CaseInv, CasesOpen
    <3>. QED
      BY <3>1, <3>2
  <2>. QED
    BY <2>1, <2>2, <2>3 DEF CasesOpen, Goals
<1>16. Case!LogTellsStatus'
  BY <1>2, <1>11 DEF CaseInv, Case!LogTellsStatus
<1>17. ASSUME NEW p \in Requests, p \notin contested' PROVE RightCase(handler[p])'
  <2>1. CASE p = r
    BY <1>8, <1>9, <1>10, <1>11, <1>12, <1>17, <2>1 DEF RightCase
  <2>2. CASE p # r
    <3>1. /\ handler'[p] = handler[p] /\ p \notin contested
          /\ handler[p].pc # "idle" => handler[p].id # i
      BY <1>10, <1>12, <1>17, <2>2
    <3>. QED
      BY <1>11, <1>14, <3>1 DEF CaseInv, RightCase
  <2>. QED
    BY <2>1, <2>2
<1>. QED
  BY <1>13, <1>15, <1>16, <1>17 DEF CaseInv

\* The entry names the status the case has, or is noted as out of order.
LEMMA RecordCaseStep ==
  ASSUME CaseInv, NEW r \in Requests, Case!RecordCase(r)
  PROVE  CaseInv'
<1> DEFINE q == handler[r]
<1>1. PICK i : i = q.id
  OBVIOUS
<1>2. /\ q.pc = "record" /\ Case!Goto(r, Case!Idle) /\ UNCHANGED <<cases, contested>>
      /\ audited' = [audited EXCEPT ![i] = q.to]
      /\ unrecorded' = IF r \in contested THEN unrecorded \cup {i} ELSE unrecorded \ {i}
  BY <1>1 DEF Case!RecordCase, Case!Recorded
<1>3. i \in Case!Ids /\ q.to \in Case!CaseStatus /\ cases[i] # "NONE"
  BY <1>1, <1>2, HandlerKinds DEF CaseInv, CasesOpen, Handling
<1>4. /\ audited'[i] = q.to /\ \A j \in Case!Ids \ {i} : audited'[j] = audited[j]
      /\ audited' \in [Case!Ids -> Case!CaseStatus] /\ unrecorded' \subseteq Case!Ids
  BY <1>2, <1>3 DEF CaseInv, Case!TypeOK
<1>5. Case!LogTellsStatus'
  <2>1. r \notin contested => q.to = cases[i]
    BY <1>1, <1>2 DEF CaseInv, RightCase
  <2>. QED
    BY <1>2, <1>3, <1>4, <2>1 DEF CaseInv, Case!LogTellsStatus
<1>6. RightCase(Case!Idle) /\ contested' \subseteq Requests
  BY <1>2 DEF RightCase, CaseInv, Case!TypeOK
<1>. QED
  BY <1>2, <1>3, <1>4, <1>5, <1>6, HandlerStep

LEMMA AbortCaseStep ==
  ASSUME CaseInv, NEW r \in Requests, Case!Abort(r)
  PROVE  CaseInv'
<1>1. Case!Goto(r, Case!Idle) /\ UNCHANGED <<cases, audited, contested, unrecorded>>
  BY DEF Case!Abort
<1>2. Case!LogTellsStatus' /\ RightCase(Case!Idle)
  BY <1>1 DEF CaseInv, Case!LogTellsStatus, RightCase
<1>3. /\ audited' \in [Case!Ids -> Case!CaseStatus] /\ unrecorded' \subseteq Case!Ids
      /\ contested' \subseteq Requests
  BY <1>1 DEF CaseInv, Case!TypeOK
<1>. QED
  BY <1>1, <1>2, <1>3, HandlerStep

LEMMA CaseInit == ASSUME Case!Init PROVE CaseInv
<1>1. \A i \in Inquiries : i \in Case!Ids /\ i \notin Reports
  BY ConsoleAssumption DEF Case!Ids
<1>2. Case!TypeOK
  BY DEF Case!Init, Case!TypeOK, Case!CaseStatus, Case!InquiryStatus
<1>3. CasesOpen
  BY <1>1 DEF Case!Init, CasesOpen, Case!InquiryStatus
<1>4. Case!LogTellsStatus /\ \A r \in Requests : RightCase(handler[r])
  BY DEF Case!Init, Case!LogTellsStatus, RightCase
<1>. QED
  BY <1>2, <1>3, <1>4 DEF CaseInv

LEMMA CaseNext ==
  ASSUME CaseInv, [Case!Next]_caseVars
  PROVE  CaseInv'
<1>1. CASE UNCHANGED caseVars
  BY <1>1 DEF caseVars, CaseInv, Case!TypeOK, CasesOpen, Goals, Case!LogTellsStatus, RightCase
<1>2. CASE Case!Next
  BY <1>2, ReportProfileStep, FindCaseStep, LoadReportStep, SetCaseStatusStep, RecordCaseStep,
     AbortCaseStep DEF Case!Next
<1>. QED
  BY <1>1, <1>2

\* The inductive invariant holds in every behaviour (InquiryService and the
\* review of reports).
THEOREM CaseInvariant == Case!Spec => []CaseInv
<1>1. CaseInv /\ [Case!Next]_(Case!vars) => CaseInv'
  BY CaseNext DEF Case!vars, caseVars
<1>. QED
  BY CaseInit, <1>1, PTL DEF Case!Spec

-----------------------------------------------------------------------------
(* The console                                                             *)

\* A behaviour of the console is one of each of its parts.
THEOREM ConsoleParts ==
  Spec => /\ PasskeySpec /\ PolicySpec /\ MailingSpec
          /\ Announcement!Spec /\ Help!Spec /\ Case!Spec
<1> USE DEF Next, vars, PasskeysWork, PoliciesWork, AnnouncementsWork, HelpWorks,
           CasesWork, MailingsWork
<1>1. Init => /\ PasskeyInit /\ PolicyInit /\ MailingInit
              /\ Announcement!Init /\ Help!Init /\ Case!Init
  BY DEF Init
<1>2. [Next]_vars => [PasskeyNext]_passkeyVars
  OBVIOUS
<1>3. [Next]_vars => [PolicyNext]_policyVars
  OBVIOUS
<1>4. [Next]_vars => [MailingNext]_mailingVars
  OBVIOUS
<1>5. [Next]_vars => [Announcement!Next]_(Announcement!vars)
  BY DEF noticeVars, Announcement!vars
<1>6. [Next]_vars => [Help!Next]_(Help!vars)
  BY DEF helpVars, Help!vars
<1>7. [Next]_vars => [Case!Next]_(Case!vars)
  BY DEF caseVars, Case!vars
<1>. QED
  BY <1>1, <1>2, <1>3, <1>4, <1>5, <1>6, <1>7, PTL
     DEF Spec, PasskeySpec, PolicySpec, MailingSpec, Announcement!Spec, Help!Spec, Case!Spec

\* Every part of the console keeps its types.
THEOREM ConsoleTyped == Spec => []TypeOK
<1>1. NoticeInv => Announcement!TypeOK
  BY DEF NoticeInv
<1>2. HelpInv => Help!TypeOK
  BY DEF HelpInv
<1>3. CaseInv => Case!TypeOK
  BY DEF CaseInv
<1>. QED
  BY <1>1, <1>2, <1>3, ConsoleParts, PasskeysTyped, PoliciesTyped, MailingsTyped,
     NoticeInvariant, HelpInvariant, CaseInvariant, PTL DEF TypeOK

\* An operation on an announcement writes what was asked of it, for any number
\* of pages and requests: update, publish and unpublish save all they read, and
\* overwrite nothing unless the row was written since, but for an edit that
\* sets the date back to the minute (save, toLocalInput).
THEOREM NoticesAreWrittenAsAsked == Spec => OnlyWhatWasAsked
<1> DEFINE Written ==
      \A r \in Requests : \A x \in Notices :
        (clerk[r].pc = "flush" /\ clerk'[r] = Announcement!Idle /\ clerk[r].notice = x
           /\ r \notin disturbed /\ notices'[x] # notices[x])
        => /\ notices[x] # None /\ notices'[x] # None
           /\ \A c \in {"title", "start", "status"} :
                Announcement!AsAsked(clerk[r], c, notices[x][c], notices'[x][c])
<1>1. NoticeInv /\ [Announcement!Next]_(Announcement!vars) => [Written]_(Announcement!vars)
  BY NoticeWritten
<1>. QED
  BY <1>1, ConsoleParts, NoticeInvariant, PTL
     DEF Announcement!Spec, OnlyWhatWasAsked, Announcement!OnlyWhatWasAsked

\* A published announcement is deleted only by a request that was admitted
\* while it was a draft (remove).
THEOREM NoticesAreDeletedAsDrafts == Spec => DeletedOnlyAsDraft
<1> DEFINE AsDraft ==
      \A x \in Notices :
        (notices[x] # None /\ notices[x].status = "published" /\ notices'[x] = None)
        => \E r \in disturbed : clerk[r].pc = "delete" /\ clerk[r].notice = x
<1>1. NoticeInv /\ [Announcement!Next]_(Announcement!vars) => [AsDraft]_(Announcement!vars)
  BY NoticeDeleted
<1>. QED
  BY <1>1, ConsoleParts, NoticeInvariant, PTL
     DEF Announcement!Spec, DeletedOnlyAsDraft, Announcement!DeletedOnlyAsDraft

\* An edit of a help article that no other save crossed leaves the column alone
\* that it was not asked to change, for any number of requests (upsert,
\* setStatus).
THEOREM ArticleEditsKeepTheRest == Spec => EditsKeepTheRest
<1> DEFINE KeepsTheRest ==
      \A r \in Requests :
        LET q == agent[r] IN
        (q.pc = "flush" /\ agent'[r] = Help!Idle /\ r \notin crossed)
        => \/ UNCHANGED articles
           \/ articles[q.article] = None
           \/ \A c \in {"slug", "status"} \ q.asked :
                articles'[q.article][c] = articles[q.article][c]
<1>1. HelpInv /\ [Help!Next]_(Help!vars) => [KeepsTheRest]_(Help!vars)
  BY ArticleWritten
<1>. QED
  BY <1>1, ConsoleParts, HelpInvariant, PTL DEF Help!Spec, EditsKeepTheRest, Help!EditsKeepTheRest

\* The last entry of the audit log names the status of an inquiry or report,
\* unless a request died between its write and its entry or another one
\* crossed it (updateStatus, reviewReport).
THEOREM CasesAreLogged == Spec => []LogTellsStatus
<1>1. CaseInv => LogTellsStatus
  BY DEF CaseInv, LogTellsStatus
<1>. QED
  BY <1>1, ConsoleParts, CaseInvariant, PTL

\* What is proved of passkeys, policies and mail holds of the console.
THEOREM PartsHold ==
  Spec => /\ [](ChallengeUsedOnce /\ DeletedStaysDeleted) /\ CounterFallsOnlyToOverlap
          /\ []LonePublicationTakesEffect
          /\ [](MailedOnce /\ SentMeansMailed) /\ OptOutsRespected
BY ConsoleParts, ChallengesAreUsedOnce, DeletionsHold, CountersFallOnlyToOverlap,
   PublicationsTakeEffect, NobodyIsMailedTwice, SentReachesAll,
   OptOutsAreRespected, PTL
=============================================================================
