-------------------------- MODULE EmailSends_proofs --------------------------
(* The inductive invariant of EmailSends, and the safety that follows.       *)
EXTENDS EmailSends, TLAPS

\* The row lock has one holder.
OneHolder ==
    \A w1, w2 \in Workers : claimed[w1] # Nobody /\ claimed[w1] = claimed[w2] => w1 = w2

\* While a worker holds the lock the committed status stays 'scheduled'.
HeldIsScheduled ==
    \A w \in Workers : claimed[w] # Nobody => send[claimed[w]].status = "scheduled"

\* A row id that is not used yet has no history.
FreshSends ==
    \A s \in Sends : send[s].status = "absent" =>
        /\ aborts[s] = 0
        /\ \A u \in Users : recipient[s][u] = NoRow

\* A committed row: its message is one the provider accepted; it has one only
\* once its send is settled; until then a candidate is pending.
RowInv(s, u) ==
    /\ recipient[s][u].message <= copies[s][u]
    /\ recipient[s][u].message # 0 =>
           recipient[s][u].send /\ send[s].status \in {"sent", "failed"}
    /\ recipient[s][u].send /\ send[s].status \in {"scheduled", "cancelled"} =>
           recipient[s][u].status = "pending"

\* All committed rows are so.
RowsInv == \A s \in Sends, u \in Users : RowInv(s, u)

\* What the transaction of a worker has written so far.
DraftInv(w, u) ==
    /\ draft[w][u].send = recipient[claimed[w]][u].send
    /\ draft[w][u].message <= copies[claimed[w]][u]
    /\ u \in todo[w] =>
          /\ draft[w][u].send
          /\ draft[w][u].status = "sending"
          /\ draft[w][u].message = 0
          /\ copies[claimed[w]][u] <= aborts[claimed[w]]
    /\ u \notin todo[w] /\ draft[w][u].send =>
          \/ draft[w][u].status = "sent" /\ draft[w][u].message # 0
          \/ draft[w][u].status = "failed" /\ draft[w][u].message = 0
    /\ u \notin todo[w] /\ ~draft[w][u].send =>
          draft[w][u].status \in {"none", "skipped"} /\ draft[w][u].message = 0

\* So are the drafts of the workers that hold a send.
DraftsInv ==
    \A w \in Workers : claimed[w] # Nobody => \A u \in Users : DraftInv(w, u)

\* Events are of copies, which are numbered from 1.
EmittedInv == \A e \in emitted : e.message.copy # 0

\* The inductive invariant.  None of the safety invariants is inductive alone:
\* they say nothing of the drafts that a commit is going to publish.
IInv ==
    /\ TypeOK
    /\ OneHolder
    /\ HeldIsScheduled
    /\ FreshSends
    /\ RowsInv
    /\ DraftsInv
    /\ EmittedInv
    /\ CopiesPerAttempt
    /\ SkippedRowsReachNobody
    /\ ReportedSentWasAccepted
    /\ SendAgreesWithRows
    /\ BounceOrComplaintSuppresses

-----------------------------------------------------------------------------
(* Types                                                                    *)

USE EmailSendsAssumption

\* An update of its status leaves a row a row.
LEMMA StatusUpdates ==
    /\ \A r \in SendRow, x \in SendStatuses : [r EXCEPT !.status = x] \in SendRow
    /\ \A r \in Row, x \in RowStatuses : [r EXCEPT !.status = x] \in Row
    /\ \A r \in Row, n \in Nat : [r EXCEPT !.status = "sent", !.message = n] \in Row
    /\ NoRow \in Row
    /\ ProviderEventTypes \cup {"sending", "sent", "failed"} \subseteq RowStatuses
    /\ "cancelled" \in SendStatuses
  BY DEF SendRow, Row, NoRow, RowStatuses, ProviderEventTypes, SendStatuses

\* A provider call is made for a send that is held.
LEMMA SendChunkTypes ==
    ASSUME TypeOK, NEW w \in Workers, NEW chunk, SendChunk(w, chunk)
    PROVE  /\ todo' \in [Workers -> SUBSET Users]
           /\ claimed[w] \in Sends
  BY DEF TypeOK, SendChunk

\* Every step keeps the types.
LEMMA TypesPreserved == TypeOK /\ [Next]_vars => TypeOK'
<1> SUFFICES ASSUME TypeOK, [Next]_vars PROVE TypeOK'
  OBVIOUS
<1>1. CASE Tick
  BY <1>1 DEF TypeOK, Tick, userVars, rowVars, workerVars, providerVars
<1>2. ASSUME NEW s \in Sends, NEW scope \in AudienceScopes, NEW at \in 0..MaxTime,
             PrepareNewsletterSend(s, scope, at)
      PROVE  TypeOK'
  <2>1. \A u \in Users : PreparedRow(scope, u) \in Row
    BY DEF PreparedRow, NoRow, Row, RowStatuses
  <2>2. [status |-> "scheduled", kind |-> "newsletter", scheduledAt |-> at] \in SendRow
    BY DEF SendRow, SendStatuses
  <2> QED
    BY <1>2, <2>1, <2>2 DEF TypeOK, PrepareNewsletterSend, userVars, workerVars, providerVars
<1>3. ASSUME NEW s \in Sends, CancelSend(s)
      PROVE  TypeOK'
  <2>1. [send[s] EXCEPT !.status = "cancelled"] \in SendRow
    BY StatusUpdates DEF TypeOK
  <2> QED
    BY <1>3, <2>1 DEF TypeOK, CancelSend, userVars, workerVars, providerVars
<1>4. ASSUME NEW w \in Workers, NEW s \in Sends, ClaimDueSend(w, s)
      PROVE  TypeOK'
  <2>1. \A u \in Users : [recipient[s][u] EXCEPT !.status = "sending"] \in Row
    <3>1. \A u \in Users : recipient[s][u] \in Row
      BY DEF TypeOK
    <3> QED
      BY <3>1, StatusUpdates
  <2> QED
    BY <1>4, <2>1 DEF TypeOK, ClaimDueSend, Pending, userVars, rowVars, providerVars
<1>5. ASSUME NEW w \in Workers, NEW chunk \in SUBSET todo[w], ChunkAccepted(w, chunk)
      PROVE  TypeOK'
  <2>1. todo' \in [Workers -> SUBSET Users] /\ claimed[w] \in Sends
    BY <1>5, SendChunkTypes DEF ChunkAccepted
  <2>2. copies' \in [Sends -> [Users -> Nat]]
    <3>1. [u \in Users |-> IF u \in chunk THEN copies[claimed[w]][u] + 1
                           ELSE copies[claimed[w]][u]] \in [Users -> Nat]
      BY <2>1 DEF TypeOK
    <3> QED
      BY <1>5, <2>1, <3>1 DEF TypeOK, ChunkAccepted, ProviderAccepts
  <2>3. \A u \in Users : [draft[w][u] EXCEPT !.status = "sent",
                            !.message = copies[claimed[w]][u] + 1] \in Row
    <3>1. \A u \in Users : draft[w][u] \in Row /\ copies[claimed[w]][u] + 1 \in Nat
      BY <2>1 DEF TypeOK
    <3> QED
      BY <3>1, StatusUpdates
  <2>4. draft' \in [Workers -> [Users -> Row]]
    BY <1>5, <2>3 DEF TypeOK, ChunkAccepted
  <2> QED
    BY <1>5, <2>1, <2>2, <2>4 DEF TypeOK, ChunkAccepted, userVars, rowVars
<1>6. ASSUME NEW w \in Workers, NEW chunk \in SUBSET todo[w], 
             RecordFailed(w, chunk)
      PROVE  draft' \in [Workers -> [Users -> Row]]
  <2>1. \A u \in Users : [draft[w][u] EXCEPT !.status = "failed"] \in Row
    <3>1. \A u \in Users : draft[w][u] \in Row
      BY DEF TypeOK
    <3> QED
      BY <3>1, StatusUpdates
  <2> QED
    BY <1>6, <2>1 DEF TypeOK, RecordFailed
<1>7. ASSUME NEW w \in Workers, NEW chunk \in SUBSET todo[w], ChunkRejected(w, chunk)
      PROVE  TypeOK'
  <2>1. todo' \in [Workers -> SUBSET Users] /\ draft' \in [Workers -> [Users -> Row]]
    BY <1>6, <1>7, SendChunkTypes DEF ChunkRejected
  <2> QED
    BY <1>7, <2>1 DEF TypeOK, ChunkRejected, userVars, rowVars, providerVars
<1>8. ASSUME NEW w \in Workers, NEW chunk \in SUBSET todo[w], ChunkAnswerLost(w, chunk)
      PROVE  TypeOK'
  <2>1. /\ todo' \in [Workers -> SUBSET Users]
        /\ claimed[w] \in Sends
        /\ draft' \in [Workers -> [Users -> Row]]
    BY <1>6, <1>8, SendChunkTypes DEF ChunkAnswerLost
  <2>2. copies' \in [Sends -> [Users -> Nat]]
    BY <1>8, <2>1 DEF TypeOK, ChunkAnswerLost, ProviderAccepts
  <2> QED
    BY <1>8, <2>1, <2>2 DEF TypeOK, ChunkAnswerLost, userVars, rowVars
<1>9. ASSUME NEW w \in Workers, CommitDispatch(w)
      PROVE  TypeOK'
  <2>1. FinalStatus(w) \in SendStatuses
    BY DEF FinalStatus, SendStatuses
  <2>2. claimed[w] \in Sends
    BY <1>9 DEF TypeOK, CommitDispatch
  <2>3. [send[claimed[w]] EXCEPT !.status = FinalStatus(w)] \in SendRow
    BY <2>1, <2>2, StatusUpdates DEF TypeOK
  <2> QED
    BY <1>9, <2>2, <2>3, StatusUpdates DEF TypeOK, CommitDispatch, Release, userVars, providerVars
<1>10. ASSUME NEW w \in Workers, AbortDispatch(w)
       PROVE  TypeOK'
  <2>1. [u \in Users |-> NoRow] \in [Users -> Row]
    BY StatusUpdates
  <2>2. claimed[w] \in Sends
    BY <1>10 DEF TypeOK, AbortDispatch
  <2> QED
    BY <1>10, <2>1, <2>2 DEF TypeOK, AbortDispatch, Release, Nobody, userVars, rowVars, providerVars
<1>11. ASSUME NEW s \in Sends, NEW u \in Users, NEW type \in EventTypes,
              NEW n \in 1..copies[s][u],
              ProviderEmits([send |-> s, user |-> u, copy |-> n], type)
       PROVE  TypeOK'
  <2>1. n \in Nat
    BY DEF TypeOK
  <2>2. [message |-> [send |-> s, user |-> u, copy |-> n], type |-> type] \in Event
    BY <2>1 DEF Event, Message, ProviderEventTypes
  <2> QED
    BY <1>11, <2>2 DEF TypeOK, ProviderEmits, userVars, rowVars, workerVars
<1>12. ASSUME NEW e \in emitted, ApplyResendEmailEvent(e)
       PROVE  TypeOK'
  <2>1. e \in Event /\ e.message.send \in Sends /\ e.message.user \in Users
        /\ e.type \in ProviderEventTypes
    BY DEF TypeOK, Event, Message
  <2>2. [event |-> e, status |-> "applied"] \in Answer
    BY <2>1 DEF Answer
  <2>5. [recipient[e.message.send][e.message.user] EXCEPT !.status = e.type] \in Row
    <3>0. recipient[e.message.send] \in [Users -> Row]
      BY <2>1 DEF TypeOK
    <3>1. recipient[e.message.send][e.message.user] \in Row
      BY <2>1, <3>0
    <3>2. e.type \in RowStatuses
      BY <2>1, StatusUpdates
    <3> QED
      BY <3>1, <3>2, StatusUpdates
  <2>3. recipient' \in [Sends -> [Users -> Row]]
    BY <1>12, <2>1, <2>5 DEF TypeOK, ApplyResendEmailEvent
  <2>4. suppressed' \in [Users -> SUBSET {"newsletters", "all_email"}]
    BY <1>12, <2>1 DEF TypeOK, ApplyResendEmailEvent
  <2> QED
    BY <1>12, <2>2, <2>3, <2>4 DEF TypeOK, ApplyResendEmailEvent, workerVars
<1>13. ASSUME NEW e \in emitted, IgnoreResendEmailEvent(e)
       PROVE  TypeOK'
  <2>1. [event |-> e, status |-> "ignored"] \in Answer
    BY DEF TypeOK, Answer
  <2> QED
    BY <1>13, <2>1 DEF TypeOK, IgnoreResendEmailEvent, userVars, rowVars, workerVars
<1>14. ASSUME NEW u \in ActiveUsers, NEW preference \in Preferences,
              SaveEmailPreference(u, preference)
       PROVE  TypeOK'
  <2>1. u \in Users
    BY DEF EmailSendsAssumption
  <2>2. [account[u] EXCEPT !.preference = preference] \in Account
    <3>1. account[u] \in Account
      BY <2>1 DEF TypeOK
    <3> QED
      BY <3>1 DEF Account
  <2> QED
    BY <1>14, <2>1, <2>2 DEF TypeOK, SaveEmailPreference, rowVars, workerVars, providerVars
<1>15. ASSUME NEW u \in ActiveUsers, UnsubscribeAll(u)
       PROVE  TypeOK'
  BY <1>14, <1>15 DEF UnsubscribeAll, Preferences
<1>16. ASSUME NEW u \in ActiveUsers, UnsubscribePromotional(u)
       PROVE  TypeOK'
  <2>1. account[u].preference \in Preferences
    BY DEF TypeOK, Account
  <2> QED
    BY <1>14, <1>16, <2>1 DEF UnsubscribePromotional, Preferences
<1>17. ASSUME NEW u \in ActiveUsers, UnsubscribeNewsletters(u)
       PROVE  TypeOK'
  <2>1. account' \in [Users -> Account]
    <3>1. u \in Users
      BY DEF EmailSendsAssumption
    <3>2. account[u] \in Account
      BY <3>1 DEF TypeOK
    <3>3. \A p \in Preferences : [account[u] EXCEPT !.preference = p] \in Account
      BY <3>2 DEF Account
    <3>4. account[u].preference \in Preferences /\ "no_email" \in Preferences
      BY <3>2 DEF Account, Preferences
    <3> QED
      BY <1>17, <3>1, <3>3, <3>4 DEF TypeOK, UnsubscribeNewsletters
  <2>2. suppressed' \in [Users -> SUBSET {"newsletters", "all_email"}]
    BY <1>17 DEF TypeOK, UnsubscribeNewsletters
  <2> QED
    BY <1>17, <2>1, <2>2 DEF TypeOK, UnsubscribeNewsletters, rowVars, workerVars, providerVars
<1>18. CASE UNCHANGED vars
  BY <1>18 DEF TypeOK, vars, userVars, rowVars, workerVars, providerVars
<1> QED
  BY <1>1, <1>2, <1>3, <1>4, <1>5, <1>7, <1>8, <1>9, <1>10, <1>11, <1>12, <1>13,
     <1>14, <1>15, <1>16, <1>17, <1>18
     DEF Next, AdminStep, DispatchStep, ProviderStep, UserStep

-----------------------------------------------------------------------------
(* The inductive invariant                                                  *)

\* The actions that touch no row, no lock and no counter of the dispatch.
LEMMA QuietSteps ==
    ASSUME IInv, TypeOK', UNCHANGED <<rowVars, workerVars, copies, emitted, aborts>>,
           \A u \in Users : suppressed[u] \subseteq suppressed'[u]
    PROVE  IInv'
<1>1. /\ OneHolder' /\ HeldIsScheduled' /\ FreshSends' /\ RowsInv' /\ EmittedInv'
      /\ SkippedRowsReachNobody' /\ ReportedSentWasAccepted' /\ SendAgreesWithRows'
  BY DEF IInv, OneHolder, HeldIsScheduled, FreshSends, RowsInv, RowInv, EmittedInv,
         SkippedRowsReachNobody, ReportedSentWasAccepted, SendAgreesWithRows,
         SendAgrees, rowVars, workerVars
<1>2. CopiesPerAttempt'
  BY DEF IInv, CopiesPerAttempt, Locked, rowVars, workerVars
<1>3. DraftsInv'
  BY DEF IInv, DraftsInv, DraftInv, rowVars, workerVars
<1>4. BounceOrComplaintSuppresses'
  BY DEF IInv, BounceOrComplaintSuppresses, rowVars
<1> QED
  BY <1>1, <1>2, <1>3, <1>4 DEF IInv

\* A preparation writes the rows of a send that had none.
LEMMA PrepareKeepsIInv ==
    ASSUME IInv, TypeOK', NEW s \in Sends, NEW scope, NEW at,
           PrepareNewsletterSend(s, scope, at)
    PROVE  IInv'
<1>1. \A u \in Users :
         \/ PreparedRow(scope, u) = NoRow
         \/ PreparedRow(scope, u) = [send |-> TRUE, status |-> "pending", message |-> 0]
         \/ PreparedRow(scope, u) = [send |-> FALSE, status |-> "skipped", message |-> 0]
  BY DEF PreparedRow
<1>2. \A u \in Users : recipient'[s][u] = PreparedRow(scope, u)
  BY DEF IInv, TypeOK, PrepareNewsletterSend
<1>3. \A t \in Sends : t # s => recipient'[t] = recipient[t] /\ send'[t] = send[t]
  BY DEF IInv, TypeOK, PrepareNewsletterSend
<1>4. send[s].status = "absent" /\ send'[s].status = "scheduled"
  BY DEF IInv, TypeOK, PrepareNewsletterSend, NextId
<1>5. UNCHANGED <<userVars, workerVars, copies, emitted, aborts>>
  BY DEF PrepareNewsletterSend, providerVars
<1>6. ~Locked(s)
  <2>1. s # Nobody
    BY DEF Sends, Nobody
  <2> QED
    BY <2>1, <1>4 DEF IInv, HeldIsScheduled, Locked
<1>7. \A u \in Users : copies[s][u] = 0
  <2>1. \A u \in Users : copies[s][u] \in Nat
    BY DEF IInv, TypeOK
  <2>2. aborts[s] = 0
    BY <1>4 DEF IInv, FreshSends
  <2>3. \A u \in Users : copies[s][u] <= aborts[s] + 0
    BY <1>4, <1>6 DEF IInv, CopiesPerAttempt
  <2> QED
    BY <2>1, <2>2, <2>3
<1>8. \A w \in Workers : claimed[w] # s
  BY <1>6 DEF Locked
<1>9. \A u \in Users :
         /\ recipient'[s][u].message = 0
         /\ recipient'[s][u].status \in {"none", "skipped", "pending"}
         /\ recipient'[s][u].send <=> recipient'[s][u].status = "pending"
  BY <1>1, <1>2 DEF NoRow
<1>10. OneHolder' /\ EmittedInv'
  BY <1>5 DEF IInv, OneHolder, EmittedInv, workerVars
<1>11. HeldIsScheduled'
  BY <1>3, <1>5, <1>8 DEF IInv, TypeOK, HeldIsScheduled, workerVars
<1>12. FreshSends'
  BY <1>3, <1>4, <1>5 DEF IInv, FreshSends
<1>13. RowsInv'
  <2> SUFFICES ASSUME NEW t \in Sends, NEW u \in Users PROVE RowInv(t, u)'
    BY DEF RowsInv
  <2>1. CASE t = s
    BY <2>1, <1>4, <1>5, <1>7, <1>9 DEF RowInv
  <2>2. CASE t # s
    BY <2>2, <1>3, <1>5 DEF IInv, RowsInv, RowInv
  <2> QED
    BY <2>1, <2>2
<1>14. DraftsInv'
  BY <1>3, <1>5, <1>8 DEF IInv, TypeOK, DraftsInv, DraftInv, workerVars
<1>15. CopiesPerAttempt'
  <2>1. \A t \in Sends : Locked(t)' <=> Locked(t)
    BY <1>5 DEF Locked, workerVars
  <2> QED
    BY <2>1, <1>3, <1>4, <1>5, <1>7 DEF IInv, TypeOK, CopiesPerAttempt, FreshSends
<1>16. SkippedRowsReachNobody'
  BY <1>3, <1>5, <1>7, <1>9 DEF IInv, SkippedRowsReachNobody
<1>17. ReportedSentWasAccepted'
  BY <1>3, <1>5, <1>9 DEF IInv, ReportedSentWasAccepted
<1>18. SendAgreesWithRows'
  <2>1. SendAgrees(s)'
    BY <1>4, <1>9 DEF SendAgrees
  <2>2. \A t \in Sends : t # s => SendAgrees(t)'
    BY <1>3 DEF IInv, SendAgreesWithRows, SendAgrees
  <2> QED
    BY <2>1, <2>2 DEF SendAgreesWithRows
<1>19. BounceOrComplaintSuppresses'
  BY <1>3, <1>5, <1>9 DEF IInv, BounceOrComplaintSuppresses, userVars
<1> QED
  BY <1>10, <1>11, <1>12, <1>13, <1>14, <1>15, <1>16, <1>17, <1>18, <1>19 DEF IInv

\* Only a send that nobody holds is cancelled.
LEMMA CancelKeepsIInv ==
    ASSUME IInv, TypeOK', NEW s \in Sends, CancelSend(s)
    PROVE  IInv'
<1>1. \A t \in Sends : t # s => send'[t] = send[t]
  BY DEF IInv, TypeOK, CancelSend
<1>2. send[s].status = "scheduled" /\ send'[s].status = "cancelled"
  BY DEF IInv, TypeOK, CancelSend, SendRow
<1>3. UNCHANGED <<userVars, recipient, workerVars, copies, emitted, aborts>>
  BY DEF CancelSend, providerVars
<1>4. \A w \in Workers : claimed[w] # s
  BY DEF CancelSend, Locked
<1>5. OneHolder' /\ EmittedInv'
  BY <1>3 DEF IInv, OneHolder, EmittedInv, workerVars
<1>6. HeldIsScheduled'
  BY <1>1, <1>3, <1>4 DEF IInv, TypeOK, HeldIsScheduled, workerVars
<1>7. FreshSends'
  BY <1>1, <1>2, <1>3 DEF IInv, FreshSends
<1>8. RowsInv'
  BY <1>1, <1>2, <1>3 DEF IInv, RowsInv, RowInv
<1>9. DraftsInv'
  BY <1>3 DEF IInv, DraftsInv, DraftInv, workerVars
<1>10. CopiesPerAttempt'
  <2>1. \A t \in Sends : Locked(t)' <=> Locked(t)
    BY <1>3 DEF Locked, workerVars
  <2> QED
    BY <2>1, <1>1, <1>2, <1>3 DEF IInv, CopiesPerAttempt
<1>11. SkippedRowsReachNobody' /\ ReportedSentWasAccepted' /\ BounceOrComplaintSuppresses'
  BY <1>3 DEF IInv, SkippedRowsReachNobody, ReportedSentWasAccepted,
              BounceOrComplaintSuppresses, userVars
<1>12. SendAgreesWithRows'
  <2>1. \A u \in Users : recipient[s][u].status \in {"none", "skipped", "pending"}
    BY <1>2 DEF IInv, SendAgreesWithRows, SendAgrees
  <2>2. SendAgrees(s)'
    BY <2>1, <1>2, <1>3 DEF SendAgrees
  <2>3. ASSUME NEW t \in Sends, t # s PROVE SendAgrees(t)'
    <3>1. SendAgrees(t)
      BY DEF IInv, SendAgreesWithRows
    <3>2. send'[t] = send[t] /\ recipient' = recipient
      BY <2>3, <1>1, <1>3
    <3> QED
      BY <3>1, <3>2 DEF SendAgrees
  <2> QED
    BY <2>2, <2>3 DEF SendAgreesWithRows
<1> QED
  BY <1>5, <1>6, <1>7, <1>8, <1>9, <1>10, <1>11, <1>12 DEF IInv

\* A claim drafts the pending rows of a send that nobody holds.
LEMMA ClaimKeepsIInv ==
    ASSUME IInv, TypeOK', NEW w \in Workers, NEW s \in Sends, ClaimDueSend(w, s)
    PROVE  IInv'
<1>1. UNCHANGED <<userVars, rowVars, copies, emitted, aborts>>
  BY DEF ClaimDueSend, providerVars
<1>2. send[s].status = "scheduled" /\ s # Nobody /\ \A v \in Workers : claimed[v] # s
  BY DEF ClaimDueSend, Claimable, Locked, Sends, Nobody
<1>3. /\ claimed'[w] = s
      /\ todo'[w] = Pending(s)
      /\ \A u \in Users : draft'[w][u] = IF u \in Pending(s)
                                         THEN [recipient[s][u] EXCEPT !.status = "sending"]
                                         ELSE recipient[s][u]
      /\ \A v \in Workers : v # w => /\ claimed'[v] = claimed[v]
                                     /\ todo'[v] = todo[v]
                                     /\ draft'[v] = draft[v]
  BY DEF IInv, TypeOK, ClaimDueSend
<1>4. \A t \in Sends : Locked(t) => Locked(t)'
  BY <1>2, <1>3 DEF Locked, ClaimDueSend, IInv, TypeOK, Sends, Nobody
<1>5. \A t \in Sends : t # s => (Locked(t)' <=> Locked(t))
  BY <1>3, <1>4 DEF Locked
<1>6. OneHolder'
  BY <1>2, <1>3 DEF IInv, OneHolder
<1>7. HeldIsScheduled'
  BY <1>1, <1>2, <1>3 DEF IInv, HeldIsScheduled, rowVars
<1>8. FreshSends' /\ EmittedInv' /\ RowsInv'
  BY <1>1 DEF IInv, FreshSends, EmittedInv, RowsInv, RowInv, rowVars
<1>9. \A u \in Users :
         /\ recipient[s][u] \in Row
         /\ recipient[s][u].message = 0
         /\ recipient[s][u].send => recipient[s][u].status = "pending"
         /\ ~recipient[s][u].send => recipient[s][u].status \in {"none", "skipped"}
         /\ u \in Pending(s) <=> recipient[s][u].send
  <2> SUFFICES ASSUME NEW u \in Users
               PROVE  /\ recipient[s][u] \in Row
                      /\ recipient[s][u].message = 0
                      /\ recipient[s][u].send => recipient[s][u].status = "pending"
                      /\ ~recipient[s][u].send =>
                             recipient[s][u].status \in {"none", "skipped"}
    BY DEF Pending
  <2>1. recipient[s][u] \in Row
    BY DEF IInv, TypeOK
  <2>2. RowInv(s, u)
    BY DEF IInv, RowsInv
  <2>3. ~recipient[s][u].send => recipient[s][u].status \in {"none", "skipped"}
    BY DEF IInv, SkippedRowsReachNobody
  <2> QED
    BY <2>1, <2>2, <2>3, <1>2 DEF RowInv
<1>10. \A u \in Users : copies[s][u] <= aborts[s] /\ copies[s][u] \in Nat
  <2>1. ~Locked(s)
    BY <1>2 DEF Locked
  <2> QED
    BY <2>1, <1>2 DEF IInv, TypeOK, CopiesPerAttempt
<1>11. \A u \in Users : DraftInv(w, u)'
  <2> SUFFICES ASSUME NEW u \in Users PROVE DraftInv(w, u)'
    OBVIOUS
  <2>1. CASE recipient[s][u].send
    <3>1. draft'[w][u] = [recipient[s][u] EXCEPT !.status = "sending"]
      BY <2>1, <1>3, <1>9
    <3>2. /\ draft'[w][u].send
          /\ draft'[w][u].status = "sending"
          /\ draft'[w][u].message = 0
      <4>1. recipient[s][u] \in Row /\ recipient[s][u].message = 0
        BY <1>9
      <4> QED
        BY <2>1, <3>1, <4>1 DEF Row
    <3>3. u \in todo'[w] /\ claimed'[w] = s
      BY <2>1, <1>3, <1>9
    <3>4. recipient' = recipient /\ copies' = copies /\ aborts' = aborts
      BY <1>1 DEF rowVars
    <3>5. copies[s][u] \in Nat /\ copies[s][u] <= aborts[s]
      BY <1>10
    <3>6. 0 <= copies[s][u]
      BY <3>5
    <3> QED
      BY <2>1, <3>2, <3>3, <3>4, <3>5, <3>6 DEF DraftInv
  <2>2. CASE ~recipient[s][u].send
    <3>1. draft'[w][u] = recipient[s][u] /\ u \notin todo'[w] /\ claimed'[w] = s
      BY <2>2, <1>3, <1>9
    <3>2. recipient' = recipient /\ copies' = copies
      BY <1>1 DEF rowVars
    <3>3. /\ recipient[s][u].message = 0
          /\ recipient[s][u].status \in {"none", "skipped"}
      BY <2>2, <1>9
    <3>4. copies[s][u] \in Nat
      BY <1>10
    <3> QED
      BY <2>2, <3>1, <3>2, <3>3, <3>4 DEF DraftInv
  <2> QED
    BY <2>1, <2>2
<1>12. DraftsInv'
  BY <1>1, <1>3, <1>11 DEF IInv, DraftsInv, DraftInv, rowVars
<1>13. CopiesPerAttempt'
  <2>1. \A u \in Users : copies[s][u] <= aborts[s] + 1
    BY <1>10 DEF IInv, TypeOK
  <2>2. Locked(s)'
    BY <1>3 DEF Locked
  <2> QED
    BY <2>1, <2>2, <1>1, <1>5 DEF IInv, CopiesPerAttempt, rowVars
<1>14. /\ SkippedRowsReachNobody' /\ ReportedSentWasAccepted' /\ SendAgreesWithRows'
       /\ BounceOrComplaintSuppresses'
  BY <1>1 DEF IInv, SkippedRowsReachNobody, ReportedSentWasAccepted, SendAgreesWithRows,
              SendAgrees, BounceOrComplaintSuppresses, rowVars, userVars
<1> QED
  BY <1>6, <1>7, <1>8, <1>12, <1>13, <1>14 DEF IInv

\* A provider call, whatever its outcome: the chunk leaves the queue with the
\* new rows, and the provider has accepted it or not.
LEMMA ChunkKeepsIInv ==
    ASSUME IInv, TypeOK', NEW w \in Workers, NEW chunk \in SUBSET todo[w],
           claimed[w] # Nobody,
           UNCHANGED <<userVars, rowVars, claimed, emitted, aborts>>,
           todo' = [todo EXCEPT ![w] = @ \ chunk],
           \A v \in Workers : v # w => draft'[v] = draft[v],
           \A u \in Users :
              \/ /\ u \in chunk
                 /\ draft'[w][u].send = draft[w][u].send
                 /\ \/ draft'[w][u].status = "sent"
                       /\ draft'[w][u].message = copies'[claimed[w]][u]
                       /\ copies'[claimed[w]][u] = copies[claimed[w]][u] + 1
                    \/ draft'[w][u].status = "failed"
                       /\ draft'[w][u].message = draft[w][u].message
                       /\ copies'[claimed[w]][u] \in {copies[claimed[w]][u], copies[claimed[w]][u] + 1}
              \/ /\ u \notin chunk
                 /\ draft'[w][u] = draft[w][u]
                 /\ copies'[claimed[w]][u] = copies[claimed[w]][u],
           \A t \in Sends : t # claimed[w] => copies'[t] = copies[t]
    PROVE  IInv'
<1> DEFINE s == claimed[w]
<1>1. s \in Sends /\ Locked(s)
  BY DEF IInv, TypeOK, Locked
<1>2. ASSUME NEW t \in Sends, NEW u \in Users
      PROVE  /\ copies[t][u] \in Nat /\ copies'[t][u] \in Nat /\ aborts[t] \in Nat
             /\ copies[t][u] <= copies'[t][u]
  <2>1. copies[t][u] \in Nat /\ copies'[t][u] \in Nat /\ aborts[t] \in Nat
    BY DEF IInv, TypeOK
  <2>2. copies'[t][u] = copies[t][u] \/ copies'[t][u] = copies[t][u] + 1
    <3>1. CASE t = s
      BY <3>1
    <3>2. CASE t # s
      BY <3>2
    <3> QED
      BY <3>1, <3>2
  <2> QED
    BY <2>1, <2>2
<1>3. \A t \in Sends : Locked(t)' <=> Locked(t)
  BY DEF Locked
<1>4. OneHolder' /\ HeldIsScheduled' /\ FreshSends' /\ EmittedInv'
  BY DEF IInv, OneHolder, HeldIsScheduled, FreshSends, EmittedInv, rowVars
<1>5. RowsInv'
  <2>1. \A t \in Sends, u \in Users : recipient[t][u].message \in Nat
    BY DEF IInv, TypeOK, Row
  <2> QED
    BY <2>1, <1>2 DEF IInv, RowsInv, RowInv, rowVars
<1>6. \A u \in chunk : u \in todo[w] /\ u \in Users
  BY DEF IInv, TypeOK
<1>7. todo'[w] = todo[w] \ chunk /\ \A v \in Workers : v # w => todo'[v] = todo[v]
  BY DEF IInv, TypeOK
<1>8. \A u \in Users : DraftInv(w, u)
  BY DEF IInv, DraftsInv
<1>9. \A u \in Users : DraftInv(w, u)'
  <2> SUFFICES ASSUME NEW u \in Users PROVE DraftInv(w, u)'
    OBVIOUS
  <2>1. CASE u \in chunk
    BY <2>1, <1>1, <1>2, <1>6, <1>7, <1>8 DEF DraftInv, rowVars
  <2>2. CASE u \notin chunk
    BY <2>2, <1>1, <1>2, <1>7, <1>8 DEF DraftInv, rowVars
  <2> QED
    BY <2>1, <2>2
<1>10. \A v \in Workers, u \in Users :
          v # w /\ claimed[v] # Nobody => DraftInv(v, u)'
  <2>1. \A v \in Workers : v # w /\ claimed[v] # Nobody => claimed[v] # s /\ claimed[v] \in Sends
    BY DEF IInv, TypeOK, OneHolder
  <2> QED
    BY <2>1, <1>7 DEF IInv, DraftsInv, DraftInv, rowVars
<1>11. DraftsInv'
  BY <1>9, <1>10 DEF DraftsInv
<1>12. CopiesPerAttempt'
  <2>1. \A u \in Users : copies'[s][u] <= aborts[s] + 1
    <3>1. \A u \in chunk : copies[s][u] <= aborts[s]
      BY <1>6, <1>8 DEF DraftInv
    <3>2. \A u \in Users : copies[s][u] <= aborts[s] + 1
      BY <1>1 DEF IInv, CopiesPerAttempt
    <3> SUFFICES ASSUME NEW u \in Users PROVE copies'[s][u] <= aborts[s] + 1
      OBVIOUS
    <3>3. copies[s][u] \in Nat /\ aborts[s] \in Nat
      BY <1>1, <1>2
    <3>4. CASE u \in chunk
      <4>1. copies'[s][u] = copies[s][u] \/ copies'[s][u] = copies[s][u] + 1
        BY <3>4
      <4> QED
        BY <4>1, <3>4, <3>1, <3>3
    <3>5. CASE u \notin chunk
      BY <3>5, <3>2
    <3> QED
      BY <3>4, <3>5
  <2> QED
    BY <2>1, <1>1, <1>3 DEF IInv, CopiesPerAttempt, rowVars
<1>13. SkippedRowsReachNobody'
  <2>1. \A u \in chunk : recipient[s][u].send
    BY <1>6, <1>8 DEF DraftInv
  <2> QED
    BY <2>1, <1>1 DEF IInv, SkippedRowsReachNobody, rowVars
<1>14. ReportedSentWasAccepted'
  <2> SUFFICES ASSUME NEW t \in Sends, NEW u \in Users,
                      recipient'[t][u].status \in {"sent", "delivered", "bounced", "complained"}
               PROVE  recipient'[t][u].message \in 1..copies'[t][u]
    BY DEF ReportedSentWasAccepted
  <2>1. recipient'[t][u] = recipient[t][u]
    BY DEF rowVars
  <2>2. recipient[t][u].message \in 1..copies[t][u]
    BY <2>1 DEF IInv, ReportedSentWasAccepted
  <2>3. copies[t][u] \in Nat /\ copies'[t][u] \in Nat /\ copies[t][u] <= copies'[t][u]
    BY <1>2
  <2> QED
    BY <2>1, <2>2, <2>3
<1>15. SendAgreesWithRows' /\ BounceOrComplaintSuppresses'
  BY DEF IInv, SendAgreesWithRows, SendAgrees, BounceOrComplaintSuppresses, rowVars, userVars
<1> QED
  BY <1>4, <1>5, <1>11, <1>12, <1>13, <1>14, <1>15 DEF IInv

\* Accepted, rejected and lost alike.
LEMMA ChunkActionsKeepIInv ==
    ASSUME IInv, TypeOK', NEW w \in Workers, NEW chunk \in SUBSET todo[w],
           ChunkAccepted(w, chunk) \/ ChunkRejected(w, chunk) \/ ChunkAnswerLost(w, chunk)
    PROVE  IInv'
<1>1. claimed[w] # Nobody /\ todo' = [todo EXCEPT ![w] = @ \ chunk]
  BY DEF ChunkAccepted, ChunkRejected, ChunkAnswerLost, SendChunk
<1>2. UNCHANGED <<userVars, rowVars, claimed, emitted, aborts>>
  BY DEF ChunkAccepted, ChunkRejected, ChunkAnswerLost, providerVars
<1>3. /\ claimed[w] \in Sends
      /\ draft \in [Workers -> [Users -> Row]]
      /\ copies \in [Sends -> [Users -> Nat]]
      /\ chunk \subseteq Users
  BY <1>1 DEF IInv, TypeOK
<1>4. \A v \in Workers : v # w => draft'[v] = draft[v]
  BY <1>3 DEF ChunkAccepted, ChunkRejected, ChunkAnswerLost, RecordFailed
<1>5. \A t \in Sends : t # claimed[w] => copies'[t] = copies[t]
  BY <1>3 DEF ChunkAccepted, ChunkRejected, ChunkAnswerLost, ProviderAccepts, providerVars
<1>6. ASSUME ProviderAccepts(claimed[w], chunk), NEW u \in Users
      PROVE  copies'[claimed[w]][u] = IF u \in chunk THEN copies[claimed[w]][u] + 1
                                      ELSE copies[claimed[w]][u]
  BY <1>3, <1>6 DEF ProviderAccepts
<1>7. ASSUME RecordFailed(w, chunk), NEW u \in Users
      PROVE  draft'[w][u] = IF u \in chunk THEN [draft[w][u] EXCEPT !.status = "failed"]
                            ELSE draft[w][u]
  BY <1>3, <1>7 DEF RecordFailed
<1>8. \A u \in Users : draft[w][u] \in Row
  BY <1>3
<1>9. ASSUME NEW r \in Row, NEW n
      PROVE  /\ [r EXCEPT !.status = "failed"].send = r.send
             /\ [r EXCEPT !.status = "failed"].status = "failed"
             /\ [r EXCEPT !.status = "failed"].message = r.message
             /\ [r EXCEPT !.status = "sent", !.message = n].send = r.send
             /\ [r EXCEPT !.status = "sent", !.message = n].status = "sent"
             /\ [r EXCEPT !.status = "sent", !.message = n].message = n
  BY DEF Row
<1>10. ASSUME NEW u \in Users
       PROVE
         \/ /\ u \in chunk
            /\ draft'[w][u].send = draft[w][u].send
            /\ \/ draft'[w][u].status = "sent"
                  /\ draft'[w][u].message = copies'[claimed[w]][u]
                  /\ copies'[claimed[w]][u] = copies[claimed[w]][u] + 1
               \/ draft'[w][u].status = "failed"
                  /\ draft'[w][u].message = draft[w][u].message
                  /\ copies'[claimed[w]][u] \in {copies[claimed[w]][u], copies[claimed[w]][u] + 1}
         \/ /\ u \notin chunk
            /\ draft'[w][u] = draft[w][u]
            /\ copies'[claimed[w]][u] = copies[claimed[w]][u]
  <2>1. CASE ChunkAccepted(w, chunk)
    <3>1. draft'[w][u] = IF u \in chunk
                         THEN [draft[w][u] EXCEPT !.status = "sent",
                                  !.message = copies[claimed[w]][u] + 1]
                         ELSE draft[w][u]
      BY <2>1, <1>3 DEF ChunkAccepted
    <3>2. copies'[claimed[w]][u] = IF u \in chunk THEN copies[claimed[w]][u] + 1
                                   ELSE copies[claimed[w]][u]
      BY <2>1, <1>6 DEF ChunkAccepted
    <3>3. CASE u \in chunk
      <4>1. draft'[w][u] = [draft[w][u] EXCEPT !.status = "sent",
                               !.message = copies[claimed[w]][u] + 1]
        BY <3>1, <3>3
      <4> QED
        BY <3>2, <3>3, <4>1, <1>8, <1>9
    <3> QED
      BY <3>1, <3>2, <3>3
  <2>2. CASE ChunkRejected(w, chunk) \/ ChunkAnswerLost(w, chunk)
    <3>1. RecordFailed(w, chunk)
      BY <2>2 DEF ChunkRejected, ChunkAnswerLost
    <3>2. \/ copies' = copies
          \/ ProviderAccepts(claimed[w], chunk)
      BY <2>2 DEF ChunkRejected, ChunkAnswerLost, providerVars
    <3>3. CASE u \in chunk
      <4>1. draft'[w][u] = [draft[w][u] EXCEPT !.status = "failed"]
        BY <3>1, <3>3, <1>7
      <4>2. copies'[claimed[w]][u] \in {copies[claimed[w]][u], copies[claimed[w]][u] + 1}
        BY <3>2, <3>3, <1>6
      <4> QED
        BY <3>3, <4>1, <4>2, <1>8, <1>9
    <3>4. CASE u \notin chunk
      BY <3>1, <3>2, <3>4, <1>6, <1>7
    <3> QED
      BY <3>3, <3>4
  <2> QED
    BY <2>1, <2>2
<1> QED
  BY <1>1, <1>2, <1>4, <1>5, <1>10, ChunkKeepsIInv

\* What giving back the lock does to the workers.
LEMMA ReleaseEffect ==
    ASSUME TypeOK, NEW w \in Workers, Release(w)
    PROVE  /\ claimed'[w] = Nobody
           /\ \A v \in Workers : v # w => /\ claimed'[v] = claimed[v]
                                        /\ todo'[v] = todo[v]
                                        /\ draft'[v] = draft[v]
  BY DEF TypeOK, Release

\* A commit publishes a draft that has nothing left to try.
LEMMA CommitKeepsIInv ==
    ASSUME IInv, TypeOK', NEW w \in Workers, CommitDispatch(w)
    PROVE  IInv'
<1>0. PICK s \in Sends : s = claimed[w]
  BY DEF IInv, TypeOK, CommitDispatch
<1>1. claimed[w] = s /\ s # Nobody /\ Locked(s) /\ todo[w] = {}
  BY <1>0 DEF CommitDispatch, Locked
<1>2. UNCHANGED <<userVars, copies, emitted, aborts>>
  BY DEF CommitDispatch, providerVars
<1>3. /\ claimed'[w] = Nobody
      /\ \A v \in Workers : v # w => /\ claimed'[v] = claimed[v]
                                   /\ todo'[v] = todo[v]
                                   /\ draft'[v] = draft[v]
  BY ReleaseEffect DEF IInv, CommitDispatch
<1>4. \A v \in Workers : v # w => claimed[v] # s
  BY <1>1 DEF IInv, OneHolder
<1>5. recipient'[s] = draft[w] /\ \A t \in Sends : t # s => recipient'[t] = recipient[t]
  BY <1>1 DEF IInv, TypeOK, CommitDispatch
<1>6. send'[s].status = FinalStatus(w) /\ \A t \in Sends : t # s => send'[t] = send[t]
  BY <1>1 DEF IInv, TypeOK, CommitDispatch, SendRow
<1>7. \A u \in Users :
         /\ draft[w][u] \in Row
         /\ draft[w][u].message <= copies[s][u]
         /\ draft[w][u].send = recipient[s][u].send
         /\ draft[w][u].send =>
               \/ draft[w][u].status = "sent" /\ draft[w][u].message # 0
               \/ draft[w][u].status = "failed" /\ draft[w][u].message = 0
         /\ ~draft[w][u].send =>
               draft[w][u].status \in {"none", "skipped"} /\ draft[w][u].message = 0
  BY <1>1 DEF IInv, TypeOK, DraftsInv, DraftInv
<1>8. \/ FinalStatus(w) = "sent"
         /\ \A u \in Users : draft[w][u].status # "failed"
      \/ FinalStatus(w) = "failed"
         /\ \E u \in Users : draft[w][u].status = "failed"
  <2>1. ~DraftHas(w, OpenRowStatuses)
    BY <1>7 DEF DraftHas, OpenRowStatuses
  <2> QED
    BY <2>1 DEF FinalStatus, DraftHas
<1>9. OneHolder' /\ EmittedInv'
  BY <1>2, <1>3 DEF IInv, OneHolder, EmittedInv
<1>10. HeldIsScheduled'
  <2> SUFFICES ASSUME NEW v \in Workers, claimed'[v] # Nobody
               PROVE  send'[claimed'[v]].status = "scheduled"
    BY DEF HeldIsScheduled
  <2>1. v # w /\ claimed'[v] = claimed[v] /\ claimed[v] # s /\ claimed[v] # Nobody
    BY <1>3, <1>4
  <2>2. claimed[v] \in Sends
    BY <2>1 DEF IInv, TypeOK
  <2> QED
    BY <2>1, <2>2, <1>6 DEF IInv, HeldIsScheduled
<1>11. FreshSends'
  <2> SUFFICES ASSUME NEW t \in Sends, send'[t].status = "absent"
               PROVE  aborts'[t] = 0 /\ \A u \in Users : recipient'[t][u] = NoRow
    BY DEF FreshSends
  <2>1. t # s
    BY <1>6, <1>8
  <2>2. send[t].status = "absent"
    BY <2>1, <1>6
  <2>3. aborts[t] = 0 /\ \A u \in Users : recipient[t][u] = NoRow
    BY <2>2 DEF IInv, FreshSends
  <2> QED
    BY <2>1, <2>3, <1>2, <1>5
<1>12. RowsInv'
  <2> SUFFICES ASSUME NEW t \in Sends, NEW u \in Users PROVE RowInv(t, u)'
    BY DEF RowsInv
  <2>1. CASE t = s
    <3>1. /\ recipient'[t][u] = draft[w][u]
          /\ copies'[t][u] = copies[s][u]
          /\ send'[t].status \in {"sent", "failed"}
      BY <2>1, <1>2, <1>5, <1>6, <1>8
    <3>2. draft[w][u].message # 0 => draft[w][u].send
      BY <1>7
    <3> QED
      BY <3>1, <3>2, <1>7 DEF RowInv
  <2>2. CASE t # s
    BY <2>2, <1>2, <1>5, <1>6 DEF IInv, RowsInv, RowInv
  <2> QED
    BY <2>1, <2>2
<1>13. DraftsInv'
  <2> SUFFICES ASSUME NEW v \in Workers, claimed'[v] # Nobody, NEW u \in Users
               PROVE  DraftInv(v, u)'
    BY DEF DraftsInv
  <2>1. v # w /\ claimed[v] # Nobody /\ claimed[v] # s /\ claimed[v] \in Sends
    BY <1>3, <1>4 DEF IInv, TypeOK
  <2>2. DraftInv(v, u)
    BY <2>1 DEF IInv, DraftsInv
  <2> QED
    BY <2>1, <2>2, <1>2, <1>3, <1>5 DEF DraftInv
<1>14. CopiesPerAttempt'
  <2>1. \A t \in Sends : t # s => (Locked(t)' <=> Locked(t))
    BY <1>1, <1>3, <1>4 DEF Locked, Sends, Nobody
  <2>2. \A u \in Users : copies[s][u] <= aborts[s] + 1
    BY <1>1 DEF IInv, CopiesPerAttempt
  <2> QED
    BY <2>1, <2>2, <1>2, <1>6, <1>8 DEF IInv, CopiesPerAttempt
<1>15. SkippedRowsReachNobody'
  BY <1>1, <1>2, <1>5, <1>7 DEF IInv, SkippedRowsReachNobody
<1>16. ReportedSentWasAccepted'
  <2> SUFFICES ASSUME NEW t \in Sends, NEW u \in Users,
                      recipient'[t][u].status \in {"sent", "delivered", "bounced", "complained"}
               PROVE  recipient'[t][u].message \in 1..copies'[t][u]
    BY DEF ReportedSentWasAccepted
  <2>1. CASE t = s
    <3>1. draft[w][u].message # 0 /\ draft[w][u].message \in Nat
      BY <2>1, <1>5, <1>7 DEF Row
    <3> QED
      BY <2>1, <3>1, <1>2, <1>5, <1>7 DEF IInv, TypeOK
  <2>2. CASE t # s
    BY <2>2, <1>2, <1>5 DEF IInv, ReportedSentWasAccepted
  <2> QED
    BY <2>1, <2>2
<1>17. SendAgreesWithRows'
  <2>1. SendAgrees(s)'
    BY <1>5, <1>6, <1>7, <1>8 DEF SendAgrees, OpenRowStatuses
  <2>2. \A t \in Sends : t # s => SendAgrees(t)'
    BY <1>5, <1>6 DEF IInv, SendAgreesWithRows, SendAgrees
  <2> QED
    BY <2>1, <2>2 DEF SendAgreesWithRows
<1>18. BounceOrComplaintSuppresses'
  BY <1>2, <1>5, <1>7 DEF IInv, BounceOrComplaintSuppresses, userVars
<1> QED
  BY <1>9, <1>10, <1>11, <1>12, <1>13, <1>14, <1>15, <1>16, <1>17, <1>18 DEF IInv

\* A rollback forgets the draft, and the copies that were accepted are counted
\* as of an aborted dispatch.
LEMMA AbortKeepsIInv ==
    ASSUME IInv, TypeOK', NEW w \in Workers, AbortDispatch(w)
    PROVE  IInv'
<1>0. PICK s \in Sends : s = claimed[w]
  BY DEF IInv, TypeOK, AbortDispatch
<1>1. claimed[w] = s /\ s # Nobody /\ Locked(s) /\ send[s].status = "scheduled"
  BY <1>0 DEF IInv, AbortDispatch, Locked, HeldIsScheduled
<1>2. UNCHANGED <<userVars, rowVars, copies, emitted>>
  BY DEF AbortDispatch, providerVars
<1>3. /\ claimed'[w] = Nobody
      /\ \A v \in Workers : v # w => /\ claimed'[v] = claimed[v]
                                   /\ todo'[v] = todo[v]
                                   /\ draft'[v] = draft[v]
  BY ReleaseEffect DEF IInv, AbortDispatch
<1>4. \A v \in Workers : v # w => claimed[v] # s
  BY <1>1 DEF IInv, OneHolder
<1>5. aborts'[s] = aborts[s] + 1 /\ \A t \in Sends : t # s => aborts'[t] = aborts[t]
  BY <1>1 DEF IInv, TypeOK, AbortDispatch
<1>6. OneHolder' /\ EmittedInv'
  BY <1>2, <1>3 DEF IInv, OneHolder, EmittedInv
<1>7. HeldIsScheduled'
  BY <1>2, <1>3 DEF IInv, HeldIsScheduled, rowVars
<1>8. FreshSends'
  BY <1>1, <1>2, <1>5 DEF IInv, FreshSends, rowVars
<1>9. RowsInv' /\ SkippedRowsReachNobody' /\ ReportedSentWasAccepted'
      /\ SendAgreesWithRows' /\ BounceOrComplaintSuppresses'
  BY <1>2 DEF IInv, RowsInv, RowInv, SkippedRowsReachNobody, ReportedSentWasAccepted,
              SendAgreesWithRows, SendAgrees, BounceOrComplaintSuppresses, rowVars, userVars
<1>10. DraftsInv'
  <2> SUFFICES ASSUME NEW v \in Workers, claimed'[v] # Nobody, NEW u \in Users
               PROVE  DraftInv(v, u)'
    BY DEF DraftsInv
  <2>1. v # w /\ claimed[v] # Nobody /\ claimed[v] # s /\ claimed[v] \in Sends
    BY <1>3, <1>4 DEF IInv, TypeOK
  <2>2. DraftInv(v, u)
    BY <2>1 DEF IInv, DraftsInv
  <2> QED
    BY <2>1, <2>2, <1>2, <1>3, <1>5 DEF DraftInv, rowVars
<1>11. CopiesPerAttempt'
  <2>1. \A t \in Sends : t # s => (Locked(t)' <=> Locked(t))
    BY <1>1, <1>3, <1>4 DEF Locked, Sends, Nobody
  <2>2. \A u \in Users : copies[s][u] <= aborts'[s] + 0
    BY <1>1, <1>5 DEF IInv, TypeOK, CopiesPerAttempt
  <2>3. \A u \in Users : copies[s][u] <= aborts'[s] + 1
    BY <2>2, <1>5 DEF IInv, TypeOK
  <2> QED
    BY <2>1, <2>2, <2>3, <1>2, <1>5 DEF IInv, CopiesPerAttempt, rowVars
<1> QED
  BY <1>6, <1>7, <1>8, <1>9, <1>10, <1>11 DEF IInv

\* The provider reports on messages that it accepted.
LEMMA EmitKeepsIInv ==
    ASSUME IInv, TypeOK', NEW s \in Sends, NEW u \in Users, NEW type \in EventTypes,
           NEW n \in 1..copies[s][u],
           ProviderEmits([send |-> s, user |-> u, copy |-> n], type)
    PROVE  IInv'
<1>1. UNCHANGED <<userVars, rowVars, workerVars, copies, aborts>>
  BY DEF ProviderEmits
<1>2. EmittedInv'
  <2>1. n # 0
    BY DEF IInv, TypeOK
  <2> QED
    BY <2>1 DEF IInv, EmittedInv, ProviderEmits
<1>3. OneHolder' /\ HeldIsScheduled' /\ FreshSends'
  BY <1>1 DEF IInv, OneHolder, HeldIsScheduled, FreshSends, rowVars, workerVars
<1>6. RowsInv'
  BY <1>1 DEF IInv, RowsInv, RowInv, rowVars
<1>7. SkippedRowsReachNobody' /\ ReportedSentWasAccepted'
  BY <1>1 DEF IInv, SkippedRowsReachNobody, ReportedSentWasAccepted, rowVars
<1>8. SendAgreesWithRows' /\ BounceOrComplaintSuppresses'
  BY <1>1 DEF IInv, SendAgreesWithRows, SendAgrees, BounceOrComplaintSuppresses,
              rowVars, userVars
<1>4. DraftsInv'
  BY <1>1 DEF IInv, DraftsInv, DraftInv, rowVars, workerVars
<1>5. CopiesPerAttempt'
  BY <1>1 DEF IInv, CopiesPerAttempt, Locked, rowVars, workerVars
<1> QED
  BY <1>2, <1>3, <1>4, <1>5, <1>6, <1>7, <1>8 DEF IInv

\* A webhook event changes the status of the row that names its message.
LEMMA ApplyEventKeepsIInv ==
    ASSUME IInv, TypeOK', NEW e \in emitted, ApplyResendEmailEvent(e)
    PROVE  IInv'
<1>0. e \in Event /\ e.message.copy # 0
  BY DEF IInv, TypeOK, EmittedInv
<1>s. PICK s \in Sends : s = e.message.send
  BY <1>0 DEF Event, Message
<1>u. PICK u \in Users : u = e.message.user
  BY <1>0 DEF Event, Message
<1>1. e.type \in ProviderEventTypes
  BY <1>0 DEF Event
<1>2. UNCHANGED <<account, send, workerVars, copies, emitted, aborts>>
  BY DEF ApplyResendEmailEvent
<1>3. recipient[s][u].message # 0 /\ recipient[s][u] \in Row
  <2>1. recipient[s][u].message = e.message.copy
    BY <1>s, <1>u DEF ApplyResendEmailEvent, Matches
  <2>2. recipient[s][u] \in Row
    BY DEF IInv, TypeOK
  <2> QED
    BY <2>1, <2>2, <1>0
<1>4. recipient[s][u].send /\ send[s].status \in {"sent", "failed"}
  BY <1>1, <1>3 DEF IInv, RowsInv, RowInv
<1>19. recipient' = [recipient EXCEPT ![s][u].status = e.type]
  BY <1>s, <1>u DEF ApplyResendEmailEvent
<1>5. recipient'[s][u] = [recipient[s][u] EXCEPT !.status = e.type]
  BY <1>19 DEF IInv, TypeOK
<1>6. \A t \in Sends, v \in Users :
         t # s \/ v # u => recipient'[t][v] = recipient[t][v]
  BY <1>19 DEF IInv, TypeOK
<1>7. /\ recipient'[s][u].send = recipient[s][u].send
      /\ recipient'[s][u].message = recipient[s][u].message
      /\ recipient'[s][u].status = e.type
  BY <1>3, <1>5 DEF Row
<1>8. \A t \in Sends, v \in Users :
         /\ recipient'[t][v].send = recipient[t][v].send
         /\ recipient'[t][v].message = recipient[t][v].message
         /\ recipient'[t][v].status \in {recipient[t][v].status, e.type}
         /\ recipient'[t][v].status # recipient[t][v].status => t = s /\ v = u
  BY <1>6, <1>7
<1>9. \A t \in Sends : t # s => \A v \in Users : recipient'[t][v] = recipient[t][v]
  BY <1>6
<1>10. OneHolder' /\ HeldIsScheduled' /\ EmittedInv'
  BY <1>2 DEF IInv, OneHolder, HeldIsScheduled, EmittedInv, workerVars
<1>11. FreshSends'
  <2> SUFFICES ASSUME NEW t \in Sends, send'[t].status = "absent"
               PROVE  aborts'[t] = 0 /\ \A v \in Users : recipient'[t][v] = NoRow
    BY DEF FreshSends
  <2>1. send[t].status = "absent" /\ t # s
    BY <1>2, <1>4
  <2>2. aborts[t] = 0 /\ \A v \in Users : recipient[t][v] = NoRow
    BY <2>1 DEF IInv, FreshSends
  <2> QED
    BY <2>1, <2>2, <1>2, <1>9
<1>12. RowsInv'
  BY <1>2, <1>4, <1>8 DEF IInv, RowsInv, RowInv
<1>13. DraftsInv'
  <2> SUFFICES ASSUME NEW w \in Workers, claimed'[w] # Nobody, NEW v \in Users
               PROVE  DraftInv(w, v)'
    BY DEF DraftsInv
  <2>1. /\ claimed'[w] = claimed[w] /\ todo'[w] = todo[w] /\ draft'[w] = draft[w]
        /\ copies' = copies /\ aborts' = aborts
    BY <1>2 DEF workerVars
  <2>2. claimed[w] \in Sends /\ claimed[w] # Nobody
    BY <2>1 DEF IInv, TypeOK
  <2>3. DraftInv(w, v)
    BY <2>2 DEF IInv, DraftsInv
  <2>4. recipient'[claimed[w]][v].send = recipient[claimed[w]][v].send
    BY <2>2, <1>8
  <2> QED
    BY <2>1, <2>3, <2>4 DEF DraftInv
<1>14. CopiesPerAttempt'
  <2>1. \A t \in Sends : Locked(t)' <=> Locked(t)
    BY <1>2 DEF Locked, workerVars
  <2> QED
    BY <2>1, <1>2 DEF IInv, CopiesPerAttempt
<1>15. SkippedRowsReachNobody'
  BY <1>2, <1>4, <1>8 DEF IInv, SkippedRowsReachNobody
<1>16. ReportedSentWasAccepted'
  <2> SUFFICES ASSUME NEW t \in Sends, NEW v \in Users,
                      recipient'[t][v].status \in {"sent", "delivered", "bounced", "complained"}
               PROVE  recipient'[t][v].message \in 1..copies'[t][v]
    BY DEF ReportedSentWasAccepted
  <2>1. CASE t = s /\ v = u
    <3>1. recipient[s][u].message \in Nat
      BY <1>3 DEF Row
    <3>2. copies[s][u] \in Nat
      BY DEF IInv, TypeOK
    <3>3. RowInv(s, u)
      BY DEF IInv, RowsInv
    <3>4. recipient[s][u].message <= copies[s][u]
      BY <3>3 DEF RowInv
    <3>5. recipient[s][u].message \in 1..copies[s][u]
      BY <3>1, <3>2, <3>4, <1>3
    <3> QED
      BY <2>1, <3>5, <1>2, <1>7
  <2>2. CASE ~(t = s /\ v = u)
    BY <2>2, <1>2, <1>6 DEF IInv, ReportedSentWasAccepted
  <2> QED
    BY <2>1, <2>2
<1>17. SendAgreesWithRows'
  <2> SUFFICES ASSUME NEW t \in Sends PROVE SendAgrees(t)'
    BY DEF SendAgreesWithRows
  <2>1. SendAgrees(t)
    BY DEF IInv, SendAgreesWithRows
  <2>2. e.type \notin OpenRowStatuses
    BY <1>1 DEF ProviderEventTypes, OpenRowStatuses
  <2> QED
    BY <2>1, <2>2, <1>2, <1>4, <1>8 DEF SendAgrees
<1>18. BounceOrComplaintSuppresses'
  <2>1. \A v \in Users : suppressed[v] \subseteq suppressed'[v]
    BY DEF IInv, TypeOK, ApplyResendEmailEvent
  <2>2. e.type \in {"bounced", "complained"} => "all_email" \in suppressed'[u]
    BY <1>u DEF IInv, TypeOK, ApplyResendEmailEvent, Suppresses
  <2> QED
    BY <2>1, <2>2, <1>6, <1>7 DEF IInv, BounceOrComplaintSuppresses
<1> QED
  BY <1>10, <1>11, <1>12, <1>13, <1>14, <1>15, <1>16, <1>17, <1>18 DEF IInv

\* The invariant holds before the first send.
LEMMA InitIInv == Init => IInv
<1> SUFFICES ASSUME Init PROVE IInv
  OBVIOUS
<1>1. TypeOK
  BY DEF Init, TypeOK, NoSend, SendRow, SendStatuses, NoRow, Row, RowStatuses, Nobody,
         EmailSendsAssumption
<1>2. OneHolder /\ HeldIsScheduled /\ DraftsInv /\ EmittedInv
  BY DEF Init, OneHolder, HeldIsScheduled, DraftsInv, EmittedInv
<1>3. \A s \in Sends, u \in Users :
         /\ recipient[s][u] = NoRow
         /\ copies[s][u] = 0
         /\ aborts[s] = 0
         /\ send[s].status = "absent"
  BY DEF Init, NoSend
<1>4. FreshSends /\ RowsInv
  BY <1>3 DEF Init, FreshSends, RowsInv, RowInv, NoRow
<1>5. CopiesPerAttempt /\ SkippedRowsReachNobody
  BY <1>3 DEF CopiesPerAttempt, SkippedRowsReachNobody, NoRow
<1>6. ReportedSentWasAccepted /\ BounceOrComplaintSuppresses
  BY <1>3 DEF ReportedSentWasAccepted, BounceOrComplaintSuppresses, NoRow
<1>7. SendAgreesWithRows
  BY DEF Init, SendAgreesWithRows, SendAgrees, NoSend
<1> QED
  BY <1>1, <1>2, <1>4, <1>5, <1>6, <1>7 DEF IInv

\* Users change preferences and add suppressions.
LEMMA UserStepKeepsIInv ==
    ASSUME IInv, TypeOK', UserStep
    PROVE  IInv'
<1>1. UNCHANGED <<rowVars, workerVars, copies, emitted, aborts>>
  BY DEF UserStep, SaveEmailPreference, UnsubscribeAll, UnsubscribePromotional,
         UnsubscribeNewsletters, rowVars, workerVars, providerVars
<1>2. \A u \in Users : suppressed[u] \subseteq suppressed'[u]
  <2>1. ASSUME NEW u \in ActiveUsers, UnsubscribeNewsletters(u)
        PROVE  \A v \in Users : suppressed[v] \subseteq suppressed'[v]
    <3>1. suppressed \in [Users -> SUBSET {"newsletters", "all_email"}] /\ u \in Users
      BY DEF IInv, TypeOK, EmailSendsAssumption
    <3>2. \/ suppressed' = suppressed
          \/ suppressed' = [suppressed EXCEPT ![u] = @ \cup {"newsletters"}]
      BY <2>1 DEF UnsubscribeNewsletters
    <3> QED
      BY <3>1, <3>2
  <2>2. ASSUME NEW u \in ActiveUsers,
               \/ \E preference \in Preferences : SaveEmailPreference(u, preference)
               \/ UnsubscribeAll(u)
               \/ UnsubscribePromotional(u)
        PROVE  suppressed' = suppressed
    BY <2>2 DEF SaveEmailPreference, UnsubscribeAll, UnsubscribePromotional
  <2> QED
    BY <2>1, <2>2 DEF UserStep
<1> QED
  BY <1>1, <1>2, QuietSteps

\* Reports, applied or ignored.
LEMMA ProviderStepKeepsIInv ==
    ASSUME IInv, TypeOK', ProviderStep
    PROVE  IInv'
<1>1. ASSUME NEW e \in emitted, IgnoreResendEmailEvent(e)
      PROVE  IInv'
  <2>1. UNCHANGED <<rowVars, workerVars, copies, emitted, aborts, suppressed>>
    BY <1>1 DEF IgnoreResendEmailEvent, userVars
  <2> QED
    BY <2>1, QuietSteps
<1> QED
  BY <1>1, EmitKeepsIInv, ApplyEventKeepsIInv DEF ProviderStep

\* Every step keeps the invariant.
LEMMA NextKeepsIInv == IInv /\ [Next]_vars => IInv'
<1> SUFFICES ASSUME IInv, [Next]_vars PROVE IInv'
  OBVIOUS
<1>1. TypeOK'
  BY TypesPreserved DEF IInv
<1>2. ASSUME Tick \/ UNCHANGED vars PROVE IInv'
  <2>1. UNCHANGED <<rowVars, workerVars, copies, emitted, aborts, suppressed>>
    BY <1>2 DEF Tick, vars, userVars, providerVars
  <2> QED
    BY <1>1, <2>1, QuietSteps
<1>3. CASE AdminStep
  BY <1>1, <1>3, PrepareKeepsIInv, CancelKeepsIInv DEF AdminStep
<1>4. ASSUME NEW w \in Workers, DispatchStep(w) PROVE IInv'
  BY <1>1, <1>4, ClaimKeepsIInv, ChunkActionsKeepIInv, CommitKeepsIInv DEF DispatchStep
<1>5. ASSUME NEW w \in Workers, AbortDispatch(w) PROVE IInv'
  BY <1>1, <1>5, AbortKeepsIInv
<1>6. CASE ProviderStep
  BY <1>1, <1>6, ProviderStepKeepsIInv
<1>7. CASE UserStep
  BY <1>1, <1>7, UserStepKeepsIInv
<1> QED
  BY <1>2, <1>3, <1>4, <1>5, <1>6, <1>7 DEF Next

-----------------------------------------------------------------------------
(* The theorems                                                             *)

\* The invariant holds in every reachable state.
LEMMA Inductive == Spec => []IInv
  BY InitIInv, NextKeepsIInv, PTL DEF Spec

\* Every reachable database state is well typed: in particular a skipped row is
\* never queued and no status outside the schema's lists is ever written.
THEOREM TypeCorrect == Spec => []TypeOK
<1>1. IInv => TypeOK
  BY DEF IInv
<1> QED
  BY <1>1, Inductive, PTL

\* However many workers share the queue and however often a dispatch is rolled
\* back, a recipient gets one copy of a send plus one per rolled back dispatch:
\* the row lock and its SKIP LOCKED hold for any number of sends and users.
THEOREM AtMostOneCopyPerAttempt == Spec => []CopiesPerAttempt
<1>1. IInv => CopiesPerAttempt
  BY DEF IInv
<1> QED
  BY <1>1, Inductive, PTL

\* The decision taken by the preparation is final: whom it skipped gets no copy
\* from any later dispatch, retry or webhook.
THEOREM SkippedStaySkipped == Spec => []SkippedRowsReachNobody
<1>1. IInv => SkippedRowsReachNobody
  BY DEF IInv
<1> QED
  BY <1>1, Inductive, PTL

\* What the console shows of a recipient is true: an accepted or later status
\* names a message the provider accepted.
THEOREM ReportedCopiesExist == Spec => []ReportedSentWasAccepted
<1>1. IInv => ReportedSentWasAccepted
  BY DEF IInv
<1> QED
  BY <1>1, Inductive, PTL

\* What it shows of a send is true as well: its status agrees with the rows of
\* its recipients.
THEOREM ReportsAreTrue == Spec => []SendAgreesWithRows
<1>1. IInv => SendAgreesWithRows
  BY DEF IInv
<1> QED
  BY <1>1, Inductive, PTL

\* A row that shows a bounce or a complaint comes with the suppression of the
\* address, whatever order the webhooks arrive in.
THEOREM ShownBounceIsSuppressed == Spec => []BounceOrComplaintSuppresses
<1>1. IInv => BounceOrComplaintSuppresses
  BY DEF IInv
<1> QED
  BY <1>1, Inductive, PTL

-----------------------------------------------------------------------------
(* Suppressed addresses                                                     *)

\* A suppressed address that a send has not been prepared for, or was prepared
\* without.
Spared(s, u) ==
    suppressed[u] # {} /\ (send[s].status = "absent" \/ ~recipient[s][u].send)

\* Nothing takes a suppression back.
LEMMA SuppressionsStay ==
    ASSUME IInv, [Next]_vars, NEW u \in Users
    PROVE  suppressed[u] \subseteq suppressed'[u]
<1>1. suppressed \in [Users -> SUBSET {"newsletters", "all_email"}]
  BY DEF IInv, TypeOK
<1>2. CASE UNCHANGED suppressed
  BY <1>2
<1>3. ASSUME NEW v, NEW scope, suppressed' = [suppressed EXCEPT ![v] = @ \cup {scope}]
      PROVE  suppressed[u] \subseteq suppressed'[u]
  BY <1>1, <1>3
<1>4. ASSUME NEW v, UnsubscribeNewsletters(v)
      PROVE  suppressed[u] \subseteq suppressed'[u]
  BY <1>2, <1>3, <1>4 DEF UnsubscribeNewsletters
<1>5. ASSUME NEW e, ApplyResendEmailEvent(e)
      PROVE  suppressed[u] \subseteq suppressed'[u]
  BY <1>2, <1>3, <1>5 DEF ApplyResendEmailEvent
<1>6. \/ UNCHANGED suppressed
      \/ \E v : UnsubscribeNewsletters(v)
      \/ \E e : ApplyResendEmailEvent(e)
  <2>1. CASE Tick \/ AdminStep \/ UNCHANGED vars
    BY <2>1 DEF Tick, AdminStep, PrepareNewsletterSend, CancelSend, vars, userVars
  <2>2. ASSUME NEW w, DispatchStep(w) \/ AbortDispatch(w)
        PROVE  UNCHANGED suppressed
    BY <2>2 DEF DispatchStep, AbortDispatch, ClaimDueSend, ChunkAccepted, ChunkRejected,
       ChunkAnswerLost, CommitDispatch, userVars
  <2>3. CASE ProviderStep
    BY <2>3 DEF ProviderStep, ProviderEmits, IgnoreResendEmailEvent, userVars
  <2>4. CASE UserStep
    BY <2>4 DEF UserStep, SaveEmailPreference, UnsubscribeAll, UnsubscribePromotional
  <2> QED
    BY <2>1, <2>2, <2>3, <2>4 DEF Next
<1> QED
  BY <1>2, <1>4, <1>5, <1>6

\* The decision of a row is the preparation's, and a send stays prepared.
LEMMA DecisionsStay ==
    ASSUME IInv, [Next]_vars, NEW s \in Sends, NEW u \in Users,
           send[s].status # "absent", ~recipient[s][u].send
    PROVE  ~recipient'[s][u].send
<1>1. TypeOK /\ recipient \in [Sends -> [Users -> Row]]
  BY DEF IInv, TypeOK
<1>2. CASE UNCHANGED recipient
  BY <1>2
<1>3. ASSUME NEW t, NEW scope, NEW at, PrepareNewsletterSend(t, scope, at)
      PROVE  ~recipient'[s][u].send
  BY <1>1, <1>3 DEF PrepareNewsletterSend, NextId
<1>4. ASSUME NEW w \in Workers, CommitDispatch(w)
      PROVE  ~recipient'[s][u].send
  <2>1. recipient' = [recipient EXCEPT ![claimed[w]] = draft[w]]
    BY <1>4 DEF CommitDispatch
  <2>2. claimed[w] = s => draft[w][u].send = recipient[s][u].send
    BY <1>4 DEF IInv, DraftsInv, DraftInv, CommitDispatch
  <2> QED
    BY <1>1, <2>1, <2>2
<1>5. ASSUME NEW e, ApplyResendEmailEvent(e)
      PROVE  ~recipient'[s][u].send
  <2>1. PICK t, v, type : recipient' = [recipient EXCEPT ![t][v].status = type]
    BY <1>5 DEF ApplyResendEmailEvent
  <2>2. recipient'[s][u] \in {recipient[s][u], [recipient[s][u] EXCEPT !.status = type]}
    BY <1>1, <2>1
  <2>3. recipient[s][u] \in Row
    BY <1>1
  <2> QED
    BY <2>2, <2>3 DEF Row
<1>6. \/ UNCHANGED recipient
      \/ \E t, scope, at : PrepareNewsletterSend(t, scope, at)
      \/ \E w \in Workers : CommitDispatch(w)
      \/ \E e : ApplyResendEmailEvent(e)
  <2>1. CASE Tick \/ AdminStep \/ UNCHANGED vars
    BY <2>1 DEF Tick, AdminStep, CancelSend, vars, rowVars
  <2>2. ASSUME NEW w \in Workers, DispatchStep(w) \/ AbortDispatch(w)
        PROVE  UNCHANGED recipient \/ CommitDispatch(w)
    BY <2>2 DEF DispatchStep, AbortDispatch, ClaimDueSend, ChunkAccepted, ChunkRejected,
       ChunkAnswerLost, rowVars
  <2>3. CASE ProviderStep
    BY <2>3 DEF ProviderStep, ProviderEmits, IgnoreResendEmailEvent, rowVars
  <2>4. CASE UserStep
    BY <2>4 DEF UserStep, SaveEmailPreference, UnsubscribeAll, UnsubscribePromotional,
       UnsubscribeNewsletters, rowVars
  <2> QED
    BY <2>1, <2>2, <2>3, <2>4 DEF Next
<1> QED
  BY <1>2, <1>3, <1>4, <1>5, <1>6

\* A send is prepared without the addresses that are suppressed by then.
LEMMA PreparedWithoutTheSuppressed ==
    ASSUME IInv, [Next]_vars, NEW s \in Sends, NEW u \in Users,
           suppressed[u] # {}, send[s].status = "absent"
    PROVE  send'[s].status = "absent" \/ ~recipient'[s][u].send
<1>1. /\ send \in [Sends -> SendRow] /\ recipient \in [Sends -> [Users -> Row]]
      /\ claimed \in [Workers -> Sends \cup {Nobody}]
  BY DEF IInv, TypeOK
<1>2. CASE UNCHANGED send
  BY <1>2
<1>3. ASSUME NEW t \in Sends, NEW scope, NEW at, PrepareNewsletterSend(t, scope, at)
      PROVE  send'[s].status = "absent" \/ ~recipient'[s][u].send
  <2>1. ~PreparedRow(scope, u).send
    BY DEF PreparedRow, NoRow, DecidesSend
  <2>2. t = s => recipient'[s] = [v \in Users |-> PreparedRow(scope, v)]
    BY <1>1, <1>3 DEF PrepareNewsletterSend
  <2>3. t # s => send'[s] = send[s]
    BY <1>1, <1>3 DEF PrepareNewsletterSend
  <2> QED
    BY <2>1, <2>2, <2>3
<1>4. ASSUME NEW t, CancelSend(t)
      PROVE  send'[s].status = "absent"
  <2>1. t # s /\ send' = [send EXCEPT ![t].status = "cancelled"]
    BY <1>4 DEF CancelSend
  <2> QED
    BY <1>1, <2>1
<1>5. ASSUME NEW w \in Workers, CommitDispatch(w)
      PROVE  send'[s].status = "absent"
  <2>1. claimed[w] # s
    BY <1>1, <1>5 DEF IInv, HeldIsScheduled, CommitDispatch
  <2>2. send' = [send EXCEPT ![claimed[w]].status = FinalStatus(w)]
    BY <1>5 DEF CommitDispatch
  <2> QED
    BY <1>1, <2>1, <2>2
<1>6. \/ UNCHANGED send
      \/ \E t \in Sends : \E scope, at : PrepareNewsletterSend(t, scope, at)
      \/ \E t : CancelSend(t)
      \/ \E w \in Workers : CommitDispatch(w)
  <2>1. CASE Tick \/ AdminStep \/ UNCHANGED vars
    BY <2>1 DEF Tick, AdminStep, vars, rowVars
  <2>2. ASSUME NEW w \in Workers, DispatchStep(w) \/ AbortDispatch(w)
        PROVE  UNCHANGED send \/ CommitDispatch(w)
    BY <2>2 DEF DispatchStep, AbortDispatch, ClaimDueSend, ChunkAccepted, ChunkRejected,
       ChunkAnswerLost, rowVars
  <2>3. CASE ProviderStep
    BY <2>3 DEF ProviderStep, ProviderEmits, ApplyResendEmailEvent, IgnoreResendEmailEvent, rowVars
  <2>4. CASE UserStep
    BY <2>4 DEF UserStep, SaveEmailPreference, UnsubscribeAll, UnsubscribePromotional,
       UnsubscribeNewsletters, rowVars
  <2> QED
    BY <2>1, <2>2, <2>3, <2>4 DEF Next
<1> QED
  BY <1>2, <1>3, <1>4, <1>5, <1>6

\* Whom a send spares, it goes on to spare,
LEMMA SparedStaySpared ==
    ASSUME IInv, [Next]_vars, NEW s \in Sends, NEW u \in Users, Spared(s, u)
    PROVE  Spared(s, u)'
<1>1. suppressed'[u] # {}
  BY SuppressionsStay DEF Spared
<1>2. send'[s].status = "absent" \/ ~recipient'[s][u].send
  BY DecisionsStay, PreparedWithoutTheSuppressed DEF Spared
<1> QED
  BY <1>1, <1>2 DEF Spared

\* and gets no copy.
LEMMA SparedGetNothing ==
    ASSUME IInv, NEW s \in Sends, NEW u \in Users, Spared(s, u)
    PROVE  copies[s][u] = 0
<1>1. CASE ~recipient[s][u].send
  BY <1>1 DEF IInv, SkippedRowsReachNobody
<1>2. CASE send[s].status = "absent"
  BY <1>2 DEF IInv, SkippedRowsReachNobody, FreshSends, NoRow
<1> QED
  BY <1>1, <1>2 DEF Spared

\* An address suppressed before a newsletter is prepared never gets it, whatever
\* preparations, dispatches, rollbacks, webhooks and unsubscriptions follow.
THEOREM SuppressedStaySpared == Spec => SuppressedAddressGetsNoLaterNewsletter
<1>1. ASSUME NEW s \in Sends, NEW u \in Users
      PROVE  Spec => [](suppressed[u] # {} /\ send[s].status = "absent"
                          => [](send[s].kind = "newsletter" => copies[s][u] = 0))
  <2>1. suppressed[u] # {} /\ send[s].status = "absent" => Spared(s, u)
    BY DEF Spared
  <2>2. IInv /\ Spared(s, u) /\ [Next]_vars => Spared(s, u)'
    BY SparedStaySpared
  <2>3. IInv /\ Spared(s, u) => (send[s].kind = "newsletter" => copies[s][u] = 0)
    BY SparedGetNothing
  <2> QED
    BY <2>1, <2>2, <2>3, Inductive, PTL DEF Spec
<1> QED
  BY <1>1 DEF SuppressedAddressGetsNoLaterNewsletter

-----------------------------------------------------------------------------
(* The promise of a send, implemented                                       *)

\* The refinement mapping, as functions.
PhaseMap == [s \in Sends |-> PhaseOf(s)]
TriedMap == [s \in Sends |-> TriedIn(s)]

\* The holder of a send is the worker that has claimed it.
LEMMA HolderIsUnique ==
    ASSUME NEW c, NEW w \in Workers, NEW s, c[w] = s,
           \A v \in Workers : c[v] = s => v = w
    PROVE  (CHOOSE v \in Workers : c[v] = s) = w
  OBVIOUS

\* A held send is attempted, and who is not left to do is tried;
LEMMA HeldSend ==
    ASSUME IInv, NEW w \in Workers, claimed[w] # Nobody
    PROVE  PhaseOf(claimed[w]) = "attempted" /\ TriedIn(claimed[w]) = Users \ todo[w]
<1>1. \A v \in Workers : claimed[v] = claimed[w] => v = w
  BY DEF IInv, OneHolder
<1>2. Holder(claimed[w]) = w
  BY <1>1, HolderIsUnique DEF Holder
<1>3. Locked(claimed[w])
  BY DEF Locked
<1> QED
  BY <1>2, <1>3 DEF PhaseOf, TriedIn

\* so it is after a step.
LEMMA HeldSendNext ==
    ASSUME IInv', NEW w \in Workers, claimed'[w] # Nobody, NEW s, claimed'[w] = s
    PROVE  PhaseOf(s)' = "attempted" /\ TriedIn(s)' = Users \ todo'[w]
<1>1. \A v \in Workers : claimed'[v] = s => v = w
  BY DEF IInv, OneHolder
<1>2. (CHOOSE v \in Workers : claimed'[v] = s) = w
  BY <1>1, HolderIsUnique
<1>3. \E v \in Workers : claimed'[v] = s
  OBVIOUS
<1> QED
  BY <1>2, <1>3 DEF PhaseOf, TriedIn, Locked, Holder

\* A send that nobody holds is what its status says;
LEMMA FreeSend ==
    ASSUME NEW s \in Sends, ~Locked(s)
    PROVE  /\ TriedIn(s) = {}
           /\ PhaseOf(s) = IF send[s].status \in {"sent", "failed"} THEN "settled"
                                                                    ELSE send[s].status
  BY DEF PhaseOf, TriedIn

\* so it is after a step.
LEMMA FreeSendNext ==
    ASSUME NEW s \in Sends, ~Locked(s)'
    PROVE  /\ TriedIn(s)' = {}
           /\ PhaseOf(s)' = IF send'[s].status \in {"sent", "failed"} THEN "settled"
                                                                      ELSE send'[s].status
  BY DEF PhaseOf, TriedIn

\* A send whose lock, holder and status stay as they are keeps its phase.
LEMMA OtherSend ==
    ASSUME IInv, IInv', NEW t \in Sends, send'[t].status = send[t].status,
           \A v \in Workers : claimed'[v] = t <=> claimed[v] = t,
           \A v \in Workers : claimed[v] = t => todo'[v] = todo[v]
    PROVE  PhaseOf(t)' = PhaseOf(t) /\ TriedIn(t)' = TriedIn(t)
<1>1. CASE Locked(t)
  <2>1. PICK v \in Workers : claimed[v] = t
    BY <1>1 DEF Locked
  <2>2. t # Nobody
    BY DEF Sends, Nobody
  <2> QED
    BY <2>1, <2>2, HeldSend, HeldSendNext
<1>2. CASE ~Locked(t)
  <2>1. ~Locked(t)'
    BY <1>2 DEF Locked
  <2> QED
    BY <1>2, <2>1, FreeSend, FreeSendNext
<1> QED
  BY <1>1, <1>2

\* A step that moves one send moves one phase.
LEMMA OneSendMoves ==
    ASSUME NEW s \in Sends,
           \A t \in Sends : t # s => PhaseOf(t)' = PhaseOf(t) /\ TriedIn(t)' = TriedIn(t)
    PROVE  /\ PhaseMap' = [PhaseMap EXCEPT ![s] = PhaseOf(s)']
           /\ TriedMap' = [TriedMap EXCEPT ![s] = TriedIn(s)']
           /\ PhaseMap[s] = PhaseOf(s)
           /\ TriedMap[s] = TriedIn(s)
  BY DEF PhaseMap, TriedMap

\* A preparation is the promise's.
LEMMA PrepareRefines ==
    ASSUME IInv, IInv', NEW s \in Sends, NEW scope, NEW at, PrepareNewsletterSend(s, scope, at)
    PROVE  Promise!Prepare(s)
<1>1. send[s].status = "absent" /\ send'[s].status = "scheduled"
      /\ \A t \in Sends : t # s => send'[t] = send[t]
  BY DEF IInv, TypeOK, PrepareNewsletterSend, NextId
<1>2. UNCHANGED <<claimed, todo, copies>>
  BY DEF PrepareNewsletterSend, workerVars, providerVars
<1>3. ~Locked(s) /\ ~Locked(s)'
  <2>1. s # Nobody
    BY DEF Sends, Nobody
  <2> QED
    BY <2>1, <1>1, <1>2 DEF IInv, HeldIsScheduled, Locked
<1>4. PhaseOf(s) = "absent" /\ PhaseOf(s)' = "scheduled" /\ TriedIn(s)' = {}
  BY <1>1, <1>3, FreeSend, FreeSendNext
<1>5. \A t \in Sends : t # s => PhaseOf(t)' = PhaseOf(t) /\ TriedIn(t)' = TriedIn(t)
  BY <1>1, <1>2, OtherSend
<1> QED
  BY <1>2, <1>4, <1>5, OneSendMoves
     DEF Promise!Prepare, Promise!Moves, PhaseMap, TriedMap

\* So is a cancellation.
LEMMA CancelRefines ==
    ASSUME IInv, IInv', NEW s \in Sends, CancelSend(s)
    PROVE  Promise!Cancel(s)
<1>1. send[s].status = "scheduled" /\ send'[s].status = "cancelled"
      /\ \A t \in Sends : t # s => send'[t] = send[t]
  BY DEF IInv, TypeOK, SendRow, CancelSend
<1>2. UNCHANGED <<claimed, todo, copies>>
  BY DEF CancelSend, workerVars, providerVars
<1>3. ~Locked(s) /\ ~Locked(s)'
  BY <1>2 DEF CancelSend, Locked
<1>4. PhaseOf(s) = "scheduled" /\ PhaseOf(s)' = "cancelled" /\ TriedIn(s)' = {}
  BY <1>1, <1>3, FreeSend, FreeSendNext
<1>5. \A t \in Sends : t # s => PhaseOf(t)' = PhaseOf(t) /\ TriedIn(t)' = TriedIn(t)
  BY <1>1, <1>2, OtherSend
<1> QED
  BY <1>2, <1>4, <1>5, OneSendMoves
     DEF Promise!Cancel, Promise!Moves, PhaseMap, TriedMap

\* A claim begins an attempt, in which those who are not pending count as
\* tried.
LEMMA ClaimRefines ==
    ASSUME IInv, IInv', NEW w \in Workers, NEW s \in Sends, ClaimDueSend(w, s)
    PROVE  Promise!Begin(s, Users \ Pending(s))
<1>0. s # Nobody
  BY DEF Sends, Nobody
<1>1. /\ claimed[w] = Nobody /\ claimed'[w] = s /\ todo'[w] = Pending(s)
      /\ \A v \in Workers : v # w => claimed'[v] = claimed[v] /\ todo'[v] = todo[v]
  BY DEF IInv, TypeOK, ClaimDueSend
<1>2. UNCHANGED <<send, copies>>
  BY DEF ClaimDueSend, rowVars, providerVars
<1>3. send[s].status = "scheduled" /\ ~Locked(s)
  BY DEF ClaimDueSend, Claimable
<1>4. PhaseOf(s) = "scheduled"
  BY <1>3, FreeSend
<1>5. PhaseOf(s)' = "attempted" /\ TriedIn(s)' = Users \ Pending(s)
  BY <1>0, <1>1, HeldSendNext
<1>6. ASSUME NEW t \in Sends, t # s
      PROVE  PhaseOf(t)' = PhaseOf(t) /\ TriedIn(t)' = TriedIn(t)
  <2>1. t # Nobody
    BY DEF Sends, Nobody
  <2>2. \A v \in Workers : /\ claimed'[v] = t <=> claimed[v] = t
                           /\ claimed[v] = t => todo'[v] = todo[v]
    BY <2>1, <1>1, <1>6
  <2> QED
    BY <2>2, <1>2, OtherSend
<1> QED
  BY <1>2, <1>4, <1>5, <1>6, OneSendMoves DEF Promise!Begin, PhaseMap, TriedMap

\* A provider call tries its chunk, once.
LEMMA ChunkRefines ==
    ASSUME IInv, IInv', NEW w \in Workers, NEW s, s = claimed[w],
           NEW chunk, SendChunk(w, chunk), UNCHANGED <<send, claimed>>,
           UNCHANGED copies \/ ProviderAccepts(s, chunk)
    PROVE  s \in Sends /\ chunk \in SUBSET Users /\ Promise!Try(s, chunk)
<1>1. s \in Sends /\ s # Nobody
  BY DEF IInv, TypeOK, SendChunk
<1>2. chunk \subseteq todo[w] /\ todo[w] \subseteq Users
  BY DEF IInv, TypeOK, SendChunk, IsNextChunk
<1>3. todo'[w] = todo[w] \ chunk /\ \A v \in Workers : v # w => todo'[v] = todo[v]
  BY DEF IInv, TypeOK, SendChunk
<1>4. PhaseOf(s) = "attempted" /\ TriedIn(s) = Users \ todo[w]
  BY <1>1, HeldSend
<1>5. PhaseOf(s)' = "attempted" /\ TriedIn(s)' = Users \ todo'[w]
  BY <1>1, HeldSendNext
<1>6. TriedIn(s)' = TriedIn(s) \cup chunk /\ chunk \cap TriedIn(s) = {}
  BY <1>2, <1>3, <1>4, <1>5
<1>7. ASSUME NEW t \in Sends, t # s
      PROVE  PhaseOf(t)' = PhaseOf(t) /\ TriedIn(t)' = TriedIn(t)
  <2>1. \A v \in Workers : claimed[v] = t => todo'[v] = todo[v]
    BY <1>3, <1>7
  <2> QED
    BY <2>1, OtherSend
<1>8. /\ PhaseMap' = [PhaseMap EXCEPT ![s] = PhaseOf(s)']
      /\ TriedMap' = [TriedMap EXCEPT ![s] = TriedIn(s)']
      /\ PhaseMap[s] = PhaseOf(s)
      /\ TriedMap[s] = TriedIn(s)
  BY <1>1, <1>7, OneSendMoves
<1>9. PhaseMap' = PhaseMap
  BY <1>4, <1>5, <1>8 DEF PhaseMap
<1>10. TriedMap' = [TriedMap EXCEPT ![s] = @ \cup chunk] /\ chunk \cap TriedMap[s] = {}
  BY <1>6, <1>8
<1>11. UNCHANGED copies \/ copies' = [copies EXCEPT ![s] = [u \in Users |->
                        IF u \in chunk THEN copies[s][u] + 1 ELSE copies[s][u]]]
  BY DEF ProviderAccepts
<1>12. PhaseMap[s] = "attempted"
  BY <1>4, <1>8
<1> QED
  BY <1>1, <1>2, <1>9, <1>10, <1>11, <1>12 DEF Promise!Try, PhaseMap, TriedMap

\* The two ways a dispatch ends: only the send it held moves.
LEMMA EndOfDispatch ==
    ASSUME IInv, IInv', NEW w \in Workers, NEW s \in Sends, claimed[w] = s, Release(w),
           copies' = copies,
           \A t \in Sends : t # s => send'[t].status = send[t].status
    PROVE  /\ send'[s].status = "scheduled" => Promise!GiveUp(s)
           /\ send'[s].status \in {"sent", "failed"} => Promise!Settle(s)
<1>0. s # Nobody
  BY DEF Sends, Nobody
<1>1. /\ claimed'[w] = Nobody
      /\ \A v \in Workers : v # w => claimed'[v] = claimed[v] /\ todo'[v] = todo[v]
  BY ReleaseEffect DEF IInv
<1>2. \A v \in Workers : v # w => claimed[v] # s
  BY <1>0 DEF IInv, OneHolder
<1>3. ~Locked(s)'
  BY <1>0, <1>1, <1>2 DEF Locked
<1>4. PhaseOf(s) = "attempted"
  BY <1>0, HeldSend
<1>5. ASSUME NEW t \in Sends, t # s
      PROVE  PhaseOf(t)' = PhaseOf(t) /\ TriedIn(t)' = TriedIn(t)
  <2>1. t # Nobody
    BY DEF Sends, Nobody
  <2>2. \A v \in Workers : /\ claimed'[v] = t <=> claimed[v] = t
                           /\ claimed[v] = t => todo'[v] = todo[v]
    BY <2>1, <1>1, <1>5
  <2> QED
    BY <2>2, <1>5, OtherSend
<1>6. TriedIn(s)' = {}
      /\ (send'[s].status \in {"sent", "failed"} => PhaseOf(s)' = "settled")
      /\ (send'[s].status = "scheduled" => PhaseOf(s)' = "scheduled")
  BY <1>3, FreeSendNext
<1> QED
  BY <1>4, <1>5, <1>6, OneSendMoves
     DEF Promise!GiveUp, Promise!Settle, Promise!Moves, PhaseMap, TriedMap

\* A commit settles the attempt.
LEMMA CommitRefines ==
    ASSUME IInv, IInv', NEW w \in Workers, CommitDispatch(w)
    PROVE  \E s \in Sends : Promise!Settle(s)
<1>1. PICK s \in Sends : s = claimed[w]
  BY DEF IInv, TypeOK, CommitDispatch
<1>2. send'[s].status = FinalStatus(w) /\ \A t \in Sends : t # s => send'[t] = send[t]
  BY <1>1 DEF IInv, TypeOK, SendRow, CommitDispatch
<1>3. FinalStatus(w) \in {"sending", "failed", "sent"}
  BY DEF FinalStatus
<1>4. send'[s].status # "sending"
  BY DEF IInv, SendAgreesWithRows, SendAgrees
<1>5. Release(w) /\ copies' = copies
  BY DEF CommitDispatch, providerVars
<1> QED
  BY <1>1, <1>2, <1>3, <1>4, <1>5, EndOfDispatch

\* A rollback ends it unsettled.
LEMMA AbortRefines ==
    ASSUME IInv, IInv', NEW w \in Workers, AbortDispatch(w)
    PROVE  \E s \in Sends : Promise!GiveUp(s)
<1>1. PICK s \in Sends : s = claimed[w] /\ s # Nobody
  BY DEF IInv, TypeOK, AbortDispatch
<1>2. send[s].status = "scheduled"
  BY <1>1 DEF IInv, HeldIsScheduled
<1>3. Release(w) /\ copies' = copies /\ send' = send
  BY DEF AbortDispatch, providerVars, rowVars
<1> QED
  BY <1>1, <1>2, <1>3, EndOfDispatch

\* What changes no send, claim or copy is no step of the promise.
LEMMA OtherStepsStutter ==
    ASSUME UNCHANGED <<send, claimed, todo, copies>>
    PROVE  UNCHANGED Promise!vars
  BY DEF Promise!vars, PhaseOf, TriedIn, Locked, Holder

\* Every step is a step of the promise, or none.
LEMMA StepRefines ==
    ASSUME IInv, IInv', [Next]_vars
    PROVE  [Promise!Next]_(Promise!vars)
<1>1. ASSUME NEW s \in Sends, NEW scope \in AudienceScopes, NEW at \in 0..MaxTime,
             PrepareNewsletterSend(s, scope, at)
      PROVE  Promise!Next
  BY <1>1, PrepareRefines DEF Promise!Next
<1>2. ASSUME NEW s \in Sends, CancelSend(s) PROVE Promise!Next
  BY <1>2, CancelRefines DEF Promise!Next
<1>3. ASSUME NEW w \in Workers, NEW s \in Sends, ClaimDueSend(w, s) PROVE Promise!Next
  <2>1. Promise!Begin(s, Users \ Pending(s)) /\ Users \ Pending(s) \in SUBSET Users
    BY <1>3, ClaimRefines
  <2> QED
    BY <2>1 DEF Promise!Next
<1>4. ASSUME NEW w \in Workers, NEW chunk,
             ChunkAccepted(w, chunk) \/ ChunkRejected(w, chunk) \/ ChunkAnswerLost(w, chunk)
      PROVE  Promise!Next
  <2>1. /\ SendChunk(w, chunk)
        /\ UNCHANGED <<send, claimed>>
        /\ UNCHANGED copies \/ ProviderAccepts(claimed[w], chunk)
    BY <1>4 DEF ChunkAccepted, ChunkRejected, ChunkAnswerLost, rowVars, providerVars
  <2>2. claimed[w] \in Sends /\ chunk \in SUBSET Users /\ Promise!Try(claimed[w], chunk)
    BY <2>1, ChunkRefines
  <2> QED
    BY <2>2 DEF Promise!Next
<1>5. ASSUME NEW w \in Workers, CommitDispatch(w) \/ AbortDispatch(w) PROVE Promise!Next
  BY <1>5, CommitRefines, AbortRefines DEF Promise!Next
<1>6. ASSUME Tick \/ ProviderStep \/ UserStep \/ UNCHANGED vars
      PROVE  UNCHANGED Promise!vars
  <2>1. UNCHANGED <<send, claimed, todo, copies>>
    BY <1>6 DEF Tick, ProviderStep, UserStep, ProviderEmits, ApplyResendEmailEvent,
       IgnoreResendEmailEvent, SaveEmailPreference, UnsubscribeAll, UnsubscribePromotional,
       UnsubscribeNewsletters, vars, rowVars, workerVars, providerVars
  <2> QED
    BY <2>1, OtherStepsStutter
<1> QED
  BY <1>1, <1>2, <1>3, <1>4, <1>5, <1>6 DEF Next, AdminStep, DispatchStep

\* The row locks, the drafts and the rollbacks implement the promise for every
\* number of workers, sends and users: one attempt at a time, one try per
\* recipient and attempt, none after a cancellation and none after a settlement.
THEOREM PromiseKept == Spec => KeepsDeliveryPromise
<1>1. Init => Promise!Init
  <2> SUFFICES ASSUME Init PROVE Promise!Init
    OBVIOUS
  <2>1. \A s \in Sends : ~Locked(s) /\ send[s].status = "absent"
    BY DEF Init, Locked, NoSend, Sends, Nobody
  <2>2. \A s \in Sends : PhaseOf(s) = "absent" /\ TriedIn(s) = {}
    BY <2>1, FreeSend
  <2> QED
    BY <2>2 DEF Init, Promise!Init
<1>2. IInv /\ IInv' /\ [Next]_vars => [Promise!Next]_(Promise!vars)
  BY StepRefines
<1> QED
  BY <1>1, <1>2, Inductive, PTL DEF Spec, KeepsDeliveryPromise, Promise!Spec
=============================================================================
