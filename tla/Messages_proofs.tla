--------------------------- MODULE Messages_proofs --------------------------
(***************************************************************************)
(* Messages: those that come in from a provider, the files that go with    *)
(* them, and the private chats about a trade.                              *)
(***************************************************************************)
EXTENDS InboundMessages, FileObjects, TradeChats, FiniteSetTheorems, TLAPS

-----------------------------------------------------------------------------
(* A message of a provider, delivered once or many times.                   *)

\* What one delivery of the message holds.
HandlerStates == [step : HandlerSteps, user : Senders \cup {NoUser}, verified : BOOLEAN]

\* A delivery past the look-up, on its way to a copy.
RoutedSteps == {"start_thread", "check", "generate", "append", "review", "append_once", "notify"}

\* A delivery that has looked for a copy and will append one.
CopyingSteps == {"generate", "append"}

\* Locked conversations and the others take different paths.
StepsFitKind ==
    \A h \in Handlers :
        IF kind \in LockedKinds
        THEN handler[h].step \notin {"start_thread", "check", "generate", "append", "notify"}
        ELSE handler[h].step \notin {"review", "append_once"}

\* The deliveries that have a copy and are about to notify.
Notifying == {h \in Handlers : handler[h].step = "notify"}

\* The deliveries that are going to append a copy.
Appending == {h \in Handlers : handler[h].step \in CopyingSteps}

\* Of the copies there are and those on their way all but the first are of a
\* delivery that overlapped another one.  Each notice has a copy of its own; so
\* has each delivery that is about to notify.
CopiesCounted ==
    /\ kind \in LockedKinds => copies <= 1
    /\ IsFiniteSet(Appending)
    /\ kind \notin LockedKinds => copies + Cardinality(Appending) <= 1 + overlaps
    /\ IsFiniteSet(Notifying) /\ notices + Cardinality(Notifying) <= copies

\* The author of the row is known by a verified address, unless the address was
\* given up meanwhile.
Trusted == slipped \/ (row.author # NoUser /\ contact[row.author] = "verified")

\* What the row and the deliveries say of an address follows from the contacts.
SendersAgree ==
    /\ \A u, v \in Senders : u # v /\ contact[u] = "verified" => contact[v] = "none"
    /\ row.status = "none" => row.author = NoUser
    /\ row.author # NoUser => slipped \/ contact[row.author] # "none"
    /\ row.author # NoUser /\ row.verified => Trusted
    /\ copies > 0 => Trusted
    /\ \A h \in Handlers :
          /\ handler[h].verified => handler[h].user # NoUser /\ contact[handler[h].user] = "verified"
          /\ handler[h].step = "store" /\ handler[h].user # NoUser =>
                slipped \/ contact[handler[h].user] # "none"
          /\ handler[h].step \in RoutedSteps => Trusted

\* The inductive invariant.  ConversationsTakeItOnce is not inductive: two
\* deliveries past the check would append two copies, so the invariant counts
\* the deliveries on their way to a copy too.
InboundIInv == InboundTypeOK /\ StepsFitKind /\ CopiesCounted /\ SendersAgree

\* The invariant holds before the first delivery.
LEMMA InboundInitHolds == InboundInit => InboundIInv
<1> SUFFICES ASSUME InboundInit
             PROVE  InboundIInv
  OBVIOUS
<1>1. \A h \in Handlers : handler[h] = Idle
  BY DEF InboundInit
<1>2. InboundTypeOK
  <2>1. /\ Idle \in HandlerStates
        /\ row \in [status : {"none", "queued", "routed", "unroutable", "analysed"},
                    author : Senders \cup {NoUser}, verified : BOOLEAN]
    BY DEF InboundInit, Idle, HandlerStates, HandlerSteps
  <2>2. handler \in [Handlers -> HandlerStates]
    BY <2>1 DEF InboundInit
  <2>3. /\ copies = 0 /\ notices = 0 /\ failures = 0 /\ duplicates = 0
        /\ delivered = FALSE /\ answered = FALSE /\ overlaps = 0 /\ slipped = FALSE
    BY DEF InboundInit
  <2>4. /\ channel \in {"email", "whatsapp"} /\ kind \in MessageKinds
        /\ target \in {"open", "gone", "own", "refuses"}
        /\ contact \in [Senders -> {"none", "unverified", "verified"}]
    BY DEF InboundInit
  <2>5. {copies, notices, failures, duplicates, overlaps} \subseteq Nat
    BY <2>3
  <2>6. {delivered, answered, slipped} \subseteq BOOLEAN
    BY <2>3
  <2> QED
    BY <2>1, <2>2, <2>4, <2>5, <2>6 DEF InboundTypeOK, HandlerStates
<1>3. StepsFitKind
  BY <1>1 DEF StepsFitKind, Idle
<1>4. CopiesCounted
  <2>1. Notifying = {} /\ Appending = {}
    BY <1>1 DEF Notifying, Appending, CopyingSteps, Idle
  <2> QED
    BY <1>1, <2>1, FS_EmptySet DEF InboundInit, CopiesCounted
<1>5. SendersAgree
  <2>1. \A u, v \in Senders : u # v /\ contact[u] = "verified" => contact[v] = "none"
    BY DEF InboundInit
  <2> QED
    BY <1>1, <2>1 DEF InboundInit, SendersAgree, RoutedSteps, Idle
<1> QED
  BY <1>2, <1>3, <1>4, <1>5 DEF InboundIInv

\* Both properties follow from the inductive invariant.
LEMMA InboundImplies == InboundIInv => ConversationsTakeItOnce /\ AuthorsAreVerified
<1> SUFFICES ASSUME InboundIInv
             PROVE  ConversationsTakeItOnce /\ AuthorsAreVerified
  OBVIOUS
<1>1. copies \in Nat /\ notices \in Nat
  BY DEF InboundIInv, InboundTypeOK
<1>2. notices <= copies
  BY <1>1, FS_CardinalityType DEF InboundIInv, CopiesCounted
<1>3. overlaps \in Nat /\ Cardinality(Appending) \in Nat
  BY FS_CardinalityType DEF InboundIInv, InboundTypeOK, CopiesCounted
<1>4. copies <= IF kind \in LockedKinds THEN 1 ELSE 1 + overlaps
  BY <1>1, <1>3 DEF InboundIInv, CopiesCounted
<1> QED
  BY <1>2, <1>4 DEF ConversationsTakeItOnce, AuthorsAreVerified, InboundIInv, SendersAgree, Trusted

\* A step of one delivery, which keeps what it has resolved or forgets it.
MovesTo(h, steps) ==
    /\ handler' \in [Handlers -> HandlerStates]
    /\ \A g \in Handlers \ {h} : handler'[g] = handler[g]
    /\ handler'[h].step \in steps
    /\ handler'[h].verified => handler[h].verified /\ handler'[h].user = handler[h].user
    /\ handler'[h].step # "idle" => handler'[h].user = handler[h].user

\* A delivery goes to its next step with what it has read.
LEMMA GotoMoves ==
  ASSUME InboundIInv, NEW h \in Handlers, NEW s \in HandlerSteps, Goto(h, s)
  PROVE  MovesTo(h, {s})
<1>1. handler \in [Handlers -> HandlerStates]
  BY DEF InboundIInv, InboundTypeOK, HandlerStates
<1>2. handler' = [handler EXCEPT ![h].step = s]
  BY DEF Goto
<1>3. handler' = [handler EXCEPT ![h] = [handler[h] EXCEPT !.step = s]]
  BY <1>2
<1>4. [handler[h] EXCEPT !.step = s] \in HandlerStates
  BY <1>1 DEF HandlerStates
<1> QED
  BY <1>1, <1>3, <1>4 DEF MovesTo, HandlerStates

\* A delivery that ends forgets what it has read.
LEMMA IdleMoves ==
  ASSUME InboundIInv, NEW h \in Handlers, handler' = [handler EXCEPT ![h] = Idle]
  PROVE  MovesTo(h, {"idle"})
<1>1. handler \in [Handlers -> HandlerStates]
  BY DEF InboundIInv, InboundTypeOK, HandlerStates
<1>2. Idle \in HandlerStates /\ Idle.step = "idle" /\ Idle.verified = FALSE
  BY DEF HandlerStates, HandlerSteps, Idle
<1> QED
  BY <1>1, <1>2 DEF MovesTo

\* No more deliveries are about to notify, one less when this one was.
LEMMA NotifyingShrinks ==
  ASSUME InboundIInv, NEW h \in Handlers, NEW steps, MovesTo(h, steps), "notify" \notin steps
  PROVE  /\ IsFiniteSet(Notifying') /\ Cardinality(Notifying') <= Cardinality(Notifying)
         /\ Cardinality(Notifying') \in Nat /\ Cardinality(Notifying) \in Nat
         /\ handler[h].step = "notify" => Cardinality(Notifying') = Cardinality(Notifying) - 1
<1>1. Notifying' = Notifying \ {h}
  BY DEF Notifying, MovesTo
<1>2. IsFiniteSet(Notifying) /\ Cardinality(Notifying) \in Nat
  BY FS_CardinalityType DEF InboundIInv, CopiesCounted
<1>3. IsFiniteSet(Notifying')
  BY <1>1, <1>2, FS_RemoveElement
<1>4. Cardinality(Notifying') = IF h \in Notifying THEN Cardinality(Notifying) - 1 ELSE Cardinality(Notifying)
  BY <1>1, <1>2, FS_RemoveElement
<1>5. Cardinality(Notifying') \in Nat
  BY <1>3, FS_CardinalityType
<1> QED
  BY <1>2, <1>3, <1>4, <1>5 DEF Notifying

\* A delivery that reaches the notice is one more that has a copy.
LEMMA NotifyingGrows ==
  ASSUME InboundIInv, NEW h \in Handlers, MovesTo(h, {"notify"}), handler[h].step # "notify"
  PROVE  IsFiniteSet(Notifying') /\ Cardinality(Notifying') = Cardinality(Notifying) + 1
         /\ Cardinality(Notifying) \in Nat
<1>1. Notifying' = Notifying \cup {h} /\ h \notin Notifying
  BY DEF Notifying, MovesTo
<1>2. IsFiniteSet(Notifying) /\ Cardinality(Notifying) \in Nat
  BY FS_CardinalityType DEF InboundIInv, CopiesCounted
<1> QED
  BY <1>1, <1>2, FS_AddElement

\* No more deliveries are going to append, one less when this one was.
LEMMA AppendingShrinks ==
  ASSUME InboundIInv, NEW h \in Handlers, NEW steps, MovesTo(h, steps),
         steps \cap CopyingSteps # {} => handler[h].step \in CopyingSteps
  PROVE  /\ IsFiniteSet(Appending') /\ Cardinality(Appending') <= Cardinality(Appending)
         /\ Cardinality(Appending') \in Nat /\ Cardinality(Appending) \in Nat
         /\ steps \cap CopyingSteps = {} /\ handler[h].step \in CopyingSteps =>
               Cardinality(Appending') = Cardinality(Appending) - 1
<1>1. Appending' \in SUBSET Appending
  BY DEF Appending, MovesTo
<1>2. IsFiniteSet(Appending) /\ Cardinality(Appending) \in Nat
  BY FS_CardinalityType DEF InboundIInv, CopiesCounted
<1>3. IsFiniteSet(Appending') /\ Cardinality(Appending') <= Cardinality(Appending)
  BY <1>1, <1>2, FS_Subset
<1>4. Cardinality(Appending') \in Nat
  BY <1>3, FS_CardinalityType
<1>5. ASSUME steps \cap CopyingSteps = {}, handler[h].step \in CopyingSteps
      PROVE  Cardinality(Appending') = Cardinality(Appending) - 1
  <2>1. Appending' = Appending \ {h} /\ h \in Appending
    BY <1>5 DEF Appending, MovesTo
  <2> QED
    BY <1>2, <2>1, FS_RemoveElement
<1> QED
  BY <1>2, <1>3, <1>4, <1>5

\* A delivery that has found no copy is one more that is going to append.
LEMMA AppendingGrows ==
  ASSUME InboundIInv, NEW h \in Handlers, NEW s \in CopyingSteps, MovesTo(h, {s}),
         handler[h].step \notin CopyingSteps
  PROVE  IsFiniteSet(Appending') /\ Cardinality(Appending') = Cardinality(Appending) + 1
         /\ Cardinality(Appending) \in Nat
<1>1. Appending' = Appending \cup {h} /\ h \notin Appending
  BY DEF Appending, MovesTo
<1>2. IsFiniteSet(Appending) /\ Cardinality(Appending) \in Nat
  BY FS_CardinalityType DEF InboundIInv, CopiesCounted
<1> QED
  BY <1>1, <1>2, FS_AddElement

\* A step that makes no copy, sends no notice and looks for no copy.
LEMMA CopiesStayCounted ==
  ASSUME InboundIInv, NEW h \in Handlers, NEW steps, MovesTo(h, steps), "notify" \notin steps,
         steps \cap CopyingSteps # {} => handler[h].step \in CopyingSteps,
         UNCHANGED <<kind, copies, notices, overlaps>>
  PROVE  CopiesCounted'
<1>1. copies \in Nat /\ notices \in Nat /\ notices + Cardinality(Notifying) <= copies
  BY DEF InboundIInv, InboundTypeOK, CopiesCounted
<1>2. IsFiniteSet(Notifying') /\ notices' + Cardinality(Notifying') <= copies'
  BY <1>1, NotifyingShrinks
<1>3. /\ IsFiniteSet(Appending') /\ Cardinality(Appending') <= Cardinality(Appending)
      /\ Cardinality(Appending') \in Nat /\ Cardinality(Appending) \in Nat
  BY AppendingShrinks
<1>4. IsFiniteSet(Appending') /\ (kind' \notin LockedKinds => copies' + Cardinality(Appending') <= 1 + overlaps')
  <2>1. overlaps \in Nat
    BY DEF InboundIInv, InboundTypeOK
  <2> QED
    BY <1>1, <1>3, <2>1 DEF InboundIInv, CopiesCounted
<1>5. kind' \in LockedKinds => copies' <= 1
  BY DEF InboundIInv, CopiesCounted
<1> QED
  BY <1>2, <1>4, <1>5 DEF CopiesCounted

\* A step that changes no contact and gives the row no other author.
LEMMA SendersStayAgreed ==
  ASSUME InboundIInv, NEW h \in Handlers, NEW steps, MovesTo(h, steps), "store" \notin steps,
         UNCHANGED <<contact, slipped>>, row'.author = row.author,
         row'.verified => row.verified, row'.status = "none" => row.status = "none",
         steps \cap RoutedSteps # {} => handler[h].step \in RoutedSteps \/ HasVerifiedAuthor,
         copies' > 0 => copies > 0 \/ handler[h].step \in RoutedSteps
  PROVE  SendersAgree'
<1>1. Trusted' <=> Trusted
  BY DEF Trusted
<1>2. \A g \in Handlers :
          /\ handler'[g].verified => handler'[g].user # NoUser /\ contact[handler'[g].user] = "verified"
          /\ handler'[g].step = "store" => handler'[g] = handler[g]
          /\ handler'[g].step \in RoutedSteps => handler[g].step \in RoutedSteps \/ HasVerifiedAuthor
  BY DEF MovesTo, InboundIInv, SendersAgree
<1>3. HasVerifiedAuthor => Trusted
  BY DEF HasVerifiedAuthor, InboundIInv, SendersAgree
<1>4. \A g \in Handlers : handler'[g].step \in RoutedSteps => Trusted'
  BY <1>1, <1>2, <1>3 DEF InboundIInv, SendersAgree
<1>5. copies' > 0 => Trusted'
  BY <1>1 DEF InboundIInv, SendersAgree
<1>6. row'.author # NoUser /\ row'.verified => Trusted'
  BY <1>1 DEF InboundIInv, SendersAgree
<1>7. \A g \in Handlers : handler'[g].step = "store" /\ handler'[g].user # NoUser =>
                slipped' \/ contact'[handler'[g].user] # "none"
  BY <1>2 DEF InboundIInv, SendersAgree
<1>8. /\ \A u, v \in Senders : u # v /\ contact'[u] = "verified" => contact'[v] = "none"
      /\ row'.status = "none" => row'.author = NoUser
      /\ row'.author # NoUser => slipped' \/ contact'[row'.author] # "none"
  BY DEF InboundIInv, SendersAgree
<1> QED
  BY <1>2, <1>4, <1>5, <1>6, <1>7, <1>8 DEF SendersAgree

\* A step stays on the path of its kind of conversation.
LEMMA FitsAfterMove ==
  ASSUME InboundIInv, NEW h \in Handlers, NEW steps, MovesTo(h, steps), UNCHANGED kind,
         IF kind \in LockedKinds
         THEN steps \cap {"start_thread", "check", "generate", "append", "notify"} = {}
         ELSE steps \cap {"review", "append_once"} = {}
  PROVE  StepsFitKind'
<1>1. ASSUME NEW g \in Handlers
      PROVE  IF kind \in LockedKinds
             THEN handler'[g].step \notin {"start_thread", "check", "generate", "append", "notify"}
             ELSE handler'[g].step \notin {"review", "append_once"}
  <2>1. CASE g = h
    BY <2>1 DEF MovesTo
  <2>2. CASE g # h
    BY <2>2 DEF MovesTo, InboundIInv, StepsFitKind
  <2> QED
    BY <2>1, <2>2
<1> QED
  BY <1>1 DEF StepsFitKind

\* The part of the type that a step of a delivery can change.
LEMMA TypeAfterMove ==
  ASSUME InboundIInv, NEW h \in Handlers, NEW steps, MovesTo(h, steps),
         UNCHANGED <<channel, kind, target, contact>>,
         row' \in [status : {"none", "queued", "routed", "unroutable", "analysed"},
                   author : Senders \cup {NoUser}, verified : BOOLEAN],
         {copies', notices', failures', duplicates', overlaps'} \subseteq Nat,
         {delivered', answered', slipped'} \subseteq BOOLEAN
  PROVE  InboundTypeOK'
  BY DEF InboundIInv, InboundTypeOK, MovesTo, HandlerStates

\* A webhook, and a webhook delivered again, start with nothing read.
LEMMA BeginKeepsInboundIInv ==
  ASSUME InboundIInv, NEW h \in Handlers, Deliver(h) \/ DeliverAgain(h)
  PROVE  InboundIInv'
<1>1. /\ handler[h].step = "idle"
      /\ handler' = [handler EXCEPT ![h].step = "resolve"]
      /\ delivered' = TRUE /\ answered' = (answered \/ AnswersFirst)
      /\ UNCHANGED <<channel, kind, target, contact, row, copies, notices, failures, overlaps, slipped>>
      /\ duplicates' \in {duplicates, duplicates + 1}
  BY DEF Deliver, DeliverAgain, Begin
<1>2. MovesTo(h, {"resolve"})
  BY <1>1, GotoMoves DEF Goto, HandlerSteps
<1>3. InboundTypeOK'
  <2>1. {copies', notices', failures', duplicates', overlaps'} \subseteq Nat
    BY <1>1 DEF InboundIInv, InboundTypeOK
  <2>2. {delivered', answered', slipped'} \subseteq BOOLEAN
    BY <1>1 DEF InboundIInv, InboundTypeOK, AnswersFirst
  <2> QED
    BY <1>1, <1>2, <2>1, <2>2, TypeAfterMove DEF InboundIInv, InboundTypeOK
<1>4. StepsFitKind'
  BY <1>1, <1>2, FitsAfterMove
<1>5. CopiesCounted'
  BY <1>1, <1>2, CopiesStayCounted DEF CopyingSteps
<1>6. SendersAgree'
  BY <1>1, <1>2, SendersStayAgreed DEF RoutedSteps
<1> QED
  BY <1>3, <1>4, <1>5, <1>6 DEF InboundIInv

\* A step of a delivery that neither stores the message, nor looks for a copy,
\* nor makes one, nor tells anybody.
QuietMove(h, steps) ==
    /\ MovesTo(h, steps)
    /\ UNCHANGED <<deliveryRest, copies, notices, overlaps>>
    /\ answered' \in BOOLEAN /\ failures' \in Nat
    /\ row' = row \/ \E s \in {"routed", "unroutable", "analysed"} : row' = [row EXCEPT !.status = s]

\* A step that writes no copy and sends no notice.
LEMMA QuietMoveKeepsInboundIInv ==
  ASSUME InboundIInv, NEW h \in Handlers, NEW steps, QuietMove(h, steps),
         "notify" \notin steps, "store" \notin steps,
         IF kind \in LockedKinds
         THEN steps \cap {"start_thread", "check", "generate", "append", "notify"} = {}
         ELSE steps \cap {"review", "append_once"} = {},
         steps \cap CopyingSteps # {} => handler[h].step \in CopyingSteps,
         steps \cap RoutedSteps # {} => handler[h].step \in RoutedSteps \/ HasVerifiedAuthor
  PROVE  InboundIInv'
<1>1. /\ MovesTo(h, steps)
      /\ UNCHANGED <<channel, kind, target, contact, delivered, duplicates, slipped,
                     copies, notices, overlaps>>
      /\ answered' \in BOOLEAN /\ failures' \in Nat
  BY DEF QuietMove, deliveryRest
<1>2. /\ row' \in [status : {"none", "queued", "routed", "unroutable", "analysed"},
                   author : Senders \cup {NoUser}, verified : BOOLEAN]
      /\ row'.author = row.author /\ row'.verified = row.verified
      /\ row'.status = "none" => row.status = "none"
  <2>1. row \in [status : {"none", "queued", "routed", "unroutable", "analysed"},
                 author : Senders \cup {NoUser}, verified : BOOLEAN]
    BY DEF InboundIInv, InboundTypeOK
  <2>2. CASE row' = row
    BY <2>1, <2>2
  <2>3. ASSUME NEW s \in {"routed", "unroutable", "analysed"}, row' = [row EXCEPT !.status = s]
        PROVE  /\ row' \in [status : {"none", "queued", "routed", "unroutable", "analysed"},
                            author : Senders \cup {NoUser}, verified : BOOLEAN]
               /\ row'.author = row.author /\ row'.verified = row.verified
               /\ row'.status = "none" => row.status = "none"
    BY <2>1, <2>3
  <2> QED
    BY <2>2, <2>3 DEF QuietMove
<1>3. InboundTypeOK'
  <2>1. {copies', notices', failures', duplicates', overlaps'} \subseteq Nat
    BY <1>1 DEF InboundIInv, InboundTypeOK
  <2>2. {delivered', answered', slipped'} \subseteq BOOLEAN
    BY <1>1 DEF InboundIInv, InboundTypeOK
  <2> QED
    BY <1>1, <1>2, <2>1, <2>2, TypeAfterMove
<1>4. StepsFitKind'
  BY <1>1, FitsAfterMove
<1>5. CopiesCounted'
  BY <1>1, CopiesStayCounted
<1>6. SendersAgree'
  BY <1>1, <1>2, SendersStayAgreed
<1> QED
  BY <1>3, <1>4, <1>5, <1>6 DEF InboundIInv

\* A handler that raises, or dies, leaves the rows as they were committed.
LEMMA FailureKeepsInboundIInv ==
  ASSUME InboundIInv, NEW h \in Handlers, Fails(h) \/ RefuseTurn(h) \/ RefuseReply(h)
  PROVE  InboundIInv'
<1>1. /\ handler' = [handler EXCEPT ![h] = Idle]
      /\ failures' \in Nat /\ answered' \in BOOLEAN
      /\ UNCHANGED <<deliveryRest, row, copies, notices, overlaps>>
  BY DEF Fails, RefuseTurn, RefuseReply, InboundIInv, InboundTypeOK
<1>2. QuietMove(h, {"idle"})
  BY <1>1, IdleMoves DEF QuietMove
<1> QED
  BY <1>2, QuietMoveKeepsInboundIInv DEF CopyingSteps, RoutedSteps

\* A handler that is done changes no row.
LEMMA EndKeepsInboundIInv ==
  ASSUME InboundIInv, NEW h \in Handlers, AnalyseText(h) \/ MarkRouted(h) \/ MarkUnroutable(h)
  PROVE  InboundIInv'
<1>1. /\ handler' = [handler EXCEPT ![h] = Idle]
      /\ failures' \in Nat /\ answered' \in BOOLEAN
      /\ UNCHANGED <<deliveryRest, copies, notices, overlaps>>
      /\ \E s \in {"routed", "unroutable", "analysed"} : row' = [row EXCEPT !.status = s]
  BY DEF AnalyseText, MarkRouted, MarkUnroutable, EndDelivery, InboundIInv, InboundTypeOK
<1>2. QuietMove(h, {"idle"})
  BY <1>1, IdleMoves DEF QuietMove
<1> QED
  BY <1>2, QuietMoveKeepsInboundIInv DEF CopyingSteps, RoutedSteps

\* The look-up of the conversation decides which path is taken.
LEMMA LookUpKeepsInboundIInv ==
  ASSUME InboundIInv, NEW h \in Handlers,
         LookUp(h) \/ LookUpTrade(h) \/ StartTradeThread(h) \/ GenerateAnswer(h) \/ Review(h)
  PROVE  InboundIInv'
<1>1. /\ UNCHANGED <<deliveryRest, row, copies, notices, answered, failures, overlaps>>
      /\ failures' \in Nat /\ answered' \in BOOLEAN
  BY DEF LookUp, LookUpTrade, StartTradeThread, GenerateAnswer, Review, InboundIInv, InboundTypeOK
<1>2. ASSUME NEW s \in HandlerSteps, Goto(h, s)
      PROVE  QuietMove(h, {s})
  BY <1>1, <1>2, GotoMoves DEF QuietMove
<1>3. IF kind \in LockedKinds
      THEN handler[h].step \notin {"start_thread", "check", "generate", "append", "notify"}
      ELSE handler[h].step \notin {"review", "append_once"}
  BY DEF InboundIInv, StepsFitKind
<1>4. kind = "trade" => kind \notin LockedKinds
  BY DEF LockedKinds
<1>5. PICK s \in HandlerSteps :
          /\ Goto(h, s) /\ s \notin {"notify", "store"}
          /\ IF kind \in LockedKinds
             THEN s \notin {"start_thread", "check", "generate", "append", "notify"}
             ELSE s \notin {"review", "append_once"}
          /\ s \in CopyingSteps => handler[h].step \in CopyingSteps
          /\ s \in RoutedSteps => handler[h].step \in RoutedSteps \/ HasVerifiedAuthor
  <2>1. CASE LookUp(h)
    BY <2>1 DEF LookUp, FirstStep, HandlerSteps, CopyingSteps, RoutedSteps
  <2>2. CASE LookUpTrade(h)
    BY <2>2, <1>4 DEF LookUpTrade, HandlerSteps, CopyingSteps, RoutedSteps
  <2>3. CASE StartTradeThread(h)
    BY <2>3, <1>3 DEF StartTradeThread, HandlerSteps, CopyingSteps, RoutedSteps
  <2>4. CASE GenerateAnswer(h)
    BY <2>4, <1>3 DEF GenerateAnswer, HandlerSteps, CopyingSteps, RoutedSteps
  <2>5. CASE Review(h)
    BY <2>5, <1>3 DEF Review, HandlerSteps, CopyingSteps, RoutedSteps
  <2> QED
    BY <2>1, <2>2, <2>3, <2>4, <2>5
<1>6. QuietMove(h, {s})
  BY <1>2, <1>5
<1> QED
  BY <1>5, <1>6, QuietMoveKeepsInboundIInv

\* The check for an earlier copy lets one delivery pass when none overlaps.
LEMMA CheckKeepsInboundIInv ==
  ASSUME InboundIInv, NEW h \in Handlers, CheckForCopy(h)
  PROVE  InboundIInv'
<1>1. /\ handler[h].step = "check"
      /\ overlaps' = IF ~HasCopy /\ Appending # {} THEN overlaps + 1 ELSE overlaps
      /\ UNCHANGED <<channel, kind, target, contact, delivered, duplicates, slipped,
                     row, copies, notices, answered, failures>>
  BY DEF CheckForCopy, Copying, Appending, CopyingSteps, deliveryRest
<1>2. PICK s \in {"mark", "generate", "append"} : Goto(h, s) /\ (s # "mark" <=> copies = 0)
  BY DEF CheckForCopy, HasCopy, InboundIInv, InboundTypeOK
<1>3. MovesTo(h, {s})
  BY <1>2, GotoMoves DEF HandlerSteps
<1>4. InboundTypeOK'
  <2>1. {copies', notices', failures', duplicates', overlaps'} \subseteq Nat
    BY <1>1 DEF InboundIInv, InboundTypeOK
  <2>2. {delivered', answered', slipped'} \subseteq BOOLEAN
    BY <1>1 DEF InboundIInv, InboundTypeOK
  <2> QED
    BY <1>1, <1>3, <2>1, <2>2, TypeAfterMove DEF InboundIInv, InboundTypeOK
<1>5. StepsFitKind'
  BY <1>1, <1>2, <1>3, FitsAfterMove DEF InboundIInv, StepsFitKind
<1>6. CopiesCounted'
  <2>1. IsFiniteSet(Notifying') /\ notices' + Cardinality(Notifying') <= copies'
    <3>1. notices \in Nat /\ copies \in Nat /\ notices + Cardinality(Notifying) <= copies
      BY DEF InboundIInv, InboundTypeOK, CopiesCounted
    <3> QED
      BY <1>1, <1>3, <3>1, NotifyingShrinks
  <2>2. kind' \in LockedKinds => copies' <= 1
    BY <1>1 DEF InboundIInv, CopiesCounted
  <2>3. copies \in Nat /\ overlaps \in Nat /\ handler[h].step \notin CopyingSteps
    BY <1>1 DEF InboundIInv, InboundTypeOK, CopyingSteps
  <2>4. CASE s = "mark"
    <3>1. {s} \cap CopyingSteps = {} /\ overlaps' = overlaps
      BY <1>1, <1>2, <2>3, <2>4 DEF CopyingSteps, HasCopy
    <3>2. /\ IsFiniteSet(Appending') /\ Cardinality(Appending') <= Cardinality(Appending)
          /\ Cardinality(Appending') \in Nat /\ Cardinality(Appending) \in Nat
      BY <1>3, <3>1, AppendingShrinks
    <3>3. kind' \notin LockedKinds => copies' + Cardinality(Appending') <= 1 + overlaps'
      BY <1>1, <2>3, <3>1, <3>2 DEF InboundIInv, CopiesCounted
    <3> QED
      BY <2>1, <2>2, <3>2, <3>3 DEF CopiesCounted
  <2>5. CASE s # "mark"
    <3>1. s \in CopyingSteps /\ copies = 0 /\ ~HasCopy
      BY <1>2, <2>5 DEF CopyingSteps, HasCopy
    <3>2. /\ IsFiniteSet(Appending') /\ Cardinality(Appending') = Cardinality(Appending) + 1
          /\ Cardinality(Appending) \in Nat
      BY <1>3, <2>3, <3>1, AppendingGrows
    <3>3. Appending = {} => Cardinality(Appending) = 0
      BY FS_EmptySet
    <3>4. kind' \notin LockedKinds => copies' + Cardinality(Appending') <= 1 + overlaps'
      BY <1>1, <2>3, <3>1, <3>2, <3>3 DEF InboundIInv, CopiesCounted
    <3> QED
      BY <2>1, <2>2, <3>2, <3>4 DEF CopiesCounted
  <2> QED
    BY <2>4, <2>5
<1>7. SendersAgree'
  BY <1>1, <1>2, <1>3, SendersStayAgreed DEF RoutedSteps
<1> QED
  BY <1>4, <1>5, <1>6, <1>7 DEF InboundIInv

\* A copy is appended to a conversation that is not locked.
LEMMA AppendTurnKeepsInboundIInv ==
  ASSUME InboundIInv, NEW h \in Handlers, AppendTurn(h)
  PROVE  InboundIInv'
<1>1. /\ handler[h].step = "append" /\ copies' = copies + 1 /\ Goto(h, "notify")
      /\ UNCHANGED <<channel, kind, target, contact, delivered, duplicates, slipped,
                     row, notices, answered, failures, overlaps>>
  BY DEF AppendTurn, deliveryRest
<1>2. MovesTo(h, {"notify"})
  BY <1>1, GotoMoves DEF HandlerSteps
<1>3. copies \in Nat /\ notices \in Nat
  BY DEF InboundIInv, InboundTypeOK
<1>4. InboundTypeOK'
  <2>1. {copies', notices', failures', duplicates', overlaps'} \subseteq Nat
    BY <1>1 DEF InboundIInv, InboundTypeOK
  <2>2. {delivered', answered', slipped'} \subseteq BOOLEAN
    BY <1>1 DEF InboundIInv, InboundTypeOK
  <2> QED
    BY <1>1, <1>2, <2>1, <2>2, TypeAfterMove DEF InboundIInv, InboundTypeOK
<1>5. kind \notin LockedKinds
  BY <1>1 DEF InboundIInv, StepsFitKind
<1>6. StepsFitKind'
  BY <1>1, <1>2, <1>5, FitsAfterMove
<1>7. CopiesCounted'
  <2>1. notices + Cardinality(Notifying) <= copies
    BY DEF InboundIInv, CopiesCounted
  <2>2. IsFiniteSet(Notifying') /\ notices' + Cardinality(Notifying') <= copies'
    BY <1>1, <1>2, <1>3, <2>1, NotifyingGrows
  <2>3. {"notify"} \cap CopyingSteps = {} /\ handler[h].step \in CopyingSteps
    BY <1>1 DEF CopyingSteps
  <2>4. /\ IsFiniteSet(Appending') /\ Cardinality(Appending') = Cardinality(Appending) - 1
        /\ Cardinality(Appending) \in Nat
    BY <1>2, <2>3, AppendingShrinks
  <2>5. copies + Cardinality(Appending) <= 1 + overlaps /\ overlaps \in Nat
    BY <1>5 DEF InboundIInv, InboundTypeOK, CopiesCounted
  <2>6. copies' + Cardinality(Appending') <= 1 + overlaps'
    BY <1>1, <1>3, <2>4, <2>5
  <2> QED
    BY <1>1, <1>5, <2>2, <2>4, <2>6 DEF CopiesCounted
<1>8. SendersAgree'
  BY <1>1, <1>2, SendersStayAgreed DEF RoutedSteps
<1> QED
  BY <1>4, <1>6, <1>7, <1>8 DEF InboundIInv

\* A notice is sent for a copy that is there.
LEMMA NotifyKeepsInboundIInv ==
  ASSUME InboundIInv, NEW h \in Handlers, Notify(h)
  PROVE  InboundIInv'
<1>1. /\ handler[h].step = "notify" /\ notices' \in {notices, notices + 1} /\ Goto(h, "mark")
      /\ UNCHANGED <<channel, kind, target, contact, delivered, duplicates, slipped,
                     row, copies, answered, failures, overlaps>>
  BY DEF Notify, deliveryRest
<1>2. MovesTo(h, {"mark"})
  BY <1>1, GotoMoves DEF HandlerSteps
<1>3. copies \in Nat /\ notices \in Nat
  BY DEF InboundIInv, InboundTypeOK
<1>4. InboundTypeOK'
  <2>1. {copies', notices', failures', duplicates', overlaps'} \subseteq Nat
    BY <1>1 DEF InboundIInv, InboundTypeOK
  <2>2. {delivered', answered', slipped'} \subseteq BOOLEAN
    BY <1>1 DEF InboundIInv, InboundTypeOK
  <2> QED
    BY <1>1, <1>2, <2>1, <2>2, TypeAfterMove DEF InboundIInv, InboundTypeOK
<1>5. StepsFitKind'
  BY <1>1, <1>2, FitsAfterMove
<1>6. CopiesCounted'
  <2>1. notices + Cardinality(Notifying) <= copies
    BY DEF InboundIInv, CopiesCounted
  <2>2. IsFiniteSet(Notifying') /\ notices' + Cardinality(Notifying') <= copies'
    BY <1>1, <1>2, <1>3, <2>1, NotifyingShrinks
  <2>3. /\ IsFiniteSet(Appending') /\ Cardinality(Appending') <= Cardinality(Appending)
        /\ Cardinality(Appending') \in Nat /\ Cardinality(Appending) \in Nat
    BY <1>2, AppendingShrinks DEF CopyingSteps
  <2>4. kind' \notin LockedKinds => copies' + Cardinality(Appending') <= 1 + overlaps'
    <3>1. overlaps \in Nat
      BY DEF InboundIInv, InboundTypeOK
    <3> QED
      BY <1>1, <1>3, <2>3, <3>1 DEF InboundIInv, CopiesCounted
  <2> QED
    BY <1>1, <2>2, <2>3, <2>4 DEF InboundIInv, CopiesCounted
<1>7. SendersAgree'
  BY <1>1, <1>2, SendersStayAgreed DEF RoutedSteps
<1> QED
  BY <1>4, <1>5, <1>6, <1>7 DEF InboundIInv

\* Under the lock, a copy is appended when there is none.
LEMMA AppendOnceKeepsInboundIInv ==
  ASSUME InboundIInv, NEW h \in Handlers, AppendOnce(h)
  PROVE  InboundIInv'
<1>1. /\ handler[h].step = "append_once" /\ copies' \in {copies, CopiesAfterLock}
      /\ UNCHANGED <<channel, kind, target, contact, delivered, duplicates, slipped,
                     row, notices, answered, failures, overlaps>>
  BY DEF AppendOnce, deliveryRest
<1>2. PICK s \in {"mark", "unroute"} : Goto(h, s)
  BY DEF AppendOnce
<1>3. MovesTo(h, {s})
  BY <1>2, GotoMoves DEF HandlerSteps
<1>4. copies \in Nat /\ notices \in Nat /\ copies' \in Nat /\ copies <= copies'
      /\ (copies' = copies \/ copies' <= 1)
  BY <1>1 DEF InboundIInv, InboundTypeOK, CopiesAfterLock
<1>5. InboundTypeOK'
  <2>1. {copies', notices', failures', duplicates', overlaps'} \subseteq Nat
    BY <1>1, <1>4 DEF InboundIInv, InboundTypeOK
  <2>2. {delivered', answered', slipped'} \subseteq BOOLEAN
    BY <1>1 DEF InboundIInv, InboundTypeOK
  <2> QED
    BY <1>1, <1>3, <2>1, <2>2, TypeAfterMove DEF InboundIInv, InboundTypeOK
<1>6. kind \in LockedKinds /\ \A g \in Handlers : handler[g].step \notin CopyingSteps
  BY <1>1 DEF InboundIInv, StepsFitKind, CopyingSteps
<1>7. StepsFitKind'
  BY <1>1, <1>2, <1>3, FitsAfterMove
<1>8. CopiesCounted'
  <2>1. notices + Cardinality(Notifying) <= copies
    BY DEF InboundIInv, CopiesCounted
  <2>2. IsFiniteSet(Notifying') /\ notices' + Cardinality(Notifying') <= copies'
    BY <1>1, <1>2, <1>3, <1>4, <2>1, NotifyingShrinks
  <2>3. IsFiniteSet(Appending')
    BY <1>2, <1>3, AppendingShrinks DEF CopyingSteps
  <2>4. copies' <= 1
    BY <1>4, <1>6 DEF InboundIInv, CopiesCounted
  <2> QED
    BY <1>1, <1>6, <2>2, <2>3, <2>4 DEF CopiesCounted
<1>9. SendersAgree'
  BY <1>1, <1>2, <1>3, SendersStayAgreed DEF RoutedSteps
<1> QED
  BY <1>5, <1>7, <1>8, <1>9 DEF InboundIInv

\* The sender of a delivery is looked up by the address.
LEMMA ResolveKeepsInboundIInv ==
  ASSUME InboundIInv, NEW h \in Handlers, ResolveSender(h)
  PROVE  InboundIInv'
<1>1. /\ handler[h].step = "resolve"
      /\ UNCHANGED <<channel, kind, target, contact, delivered, duplicates, slipped,
                     row, copies, notices, answered, failures, overlaps>>
  BY DEF ResolveSender, deliveryRest
<1>2. PICK state \in HandlerStates :
          /\ handler' = [handler EXCEPT ![h] = state] /\ state.step = "store"
          /\ state.verified => state.user # NoUser /\ contact[state.user] = "verified"
          /\ state.user # NoUser => contact[state.user] # "none"
  <2>1. ASSUME NEW u \in Senders, MayBeResolvedTo(u),
               handler' = [handler EXCEPT ![h] = [step |-> "store", user |-> u,
                                                  verified |-> contact[u] = "verified"]]
        PROVE  \E state \in HandlerStates :
                  /\ handler' = [handler EXCEPT ![h] = state] /\ state.step = "store"
                  /\ state.verified => state.user # NoUser /\ contact[state.user] = "verified"
                  /\ state.user # NoUser => contact[state.user] # "none"
    <3> DEFINE state == [step |-> "store", user |-> u, verified |-> contact[u] = "verified"]
    <3>1. state \in HandlerStates
      BY DEF HandlerStates, HandlerSteps
    <3>2. state.verified => u # NoUser /\ contact[u] = "verified"
      BY InboundMessagesAssumption
    <3>3. contact[u] # "none"
      BY <2>1 DEF MayBeResolvedTo
    <3>4. state.step = "store" /\ state.user = u
      OBVIOUS
    <3>5. handler' = [handler EXCEPT ![h] = state]
      BY <2>1
    <3> HIDE DEF state
    <3> QED
      BY <3>1, <3>2, <3>3, <3>4, <3>5
  <2>2. CASE handler' = [handler EXCEPT ![h] = [Idle EXCEPT !.step = "store"]]
    <3> DEFINE state == [Idle EXCEPT !.step = "store"]
    <3>1. state \in HandlerStates /\ state.step = "store" /\ state.user = NoUser /\ state.verified = FALSE
      BY DEF HandlerStates, HandlerSteps, Idle
    <3>2. handler' = [handler EXCEPT ![h] = state]
      BY <2>2
    <3> HIDE DEF state
    <3> QED
      BY <3>1, <3>2
  <2> QED
    BY <2>1, <2>2 DEF ResolveSender
<1>3. handler \in [Handlers -> HandlerStates]
  BY DEF InboundIInv, InboundTypeOK, HandlerStates
<1>4. /\ handler' \in [Handlers -> HandlerStates] /\ handler'[h] = state
      /\ \A g \in Handlers \ {h} : handler'[g] = handler[g]
  BY <1>2, <1>3
<1>5. InboundTypeOK'
  BY <1>1, <1>4 DEF InboundIInv, InboundTypeOK, HandlerStates
<1>6. StepsFitKind'
  BY <1>1, <1>2, <1>4 DEF InboundIInv, StepsFitKind
<1>7. CopiesCounted'
  <2>1. Notifying' = Notifying
    BY <1>1, <1>2, <1>4 DEF Notifying
  <2>2. Appending' = Appending
    BY <1>1, <1>2, <1>4 DEF Appending, CopyingSteps
  <2> QED
    BY <1>1, <2>1, <2>2 DEF InboundIInv, CopiesCounted
<1>8. SendersAgree'
  <2>1. Trusted' <=> Trusted
    BY <1>1 DEF Trusted
  <2>2. ASSUME NEW g \in Handlers
        PROVE  /\ handler'[g].verified => handler'[g].user # NoUser /\ contact'[handler'[g].user] = "verified"
               /\ handler'[g].step = "store" /\ handler'[g].user # NoUser =>
                     slipped' \/ contact'[handler'[g].user] # "none"
               /\ handler'[g].step \in RoutedSteps => Trusted'
    <3>1. CASE g = h
      BY <3>1, <1>1, <1>2, <1>4 DEF RoutedSteps
    <3>2. CASE g # h
      BY <3>2, <1>1, <1>4, <2>1 DEF InboundIInv, SendersAgree
    <3> QED
      BY <3>1, <3>2
  <2> QED
    BY <1>1, <2>1, <2>2 DEF InboundIInv, SendersAgree
<1> QED
  BY <1>5, <1>6, <1>7, <1>8 DEF InboundIInv

\* The row of the message is inserted once, or found.
LEMMA StoreKeepsInboundIInv ==
  ASSUME InboundIInv, NEW h \in Handlers, StoreMessage(h)
  PROVE  InboundIInv'
<1>1. /\ handler[h].step = "store" /\ row' = Upserted(h)
      /\ UNCHANGED <<channel, kind, target, contact, delivered, duplicates, slipped,
                     copies, notices, answered, failures, overlaps>>
  BY DEF StoreMessage, deliveryRest
<1>2. PICK s \in {"analyse", "look_up"} : Goto(h, s)
  BY DEF StoreMessage
<1>3. MovesTo(h, {s})
  BY <1>2, GotoMoves DEF HandlerSteps
<1>4. /\ row \in [status : {"none", "queued", "routed", "unroutable", "analysed"},
                 author : Senders \cup {NoUser}, verified : BOOLEAN]
      /\ handler[h] \in HandlerStates
  BY DEF InboundIInv, InboundTypeOK, HandlerStates
<1>5. /\ row' \in [status : {"none", "queued", "routed", "unroutable", "analysed"},
                  author : Senders \cup {NoUser}, verified : BOOLEAN]
      /\ row'.status # "none" /\ (row'.verified <=> handler[h].verified)
      /\ row'.author = IF row.status = "none" THEN handler[h].user ELSE row.author
  <2>1. CASE row.status = "none"
    BY <2>1, <1>1, <1>4 DEF Upserted, HandlerStates
  <2>2. CASE row.status # "none"
    BY <2>2, <1>1, <1>4 DEF Upserted, HandlerStates
  <2> QED
    BY <2>1, <2>2
<1>6. InboundTypeOK'
  <2>1. {copies', notices', failures', duplicates', overlaps'} \subseteq Nat
    BY <1>1 DEF InboundIInv, InboundTypeOK
  <2>2. {delivered', answered', slipped'} \subseteq BOOLEAN
    BY <1>1 DEF InboundIInv, InboundTypeOK
  <2> QED
    BY <1>1, <1>3, <1>5, <2>1, <2>2, TypeAfterMove
<1>7. StepsFitKind'
  BY <1>1, <1>2, <1>3, FitsAfterMove
<1>8. CopiesCounted'
  BY <1>1, <1>2, <1>3, CopiesStayCounted DEF CopyingSteps
<1>9. SendersAgree'
  <2>1. Trusted => Trusted'
    BY <1>1, <1>5 DEF Trusted, InboundIInv, SendersAgree
  <2>2. row'.author # NoUser => slipped' \/ contact'[row'.author] # "none"
    BY <1>1, <1>5 DEF InboundIInv, SendersAgree
  <2>3. row'.author # NoUser /\ row'.verified => Trusted'
    <3> SUFFICES ASSUME row'.author # NoUser, row'.verified, ~slipped
                 PROVE  contact[row'.author] = "verified"
      BY <1>1 DEF Trusted
    <3>1. /\ handler[h].user \in Senders /\ contact[handler[h].user] = "verified"
          /\ row'.author \in Senders
      BY <1>4, <1>5 DEF InboundIInv, SendersAgree, HandlerStates
    <3>2. contact[row'.author] # "none"
      BY <1>1, <2>2
    <3> QED
      BY <3>1, <3>2 DEF InboundIInv, SendersAgree
  <2>4. \A g \in Handlers :
          /\ handler'[g].verified => handler[g].verified /\ handler'[g].user = handler[g].user
          /\ handler'[g].step = "store" => handler'[g] = handler[g]
          /\ handler'[g].step \in RoutedSteps => handler[g].step \in RoutedSteps
    BY <1>2, <1>3 DEF MovesTo, RoutedSteps
  <2> QED
    BY <1>1, <1>5, <2>1, <2>2, <2>3, <2>4 DEF InboundIInv, SendersAgree
<1> QED
  BY <1>6, <1>7, <1>8, <1>9 DEF InboundIInv

\* An address is listed, verified, removed or claimed by somebody else.
LEMMA AddressKeepsInboundIInv ==
  ASSUME InboundIInv, AddressStep
  PROVE  InboundIInv'
<1>1. UNCHANGED <<channel, kind, row, copies, notices, delivered, answered, handler,
                 failures, duplicates, overlaps>>
  BY DEF AddressStep, AddAddress, VerifyAddress, RemoveAddress, ChangeTradeVisibility, contactRest
<1>2. /\ contact \in [Senders -> {"none", "unverified", "verified"}]
      /\ row.author \in Senders \cup {NoUser}
      /\ \A h \in Handlers : handler[h].user \in Senders \cup {NoUser}
      /\ slipped \in BOOLEAN /\ target \in {"open", "gone", "own", "refuses"}
  BY DEF InboundIInv, InboundTypeOK
<1>3. /\ contact' \in [Senders -> {"none", "unverified", "verified"}]
      /\ slipped' \in BOOLEAN /\ target' \in {"open", "gone", "own", "refuses"}
  BY <1>2 DEF AddressStep, AddAddress, VerifyAddress, RemoveAddress, ChangeTradeVisibility
<1>4. /\ \A u \in Senders : contact[u] = "verified" => contact'[u] = "verified"
      /\ \A u, v \in Senders : u # v /\ contact'[u] = "verified" => contact'[v] = "none"
      /\ slipped => slipped'
  <2>1. ASSUME NEW u \in Senders, AddAddress(u)
        PROVE  /\ \A v \in Senders : contact'[v] = IF v = u THEN "unverified" ELSE contact[v]
               /\ \A v \in Senders : contact[v] # "verified"
               /\ slipped' = slipped
    BY <2>1, <1>2 DEF AddAddress
  <2>2. ASSUME NEW u \in Senders, VerifyAddress(u)
        PROVE  /\ \A v \in Senders : contact'[v] = IF v = u THEN "verified" ELSE contact[v]
               /\ \A v \in Senders \ {u} : contact[v] = "none"
               /\ slipped' = slipped
    BY <2>2, <1>2 DEF VerifyAddress
  <2>3. ASSUME NEW u \in Senders, RemoveAddress(u)
        PROVE  /\ \A v \in Senders : contact'[v] = IF v = u THEN "none" ELSE contact[v]
               /\ contact[u] # "verified"
               /\ slipped => slipped'
    BY <2>3, <1>2 DEF RemoveAddress, RemovalBlocked
  <2>4. CASE ChangeTradeVisibility
    BY <2>4 DEF ChangeTradeVisibility, InboundIInv, SendersAgree
  <2>5. \A u, v \in Senders : u # v /\ contact[u] = "verified" => contact[v] = "none"
    BY DEF InboundIInv, SendersAgree
  <2>6. ASSUME NEW u \in Senders, AddAddress(u) \/ VerifyAddress(u) \/ RemoveAddress(u)
        PROVE  /\ \A w \in Senders : contact[w] = "verified" => contact'[w] = "verified"
               /\ \A w, v \in Senders : w # v /\ contact'[w] = "verified" => contact'[v] = "none"
               /\ slipped => slipped'
    <3>1. CASE AddAddress(u)
      BY <3>1, <2>1
    <3>2. CASE VerifyAddress(u)
      BY <3>2, <2>2
    <3>3. CASE RemoveAddress(u)
      BY <3>3, <2>3, <2>5
    <3> QED
      BY <2>6, <3>1, <3>2, <3>3
  <2> QED
    BY <2>4, <2>6 DEF AddressStep
<1>5. /\ row.author # NoUser /\ (slipped \/ contact[row.author] # "none") =>
            slipped' \/ contact'[row.author] # "none"
      /\ \A h \in Handlers :
            handler[h].step = "store" /\ handler[h].user # NoUser
            /\ (slipped \/ contact[handler[h].user] # "none") =>
                slipped' \/ contact'[handler[h].user] # "none"
  <2>1. ASSUME NEW w \in Senders, contact[w] # "none", contact'[w] = "none"
        PROVE  RemoveAddress(w)
    BY <2>1, <1>2 DEF AddressStep, AddAddress, VerifyAddress, RemoveAddress, ChangeTradeVisibility
  <2>2. \A w \in Senders : RemoveAddress(w) => row.author # w /\ (Resolved(w) => slipped')
    BY DEF RemoveAddress, RemovalBlocked
  <2> QED
    BY <1>2, <1>4, <2>1, <2>2 DEF Resolved
<1>6. InboundTypeOK'
  BY <1>1, <1>3 DEF InboundIInv, InboundTypeOK
<1>7. StepsFitKind' /\ CopiesCounted'
  BY <1>1 DEF InboundIInv, StepsFitKind, CopiesCounted, Notifying, Appending
<1>8. SendersAgree'
  <2>1. Trusted => Trusted'
    BY <1>1, <1>2, <1>4 DEF Trusted
  <2>2. /\ row'.status = "none" => row'.author = NoUser
        /\ row'.author # NoUser => slipped' \/ contact'[row'.author] # "none"
        /\ row'.author # NoUser /\ row'.verified => Trusted'
        /\ copies' > 0 => Trusted'
    BY <1>1, <1>5, <2>1 DEF InboundIInv, SendersAgree
  <2>3. \A h \in Handlers :
          /\ handler'[h].verified => handler'[h].user # NoUser /\ contact'[handler'[h].user] = "verified"
          /\ handler'[h].step = "store" /\ handler'[h].user # NoUser =>
                slipped' \/ contact'[handler'[h].user] # "none"
          /\ handler'[h].step \in RoutedSteps => Trusted'
    BY <1>1, <1>2, <1>4, <1>5, <2>1 DEF InboundIInv, SendersAgree
  <2> QED
    BY <1>4, <2>2, <2>3 DEF SendersAgree
<1> QED
  BY <1>6, <1>7, <1>8 DEF InboundIInv

\* The invariant holds in every state of an inbound message.
THEOREM InboundInductive == InboundSpec => []InboundIInv
<1>1. InboundInit => InboundIInv
  BY InboundInitHolds
<1>2. InboundIInv /\ [InboundNext]_inbound => InboundIInv'
  <2> SUFFICES ASSUME InboundIInv, [InboundNext]_inbound
               PROVE  InboundIInv'
    OBVIOUS
  <2>1. CASE AddressStep
    BY <2>1, AddressKeepsInboundIInv
  <2>2. ASSUME NEW h \in Handlers, Deliver(h) \/ DeliverAgain(h) \/ Fails(h)
        PROVE  InboundIInv'
    BY <2>2, BeginKeepsInboundIInv, FailureKeepsInboundIInv
  <2>3. ASSUME NEW h \in Handlers, HandlerStep(h)
        PROVE  InboundIInv'
    <3>1. CASE ResolveSender(h) \/ StoreMessage(h) \/ AnalyseText(h)
      BY <3>1, ResolveKeepsInboundIInv, StoreKeepsInboundIInv, EndKeepsInboundIInv
    <3>2. CASE RouteStep(h)
      BY <3>2, LookUpKeepsInboundIInv, CheckKeepsInboundIInv, FailureKeepsInboundIInv,
         AppendTurnKeepsInboundIInv, NotifyKeepsInboundIInv, AppendOnceKeepsInboundIInv,
         EndKeepsInboundIInv DEF RouteStep
    <3> QED
      BY <2>3, <3>1, <3>2 DEF HandlerStep
  <2>4. CASE UNCHANGED inbound
    BY <2>4 DEF inbound, InboundIInv, InboundTypeOK, StepsFitKind, CopiesCounted, Notifying, Appending,
       SendersAgree, Trusted
  <2> QED
    BY <2>1, <2>2, <2>3, <2>4 DEF InboundNext
<1> QED
  BY <1>1, <1>2, PTL DEF InboundSpec

\* The message row, the contacts and the handlers keep their types
\* (src/messages/).
THEOREM InboundTypeCorrect == InboundSpec => []InboundTypeOK
<1>1. InboundIInv => InboundTypeOK
  BY DEF InboundIInv
<1> QED
  BY <1>1, InboundInductive, PTL

\* However many handlers there are and however often the provider delivers the
\* message again: a conversation that is locked while the copy is written takes
\* it once, and any other conversation once more only for each delivery that
\* looked for a copy while another one was between its look and its append; no
\* notice is without a copy.
THEOREM MessagesAreTakenOnce == InboundSpec => []ConversationsTakeItOnce
<1>1. InboundIInv => ConversationsTakeItOnce
  BY InboundImplies
<1> QED
  BY <1>1, InboundInductive, PTL

\* Whoever a copy is attributed to has verified the address it came from,
\* although the author and the mark are of different deliveries, unless the
\* author gave the address up between the resolving and the storing.
THEOREM CopiesHaveVerifiedAuthors == InboundSpec => []AuthorsAreVerified
<1>1. InboundIInv => AuthorsAreVerified
  BY InboundImplies
<1> QED
  BY <1>1, InboundInductive, PTL

-----------------------------------------------------------------------------
(* The files: bucket and rows agree, for any requests, files and keys.      *)

\* What one request does next, with the files it has put.
RequestStates ==
    [flow : Flows \cup {"none"},
     step : {"idle", "upload", "persist", "undo", "analyse"},
     wants : 0..MaxFiles, put : SUBSET Objects]

\* A generated key is greater than every key in use.
KeysAreFresh ==
    /\ bucket \subseteq 1..keys
    /\ rows \subseteq 1..keys
    /\ \A r \in FileRequests : request[r].put \subseteq 1..keys

\* No two requests hold an object in common: one may delete what it has put
\* without taking it from another.
PutsAreDisjoint ==
    \A r1, r2 \in FileRequests :
        r1 # r2 => request[r1].put \cap request[r2].put = {}

\* How far the rows of a request are when it reaches a step.
PutByStep(r) ==
    /\ request[r].put \subseteq bucket \cup unknown
    /\ request[r].step = "idle" => request[r].put = {}
    /\ request[r].step \in {"upload", "persist"} =>
           /\ request[r].put \subseteq bucket
           /\ request[r].put \cap rows = {}
    /\ request[r].step = "undo" => request[r].put \cap rows \subseteq unknown
    /\ request[r].step = "analyse" => request[r].put \subseteq rows

PutsByStep == \A r \in FileRequests : PutByStep(r)

FilesIInv ==
    /\ FilesTypeOK
    /\ KeysAreFresh
    /\ PutsAreDisjoint
    /\ PutsByStep
    /\ BucketAndRowsAgree

-----------------------------------------------------------------------------
LEMMA InitHolds == FilesInit => FilesIInv
  BY FileObjectsAssumption
     DEF FilesInit, FilesIInv, FilesTypeOK, KeysAreFresh, PutsAreDisjoint, PutsByStep,
         PutByStep, BucketAndRowsAgree, NoFileRequest, Flows, Objects

\* A request takes a new state; the others keep theirs.
LEMMA RequestMoves ==
  ASSUME request \in [FileRequests -> RequestStates],
         NEW r \in FileRequests, NEW next \in RequestStates,
         request' = [request EXCEPT ![r] = next]
  PROVE  /\ request' \in [FileRequests -> RequestStates]
         /\ request'[r] = next
         /\ \A q \in FileRequests : q # r => request'[q] = request[q]
  OBVIOUS

\* A request that starts holds nothing.
LEMMA StartKeepsFilesIInv ==
  ASSUME FilesIInv, NEW r \in FileRequests, NEW flow \in Flows, NEW n \in 0..MaxFiles,
         request[r].step = "idle", Starts(r, flow, n),
         UNCHANGED <<bucket, rows, attached, keys, strays, unknown>>
  PROVE  FilesIInv'
<1> DEFINE next == [flow |-> flow, step |-> "upload", wants |-> n, put |-> {}]
<1>1. next \in RequestStates
  BY DEF RequestStates
<1>2. /\ request' \in [FileRequests -> RequestStates]
      /\ request'[r] = next
      /\ \A q \in FileRequests : q # r => request'[q] = request[q]
  BY <1>1, RequestMoves DEF FilesIInv, FilesTypeOK, RequestStates, Starts
<1>3. request[r].put = {}
  BY DEF FilesIInv, PutsByStep, PutByStep
<1>4. \A q \in FileRequests : request'[q].put = request[q].put
  BY <1>2, <1>3
<1>5. FilesTypeOK'
  BY <1>2 DEF FilesIInv, FilesTypeOK, RequestStates
<1>6. KeysAreFresh' /\ PutsAreDisjoint'
  BY <1>4 DEF FilesIInv, KeysAreFresh, PutsAreDisjoint
<1>7. PutsByStep'
  BY <1>2 DEF FilesIInv, PutsByStep, PutByStep
<1>8. BucketAndRowsAgree'
  BY <1>4 DEF FilesIInv, BucketAndRowsAgree
<1> QED
  BY <1>5, <1>6, <1>7, <1>8 DEF FilesIInv

\* A new object has a key nobody holds, and its request holds it from then on.
LEMMA PutObjectKeepsFilesIInv ==
  ASSUME FilesIInv, NEW r \in FileRequests, PutObject(r)
  PROVE  FilesIInv'
<1> DEFINE o == keys + 1
           next == [request[r] EXCEPT !.put = @ \cup {o},
                      !.step = IF Cardinality(request[r].put) + 1 = request[r].wants
                               THEN "persist" ELSE "upload"]
<1>1. keys \in Nat /\ o \in Objects
  BY FileObjectsAssumption DEF FilesIInv, FilesTypeOK, PutObject, Objects
<1>2. request \in [FileRequests -> RequestStates] /\ request[r] \in RequestStates
  BY DEF FilesIInv, FilesTypeOK, RequestStates
<1>3. next \in RequestStates
  BY <1>1, <1>2 DEF RequestStates
<1>4. request' = [request EXCEPT ![r] = next]
  BY <1>2 DEF PutObject, RequestStates
<1>5. /\ request' \in [FileRequests -> RequestStates]
      /\ request'[r] = next
      /\ \A q \in FileRequests : q # r => request'[q] = request[q]
  BY <1>2, <1>3, <1>4, RequestMoves
<1>6. /\ next.put = request[r].put \cup {o}
      /\ next.step \in {"upload", "persist"}
  BY <1>2 DEF RequestStates
<1> HIDE DEF next
<1>7. /\ o \notin bucket /\ o \notin rows
      /\ \A q \in FileRequests : o \notin request[q].put
  BY <1>1 DEF FilesIInv, KeysAreFresh
<1>8. FilesTypeOK'
  BY <1>1, <1>5 DEF FilesIInv, FilesTypeOK, RequestStates, PutObject, Objects
<1>9. KeysAreFresh'
  BY <1>1, <1>5, <1>6 DEF FilesIInv, KeysAreFresh, PutObject
<1>10. PutsAreDisjoint'
  BY <1>5, <1>6, <1>7 DEF FilesIInv, PutsAreDisjoint
<1>11. PutsByStep'
  BY <1>5, <1>6, <1>7 DEF FilesIInv, PutsByStep, PutByStep, PutObject
<1>12. BucketAndRowsAgree'
  BY <1>5, <1>6 DEF FilesIInv, BucketAndRowsAgree, PutObject
<1> QED
  BY <1>8, <1>9, <1>10, <1>11, <1>12 DEF FilesIInv

\* An object whose put failed is a stray at once; what was put before is undone.
LEMMA PutObjectFailsKeepsFilesIInv ==
  ASSUME FilesIInv, NEW r \in FileRequests, PutObjectFails(r)
  PROVE  FilesIInv'
<1> DEFINE next == [request[r] EXCEPT !.step = "undo"]
<1>1. keys \in Nat /\ keys + 1 \in Objects
  BY FileObjectsAssumption DEF FilesIInv, FilesTypeOK, PutObjectFails, Objects
<1>2. request \in [FileRequests -> RequestStates] /\ next \in RequestStates
  BY DEF FilesIInv, FilesTypeOK, RequestStates
<1>3. /\ request' \in [FileRequests -> RequestStates]
      /\ request'[r] = next
      /\ \A q \in FileRequests : q # r => request'[q] = request[q]
  BY <1>2, RequestMoves DEF PutObjectFails, AfterFailedPut
<1>4. \A q \in FileRequests : request'[q].put = request[q].put
  BY <1>2, <1>3 DEF RequestStates
<1>5. next.step = "undo"
  BY <1>2 DEF FilesIInv, FilesTypeOK, RequestStates
<1>6. PICK stored \in SUBSET {keys + 1} :
          bucket' = bucket \cup stored /\ strays' = strays \cup stored
  BY DEF PutObjectFails
<1>7. FilesTypeOK'
  BY <1>1, <1>3, <1>6 DEF FilesIInv, FilesTypeOK, RequestStates, PutObjectFails, Objects
<1>8. KeysAreFresh'
  BY <1>1, <1>4, <1>6 DEF FilesIInv, KeysAreFresh, PutObjectFails
<1>9. PutsAreDisjoint'
  BY <1>4 DEF FilesIInv, PutsAreDisjoint
<1>10. PutsByStep'
  BY <1>3, <1>4, <1>5, <1>6 DEF FilesIInv, PutsByStep, PutByStep, PutObjectFails
<1>11. BucketAndRowsAgree'
  BY <1>4, <1>6 DEF FilesIInv, BucketAndRowsAgree, PutObjectFails
<1> QED
  BY <1>7, <1>8, <1>9, <1>10, <1>11 DEF FilesIInv

\* A post with a file of another kind is undone before it has rows.
LEMMA RefuseFileKindKeepsFilesIInv ==
  ASSUME FilesIInv, NEW r \in FileRequests, RefuseFileKind(r)
  PROVE  FilesIInv'
<1> DEFINE next == [request[r] EXCEPT !.step = "undo"]
<1>1. request \in [FileRequests -> RequestStates] /\ next \in RequestStates
  BY DEF FilesIInv, FilesTypeOK, RequestStates
<1>2. /\ request' \in [FileRequests -> RequestStates]
      /\ request'[r] = next
      /\ \A q \in FileRequests : q # r => request'[q] = request[q]
  <2>1. request' = [request EXCEPT ![r] = next]
    BY DEF RefuseFileKind
  <2> QED
    BY <1>1, <2>1, RequestMoves
<1>3. \A q \in FileRequests : request'[q].put = request[q].put
  BY <1>1, <1>2 DEF RequestStates
<1>4. next.step = "undo"
  BY <1>1 DEF FilesIInv, FilesTypeOK, RequestStates
<1>5. FilesTypeOK'
  BY <1>2 DEF FilesIInv, FilesTypeOK, RequestStates, RefuseFileKind
<1>6. KeysAreFresh' /\ PutsAreDisjoint'
  BY <1>3 DEF FilesIInv, KeysAreFresh, PutsAreDisjoint, RefuseFileKind
<1>7. PutsByStep'
  BY <1>2, <1>3, <1>4 DEF FilesIInv, PutsByStep, PutByStep, RefuseFileKind
<1>8. BucketAndRowsAgree'
  BY <1>3 DEF FilesIInv, BucketAndRowsAgree, RefuseFileKind
<1> QED
  BY <1>5, <1>6, <1>7, <1>8 DEF FilesIInv

\* The object deleted has no row, unless its commit was reported as failed, and
\* no other request holds it.
LEMMA DeletePutObjectKeepsFilesIInv ==
  ASSUME FilesIInv, NEW r \in FileRequests, DeletePutObject(r)
  PROVE  FilesIInv'
<1>1. PICK o \in request[r].put :
          /\ \/ bucket' = bucket \ {o} /\ strays' = strays
             \/ bucket' = bucket /\ strays' = strays \cup {o}
          /\ request' = [request EXCEPT ![r].put = @ \ {o}]
  BY DEF DeletePutObject
<1> DEFINE next == [request[r] EXCEPT !.put = @ \ {o}]
<1>2. request \in [FileRequests -> RequestStates] /\ request[r] \in RequestStates
  BY DEF FilesIInv, FilesTypeOK, RequestStates
<1>3. next \in RequestStates /\ o \in Objects
  BY <1>2 DEF RequestStates
<1>4. /\ request' \in [FileRequests -> RequestStates]
      /\ request'[r] = next
      /\ \A q \in FileRequests : q # r => request'[q] = request[q]
  <2>1. request' = [request EXCEPT ![r] = next]
    BY <1>1
  <2> QED
    BY <1>2, <1>3, <2>1, RequestMoves
<1>5. next.put = request[r].put \ {o} /\ next.step = "undo"
  BY <1>2 DEF RequestStates, DeletePutObject
<1> HIDE DEF next
<1>6. request[r].step = "undo" /\ UNCHANGED <<rows, attached, keys, unknown>>
  BY DEF DeletePutObject
<1>7. \A q \in FileRequests : q # r => o \notin request[q].put
  BY DEF FilesIInv, PutsAreDisjoint
<1>8. o \in rows => o \in unknown
  BY <1>6 DEF FilesIInv, PutsByStep, PutByStep
<1>9. FilesTypeOK'
  BY <1>1, <1>3, <1>4, <1>6 DEF FilesIInv, FilesTypeOK, RequestStates
<1>10. KeysAreFresh'
  BY <1>1, <1>4, <1>5, <1>6 DEF FilesIInv, KeysAreFresh
<1>11. PutsAreDisjoint'
  BY <1>4, <1>5 DEF FilesIInv, PutsAreDisjoint
<1>12. PutsByStep'
  <2>1. PutByStep(r)'
    BY <1>1, <1>4, <1>5, <1>6 DEF FilesIInv, PutsByStep, PutByStep
  <2>2. ASSUME NEW q \in FileRequests, q # r
        PROVE  PutByStep(q)'
    BY <1>1, <1>4, <1>6, <1>7, <2>2 DEF FilesIInv, PutsByStep, PutByStep
  <2> QED
    BY <2>1, <2>2 DEF PutsByStep
<1>13. BucketAndRowsAgree'
  BY <1>1, <1>4, <1>5, <1>6, <1>8 DEF FilesIInv, BucketAndRowsAgree
<1> QED
  BY <1>9, <1>10, <1>11, <1>12, <1>13 DEF FilesIInv

\* A request that ends gives up what it holds; without a row it is a stray.
LEMMA EndKeepsFilesIInv ==
  ASSUME FilesIInv, NEW r \in FileRequests, NEW left \in SUBSET request[r].put,
         request[r].put \subseteq rows \cup left,
         request' = [request EXCEPT ![r] = NoFileRequest],
         strays' = strays \cup left,
         UNCHANGED <<bucket, rows, attached, keys, unknown>>
  PROVE  FilesIInv'
<1>1. request \in [FileRequests -> RequestStates] /\ NoFileRequest \in RequestStates
  BY FileObjectsAssumption DEF FilesIInv, FilesTypeOK, RequestStates, NoFileRequest
<1>2. /\ request' \in [FileRequests -> RequestStates]
      /\ request'[r] = NoFileRequest
      /\ \A q \in FileRequests : q # r => request'[q] = request[q]
  BY <1>1, RequestMoves
<1>3. request'[r].put = {} /\ request'[r].step = "idle"
  BY <1>2 DEF NoFileRequest
<1>4. left \subseteq Objects
  BY <1>1 DEF RequestStates
<1>5. FilesTypeOK'
  BY <1>2, <1>4 DEF FilesIInv, FilesTypeOK, RequestStates
<1>6. KeysAreFresh'
  BY <1>2, <1>3 DEF FilesIInv, KeysAreFresh
<1>7. PutsAreDisjoint'
  BY <1>2, <1>3 DEF FilesIInv, PutsAreDisjoint
<1>8. PutsByStep'
  BY <1>2, <1>3 DEF FilesIInv, PutsByStep, PutByStep
<1>9. BucketAndRowsAgree'
  BY <1>2, <1>3 DEF FilesIInv, BucketAndRowsAgree
<1> QED
  BY <1>5, <1>6, <1>7, <1>8, <1>9 DEF FilesIInv

\* The rows committed name objects the request has put and still holds.
LEMMA PersistRowsKeepsFilesIInv ==
  ASSUME FilesIInv, NEW r \in FileRequests, PersistRows(r)
  PROVE  FilesIInv'
<1> DEFINE next == IF request[r].flow = "message" THEN [request[r] EXCEPT !.step = "analyse"]
                   ELSE NoFileRequest
<1>1. request \in [FileRequests -> RequestStates] /\ request[r] \in RequestStates
  BY DEF FilesIInv, FilesTypeOK, RequestStates
<1>2. next \in RequestStates
  BY <1>1, FileObjectsAssumption DEF RequestStates, NoFileRequest
<1>3. /\ request' \in [FileRequests -> RequestStates]
      /\ request'[r] = next
      /\ \A q \in FileRequests : q # r => request'[q] = request[q]
  <2>1. request' = [request EXCEPT ![r] = next]
    BY DEF PersistRows
  <2> QED
    BY <1>1, <1>2, <2>1, RequestMoves
<1>4. \/ next.step = "analyse" /\ next.put = request[r].put
      \/ next.step = "idle" /\ next.put = {}
  BY <1>1 DEF RequestStates, NoFileRequest
<1> HIDE DEF next
<1>5. /\ rows' = rows \cup request[r].put
      /\ attached' \subseteq attached \cup request[r].put
      /\ UNCHANGED <<bucket, keys, strays, unknown>>
  BY DEF PersistRows, Inserted
<1>6. request[r].put \subseteq bucket /\ request[r].put \subseteq Objects
  BY <1>1 DEF FilesIInv, PutsByStep, PutByStep, PersistRows, RequestStates
<1>7. \A q \in FileRequests : q # r => request[q].put \cap request[r].put = {}
  BY DEF FilesIInv, PutsAreDisjoint
<1>8. FilesTypeOK'
  BY <1>3, <1>5, <1>6 DEF FilesIInv, FilesTypeOK, RequestStates
<1>9. KeysAreFresh'
  BY <1>3, <1>4, <1>5 DEF FilesIInv, KeysAreFresh
<1>10. PutsAreDisjoint'
  BY <1>3, <1>4 DEF FilesIInv, PutsAreDisjoint
<1>11. PutsByStep'
  <2>1. PutByStep(r)'
    BY <1>3, <1>4, <1>5, <1>6 DEF PutByStep
  <2>2. ASSUME NEW q \in FileRequests, q # r
        PROVE  PutByStep(q)'
    BY <1>3, <1>5, <1>7, <2>2 DEF FilesIInv, PutsByStep, PutByStep
  <2> QED
    BY <2>1, <2>2 DEF PutsByStep
<1>12. BucketAndRowsAgree'
  BY <1>3, <1>4, <1>5, <1>6 DEF FilesIInv, BucketAndRowsAgree
<1> QED
  BY <1>8, <1>9, <1>10, <1>11, <1>12 DEF FilesIInv

\* Nothing is committed, or the rows are and their keys are unknown to the
\* request, which undoes its puts.
LEMMA PersistRowsRaisesKeepsFilesIInv ==
  ASSUME FilesIInv, NEW r \in FileRequests, PersistRowsRaises(r)
  PROVE  FilesIInv'
<1> DEFINE next == [request[r] EXCEPT !.step = "undo"]
<1>1. request \in [FileRequests -> RequestStates] /\ request[r] \in RequestStates
  BY DEF FilesIInv, FilesTypeOK, RequestStates
<1>2. next \in RequestStates /\ next.step = "undo" /\ next.put = request[r].put
  BY <1>1 DEF RequestStates
<1>3. /\ request' \in [FileRequests -> RequestStates]
      /\ request'[r] = next
      /\ \A q \in FileRequests : q # r => request'[q] = request[q]
  <2>1. request' = [request EXCEPT ![r] = next]
    BY DEF PersistRowsRaises
  <2> QED
    BY <1>1, <1>2, <2>1, RequestMoves
<1> HIDE DEF next
<1>4. \A q \in FileRequests : request'[q].put = request[q].put
  BY <1>2, <1>3
<1>5. PICK new \in SUBSET request[r].put :
          /\ rows' = rows \cup new
          /\ unknown' = unknown \cup new
          /\ attached' \subseteq attached \cup new
  <2>1. CASE UNCHANGED <<rows, attached, unknown>>
    <3>1. {} \in SUBSET request[r].put
      OBVIOUS
    <3> QED
      BY <2>1, <3>1
  <2>2. CASE Inserted(r) /\ unknown' = unknown \cup request[r].put
    <3>1. request[r].put \in SUBSET request[r].put
      OBVIOUS
    <3> QED
      BY <2>2, <3>1 DEF Inserted
  <2> QED
    BY <2>1, <2>2 DEF PersistRowsRaises
<1>6. UNCHANGED <<bucket, keys, strays>>
  BY DEF PersistRowsRaises
<1>7. request[r].put \subseteq bucket /\ request[r].put \cap rows = {}
      /\ request[r].put \subseteq Objects
  BY <1>1 DEF FilesIInv, PutsByStep, PutByStep, PersistRowsRaises, RequestStates
<1>8. \A q \in FileRequests : q # r => request[q].put \cap new = {}
  BY DEF FilesIInv, PutsAreDisjoint
<1>9. FilesTypeOK'
  BY <1>3, <1>5, <1>6, <1>7 DEF FilesIInv, FilesTypeOK, RequestStates
<1>10. KeysAreFresh'
  BY <1>4, <1>5, <1>6 DEF FilesIInv, KeysAreFresh
<1>11. PutsAreDisjoint'
  BY <1>4 DEF FilesIInv, PutsAreDisjoint
<1>12. PutsByStep'
  <2>1. PutByStep(r)'
    BY <1>2, <1>3, <1>5, <1>6, <1>7 DEF PutByStep
  <2>2. ASSUME NEW q \in FileRequests, q # r
        PROVE  PutByStep(q)'
    BY <1>3, <1>5, <1>6, <1>8, <2>2 DEF FilesIInv, PutsByStep, PutByStep
  <2> QED
    BY <2>1, <2>2 DEF PutsByStep
<1>13. BucketAndRowsAgree'
  BY <1>4, <1>5, <1>6 DEF FilesIInv, BucketAndRowsAgree
<1> QED
  BY <1>9, <1>10, <1>11, <1>12, <1>13 DEF FilesIInv

-----------------------------------------------------------------------------
LEMMA NextKeepsFilesIInv == FilesIInv /\ FilesNext => FilesIInv'
<1> SUFFICES ASSUME FilesIInv, NEW r \in FileRequests,
                    \/ StoreAttachment(r) \/ CreateFeedPost(r)
                    \/ \E n \in 1..MaxFiles : CreateAppMessage(r, n)
                    \/ ObjectStep(r) \/ RowStep(r)
             PROVE  FilesIInv'
  BY DEF FilesNext
<1>1. CASE StoreAttachment(r)
  <2>1. "attachment" \in Flows /\ 1 \in 0..MaxFiles
    BY FileObjectsAssumption DEF Flows
  <2> QED
    BY <1>1, <2>1, StartKeepsFilesIInv DEF StoreAttachment
<1>2. CASE CreateFeedPost(r)
  <2>1. "post" \in Flows /\ 1 \in 0..MaxFiles
    BY FileObjectsAssumption DEF Flows
  <2> QED
    BY <1>2, <2>1, StartKeepsFilesIInv DEF CreateFeedPost
<1>3. ASSUME NEW n \in 1..MaxFiles, CreateAppMessage(r, n)
      PROVE  FilesIInv'
  <2>1. "message" \in Flows /\ n \in 0..MaxFiles
    BY FileObjectsAssumption DEF Flows
  <2> QED
    BY <1>3, <2>1, StartKeepsFilesIInv DEF CreateAppMessage
<1>4. CASE ObjectStep(r)
  <2>1. ASSUME UndoIsDone(r)
        PROVE  FilesIInv'
    <3>1. {} \in SUBSET request[r].put /\ request[r].put \subseteq rows \cup {}
      BY <2>1 DEF UndoIsDone
    <3>2. strays' = strays \cup {}
      BY <2>1 DEF UndoIsDone
    <3> QED
      BY <2>1, <3>1, <3>2, EndKeepsFilesIInv DEF UndoIsDone
  <2> QED
    BY <1>4, <2>1, PutObjectKeepsFilesIInv, PutObjectFailsKeepsFilesIInv,
       RefuseFileKindKeepsFilesIInv, DeletePutObjectKeepsFilesIInv DEF ObjectStep
<1>5. CASE RowStep(r)
  <2>1. ASSUME AnalysisEnds(r)
        PROVE  FilesIInv'
    <3>1. {} \in SUBSET request[r].put /\ request[r].put \subseteq rows \cup {}
      BY <2>1 DEF AnalysisEnds, FilesIInv, PutsByStep, PutByStep
    <3>2. strays' = strays \cup {}
      BY <2>1 DEF AnalysisEnds
    <3> QED
      BY <2>1, <3>1, <3>2, EndKeepsFilesIInv DEF AnalysisEnds, AfterAnalysis
  <2>2. ASSUME RequestDies(r)
        PROVE  FilesIInv'
    <3> DEFINE left == request[r].put \ rows
    <3>1. left \in SUBSET request[r].put /\ request[r].put \subseteq rows \cup left
      OBVIOUS
    <3> QED
      BY <2>2, <3>1, EndKeepsFilesIInv DEF RequestDies
  <2> QED
    BY <1>5, <2>1, <2>2, PersistRowsKeepsFilesIInv, PersistRowsRaisesKeepsFilesIInv DEF RowStep
<1> QED
  BY <1>1, <1>2, <1>3, <1>4, <1>5

\* The facts the theorems rest on hold in every reachable state.
LEMMA FilesInductive == FilesSpec => []FilesIInv
<1>1. FilesIInv /\ UNCHANGED files => FilesIInv'
  BY DEF files, FilesIInv, FilesTypeOK, KeysAreFresh, PutsAreDisjoint, PutsByStep, PutByStep,
         BucketAndRowsAgree
<1> QED
  BY InitHolds, NextKeepsFilesIInv, <1>1, PTL DEF FilesSpec

\* Every reachable state of the file store is well typed.
THEOREM FilesTypeCorrect == FilesSpec => []FilesTypeOK
<1>1. FilesIInv => FilesTypeOK
  BY DEF FilesIInv
<1> QED
  BY FilesInductive, <1>1, PTL

\* A row names an object that is there unless a commit was reported as failed,
\* and every object has a row, a request that runs, or a failure to its name:
\* put_object, the row transaction and the compensating deletes agree, however
\* many requests interleave and wherever each of them fails.
THEOREM FilesAgree == FilesSpec => []BucketAndRowsAgree
<1>1. FilesIInv => BucketAndRowsAgree
  BY DEF FilesIInv
<1> QED
  BY FilesInductive, <1>1, PTL

\* A request that deletes what it has put takes nothing from another one: no
\* object is held by two requests.
THEOREM UndoTakesOnlyItsOwn == FilesSpec => []PutsAreDisjoint
<1>1. FilesIInv => PutsAreDisjoint
  BY DEF FilesIInv
<1> QED
  BY FilesInductive, <1>1, PTL

-----------------------------------------------------------------------------
(* The private chats about a trade.                                         *)

\* What a call holds.
CallStates ==
    [step : {"idle", "start", "routed", "append", "notify"}, user : People, chat : People,
     stamp : 0..MaxStamp, nr : Nat]

\* The notices told to participants, and the messages of the chats.
Notices == [call : Calls, chat : Counterparties, nr : Nat, to : People,
            channel : ExternalChannels]

\* A message as it is stored: who wrote it, in which chat, under which number.
Messages == [chat : Counterparties, nr : Nat, sender : People, stamp : 0..MaxStamp,
             translated : BOOLEAN]

\* The calls, the notices and the messages are well formed, and the messages
\* can be counted.
ChatRows ==
    /\ calls \in [Calls -> CallStates]
    /\ told \subseteq Notices
    /\ said \subseteq Messages
    /\ IsFiniteSet(said)

\* A call that opens a chat has seen the offer; one that writes is a participant's.
CallIsOfTheChat(c) ==
    /\ calls[c].step = "start" => wasOffered /\ calls[c].chat \in Counterparties
    /\ calls[c].step \in {"routed", "append", "notify"} =>
          calls[c].chat \in Counterparties /\ calls[c].user \in Participating(calls[c].chat)

\* Every call is of its chat.
CallsAreOfTheChat == \A c \in Calls : CallIsOfTheChat(c)

\* No chat without an offer: a trade that shows on the market, or has a chat,
\* was offered.
OfferedBefore ==
    /\ offer = "market" => wasOffered
    /\ chats # {} => wasOffered
    /\ offer = "rebuilt" => chats = {}

\* A route in a chat is one that the participant took in it.
RoutesWereTaken ==
    \A t \in Counterparties, u \in People :
        routes[t][u] # "none" => Reaches(u, routes[t][u]) /\ <<t, u, routes[t][u]>> \in repliedBy

\* Messages are numbered as they come, so that a number not given is nobody's.
NumbersAreGiven ==
    offer # "rebuilt" =>
        /\ \A m \in said : m.nr <= Cardinality(said)
        /\ \A n \in told : n.nr <= Cardinality(said)
        /\ \A c \in Calls : calls[c].step = "notify" => calls[c].nr <= Cardinality(said)

\* The notice a call is about to give: of its own message, and not given yet.
NoticeToCome(c) ==
    calls[c].step = "notify" =>
        /\ \A n \in told : n.nr # calls[c].nr
        /\ \A d \in Calls : calls[d].step = "notify" /\ calls[d].nr = calls[c].nr => d = c
        /\ \A m \in said : m.nr = calls[c].nr =>
              m.chat = calls[c].chat /\ m.sender = calls[c].user

\* Every notice to come is new.
NoticesToCome == \A c \in Calls : NoticeToCome(c)

\* What is said and told is between the two of a chat.
SaidBetweenTwo == \A m \in said : m.sender \in Participating(m.chat)

\* A notice goes to the other one of the chat, on a channel that reaches this
\* user: the default one, or one from which this user has answered in this
\* chat; a message has one notice.
ToldRightly(n) ==
    /\ n.to \in Participating(n.chat) /\ Reaches(n.to, n.channel)
    /\ n.channel = DefaultChannel(n.to) \/ <<n.chat, n.to, n.channel>> \in repliedBy
    /\ \A other \in told : other.nr = n.nr => other = n
    /\ \A m \in said : m.nr = n.nr => m.chat = n.chat /\ m.sender # n.to

\* Every notice was told rightly.
ToldBetweenTwo == \A n \in told : ToldRightly(n)

\* The inductive invariant.  ChatsStayBetweenTwo alone is not inductive: it
\* does not say that the number of the next message is new, nor that a route
\* belongs to the chat it was taken in.
ChatsIInv ==
    /\ ChatsTypeOK /\ ChatRows
    /\ CallsAreOfTheChat /\ OfferedBefore
    /\ RoutesWereTaken
    /\ NumbersAreGiven /\ NoticesToCome
    /\ SaidBetweenTwo /\ ToldBetweenTwo

\* The inductive invariant implies what is read of the chats.
LEMMA ChatsIInvImplies == ChatsIInv => ChatsStayBetweenTwo
<1> SUFFICES ASSUME ChatsIInv
             PROVE  ChatsStayBetweenTwo
  OBVIOUS
<1>1. chats # {} => wasOffered /\ Owner \notin chats
  BY TradeChatsAssumption DEF ChatsIInv, OfferedBefore, ChatsTypeOK
<1>2. \A u \in People, t \in Counterparties : ChatDetail(u, t) # <<>> => u \in Participating(t)
  BY DEF ChatDetail, Sees
<1> QED
  BY <1>1, <1>2 DEF ChatsIInv, SaidBetweenTwo, ToldBetweenTwo, ToldRightly, ChatsStayBetweenTwo

\* An idle call is a call.
LEMMA NoCallType == NoCall \in CallStates /\ NoCall.step = "idle"
  BY TradeChatsAssumption DEF NoCall, CallStates, People

\* The invariant holds before the first offer.
LEMMA ChatsInitHolds == ChatsInit => ChatsIInv
<1> SUFFICES ASSUME ChatsInit
             PROVE  ChatsIInv
  OBVIOUS
<1>1. \A c \in Calls : calls[c] = NoCall
  BY DEF ChatsInit
<1>2. ChatsTypeOK
  BY TradeChatsAssumption, <1>1, NoCallType DEF ChatsInit, ChatsTypeOK, NoRoutes
<1>3. ChatRows
  BY NoCallType, FS_EmptySet DEF ChatsInit, ChatRows
<1>4. CallsAreOfTheChat /\ NoticesToCome
  BY <1>1, NoCallType DEF CallsAreOfTheChat, CallIsOfTheChat, NoticesToCome, NoticeToCome
<1>5. OfferedBefore /\ RoutesWereTaken /\ NumbersAreGiven /\ SaidBetweenTwo /\ ToldBetweenTwo
  BY <1>1, NoCallType DEF ChatsInit, OfferedBefore, RoutesWereTaken, NoRoutes, NumbersAreGiven, SaidBetweenTwo,
         ToldBetweenTwo
<1> QED
  BY <1>2, <1>3, <1>4, <1>5 DEF ChatsIInv

\* A call takes a new state; the others keep theirs.
LEMMA OneCallMoves ==
  ASSUME calls \in [Calls -> CallStates], NEW c \in Calls, NEW next \in CallStates,
         calls' = [calls EXCEPT ![c] = next]
  PROVE  /\ calls' \in [Calls -> CallStates]
         /\ calls'[c] = next
         /\ \A d \in Calls : d # c => calls'[d] = calls[d]
  OBVIOUS

\* A call that does not reach its notice leaves what was said and told alone.
LEMMA CallMovesKeepsChatsIInv ==
  ASSUME ChatsIInv, NEW c \in Calls, NEW next \in CallStates,
         calls' = [calls EXCEPT ![c] = next], next.step # "notify",
         next.step = "start" => wasOffered /\ next.chat \in Counterparties,
         next.step \in {"routed", "append"} =>
             next.chat \in Counterparties /\ next.user \in Participating(next.chat),
         UNCHANGED <<clock, offer, chats, said, bumped, routes, told, wasOffered, repliedBy>>
  PROVE  ChatsIInv'
<1>1. /\ calls' \in [Calls -> CallStates]
      /\ calls'[c] = next
      /\ \A d \in Calls : d # c => calls'[d] = calls[d]
  BY OneCallMoves DEF ChatsIInv, ChatRows
<1>2. ChatsTypeOK' /\ ChatRows'
  BY <1>1 DEF ChatsIInv, ChatsTypeOK, ChatRows, CallStates
<1>3. CallsAreOfTheChat'
  BY <1>1 DEF ChatsIInv, CallsAreOfTheChat, CallIsOfTheChat
<1>4. NoticesToCome' /\ NumbersAreGiven'
  BY <1>1 DEF ChatsIInv, NoticesToCome, NoticeToCome, NumbersAreGiven
<1>5. OfferedBefore' /\ RoutesWereTaken' /\ SaidBetweenTwo' /\ ToldBetweenTwo'
  BY DEF ChatsIInv, OfferedBefore, RoutesWereTaken, SaidBetweenTwo, ToldBetweenTwo, ToldRightly
<1> QED
  BY <1>2, <1>3, <1>4, <1>5 DEF ChatsIInv

\* The counting of messages: one more, with a number that none had.
LEMMA OneMoreMessage ==
  ASSUME IsFiniteSet(said), NEW m, m \notin said
  PROVE  /\ Cardinality(said) \in Nat
         /\ IsFiniteSet(said \cup {m})
         /\ Cardinality(said \cup {m}) = Cardinality(said) + 1
  BY FS_AddElement, FS_CardinalityType

\* A message that is stored takes the next number, which no notice has yet.
LEMMA AppendKeepsChatsIInv ==
  ASSUME ChatsIInv, NEW c \in Calls, AppendToChat(c)
  PROVE  ChatsIInv'
<1> DEFINE call == calls[c]
           nr == Cardinality(said) + 1
<1>1. /\ call \in CallStates /\ call.step = "append"
      /\ call.chat \in Counterparties /\ call.user \in Participating(call.chat)
  BY DEF ChatsIInv, ChatRows, CallsAreOfTheChat, CallIsOfTheChat, AppendToChat, OnCall
<1>2. CASE call.chat \notin chats
  BY <1>2, NoCallType, CallMovesKeepsChatsIInv DEF AppendToChat, EndCall
<1>3. CASE call.chat \in chats
  <2>1. Cardinality(said) \in Nat /\ nr \in Nat
    BY FS_CardinalityType DEF ChatsIInv, ChatRows
  <2>2. PICK translated \in BOOLEAN :
            said' = said \cup {[chat |-> call.chat, nr |-> nr, sender |-> call.user,
                                stamp |-> call.stamp, translated |-> translated]}
    BY <1>3 DEF AppendToChat, TranslationOutcomes
  <2> DEFINE m == [chat |-> call.chat, nr |-> nr, sender |-> call.user,
                   stamp |-> call.stamp, translated |-> translated]
             next == [call EXCEPT !.step = "notify", !.nr = nr]
  <2>3. m \in Messages
    BY <1>1, <2>1 DEF Messages, CallStates
  <2>4. next \in CallStates /\ next.step = "notify" /\ next.nr = nr
        /\ next.chat = call.chat /\ next.user = call.user
    BY <1>1, <2>1 DEF CallStates
  <2>5. calls' = [calls EXCEPT ![c] = next]
    BY <1>1, <1>3 DEF AppendToChat, ChatsIInv, ChatRows, CallStates
  <2>6. /\ calls' \in [Calls -> CallStates]
        /\ calls'[c] = next
        /\ \A d \in Calls : d # c => calls'[d] = calls[d]
    BY <2>4, <2>5, OneCallMoves DEF ChatsIInv, ChatRows
  <2>7. bumped' = [bumped EXCEPT ![call.chat] = call.stamp]
        /\ UNCHANGED <<clock, offer, chats, routes, told, wasOffered, repliedBy>>
    BY <1>3 DEF AppendToChat
  <2>8. /\ \A x \in said : x.nr <= Cardinality(said) /\ x.nr \in Nat
        /\ \A n \in told : n.nr <= Cardinality(said) /\ n.nr \in Nat
        /\ \A d \in Calls : calls[d].step = "notify" =>
              calls[d].nr <= Cardinality(said) /\ calls[d].nr \in Nat
    BY <1>3 DEF ChatsIInv, OfferedBefore, NumbersAreGiven, ChatRows, Messages, Notices, CallStates
  <2>9. /\ \A x \in said : x.nr # nr
        /\ \A n \in told : n.nr # nr
        /\ \A d \in Calls : calls[d].step = "notify" => calls[d].nr # nr
    BY <2>1, <2>8
  <2>10. m.nr = nr /\ m.chat = call.chat /\ m.sender = call.user /\ said' = said \cup {m}
    BY <2>2
  <2>11. m \notin said
    BY <2>9, <2>10
  <2>12. IsFiniteSet(said') /\ Cardinality(said') = nr
    BY <2>10, <2>11, OneMoreMessage DEF ChatsIInv, ChatRows
  <2> HIDE DEF m, next
  <2>13. ChatRows'
    BY <2>3, <2>6, <2>7, <2>10, <2>12 DEF ChatsIInv, ChatRows
  <2>14. ChatsTypeOK'
    <3>1. bumped' \in [Counterparties -> 0..MaxStamp]
      BY <1>1, <2>7 DEF ChatsIInv, ChatsTypeOK, CallStates
    <3>2. \A d \in Calls : calls'[d].step \in {"idle", "start", "routed", "append", "notify"}
      BY <2>6 DEF CallStates
    <3>3. \A x \in said' : x.chat \in chats' /\ x.stamp \in 0..MaxStamp
      BY <1>1, <1>3, <2>2, <2>7 DEF ChatsIInv, ChatsTypeOK, CallStates
    <3> QED
      BY <2>7, <3>1, <3>2, <3>3 DEF ChatsIInv, ChatsTypeOK
  <2>15. CallsAreOfTheChat'
    BY <1>1, <2>4, <2>6, <2>7 DEF ChatsIInv, CallsAreOfTheChat, CallIsOfTheChat
  <2>16. OfferedBefore' /\ RoutesWereTaken'
    BY <2>7 DEF ChatsIInv, OfferedBefore, RoutesWereTaken
  <2>17. NumbersAreGiven'
    <3>1. \A x \in said' : x.nr <= nr
      BY <2>1, <2>8, <2>10
    <3>2. \A n \in told' : n.nr <= nr
      BY <2>1, <2>7, <2>8
    <3>3. \A d \in Calls : calls'[d].step = "notify" => calls'[d].nr <= nr
      BY <2>1, <2>4, <2>6, <2>8
    <3> QED
      BY <2>12, <3>1, <3>2, <3>3 DEF NumbersAreGiven
  <2>18. NoticesToCome'
    <3>1. ASSUME NEW d \in Calls, calls'[d].step = "notify"
          PROVE  /\ \A n \in told' : n.nr # calls'[d].nr
                 /\ \A e \in Calls : calls'[e].step = "notify" /\ calls'[e].nr = calls'[d].nr => e = d
                 /\ \A x \in said' : x.nr = calls'[d].nr =>
                       x.chat = calls'[d].chat /\ x.sender = calls'[d].user
      <4>1. CASE d = c
        BY <4>1, <2>4, <2>6, <2>7, <2>9, <2>10
      <4>2. CASE d # c
        <5>1. calls'[d] = calls[d] /\ NoticeToCome(d) /\ calls[d].nr # nr
          BY <3>1, <4>2, <2>6, <2>9 DEF ChatsIInv, NoticesToCome
        <5> QED
          BY <3>1, <5>1, <2>4, <2>6, <2>7, <2>10 DEF NoticeToCome
      <4> QED
        BY <4>1, <4>2
    <3> QED
      BY <3>1 DEF NoticesToCome, NoticeToCome
  <2>19. SaidBetweenTwo'
    BY <1>1, <2>10 DEF ChatsIInv, SaidBetweenTwo
  <2>20. ToldBetweenTwo'
    BY <2>7, <2>9, <2>10 DEF ChatsIInv, ToldBetweenTwo, ToldRightly
  <2> QED
    BY <2>13, <2>14, <2>15, <2>16, <2>17, <2>18, <2>19, <2>20 DEF ChatsIInv
<1> QED
  BY <1>2, <1>3

\* The one who did not write is a participant too.
LEMMA OtherParticipates ==
  ASSUME NEW t \in Counterparties, NEW u \in Participating(t)
  PROVE  OtherOf(u, t) \in Participating(t) /\ OtherOf(u, t) # u
  BY TradeChatsAssumption DEF OtherOf, Participating

\* The notice of a message goes to the other participant, once.
LEMMA NotifyKeepsChatsIInv ==
  ASSUME ChatsIInv, NEW c \in Calls, NotifyOther(c)
  PROVE  ChatsIInv'
<1> DEFINE t == calls[c].chat
           other == OtherOf(calls[c].user, t)
           n == [call |-> c, chat |-> t, nr |-> calls[c].nr, to |-> other,
                 channel |-> NoticeChannel(other, t)]
<1>1. /\ calls[c] \in CallStates /\ calls[c].step = "notify"
      /\ t \in Counterparties /\ calls[c].user \in Participating(t)
      /\ NoticeToCome(c)
  BY DEF ChatsIInv, ChatRows, CallsAreOfTheChat, CallIsOfTheChat, NoticesToCome, NotifyOther, OnCall
<1>2. other \in Participating(t) /\ other # calls[c].user /\ other \in People
  BY <1>1, OtherParticipates DEF Participating, People
<1>3. /\ calls' \in [Calls -> CallStates]
      /\ calls'[c] = NoCall
      /\ \A d \in Calls : d # c => calls'[d] = calls[d]
  BY NoCallType, OneCallMoves DEF ChatsIInv, ChatRows, NotifyOther, EndCall
<1>4. UNCHANGED <<clock, offer, chats, said, bumped, routes, wasOffered, repliedBy>>
  BY DEF NotifyOther
<1>5. ChatsTypeOK' /\ CallsAreOfTheChat' /\ OfferedBefore' /\ RoutesWereTaken' /\ SaidBetweenTwo'
  BY <1>3, <1>4, NoCallType DEF ChatsIInv, ChatsTypeOK, CallsAreOfTheChat, CallIsOfTheChat,
     OfferedBefore, RoutesWereTaken, SaidBetweenTwo
<1>6. CASE told' = told
  <2>1. ChatRows' /\ NumbersAreGiven' /\ NoticesToCome' /\ ToldBetweenTwo'
    BY <1>3, <1>4, <1>6, NoCallType
       DEF ChatsIInv, ChatRows, NumbersAreGiven, NoticesToCome, NoticeToCome, ToldBetweenTwo,
           ToldRightly
  <2> QED
    BY <1>5, <2>1 DEF ChatsIInv
<1>7. CASE t \in chats /\ NoticeChannel(other, t) # "app_only" /\ told' = told \cup {n}
  <2>1. /\ NoticeChannel(other, t) \in ExternalChannels
        /\ Reaches(other, NoticeChannel(other, t))
        /\ NoticeChannel(other, t) = DefaultChannel(other)
              \/ <<t, other, NoticeChannel(other, t)>> \in repliedBy
    BY <1>1, <1>2, <1>7 DEF ChatsIInv, RoutesWereTaken, NoticeChannel, Reaches, ExternalChannels
  <2>2. n \in Notices
    BY <1>1, <1>2, <2>1 DEF Notices, CallStates
  <2>3. n.nr = calls[c].nr /\ n.to = other /\ n.chat = t /\ n.channel = NoticeChannel(other, t)
    OBVIOUS
  <2> HIDE DEF n
  <2>4. ChatRows'
    BY <1>3, <1>4, <1>7, <2>2 DEF ChatsIInv, ChatRows
  <2>5. NumbersAreGiven'
    BY <1>1, <1>3, <1>4, <1>7, <2>3, NoCallType DEF ChatsIInv, NumbersAreGiven
  <2>6. NoticesToCome'
    BY <1>1, <1>3, <1>4, <1>7, <2>3, NoCallType DEF ChatsIInv, NoticesToCome, NoticeToCome
  <2>7. ASSUME NEW x \in told', x = n
        PROVE  ToldRightly(x)'
    <3>1. x.to \in Participating(x.chat) /\ Reaches(x.to, x.channel)
      BY <1>2, <2>1, <2>3, <2>7
    <3>2. x.channel = DefaultChannel(x.to) \/ <<x.chat, x.to, x.channel>> \in repliedBy'
      BY <1>4, <2>1, <2>3, <2>7
    <3>3. \A y \in told' : y.nr = x.nr => y = x
      BY <1>1, <1>7, <2>3, <2>7 DEF NoticeToCome
    <3>4. \A m \in said' : m.nr = x.nr => m.chat = x.chat /\ m.sender # x.to
      BY <1>1, <1>2, <1>4, <2>3, <2>7 DEF NoticeToCome
    <3> QED
      BY <3>1, <3>2, <3>3, <3>4 DEF ToldRightly
  <2>8. ASSUME NEW x \in told
        PROVE  ToldRightly(x)'
    <3>1. ToldRightly(x) /\ x.nr # calls[c].nr
      BY <1>1 DEF ChatsIInv, ToldBetweenTwo, NoticeToCome
    <3>2. \A y \in told' : y.nr = x.nr => y = x
      BY <1>7, <2>3, <3>1 DEF ToldRightly
    <3> QED
      BY <3>1, <3>2, <1>4 DEF ToldRightly
  <2>9. ToldBetweenTwo'
    BY <1>7, <2>7, <2>8 DEF ToldBetweenTwo
  <2> QED
    BY <1>5, <2>4, <2>5, <2>6, <2>9 DEF ChatsIInv
<1> QED
  BY <1>6, <1>7 DEF NotifyOther

\* Opening a chat: the caller had seen the offer, and the trade is still there.
LEMMA OpenKeepsChatsIInv ==
  ASSUME ChatsIInv, NEW c \in Calls, OpenChat(c)
  PROVE  ChatsIInv'
<1>1. CASE calls[c].chat \in chats \/ offer = "rebuilt"
  BY <1>1, NoCallType, CallMovesKeepsChatsIInv DEF OpenChat, EndCall
<1>2. CASE ~(calls[c].chat \in chats \/ offer = "rebuilt")
  <2>1. /\ calls[c] \in CallStates /\ wasOffered /\ calls[c].chat \in Counterparties
    BY DEF ChatsIInv, ChatRows, CallsAreOfTheChat, CallIsOfTheChat, OpenChat, OnCall
  <2>2. /\ calls' \in [Calls -> CallStates]
        /\ calls'[c] = NoCall
        /\ \A d \in Calls : d # c => calls'[d] = calls[d]
    BY NoCallType, OneCallMoves DEF ChatsIInv, ChatRows, OpenChat, EndCall
  <2>3. /\ chats' = chats \cup {calls[c].chat}
        /\ bumped' = [bumped EXCEPT ![calls[c].chat] = calls[c].stamp]
        /\ UNCHANGED <<clock, offer, said, routes, told, wasOffered, repliedBy>>
    BY <1>2 DEF OpenChat
  <2>4. ChatsTypeOK' /\ ChatRows' /\ CallsAreOfTheChat' /\ OfferedBefore'
    BY <1>2, <2>1, <2>2, <2>3, NoCallType
       DEF ChatsIInv, ChatsTypeOK, ChatRows, CallsAreOfTheChat, CallIsOfTheChat, OfferedBefore,
           CallStates
  <2>5. NumbersAreGiven'
    BY <2>2, <2>3, NoCallType DEF ChatsIInv, NumbersAreGiven
  <2>6. NoticesToCome' /\ RoutesWereTaken' /\ SaidBetweenTwo' /\ ToldBetweenTwo'
    BY <2>2, <2>3, NoCallType DEF ChatsIInv, NoticesToCome, NoticeToCome, RoutesWereTaken,
       SaidBetweenTwo, ToldBetweenTwo, ToldRightly
  <2> QED
    BY <2>4, <2>5, <2>6 DEF ChatsIInv
<1> QED
  BY <1>1, <1>2

\* A reply from outside is routed to the chat of the notice it answers, where
\* it came to a participant.
LEMMA ReplyKeepsChatsIInv ==
  ASSUME ChatsIInv, NEW c \in Calls, NEW u \in People, NEW t \in Counterparties,
         NEW via \in ExternalChannels, ReplyFromOutside(c, u, t, via)
  PROVE  ChatsIInv'
<1> DEFINE next == [NoCall EXCEPT !.step = "routed", !.user = u, !.chat = t]
<1>1. u \in Participating(t) /\ t \in chats /\ Reaches(u, via)
  BY DEF ReplyFromOutside, Sees
<1>2. next \in CallStates /\ next.step = "routed" /\ next.chat = t /\ next.user = u
  BY NoCallType DEF CallStates, People
<1>3. /\ calls' \in [Calls -> CallStates]
      /\ calls'[c] = next
      /\ \A d \in Calls : d # c => calls'[d] = calls[d]
  BY <1>2, OneCallMoves DEF ChatsIInv, ChatRows, ReplyFromOutside
<1> HIDE DEF next
<1>4. /\ routes' = [routes EXCEPT ![t][u] = via]
      /\ repliedBy' = repliedBy \cup {<<t, u, via>>}
      /\ UNCHANGED <<clock, offer, chats, said, bumped, told, wasOffered>>
  BY DEF ReplyFromOutside, RouteTaken
<1>5. routes' \in [Counterparties -> [People -> ExternalChannels \cup {"none"}]]
  BY <1>4 DEF ChatsIInv, ChatsTypeOK
<1>6. ChatsTypeOK' /\ ChatRows' /\ CallsAreOfTheChat' /\ OfferedBefore'
  BY <1>1, <1>2, <1>3, <1>4, <1>5 DEF ChatsIInv, ChatsTypeOK, ChatRows, CallsAreOfTheChat, CallIsOfTheChat,
     OfferedBefore, CallStates
<1>7. RoutesWereTaken'
  <2>1. ASSUME NEW t1 \in Counterparties, NEW u1 \in People
        PROVE  routes'[t1][u1] = IF t1 = t /\ u1 = u THEN via ELSE routes[t1][u1]
    BY <1>4 DEF ChatsIInv, ChatsTypeOK
  <2> QED
    BY <1>1, <1>4, <2>1 DEF ChatsIInv, RoutesWereTaken
<1>8. NumbersAreGiven' /\ NoticesToCome' /\ SaidBetweenTwo'
  BY <1>2, <1>3, <1>4 DEF ChatsIInv, NumbersAreGiven, NoticesToCome, NoticeToCome, SaidBetweenTwo
<1>9. ToldBetweenTwo'
  BY <1>4 DEF ChatsIInv, ToldBetweenTwo, ToldRightly
<1> QED
  BY <1>6, <1>7, <1>8, <1>9 DEF ChatsIInv

\* The trade is offered, hidden or rebuilt; rebuilt, it has no chats any more.
LEMMA TradeStepKeepsChatsIInv == ChatsIInv /\ (ChatTick \/ ChangeOffer \/ RebuildTrade) => ChatsIInv'
<1> SUFFICES ASSUME ChatsIInv, ChatTick \/ ChangeOffer \/ RebuildTrade
             PROVE  ChatsIInv'
  OBVIOUS
<1>1. CASE ChatTick
  <2>1. clock' \in 0..MaxStamp
    BY <1>1, TradeChatsAssumption DEF ChatTick, ChatsIInv, ChatsTypeOK
  <2> QED
    BY <1>1, <2>1 DEF ChatTick, ChatsIInv, ChatsTypeOK, ChatRows, CallsAreOfTheChat, CallIsOfTheChat,
       OfferedBefore, RoutesWereTaken, NumbersAreGiven, NoticesToCome, NoticeToCome, SaidBetweenTwo,
       ToldBetweenTwo, ToldRightly
<1>2. CASE ChangeOffer
  BY <1>2 DEF ChangeOffer, ChatsIInv, ChatsTypeOK, ChatRows, CallsAreOfTheChat, CallIsOfTheChat,
     OfferedBefore, RoutesWereTaken, NumbersAreGiven, NoticesToCome, NoticeToCome, SaidBetweenTwo,
     ToldBetweenTwo, ToldRightly
<1>3. CASE RebuildTrade
  <2>1. chats' = {} /\ said' = {} /\ routes' = NoRoutes /\ offer' = "rebuilt"
        /\ UNCHANGED <<clock, bumped, calls, told, wasOffered, repliedBy>>
    BY <1>3 DEF RebuildTrade
  <2>2. NoRoutes \in [Counterparties -> [People -> ExternalChannels \cup {"none"}]]
    BY DEF NoRoutes
  <2>3. ChatsTypeOK' /\ ChatRows'
    BY <2>1, <2>2, FS_EmptySet DEF ChatsIInv, ChatsTypeOK, ChatRows
  <2>4. RoutesWereTaken'
    BY <2>1 DEF RoutesWereTaken, NoRoutes
  <2>5. CallsAreOfTheChat' /\ OfferedBefore' /\ NumbersAreGiven' /\ NoticesToCome'
        /\ SaidBetweenTwo' /\ ToldBetweenTwo'
    BY <2>1 DEF ChatsIInv, CallsAreOfTheChat, CallIsOfTheChat, OfferedBefore, NumbersAreGiven,
       NoticesToCome, NoticeToCome, SaidBetweenTwo, ToldBetweenTwo, ToldRightly
  <2> QED
    BY <2>3, <2>4, <2>5 DEF ChatsIInv
<1> QED
  BY <1>1, <1>2, <1>3

\* Every step of the chats keeps the invariant.
LEMMA ChatsNextKeepsIInv == ChatsIInv /\ ChatsNext => ChatsIInv'
<1> SUFFICES ASSUME ChatsIInv, ChatsNext
             PROVE  ChatsIInv'
  OBVIOUS
<1>1. clock \in 0..MaxStamp /\ \A c \in Calls : calls[c] \in CallStates
  BY DEF ChatsIInv, ChatsTypeOK, ChatRows
<1>2. ASSUME NEW c \in Calls, NEW u \in People, BeginStart(c, u)
      PROVE  ChatsIInv'
  <2> DEFINE next == [NoCall EXCEPT !.step = "start", !.user = u, !.chat = u, !.stamp = clock]
  <2>1. wasOffered /\ u \in Counterparties
    BY <1>2 DEF BeginStart, ChatsIInv, OfferedBefore, People
  <2>2. next \in CallStates /\ next.step = "start" /\ next.chat = u
    BY <1>1, NoCallType DEF CallStates
  <2> QED
    BY <1>2, <2>1, <2>2, CallMovesKeepsChatsIInv DEF BeginStart
<1>3. ASSUME NEW c \in Calls, NEW u \in People, NEW t \in Counterparties,
             ReadAppendContext(c, u, t), u \in Participating(t),
             UNCHANGED <<clock, offer, chats, said, bumped, routes, told, wasOffered, repliedBy>>
      PROVE  ChatsIInv'
  <2> DEFINE next == [step |-> "append", user |-> u, chat |-> t, stamp |-> clock, nr |-> 0]
  <2>1. next \in CallStates
    BY <1>1 DEF CallStates, People
  <2> QED
    BY <1>3, <2>1, CallMovesKeepsChatsIInv DEF ReadAppendContext
<1>4. ASSUME NEW c \in Calls, NEW u \in People, NEW t \in Counterparties, SendFromApp(c, u, t)
      PROVE  ChatsIInv'
  BY <1>3, <1>4 DEF SendFromApp, Sees
<1>5. ASSUME NEW c \in Calls, ContinueReply(c)
      PROVE  ChatsIInv'
  <2>1. calls[c].chat \in Counterparties /\ calls[c].user \in Participating(calls[c].chat)
    BY <1>5 DEF ChatsIInv, CallsAreOfTheChat, CallIsOfTheChat, ContinueReply, OnCall
  <2>2. CASE calls[c].chat \in chats
    BY <1>1, <1>3, <1>5, <2>1, <2>2 DEF ContinueReply, CallStates
  <2>3. CASE calls[c].chat \notin chats
    BY <1>5, <2>3, NoCallType, CallMovesKeepsChatsIInv DEF ContinueReply, EndCall
  <2> QED
    BY <2>2, <2>3
<1>6. ASSUME NEW c \in Calls, CallDies(c)
      PROVE  ChatsIInv'
  BY <1>6, NoCallType, CallMovesKeepsChatsIInv DEF CallDies, EndCall
<1> QED
  BY <1>2, <1>4, <1>5, <1>6, TradeStepKeepsChatsIInv, OpenKeepsChatsIInv, AppendKeepsChatsIInv,
     NotifyKeepsChatsIInv, ReplyKeepsChatsIInv DEF ChatsNext, CallStep

\* The invariant holds in every state of the chats.
LEMMA ChatsInductive == ChatsSpec => []ChatsIInv
<1>1. ChatsIInv /\ UNCHANGED tradeChats => ChatsIInv'
  BY DEF tradeChats, ChatsIInv, ChatsTypeOK, ChatRows, CallsAreOfTheChat, CallIsOfTheChat,
     OfferedBefore, RoutesWereTaken, NumbersAreGiven, NoticesToCome, NoticeToCome, SaidBetweenTwo,
     ToldBetweenTwo, ToldRightly
<1> QED
  BY ChatsInitHolds, ChatsNextKeepsIInv, <1>1, PTL DEF ChatsSpec

\* The rows of trades, chats and routes keep their types (src/messages/ and
\* src/trades/: chat rows, messages and default routes).
THEOREM ChatsTypeCorrect == ChatsSpec => []ChatsTypeOK
<1>1. ChatsIInv => ChatsTypeOK
  BY DEF ChatsIInv
<1> QED
  BY ChatsInductive, <1>1, PTL

\* A trade chat stays between the owner of the trade and one counterparty, for
\* any users, calls and channels: only the two read it, every message in it is
\* by one of them, and a notice goes to the other one, once per message, on a
\* channel of that user.  A chat is of a trade that was offered.
THEOREM ChatsAreOfTwo == ChatsSpec => []ChatsStayBetweenTwo
  BY ChatsInductive, ChatsIInvImplies, PTL

=============================================================================
