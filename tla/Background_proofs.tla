-------------------------- MODULE Background_proofs -------------------------
(***************************************************************************)
(* What goes on after the request that asked for it: the trades and their  *)
(* alerts, the analyses of a message, and the AI translations of pages.    *)
(***************************************************************************)
EXTENDS MessageTrades, TranslationJobs, FiniteOrders

-----------------------------------------------------------------------------
(* The trades of an owner: one live version, honest deliveries and          *)
(* announced offers, for any number of trades, users, materials and         *)
(* overlapping requests.                                                    *)

InRound(r) == req[r].step \in {"next", "send", "mark"}
HoldsDelivery(r) == req[r].step \in {"send", "mark"}

\* The version numbers of a row agree, and an offer is in the history of offers.
TradeRow(t) ==
    /\ trade[t].live = {trade[t].current}
    /\ trade[t].current = trade[t].last
    /\ trade[t].publication = "active" => trade[t].visibility # "private"
    /\ OnOffer(trade[t]) /\ trade[t].terms.material \in Materials =>
          <<t, trade[t].terms.material>> \in offered

TradeRows == \A t \in stored : TradeRow(t)

\* A round is about an offer that was made, for users interested in it, and the
\* delivery it works on is one it has created, unless an analysis has taken the
\* trade away meanwhile.
Round(r) ==
    /\ InRound(r) =>
          /\ req[r].material \in Materials
          /\ <<req[r].trade, req[r].material>> \in offered
          /\ req[r].todo \subseteq InterestedIn(req[r].material)
    /\ HoldsDelivery(r) =>
          /\ req[r].recipient \in req[r].todo
          /\ delivery[KeyOf(r)] = IF req[r].trade \in stored THEN "pending" ELSE "none"
    /\ req[r].step = "send" => alerts[KeyOf(r)] = 0
    /\ req[r].step = "mark" =>
          /\ req[r].result \in {"sent", "skipped", "failed"}
          /\ req[r].result = "sent" => alerts[KeyOf(r)] = 1
          /\ req[r].result = "skipped" => alerts[KeyOf(r)] = 0

Rounds == \A r \in Requests : Round(r)

\* No two rounds work on one delivery.
OneSender ==
    \A r1, r2 \in Requests :
        HoldsDelivery(r1) /\ HoldsDelivery(r2) /\ KeyOf(r1) = KeyOf(r2) => r1 = r2

\* A user without a delivery row was told nothing of a trade that is there.
NoRowNoAlert ==
    \A key \in AlertKeys : key[1] \in stored /\ delivery[key] = "none" => alerts[key] = 0

\* A user interested in an offer has a delivery, or a round will come to them.
Announced(t, u, m) ==
    \/ delivery[<<t, u, m>>] # "none"
    \/ \E r \in Requests :
          /\ req[r].trade = t
          /\ \/ req[r].step = "context"
             \/ InRound(r) /\ req[r].material = m /\ u \in req[r].todo

OffersWillBeAnnounced ==
    \A t \in stored \ cut, m \in Materials :
        OnOffer(trade[t]) /\ trade[t].terms.material = m =>
            \A u \in InterestedIn(m) : Announced(t, u, m)

TradesIInv ==
    /\ TradesTypeOK
    /\ TradeRows
    /\ Rounds
    /\ OneSender
    /\ NoRowNoAlert
    /\ DeliveriesTellTheTruth
    /\ OffersWillBeAnnounced

-----------------------------------------------------------------------------
LEMMA IdleRequestType ==
    /\ IdleRequest \in Request
    /\ IdleRequest.step = "idle" /\ IdleRequest.recipient \in Recipients
<1>1. (CHOOSE t \in Trades : TRUE) \in Trades /\ (CHOOSE u \in Recipients : TRUE) \in Recipients
  BY TradesAssumption
<1> QED
  BY <1>1 DEF IdleRequest, Request, Steps, Kinds, DeliveryStatuses

\* A user who is interested in a material is a recipient, and the material a key.
LEMMA InterestsHaveKeys ==
  ASSUME NEW m, NEW u \in InterestedIn(m)
  PROVE  u \in Recipients /\ m \in Materials
  BY TradesAssumption DEF InterestedIn

\* A request takes a new state; the others keep theirs.
LEMMA OneRequestMoves ==
  ASSUME req \in [Requests -> Request], NEW r \in Requests, NEW next \in Request,
         req' = [req EXCEPT ![r] = next]
  PROVE  /\ req' \in [Requests -> Request]
         /\ req'[r] = next
         /\ \A q \in Requests : q # r => req'[q] = req[q]
  OBVIOUS

LEMMA TradesInitHolds == TradesInit => TradesIInv
<1> SUFFICES ASSUME TradesInit
             PROVE  TradesIInv
  OBVIOUS
<1>1. \A terms \in Projections :
          terms \in Terms /\ terms.status = "draft"
  BY TradesAssumption
<1>2. \A terms \in Projections :
          /\ FirstVersion(terms) \in Row
          /\ FirstVersion(terms).live = {FirstVersion(terms).current}
          /\ FirstVersion(terms).current = FirstVersion(terms).last
          /\ FirstVersion(terms).publication = "none"
  BY <1>1 DEF FirstVersion, Row, Visibilities, PublicationStatuses
<1>3. \A t \in Trades :
          /\ trade[t] \in Row
          /\ trade[t].live = {trade[t].current}
          /\ trade[t].current = trade[t].last
          /\ trade[t].publication = "none"
  BY <1>2 DEF TradesInit
<1>4. trade \in [Trades -> Row]
  BY <1>2 DEF TradesInit
<1>5. \A r \in Requests : req[r] = IdleRequest /\ req[r].step = "idle"
  BY IdleRequestType DEF TradesInit, NoTradeYet
<1>6. TradesTypeOK
  BY <1>4, IdleRequestType DEF TradesInit, NoTradeYet, TradesTypeOK, DeliveryStatuses
<1>7. TradeRows
  BY <1>3 DEF TradesInit, TradeRows, TradeRow, OnOffer
<1>8. Rounds /\ OneSender
  BY <1>5 DEF Rounds, Round, OneSender, InRound, HoldsDelivery
<1>9. NoRowNoAlert /\ DeliveriesTellTheTruth
  <2>1. \A key \in AlertKeys : alerts[key] = 0 /\ delivery[key] = "none"
    BY DEF TradesInit, NoTradeYet
  <2> QED
    BY <2>1 DEF NoRowNoAlert, DeliveriesTellTheTruth, AlertKeys
<1>10. OffersWillBeAnnounced
  BY <1>3 DEF TradesInit, OffersWillBeAnnounced, OnOffer
<1> QED
  BY <1>6, <1>7, <1>8, <1>9, <1>10 DEF TradesIInv

-----------------------------------------------------------------------------
(* The owner's requests                                                     *)

\* A request that is in no round afterwards, and holds no delivery, leaves rounds
\* and deliveries as they were; what was on offer stays in the history.
LEMMA RoundsUntouched ==
  ASSUME TradesIInv, NEW r \in Requests, NEW next \in Request,
         req' = [req EXCEPT ![r] = next],
         next.step \in {"idle", "lock", "context"},
         offered \subseteq offered', UNCHANGED <<stored, delivery, alerts>>
  PROVE  Rounds' /\ OneSender' /\ NoRowNoAlert' /\ DeliveriesTellTheTruth'
<1>1. /\ req'[r] = next
      /\ \A q \in Requests : q # r => req'[q] = req[q]
  BY OneRequestMoves DEF TradesIInv, TradesTypeOK
<1>2. ~InRound(r)' /\ ~HoldsDelivery(r)' /\ next.step # "send" /\ next.step # "mark"
  BY <1>1 DEF InRound, HoldsDelivery
<1>3. \A q \in Requests : q # r =>
          /\ InRound(q)' <=> InRound(q)
          /\ HoldsDelivery(q)' <=> HoldsDelivery(q)
          /\ KeyOf(q)' = KeyOf(q)
  BY <1>1 DEF InRound, HoldsDelivery, KeyOf
<1>4. Rounds'
  <2>1. Round(r)'
    BY <1>1, <1>2 DEF Round
  <2>2. ASSUME NEW q \in Requests, q # r
        PROVE  Round(q)'
    <3>1. Round(q)
      BY DEF TradesIInv, Rounds
    <3> QED
      BY <1>1, <1>3, <2>2, <3>1 DEF Round
  <2> QED
    BY <2>1, <2>2 DEF Rounds
<1>5. OneSender'
  BY <1>2, <1>3 DEF TradesIInv, OneSender
<1>6. NoRowNoAlert' /\ DeliveriesTellTheTruth'
  BY DEF TradesIInv, NoRowNoAlert, DeliveriesTellTheTruth
<1> QED
  BY <1>4, <1>5, <1>6

\* Who is told, or will be, stays so when a request outside a round moves.
LEMMA AnnouncedStays ==
  ASSUME TradesIInv, NEW r \in Requests, NEW next \in Request,
         req' = [req EXCEPT ![r] = next], req[r].step \in {"idle", "lock"},
         UNCHANGED delivery,
         NEW t, NEW u, NEW m, Announced(t, u, m)
  PROVE  Announced(t, u, m)'
<1>1. \A q \in Requests : q # r => req'[q] = req[q]
  BY OneRequestMoves DEF TradesIInv, TradesTypeOK
<1>2. CASE delivery[<<t, u, m>>] # "none"
  BY <1>2 DEF Announced
<1>3. ASSUME NEW q \in Requests, req[q].trade = t,
             \/ req[q].step = "context"
             \/ InRound(q) /\ req[q].material = m /\ u \in req[q].todo
      PROVE  Announced(t, u, m)'
  <2>1. q # r
    BY <1>3 DEF InRound
  <2> QED
    BY <1>1, <1>3, <2>1 DEF Announced, InRound
<1> QED
  BY <1>2, <1>3 DEF Announced

\* A request that waits, is refused or changes nothing keeps the trades.
LEMMA QuietKeepsTradesIInv ==
  ASSUME TradesIInv, NEW r \in Requests, NEW next \in Request,
         req' = [req EXCEPT ![r] = next], req[r].step \in {"idle", "lock"},
         next.step \in {"idle", "lock"},
         UNCHANGED <<stored, trade, delivery, alerts, offered, cut>>
  PROVE  TradesIInv'
<1>1. Rounds' /\ OneSender' /\ NoRowNoAlert' /\ DeliveriesTellTheTruth'
  BY RoundsUntouched
<1>2. OffersWillBeAnnounced'
  <2>1. ASSUME NEW t \in stored \ cut, NEW m \in Materials,
               OnOffer(trade[t]), trade[t].terms.material = m, NEW u \in InterestedIn(m)
        PROVE  Announced(t, u, m)'
    <3>1. Announced(t, u, m)
      BY <2>1 DEF TradesIInv, OffersWillBeAnnounced
    <3> QED
      BY <3>1, AnnouncedStays
  <2> QED
    BY <2>1 DEF OffersWillBeAnnounced
<1>3. TradesTypeOK'
  BY OneRequestMoves DEF TradesIInv, TradesTypeOK
<1>4. TradeRows'
  BY DEF TradesIInv, TradeRows, TradeRow
<1> QED
  BY <1>1, <1>2, <1>3, <1>4 DEF TradesIInv

\* Whatever a request writes, the row is in order afterwards, and a row that is on
\* offer then is followed by a round.
LEMMA WriteKeepsTradesIInv ==
  ASSUME TradesIInv, NEW r \in Requests, NEW row \in Row, req[r].step = "lock",
         WriteTrade(r, row),
         row.live = {row.current}, row.current = row.last,
         row.publication = "active" => row.visibility # "private",
         NEW step \in {"idle", "context"},
         OnOffer(row) => step = "context",
         step = "idle" => req' = [req EXCEPT ![r] = IdleRequest],
         step = "context" => req' = [req EXCEPT ![r].step = "context"]
  PROVE  TradesIInv'
<1>0. PICK t \in Trades : t = req[r].trade
  BY DEF TradesIInv, TradesTypeOK, Request
<1> DEFINE next == IF step = "idle" THEN IdleRequest ELSE [req[r] EXCEPT !.step = "context"]
<1>1. req[r] \in Request /\ req \in [Requests -> Request]
  BY DEF TradesIInv, TradesTypeOK
<1>2. /\ next \in Request /\ next.step = step
      /\ step = "context" => next.trade = t
      /\ req' = [req EXCEPT ![r] = next]
  BY <1>0, <1>1, IdleRequestType DEF Request, Steps
<1> HIDE DEF next
<1>3. /\ req' \in [Requests -> Request]
      /\ req'[r] = next
      /\ \A q \in Requests : q # r => req'[q] = req[q]
  BY <1>1, <1>2, OneRequestMoves
<1>4. /\ trade' = [trade EXCEPT ![t] = row]
      /\ offered' = offered \cup {<<t, m>> : m \in {x \in Materials :
                                      OnOffer(row) /\ x = row.terms.material}}
      /\ UNCHANGED <<stored, delivery, alerts, cut>>
  BY <1>0 DEF WriteTrade
<1>5. /\ trade' \in [Trades -> Row]
      /\ trade'[t] = row
      /\ \A x \in Trades : x # t => trade'[x] = trade[x]
  BY <1>1, <1>4 DEF TradesIInv, TradesTypeOK
<1>6. TradesTypeOK'
  BY <1>1, <1>3, <1>4, <1>5 DEF TradesIInv, TradesTypeOK
<1>7. TradeRows'
  <2>1. TradeRow(t)'
    BY <1>4, <1>5 DEF TradeRow
  <2>2. ASSUME NEW x \in stored, x # t
        PROVE  TradeRow(x)'
    <3>1. TradeRow(x)
      BY DEF TradesIInv, TradeRows
    <3>2. x \in Trades
      BY DEF TradesIInv, TradesTypeOK
    <3> QED
      BY <1>4, <1>5, <2>2, <3>1, <3>2 DEF TradeRow
  <2> QED
    BY <1>4, <2>1, <2>2 DEF TradesIInv, TradeRows
<1>8. Rounds' /\ OneSender' /\ NoRowNoAlert' /\ DeliveriesTellTheTruth'
  BY <1>2, <1>4, RoundsUntouched
<1>9. OffersWillBeAnnounced'
  <2>1. ASSUME NEW x \in stored \ cut, NEW m \in Materials,
               OnOffer(trade'[x]), trade'[x].terms.material = m, NEW u \in InterestedIn(m)
        PROVE  Announced(x, u, m)'
    <3>1. CASE x = t
      BY <1>2, <1>3, <1>5, <2>1, <3>1 DEF Announced
    <3>2. CASE x # t
      <4>1. Announced(x, u, m)
        BY <1>4, <1>5, <2>1, <3>2 DEF TradesIInv, TradesTypeOK, OffersWillBeAnnounced
      <4> QED
        BY <1>2, <1>4, <4>1, AnnouncedStays
    <3> QED
      BY <3>1, <3>2
  <2>2. ASSUME NEW x \in stored \ cut, OnOffer(trade[x])'
        PROVE  OnOffer(trade'[x])
    BY <2>2 DEF OnOffer
  <2> QED
    BY <1>4, <2>1, <2>2 DEF OffersWillBeAnnounced
<1> QED
  BY <1>6, <1>7, <1>8, <1>9 DEF TradesIInv

\* A new version replaces the one the request has found current.
LEMMA PromoteWritesAVersion ==
  ASSUME TradesIInv, NEW r \in Requests, Found(r), req[r].kind # "visibility",
         NEW terms \in Terms, Promote(r, terms)
  PROVE  \E row \in Row :
            /\ WriteTrade(r, row)
            /\ row.live = {row.current} /\ row.current = row.last
            /\ row.publication = "active" => row.visibility # "private"
            /\ row.terms = terms
<1>0. PICK t \in Trades : t = req[r].trade
  BY DEF TradesIInv, TradesTypeOK, Request
<1>1. /\ trade[t] \in Row
      /\ trade[t].live = {trade[t].current} /\ trade[t].current = trade[t].last
      /\ trade[t].publication = "active" => trade[t].visibility # "private"
      /\ trade[t].current = req[r].seen
  BY <1>0 DEF TradesIInv, TradesTypeOK, TradeRows, TradeRow, Found, TradeOf
<1> DEFINE row == NextVersion(trade[t], req[r].seen, terms)
<1>2. /\ row.last = trade[t].last + 1 /\ row.current = trade[t].last + 1
      /\ row.live = (trade[t].live \ {req[r].seen}) \cup {trade[t].last + 1}
      /\ row.visibility = trade[t].visibility /\ row.publication = trade[t].publication
      /\ row.terms = terms
  BY <1>1 DEF NextVersion, Row
<1>5. row \in Row
  <2>1. row = [trade[t] EXCEPT !.last = trade[t].last + 1, !.current = trade[t].last + 1,
                  !.live = (trade[t].live \ {req[r].seen}) \cup {trade[t].last + 1},
                  !.terms = terms]
    BY DEF NextVersion
  <2>2. trade[t].last \in Nat /\ trade[t].live \in SUBSET Nat
    BY <1>1 DEF Row
  <2>3. /\ trade[t].last + 1 \in Nat
        /\ (trade[t].live \ {req[r].seen}) \cup {trade[t].last + 1} \in SUBSET Nat
    BY <2>2
  <2>4. trade[t].visibility \in Visibilities /\ trade[t].publication \in PublicationStatuses
    BY <1>1 DEF Row
  <2> HIDE DEF row
  <2> QED
    BY <1>1, <2>1, <2>3, <2>4 DEF Row
<1>3. WriteTrade(r, row)
  BY <1>0 DEF Promote, TradeOf
<1>4. row.live = {row.current}
  BY <1>1, <1>2
<1> QED
  BY <1>1, <1>2, <1>3, <1>4, <1>5

LEMMA TermsHaveTypes ==
  ASSUME TradesIInv, NEW r \in Requests
  PROVE  TermsOf(r) \in Terms /\ TradeOf(r) \in Row
  BY DEF TradesIInv, TradesTypeOK, Request, TermsOf, TradeOf, Row

\* Both statuses of a row on offer are those of a trade that is news.
LEMMA OfferIsNews ==
  ASSUME NEW row, OnOffer(row)
  PROVE  ConfirmedAndOpen(row.terms) /\ row.visibility # "private"
  BY DEF OnOffer

LEMMA OwnerStepKeepsTradesIInv ==
  ASSUME TradesIInv, NEW r \in Requests,
         \/ \E t \in Trades, kind \in Kinds : Submit(r, t, kind)
         \/ NotFound(r) \/ LeaveTrade(r)
         \/ Confirm(r) \/ Reject(r)
         \/ \E terms \in Edits \cup {TermsOf(r)} : Edit(r, terms)
         \/ \E visibility \in Visibilities : SetVisibility(r, visibility)
  PROVE  TradesIInv'
<1>1. ASSUME NEW t \in Trades, NEW kind \in Kinds, Submit(r, t, kind)
      PROVE  TradesIInv'
  <2> DEFINE next == [IdleRequest EXCEPT !.step = "lock", !.kind = kind,
                                         !.trade = t, !.seen = trade[t].current]
  <2>1. trade[t].current \in Nat
    BY DEF TradesIInv, TradesTypeOK, Row
  <2>2. next \in Request /\ next.step = "lock"
    BY <2>1, IdleRequestType DEF Request, Steps
  <2>3. req' = [req EXCEPT ![r] = next] /\ req[r].step = "idle"
    BY <1>1 DEF Submit, At
  <2> QED
    BY <1>1, <2>2, <2>3, QuietKeepsTradesIInv DEF Submit
<1>2. CASE NotFound(r) \/ LeaveTrade(r)
  <2>1. /\ req[r].step = "lock"
        /\ req' = [req EXCEPT ![r] = IdleRequest]
        /\ UNCHANGED <<stored, trade, delivery, alerts, offered, cut>>
    BY <1>2 DEF NotFound, LeaveTrade, Found, At, Finish
  <2> QED
    BY <2>1, IdleRequestType, QuietKeepsTradesIInv
<1>3. CASE Confirm(r)
  <2> DEFINE terms == [TermsOf(r) EXCEPT !.confirmation = "confirmed", !.status = "open"]
  <2>1. terms \in Terms
    BY TermsHaveTypes DEF Terms, ConfirmationStatuses, TradeStatuses
  <2>2. /\ Found(r) /\ req[r].kind # "visibility" /\ req[r].step = "lock"
        /\ Promote(r, terms)
        /\ req' = [req EXCEPT ![r].step = "context"]
    BY <1>3 DEF Confirm, Found, At, GoTo
  <2> HIDE DEF terms
  <2> QED
    BY <2>1, <2>2, PromoteWritesAVersion, WriteKeepsTradesIInv
<1>4. CASE Reject(r)
  <2> DEFINE terms == [TermsOf(r) EXCEPT !.confirmation = "rejected", !.status = "archived"]
  <2>1. terms \in Terms /\ terms.confirmation = "rejected"
    BY TermsHaveTypes DEF Terms, ConfirmationStatuses, TradeStatuses
  <2>2. /\ Found(r) /\ req[r].kind # "visibility" /\ req[r].step = "lock"
        /\ Promote(r, terms)
        /\ req' = [req EXCEPT ![r] = IdleRequest]
    BY <1>4 DEF Reject, Found, At, Finish
  <2> HIDE DEF terms
  <2>3. PICK row \in Row :
            /\ WriteTrade(r, row)
            /\ row.live = {row.current} /\ row.current = row.last
            /\ row.publication = "active" => row.visibility # "private"
            /\ row.terms = terms
    BY <2>1, <2>2, PromoteWritesAVersion
  <2>4. ~OnOffer(row)
    BY <2>1, <2>3 DEF OnOffer, ConfirmedAndOpen
  <2> QED
    BY <2>2, <2>3, <2>4, WriteKeepsTradesIInv
<1>5. ASSUME NEW terms \in Edits \cup {TermsOf(r)}, Edit(r, terms)
      PROVE  TradesIInv'
  <2>1. terms \in Terms
    BY TermsHaveTypes, TradesAssumption
  <2>2. /\ Found(r) /\ req[r].kind # "visibility" /\ req[r].step = "lock"
        /\ Promote(r, terms)
        /\ IF ConfirmedAndOpen(terms) THEN req' = [req EXCEPT ![r].step = "context"]
           ELSE req' = [req EXCEPT ![r] = IdleRequest]
    BY <1>5 DEF Edit, EditIsNews, Found, At, Finish, GoTo
  <2>3. PICK row \in Row :
            /\ WriteTrade(r, row)
            /\ row.live = {row.current} /\ row.current = row.last
            /\ row.publication = "active" => row.visibility # "private"
            /\ row.terms = terms
    BY <2>1, <2>2, PromoteWritesAVersion
  <2>4. CASE ConfirmedAndOpen(terms)
    BY <2>2, <2>3, <2>4, WriteKeepsTradesIInv
  <2>5. CASE ~ConfirmedAndOpen(terms)
    <3>1. ~OnOffer(row)
      BY <2>3, <2>5 DEF OnOffer
    <3> QED
      BY <2>2, <2>3, <2>5, <3>1, WriteKeepsTradesIInv
  <2> QED
    BY <2>4, <2>5
<1>6. ASSUME NEW visibility \in Visibilities, SetVisibility(r, visibility)
      PROVE  TradesIInv'
  <2>0. PICK t \in Trades : t = req[r].trade
    BY DEF TradesIInv, TradesTypeOK, Request
  <2>1. /\ trade[t] \in Row /\ TradeOf(r) = trade[t]
        /\ trade[t].live = {trade[t].current} /\ trade[t].current = trade[t].last
    BY <1>6, <2>0 DEF TradesIInv, TradesTypeOK, TradeRows, TradeRow, TradeOf, SetVisibility, Found
  <2>2. req[r].step = "lock"
    BY <1>6 DEF SetVisibility, Found, At
  <2>3. CASE visibility = "private"
    <3> DEFINE row == Withdrawn(trade[t])
    <3>1. /\ row \in Row /\ row.live = trade[t].live /\ row.current = trade[t].current
          /\ row.last = trade[t].last /\ row.publication # "active"
      BY <2>1 DEF Withdrawn, Row, Visibilities, PublicationStatuses
    <3>2. WriteTrade(r, row) /\ req' = [req EXCEPT ![r] = IdleRequest]
      BY <1>6, <2>1, <2>3 DEF SetVisibility, Finish
    <3>3. ~OnOffer(row)
      BY <3>1 DEF OnOffer
    <3> HIDE DEF row
    <3> QED
      BY <2>1, <2>2, <3>1, <3>2, <3>3, WriteKeepsTradesIInv
  <2>4. CASE visibility # "private"
    <3> DEFINE row == Published(trade[t])
    <3>1. /\ row \in Row /\ row.live = trade[t].live /\ row.current = trade[t].current
          /\ row.last = trade[t].last /\ row.visibility = "public"
      BY <2>1 DEF Published, Row, Visibilities, PublicationStatuses
    <3>2. WriteTrade(r, row) /\ req' = [req EXCEPT ![r].step = "context"]
      BY <1>6, <2>1, <2>4 DEF SetVisibility, GoTo
    <3> HIDE DEF row
    <3> QED
      BY <2>1, <2>2, <3>1, <3>2, WriteKeepsTradesIInv
  <2> QED
    BY <2>3, <2>4
<1> QED
  BY <1>1, <1>2, <1>3, <1>4, <1>5, <1>6

-----------------------------------------------------------------------------
(* Rounds of alerts                                                         *)

\* A round that another request does not work on stays in order.
LEMMA OtherRoundStays ==
  ASSUME NEW q \in Requests, Round(q), req'[q] = req[q], UNCHANGED <<offered, stored>>,
         HoldsDelivery(q) => /\ delivery'[KeyOf(q)] = delivery[KeyOf(q)]
                             /\ alerts'[KeyOf(q)] = alerts[KeyOf(q)]
  PROVE  Round(q)' /\ (HoldsDelivery(q)' <=> HoldsDelivery(q)) /\ KeyOf(q)' = KeyOf(q)
<1>1. /\ InRound(q)' <=> InRound(q)
      /\ HoldsDelivery(q)' <=> HoldsDelivery(q)
      /\ KeyOf(q)' = KeyOf(q)
  BY DEF InRound, HoldsDelivery, KeyOf
<1>2. req[q].step \in {"send", "mark"} => HoldsDelivery(q)
  BY DEF HoldsDelivery
<1> QED
  BY <1>1, <1>2 DEF Round

\* Deliveries once created stay, and so does who is still to come, but for what
\* the moving request was to do itself.
LEMMA AnnouncedMoves ==
  ASSUME TradesIInv, NEW r \in Requests, NEW next \in Request,
         req' = [req EXCEPT ![r] = next],
         \A key \in AlertKeys : delivery[key] # "none" => delivery'[key] # "none",
         NEW t \in Trades, NEW u \in Recipients, NEW m \in Materials, Announced(t, u, m),
         /\ req[r].trade = t
         /\ \/ req[r].step = "context"
            \/ InRound(r) /\ req[r].material = m /\ u \in req[r].todo
         => Announced(t, u, m)'
  PROVE  Announced(t, u, m)'
<1>1. \A q \in Requests : q # r => req'[q] = req[q]
  BY OneRequestMoves DEF TradesIInv, TradesTypeOK
<1>2. CASE delivery[<<t, u, m>>] # "none"
  <2>1. <<t, u, m>> \in AlertKeys
    BY DEF AlertKeys
  <2>2. delivery'[<<t, u, m>>] # "none"
    BY <1>2, <2>1
  <2> QED
    BY <2>2 DEF Announced
<1>3. ASSUME NEW q \in Requests, req[q].trade = t,
             \/ req[q].step = "context"
             \/ InRound(q) /\ req[q].material = m /\ u \in req[q].todo
      PROVE  Announced(t, u, m)'
  <2>1. CASE q = r
    BY <1>3, <2>1
  <2>2. CASE q # r
    BY <1>1, <1>3, <2>2 DEF Announced, InRound
  <2> QED
    BY <2>1, <2>2
<1> QED
  BY <1>2, <1>3 DEF Announced

\* The delivery a round holds has a key, and it is interested in the offer.
LEMMA HeldKey ==
  ASSUME TradesIInv, NEW r \in Requests, HoldsDelivery(r)
  PROVE  /\ KeyOf(r) \in AlertKeys
         /\ req[r].trade \in Trades /\ req[r].recipient \in Recipients
         /\ req[r].material \in Materials
         /\ <<req[r].trade, req[r].material>> \in offered
         /\ <<req[r].recipient, req[r].material>> \in Interests
         /\ delivery[KeyOf(r)] = IF req[r].trade \in stored THEN "pending" ELSE "none"
<1>1. InRound(r) /\ Round(r) /\ req[r] \in Request
  BY DEF TradesIInv, Rounds, TradesTypeOK, InRound, HoldsDelivery
<1> QED
  BY <1>1 DEF Round, Request, KeyOf, AlertKeys, InterestedIn

\* The trades and their history do not change in a round.
LEMMA RoundLeavesTrades ==
  ASSUME TradesIInv, UNCHANGED <<stored, trade, offered>>
  PROVE  TradeRows'
  BY DEF TradesIInv, TradeRows, TradeRow

\* The round that finds the offer takes all interested users on; one that finds
\* none, or nobody interested, ends.
LEMMA ReadContextKeepsTradesIInv ==
  ASSUME TradesIInv, NEW r \in Requests, ReadAlertContext(r)
  PROVE  TradesIInv'
<1>0. PICK t \in Trades : t = req[r].trade
  BY DEF TradesIInv, TradesTypeOK, Request
<1>1. /\ req \in [Requests -> Request] /\ req[r] \in Request
      /\ trade[t] \in Row /\ (t \in stored => TradeRow(t))
      /\ req[r].step = "context"
      /\ UNCHANGED <<stored, trade, delivery, alerts, offered, cut>>
  BY DEF TradesIInv, TradesTypeOK, TradeRows, ReadAlertContext, At
<1>2. PICK m \in Materials \cup {NoKey} : m = trade[t].terms.material
  BY <1>1 DEF Row, Terms
<1>3. TradeRows'
  BY <1>1, RoundLeavesTrades
<1>4. CASE AlertEligible(t) /\ m # NoKey /\ InterestedIn(m) # {}
  <2> DEFINE next == [req[r] EXCEPT !.step = "next", !.material = m, !.todo = InterestedIn(m)]
  <2>1. req' = [req EXCEPT ![r] = next]
    BY <1>0, <1>2, <1>4 DEF ReadAlertContext
  <2>2. /\ next \in Request /\ next.step = "next" /\ next.trade = t
        /\ next.material = m /\ next.todo = InterestedIn(m)
    BY <1>0, <1>1, <1>2 DEF Request, Steps, InterestedIn
  <2> HIDE DEF next
  <2>3. /\ req' \in [Requests -> Request]
        /\ req'[r] = next
        /\ \A q \in Requests : q # r => req'[q] = req[q]
    BY <1>1, <2>1, <2>2, OneRequestMoves
  <2>4. m \in Materials /\ <<t, m>> \in offered
    BY <1>1, <1>2, <1>4 DEF AlertEligible, TradeRow, OnOffer
  <2>5. TradesTypeOK'
    BY <1>1, <2>3 DEF TradesIInv, TradesTypeOK
  <2>6. ~HoldsDelivery(r)' /\ ~HoldsDelivery(r) /\ Round(r)'
    BY <1>1, <2>2, <2>3, <2>4 DEF HoldsDelivery, Round
  <2>7. \A q \in Requests : q # r =>
            Round(q)' /\ (HoldsDelivery(q)' <=> HoldsDelivery(q)) /\ KeyOf(q)' = KeyOf(q)
    BY <1>1, <2>3, OtherRoundStays DEF TradesIInv, Rounds
  <2>8. Rounds' /\ OneSender'
    BY <2>6, <2>7 DEF TradesIInv, Rounds, OneSender
  <2>9. NoRowNoAlert' /\ DeliveriesTellTheTruth'
    BY <1>1 DEF TradesIInv, NoRowNoAlert, DeliveriesTellTheTruth
  <2>10. OffersWillBeAnnounced'
    <3>1. ASSUME NEW x \in stored \ cut, NEW n \in Materials, OnOffer(trade[x]),
                 trade[x].terms.material = n, NEW u \in InterestedIn(n)
          PROVE  Announced(x, u, n)'
      <4>1. Announced(x, u, n) /\ x \in Trades /\ u \in Recipients
        BY <3>1 DEF TradesIInv, TradesTypeOK, OffersWillBeAnnounced, InterestedIn
      <4>2. ASSUME req[r].trade = x
            PROVE  Announced(x, u, n)'
        BY <1>0, <1>2, <2>2, <2>3, <3>1, <4>2 DEF Announced, InRound
      <4> QED
        BY <1>1, <2>1, <2>2, <4>1, <4>2, AnnouncedMoves
    <3> QED
      BY <1>1, <3>1 DEF OffersWillBeAnnounced, OnOffer
  <2> QED
    BY <1>3, <2>5, <2>8, <2>9, <2>10 DEF TradesIInv
<1>5. CASE ~(AlertEligible(t) /\ m # NoKey /\ InterestedIn(m) # {})
  <2>1. req' = [req EXCEPT ![r] = IdleRequest]
    BY <1>0, <1>2, <1>5 DEF ReadAlertContext, Finish
  <2>2. Rounds' /\ OneSender' /\ NoRowNoAlert' /\ DeliveriesTellTheTruth'
    BY <1>1, <2>1, IdleRequestType, RoundsUntouched
  <2>3. TradesTypeOK'
    BY <1>1, <2>1, IdleRequestType, OneRequestMoves DEF TradesIInv, TradesTypeOK
  <2>4. OffersWillBeAnnounced'
    <3>1. ASSUME NEW x \in stored \ cut, NEW n \in Materials, OnOffer(trade[x]),
                 trade[x].terms.material = n, NEW u \in InterestedIn(n)
          PROVE  Announced(x, u, n)'
      <4>1. Announced(x, u, n) /\ x \in Trades /\ u \in Recipients
        BY <3>1 DEF TradesIInv, TradesTypeOK, OffersWillBeAnnounced, InterestedIn
      <4>2. req[r].trade # x
        <5>1. SUFFICES ASSUME x = t
                       PROVE  FALSE
          BY <1>0
        <5>2. AlertEligible(t) /\ n = m
          BY <1>1, <1>2, <3>1, <5>1 DEF AlertEligible, OnOffer
        <5>3. m # NoKey
          BY <3>1, <5>2, TradesAssumption
        <5> QED
          BY <1>5, <3>1, <5>2, <5>3
      <4>3. ~InRound(r)
        BY <1>1 DEF InRound
      <4> QED
        BY <1>1, <2>1, <4>1, <4>2, IdleRequestType, AnnouncedMoves
    <3> QED
      BY <1>1, <3>1 DEF OffersWillBeAnnounced, OnOffer
  <2> QED
    BY <1>3, <2>2, <2>3, <2>4 DEF TradesIInv
<1> QED
  BY <1>4, <1>5

\* The unique index lets one round create the delivery; the others pass over it.
LEMMA CreateDeliveryKeepsTradesIInv ==
  ASSUME TradesIInv, NEW r \in Requests, NEW u \in Recipients, CreateDelivery(r, u)
  PROVE  TradesIInv'
<1>0. PICK t \in Trades, m \in Materials : t = req[r].trade /\ m = req[r].material
  <2>1. InRound(r) /\ Round(r) /\ req[r] \in Request
    BY DEF TradesIInv, TradesTypeOK, Rounds, CreateDelivery, At, InRound
  <2> QED
    BY <2>1 DEF Round, Request
<1> DEFINE key == <<t, u, m>>
<1>1. /\ req \in [Requests -> Request] /\ req[r] \in Request
      /\ req[r].step = "next" /\ u \in req[r].todo /\ t \in stored
      /\ delivery \in [AlertKeys -> DeliveryStatuses] /\ key \in AlertKeys
      /\ InRound(r) /\ Round(r)
      /\ UNCHANGED <<stored, trade, alerts, offered, cut>>
  BY <1>0 DEF TradesIInv, TradesTypeOK, Rounds, CreateDelivery, At, AlertKeys, InRound
<1>2. TradeRows'
  BY <1>1, RoundLeavesTrades
<1>3. CASE delivery[key] = "none"
  <2> DEFINE next == [req[r] EXCEPT !.step = "send", !.recipient = u]
  <2>1. /\ delivery' = [delivery EXCEPT ![key] = "pending"]
        /\ req' = [req EXCEPT ![r] = next]
    BY <1>0, <1>3 DEF CreateDelivery, Deliverable
  <2>2. /\ next \in Request /\ next.step = "send" /\ next.trade = t
        /\ next.material = m /\ next.todo = req[r].todo /\ next.recipient = u
    BY <1>0, <1>1 DEF Request, Steps
  <2> HIDE DEF next
  <2>3. /\ req' \in [Requests -> Request]
        /\ req'[r] = next
        /\ \A q \in Requests : q # r => req'[q] = req[q]
    BY <1>1, <2>1, <2>2, OneRequestMoves
  <2>4. /\ delivery' \in [AlertKeys -> DeliveryStatuses]
        /\ delivery'[key] = "pending"
        /\ \A k \in AlertKeys : k # key => delivery'[k] = delivery[k]
    BY <1>1, <2>1 DEF DeliveryStatuses
  <2>5. TradesTypeOK'
    BY <1>1, <2>3, <2>4 DEF TradesIInv, TradesTypeOK
  <2>6. KeyOf(r)' = key /\ alerts[key] = 0 /\ HoldsDelivery(r)' /\ ~HoldsDelivery(r)
    BY <1>1, <1>3, <2>2, <2>3 DEF KeyOf, TradesIInv, NoRowNoAlert, HoldsDelivery
  <2>7. Round(r)'
    <3>1. <<t, m>> \in offered /\ req[r].todo \subseteq InterestedIn(m)
      BY <1>0, <1>1 DEF Round
    <3> QED
      BY <1>1, <2>2, <2>3, <2>4, <2>6, <3>1 DEF Round
  <2>8. \A q \in Requests : HoldsDelivery(q) => KeyOf(q) # key /\ KeyOf(q) \in AlertKeys
    BY <1>1, <1>3, HeldKey DEF KeyOf
  <2>9. \A q \in Requests : q # r =>
            Round(q)' /\ (HoldsDelivery(q)' <=> HoldsDelivery(q)) /\ KeyOf(q)' = KeyOf(q)
    BY <1>1, <2>3, <2>4, <2>8, OtherRoundStays DEF TradesIInv, Rounds
  <2>10. Rounds' /\ OneSender'
    BY <2>6, <2>7, <2>8, <2>9 DEF TradesIInv, Rounds, OneSender
  <2>11. NoRowNoAlert'
    BY <1>1, <2>4 DEF TradesIInv, NoRowNoAlert
  <2>12. DeliveriesTellTheTruth'
    <3>1. ASSUME NEW x \in Trades, NEW v \in Recipients, NEW n \in Materials
          PROVE  /\ delivery'[<<x, v, n>>] = "sent" => delivery[<<x, v, n>>] = "sent"
                 /\ delivery'[<<x, v, n>>] = "skipped" => delivery[<<x, v, n>>] = "skipped"
      <4>1. <<x, v, n>> \in AlertKeys
        BY DEF AlertKeys
      <4> QED
        BY <2>4, <4>1
    <3> QED
      BY <1>1, <3>1 DEF TradesIInv, DeliveriesTellTheTruth
  <2>13. OffersWillBeAnnounced'
    <3>1. ASSUME NEW x \in stored \ cut, NEW n \in Materials, OnOffer(trade[x]),
                 trade[x].terms.material = n, NEW v \in InterestedIn(n)
          PROVE  Announced(x, v, n)'
      <4>1. Announced(x, v, n) /\ x \in Trades /\ v \in Recipients
        BY <3>1 DEF TradesIInv, TradesTypeOK, OffersWillBeAnnounced, InterestedIn
      <4>2. ASSUME req[r].trade = x, req[r].material = n, v \in req[r].todo
            PROVE  Announced(x, v, n)'
        BY <1>0, <2>2, <2>3, <4>2 DEF Announced, InRound
      <4>3. \A k \in AlertKeys : delivery[k] # "none" => delivery'[k] # "none"
        BY <2>4
      <4> QED
        BY <1>1, <2>1, <2>2, <4>1, <4>2, <4>3, AnnouncedMoves
    <3> QED
      BY <1>1, <3>1 DEF OffersWillBeAnnounced, OnOffer
  <2> QED
    BY <1>2, <2>5, <2>10, <2>11, <2>12, <2>13 DEF TradesIInv
<1>4. CASE delivery[key] # "none"
  <2> DEFINE next == [req[r] EXCEPT !.todo = @ \ {u}]
  <2>1. /\ delivery' = delivery
        /\ req' = [req EXCEPT ![r] = next]
    BY <1>0, <1>4 DEF CreateDelivery, Deliverable
  <2>2. /\ next \in Request /\ next.step = "next" /\ next.trade = t
        /\ next.material = m /\ next.todo = req[r].todo \ {u}
    BY <1>0, <1>1 DEF Request
  <2> HIDE DEF next
  <2>3. /\ req' \in [Requests -> Request]
        /\ req'[r] = next
        /\ \A q \in Requests : q # r => req'[q] = req[q]
    BY <1>1, <2>1, <2>2, OneRequestMoves
  <2>4. TradesTypeOK'
    BY <1>1, <2>1, <2>3 DEF TradesIInv, TradesTypeOK
  <2>5. ~HoldsDelivery(r)' /\ ~HoldsDelivery(r) /\ Round(r)'
    <3>1. <<t, m>> \in offered /\ req[r].todo \subseteq InterestedIn(m)
      BY <1>0, <1>1 DEF Round
    <3> QED
      BY <1>1, <2>2, <2>3, <3>1 DEF HoldsDelivery, Round
  <2>6. \A q \in Requests : q # r =>
            Round(q)' /\ (HoldsDelivery(q)' <=> HoldsDelivery(q)) /\ KeyOf(q)' = KeyOf(q)
    BY <1>1, <2>1, <2>3, OtherRoundStays DEF TradesIInv, Rounds
  <2>7. Rounds' /\ OneSender'
    BY <2>5, <2>6 DEF TradesIInv, Rounds, OneSender
  <2>8. NoRowNoAlert' /\ DeliveriesTellTheTruth'
    BY <1>1, <2>1 DEF TradesIInv, NoRowNoAlert, DeliveriesTellTheTruth
  <2>9. OffersWillBeAnnounced'
    <3>1. ASSUME NEW x \in stored \ cut, NEW n \in Materials, OnOffer(trade[x]),
                 trade[x].terms.material = n, NEW v \in InterestedIn(n)
          PROVE  Announced(x, v, n)'
      <4>1. Announced(x, v, n) /\ x \in Trades /\ v \in Recipients
        BY <3>1 DEF TradesIInv, TradesTypeOK, OffersWillBeAnnounced, InterestedIn
      <4>2. ASSUME req[r].trade = x, req[r].material = n, v \in req[r].todo
            PROVE  Announced(x, v, n)'
        <5>1. CASE v = u
          BY <1>0, <1>4, <2>1, <4>2, <5>1 DEF Announced
        <5>2. CASE v # u
          BY <1>0, <2>2, <2>3, <4>2, <5>2 DEF Announced, InRound
        <5> QED
          BY <5>1, <5>2
      <4> QED
        BY <1>1, <2>1, <2>2, <4>1, <4>2, AnnouncedMoves
    <3> QED
      BY <1>1, <3>1 DEF OffersWillBeAnnounced, OnOffer
  <2> QED
    BY <1>2, <2>4, <2>7, <2>8, <2>9 DEF TradesIInv
<1> QED
  BY <1>3, <1>4

\* The provider takes the message, refuses it, or the user has no route: one
\* message at most goes out, and the mark to come says no more than what did.
LEMMA SendKeepsTradesIInv ==
  ASSUME TradesIInv, NEW r \in Requests,
         SkipRecipient(r) \/ SendAlert(r) \/ AlertRefused(r)
  PROVE  TradesIInv'
<1>1. /\ req \in [Requests -> Request] /\ req[r] \in Request
      /\ alerts \in [AlertKeys -> Nat]
      /\ req[r].step = "send" /\ HoldsDelivery(r) /\ InRound(r) /\ Round(r)
      /\ UNCHANGED <<stored, trade, delivery, offered, cut>>
  BY DEF TradesIInv, TradesTypeOK, Rounds, SkipRecipient, SendAlert, AlertRefused, At,
         HoldsDelivery, InRound
<1>2. PICK key \in AlertKeys : key = KeyOf(r)
  BY <1>1, HeldKey
<1>3. alerts[key] = 0
  BY <1>1, <1>2 DEF Round
<1>4. PICK result \in {"sent", "skipped", "failed"} :
          /\ Marks(r, result)
          /\ \/ alerts' = alerts /\ result # "sent"
             \/ alerts' = [alerts EXCEPT ![key] = @ + 1] /\ result # "skipped"
  BY <1>2 DEF SkipRecipient, SendAlert, AlertRefused
<1> DEFINE next == [req[r] EXCEPT !.step = "mark", !.result = result]
<1>5. req' = [req EXCEPT ![r] = next]
  BY <1>4 DEF Marks
<1>6. /\ next \in Request /\ next.step = "mark" /\ next.result = result
      /\ next.trade = req[r].trade /\ next.material = req[r].material
      /\ next.todo = req[r].todo /\ next.recipient = req[r].recipient
  BY <1>1 DEF Request, Steps, DeliveryStatuses
<1> HIDE DEF next
<1>7. /\ req' \in [Requests -> Request]
      /\ req'[r] = next
      /\ \A q \in Requests : q # r => req'[q] = req[q]
  BY <1>1, <1>5, <1>6, OneRequestMoves
<1>8. /\ alerts' \in [AlertKeys -> Nat]
      /\ \A k \in AlertKeys : k # key => alerts'[k] = alerts[k]
      /\ alerts'[key] \in 0..1
      /\ result = "sent" => alerts'[key] = 1
      /\ result = "skipped" => alerts'[key] = 0
  BY <1>1, <1>3, <1>4
<1>9. KeyOf(r)' = key /\ HoldsDelivery(r)' /\ InRound(r)'
  BY <1>2, <1>6, <1>7 DEF KeyOf, HoldsDelivery, InRound
<1>10. TradesTypeOK' /\ TradeRows'
  <2>1. TradeRows'
    BY <1>1, RoundLeavesTrades
  <2> QED
    BY <1>1, <1>7, <1>8, <2>1 DEF TradesIInv, TradesTypeOK
<1>11. Round(r)'
  BY <1>1, <1>2, <1>6, <1>7, <1>8, <1>9 DEF Round
<1>12. \A q \in Requests : q # r =>
          Round(q)' /\ (HoldsDelivery(q)' <=> HoldsDelivery(q)) /\ KeyOf(q)' = KeyOf(q)
  <2>1. ASSUME NEW q \in Requests, q # r, HoldsDelivery(q)
        PROVE  alerts'[KeyOf(q)] = alerts[KeyOf(q)]
    <3>1. KeyOf(q) # key
      BY <1>1, <1>2, <2>1 DEF TradesIInv, OneSender
    <3>2. KeyOf(q) \in AlertKeys
      BY <2>1, HeldKey
    <3> QED
      BY <1>8, <3>1, <3>2
  <2> QED
    BY <1>1, <1>7, <2>1, OtherRoundStays DEF TradesIInv, Rounds
<1>13. Rounds' /\ OneSender'
  BY <1>1, <1>2, <1>9, <1>11, <1>12 DEF TradesIInv, Rounds, OneSender
<1>14. /\ delivery[key] \in {"pending", "none"}
       /\ key[1] \in stored => delivery[key] = "pending"
  <2>1. key[1] = req[r].trade
    BY <1>2 DEF KeyOf
  <2> QED
    BY <1>1, <1>2, <2>1, HeldKey
<1>15. NoRowNoAlert'
  BY <1>1, <1>8, <1>14 DEF TradesIInv, NoRowNoAlert
<1>16. DeliveriesTellTheTruth'
  <2>1. ASSUME NEW x \in Trades, NEW v \in Recipients, NEW n \in Materials
        PROVE  /\ alerts'[<<x, v, n>>] <= 1
               /\ alerts'[<<x, v, n>>] > 0 => <<x, n>> \in offered /\ <<v, n>> \in Interests
               /\ delivery[<<x, v, n>>] = "sent" => alerts'[<<x, v, n>>] = 1
               /\ delivery[<<x, v, n>>] = "skipped" => alerts'[<<x, v, n>>] = 0
    <3>1. <<x, v, n>> \in AlertKeys
      BY DEF AlertKeys
    <3>2. CASE <<x, v, n>> = key
      <4>1. x = req[r].trade /\ v = req[r].recipient /\ n = req[r].material
        BY <1>2, <3>2 DEF KeyOf
      <4>2. <<x, n>> \in offered /\ <<v, n>> \in Interests
        BY <1>1, <4>1, HeldKey
      <4>3. alerts'[<<x, v, n>>] <= 1 /\ delivery[<<x, v, n>>] \in {"pending", "none"}
        BY <1>8, <1>14, <3>2
      <4> QED
        BY <4>2, <4>3
    <3>3. CASE <<x, v, n>> # key
      <4>1. alerts'[<<x, v, n>>] = alerts[<<x, v, n>>]
        BY <1>8, <3>1, <3>3
      <4> QED
        BY <4>1 DEF TradesIInv, DeliveriesTellTheTruth
    <3> QED
      BY <3>2, <3>3
  <2> QED
    BY <1>1, <2>1 DEF DeliveriesTellTheTruth
<1>17. OffersWillBeAnnounced'
  <2>1. ASSUME NEW x \in stored \ cut, NEW n \in Materials, OnOffer(trade[x]),
               trade[x].terms.material = n, NEW v \in InterestedIn(n)
        PROVE  Announced(x, v, n)'
    <3>1. Announced(x, v, n) /\ x \in Trades /\ v \in Recipients
      BY <2>1 DEF TradesIInv, TradesTypeOK, OffersWillBeAnnounced, InterestedIn
    <3>2. ASSUME req[r].trade = x, req[r].material = n, v \in req[r].todo
          PROVE  Announced(x, v, n)'
      BY <1>6, <1>7, <1>9, <3>2 DEF Announced
    <3> QED
      BY <1>1, <1>5, <1>6, <3>1, <3>2, AnnouncedMoves
  <2> QED
    BY <1>1, <2>1 DEF OffersWillBeAnnounced, OnOffer
<1> QED
  BY <1>10, <1>13, <1>15, <1>16, <1>17 DEF TradesIInv

\* The mark says what the step before has found out, and the round goes on.
LEMMA MarkKeepsTradesIInv ==
  ASSUME TradesIInv, NEW r \in Requests, MarkDelivery(r)
  PROVE  TradesIInv'
<1>1. /\ req \in [Requests -> Request] /\ req[r] \in Request
      /\ delivery \in [AlertKeys -> DeliveryStatuses]
      /\ req[r].step = "mark" /\ HoldsDelivery(r) /\ InRound(r) /\ Round(r)
      /\ UNCHANGED <<stored, trade, alerts, offered, cut>>
  BY DEF TradesIInv, TradesTypeOK, Rounds, MarkDelivery, At, HoldsDelivery, InRound
<1>2. PICK key \in AlertKeys : key = KeyOf(r)
  BY <1>1, HeldKey
<1>3. PICK result \in {"sent", "skipped", "failed"} :
          /\ result = req[r].result
          /\ result = "sent" => alerts[key] = 1
          /\ result = "skipped" => alerts[key] = 0
  BY <1>1, <1>2 DEF Round
<1>4. /\ key[1] = req[r].trade
      /\ delivery[key] = IF req[r].trade \in stored THEN "pending" ELSE "none"
  BY <1>1, <1>2, HeldKey DEF KeyOf
<1>5. delivery' = [delivery EXCEPT ![key] = IF req[r].trade \in stored THEN result ELSE "none"]
  BY <1>2, <1>3, <1>4 DEF MarkDelivery, MarkedDelivery
<1>6. /\ delivery' \in [AlertKeys -> DeliveryStatuses]
      /\ delivery'[key] = IF req[r].trade \in stored THEN result ELSE "none"
      /\ \A k \in AlertKeys : k # key => delivery'[k] = delivery[k]
  BY <1>1, <1>5 DEF DeliveryStatuses
<1>7. PICK u \in Recipients : u = req[r].recipient
  BY <1>1, HeldKey
<1> DEFINE next == [req[r] EXCEPT !.step = "next", !.todo = @ \ {u},
                                  !.recipient = IdleRequest.recipient, !.result = "none"]
<1>8. req' = [req EXCEPT ![r] = next]
  BY <1>7 DEF MarkDelivery
<1>9. /\ next \in Request /\ next.step = "next"
      /\ next.trade = req[r].trade /\ next.material = req[r].material
      /\ next.todo = req[r].todo \ {u}
  BY <1>1, IdleRequestType DEF Request, Steps, DeliveryStatuses
<1> HIDE DEF next
<1>10. /\ req' \in [Requests -> Request]
       /\ req'[r] = next
       /\ \A q \in Requests : q # r => req'[q] = req[q]
  BY <1>1, <1>8, <1>9, OneRequestMoves
<1>11. TradesTypeOK' /\ TradeRows'
  <2>1. TradeRows'
    BY <1>1, RoundLeavesTrades
  <2> QED
    BY <1>1, <1>6, <1>10, <2>1 DEF TradesIInv, TradesTypeOK
<1>12. ~HoldsDelivery(r)' /\ Round(r)'
  BY <1>1, <1>9, <1>10 DEF HoldsDelivery, Round, InRound
<1>13. \A q \in Requests : q # r =>
          Round(q)' /\ (HoldsDelivery(q)' <=> HoldsDelivery(q)) /\ KeyOf(q)' = KeyOf(q)
  <2>1. ASSUME NEW q \in Requests, q # r, HoldsDelivery(q)
        PROVE  delivery'[KeyOf(q)] = delivery[KeyOf(q)]
    <3>1. KeyOf(q) # key
      BY <1>1, <1>2, <2>1 DEF TradesIInv, OneSender
    <3>2. KeyOf(q) \in AlertKeys
      BY <2>1, HeldKey
    <3> QED
      BY <1>6, <3>1, <3>2
  <2> QED
    BY <1>1, <1>10, <2>1, OtherRoundStays DEF TradesIInv, Rounds
<1>14. Rounds' /\ OneSender'
  BY <1>12, <1>13 DEF TradesIInv, Rounds, OneSender
<1>15. NoRowNoAlert'
  BY <1>1, <1>4, <1>6 DEF TradesIInv, NoRowNoAlert
<1>16. DeliveriesTellTheTruth'
  <2>1. ASSUME NEW x \in Trades, NEW v \in Recipients, NEW n \in Materials
        PROVE  /\ delivery'[<<x, v, n>>] = "sent" => alerts[<<x, v, n>>] = 1
               /\ delivery'[<<x, v, n>>] = "skipped" => alerts[<<x, v, n>>] = 0
    <3>1. <<x, v, n>> \in AlertKeys
      BY DEF AlertKeys
    <3>2. CASE <<x, v, n>> = key
      BY <1>3, <1>6, <3>2
    <3>3. CASE <<x, v, n>> # key
      <4>1. delivery'[<<x, v, n>>] = delivery[<<x, v, n>>]
        BY <1>6, <3>1, <3>3
      <4> QED
        BY <4>1 DEF TradesIInv, DeliveriesTellTheTruth
    <3> QED
      BY <3>2, <3>3
  <2> QED
    BY <1>1, <2>1 DEF TradesIInv, DeliveriesTellTheTruth
<1>17. OffersWillBeAnnounced'
  <2>1. ASSUME NEW x \in stored \ cut, NEW n \in Materials, OnOffer(trade[x]),
               trade[x].terms.material = n, NEW v \in InterestedIn(n)
        PROVE  Announced(x, v, n)'
    <3>1. Announced(x, v, n) /\ x \in Trades /\ v \in Recipients
      BY <2>1 DEF TradesIInv, TradesTypeOK, OffersWillBeAnnounced, InterestedIn
    <3>2. ASSUME req[r].trade = x, req[r].material = n, v \in req[r].todo
          PROVE  Announced(x, v, n)'
      <4>1. CASE v = u
        <5>1. <<x, v, n>> = key
          BY <1>2, <1>7, <3>2, <4>1 DEF KeyOf
        <5>2. delivery'[<<x, v, n>>] # "none"
          BY <1>6, <2>1, <3>2, <5>1
        <5> QED
          BY <5>2 DEF Announced
      <4>2. CASE v # u
        BY <1>9, <1>10, <3>2, <4>2 DEF Announced, InRound
      <4> QED
        BY <4>1, <4>2
    <3>3. \A k \in AlertKeys : delivery[k] # "none" => delivery'[k] # "none"
      BY <1>4, <1>6
    <3> QED
      BY <1>1, <1>8, <1>9, <3>1, <3>2, <3>3, AnnouncedMoves
  <2> QED
    BY <1>1, <2>1 DEF OffersWillBeAnnounced, OnOffer
<1> QED
  BY <1>11, <1>14, <1>15, <1>16, <1>17 DEF TradesIInv

\* A round that has come to everybody ends; one that is cut off names its trade.
LEMMA EndKeepsTradesIInv ==
  ASSUME TradesIInv, NEW r \in Requests, EndRound(r) \/ CutRound(r)
  PROVE  TradesIInv'
<1>1. /\ req' = [req EXCEPT ![r] = IdleRequest]
      /\ UNCHANGED <<stored, trade, delivery, alerts, offered>>
      /\ cut' = cut \/ cut' = cut \cup {req[r].trade}
  BY DEF EndRound, CutRound, Finish
<1>2. /\ req[r].trade \in Trades
      /\ req \in [Requests -> Request]
  BY DEF TradesIInv, TradesTypeOK, TradeRows, Request
<1>3. Rounds' /\ OneSender' /\ NoRowNoAlert' /\ DeliveriesTellTheTruth'
  BY <1>1, IdleRequestType, RoundsUntouched
<1>4. TradesTypeOK' /\ TradeRows'
  <2>1. TradeRows'
    BY <1>1, RoundLeavesTrades
  <2>2. req' \in [Requests -> Request]
    BY <1>1, <1>2, IdleRequestType, OneRequestMoves
  <2> QED
    BY <1>1, <1>2, <2>1, <2>2 DEF TradesIInv, TradesTypeOK
<1>5. OffersWillBeAnnounced'
  <2>1. ASSUME NEW x \in stored \ cut', NEW n \in Materials, OnOffer(trade[x]),
               trade[x].terms.material = n, NEW v \in InterestedIn(n)
        PROVE  Announced(x, v, n)'
    <3>1. x \in stored \ cut
      BY <1>1, <2>1
    <3>2. Announced(x, v, n) /\ x \in Trades /\ v \in Recipients
      BY <2>1, <3>1 DEF TradesIInv, TradesTypeOK, OffersWillBeAnnounced, InterestedIn
    <3>3. req[r].trade = x => req[r].todo = {} /\ req[r].step = "next"
      BY <1>2, <2>1 DEF EndRound, CutRound, At
    <3> QED
      BY <1>1, <2>1, <3>2, <3>3, IdleRequestType, AnnouncedMoves
  <2> QED
    BY <1>1, <2>1 DEF OffersWillBeAnnounced, OnOffer
<1> QED
  BY <1>3, <1>4, <1>5 DEF TradesIInv

-----------------------------------------------------------------------------
LEMMA TradesNextKeepsIInv == TradesIInv /\ TradesNext => TradesIInv'
<1> SUFFICES ASSUME TradesIInv, NEW r \in Requests,
                    \/ \E t \in Trades, kind \in Kinds : Submit(r, t, kind)
                    \/ RequestStep(r)
                    \/ CutRound(r)
             PROVE  TradesIInv'
  BY DEF TradesNext
<1> QED
  BY OwnerStepKeepsTradesIInv, ReadContextKeepsTradesIInv, CreateDeliveryKeepsTradesIInv,
     SendKeepsTradesIInv, MarkKeepsTradesIInv, EndKeepsTradesIInv DEF RequestStep

\* A step of others keeps the invariant.
LEMMA TradesStutter == TradesIInv /\ UNCHANGED tradeVars => TradesIInv'
BY DEF tradeVars, TradesIInv, TradesTypeOK, TradeRows, TradeRow, Rounds, Round, InRound,
       HoldsDelivery, KeyOf, OneSender, NoRowNoAlert, DeliveriesTellTheTruth,
       OffersWillBeAnnounced, Announced

\* The facts the theorems rest on hold in every reachable state.
LEMMA TradesInductive == TradesSpec => []TradesIInv
BY TradesInitHolds, TradesNextKeepsIInv, TradesStutter, PTL DEF TradesSpec

\* Every reachable state of trades, deliveries and rounds is well typed.
THEOREM TradesTypeCorrect == TradesSpec => []TradesTypeOK
<1>1. TradesIInv => TradesTypeOK
  BY DEF TradesIInv
<1> QED
  BY TradesInductive, <1>1, PTL

\* Flag, pointer and number of a row agree, so that every page shows one version.
LEMMA TradesImplyOneVersion == TradesIInv => OneLiveVersion
<1> SUFFICES ASSUME TradesIInv
             PROVE  OneLiveVersion
  OBVIOUS
<1>1. ASSUME NEW t \in stored
      PROVE  /\ OwnTrade(t).markedLive = {OwnTrade(t).shown.version}
             /\ \A item \in MarketDetail(t) : item.version = trade[t].last
  <2>1. TradeRow(t)
    BY <1>1 DEF TradesIInv, TradeRows
  <2>2. /\ OwnTrade(t).markedLive = trade[t].live
        /\ OwnTrade(t).shown.version = trade[t].current
    BY DEF OwnTrade, Shown
  <2>3. \A item \in MarketDetail(t) : item.version = trade[t].current
    BY DEF MarketDetail, Shown
  <2> QED
    BY <2>1, <2>2, <2>3 DEF TradeRow
<1>2. ASSUME NEW item \in MarketCatalog
      PROVE  /\ item \in MarketDetail(item.trade)
             /\ [shown |-> item, onMarket |-> TRUE] \in OwnTrades
  <2>1. PICK t \in stored : item = Shown(t) /\ trade[t].publication = "active"
    BY <1>2 DEF MarketCatalog
  <2>2. item.trade = t
    BY <2>1 DEF Shown
  <2>3. (trade[t].publication = "active") = TRUE
    BY <2>1
  <2> QED
    BY <2>1, <2>2, <2>3 DEF MarketDetail, OwnTrades
<1> QED
  BY <1>1, <1>2 DEF OneLiveVersion

\* Confirmations, rejections, edits and publications that overlap leave a trade
\* with one live version, the one the market, the detail and the owner's pages show.
THEOREM EverybodyReadsOneVersion == TradesSpec => []OneLiveVersion
BY TradesImplyOneVersion, TradesInductive, PTL

\* However rounds of alerts overlap, a user is told of a trade and a material at
\* most once, only of what was on offer and of interest, and a delivery row says
\* what happened.
THEOREM AlertsAreHonest == TradesSpec => []DeliveriesTellTheTruth
<1>1. TradesIInv => DeliveriesTellTheTruth
  BY DEF TradesIInv
<1> QED
  BY TradesInductive, <1>1, PTL

\* At rest no request is on its way to a user.
LEMMA TradesImplyAnnounced == TradesIInv => OffersAreAnnounced
<1> SUFFICES ASSUME TradesIInv, \A r \in Requests : At(r, "idle"),
                    NEW t \in stored \ cut, OnOffer(trade[t]),
                    NEW u \in InterestedIn(trade[t].terms.material)
             PROVE  delivery[<<t, u, trade[t].terms.material>>] # "none"
  BY DEF OffersAreAnnounced
<1>1. trade[t].terms.material \in Materials
  BY InterestsHaveKeys
<1>2. Announced(t, u, trade[t].terms.material)
  BY <1>1 DEF TradesIInv, OffersWillBeAnnounced
<1> QED
  BY <1>2 DEF Announced, At, InRound

\* Once the owner's requests are done and no round was cut off, everybody who is
\* interested in a trade on offer has a delivery.
THEOREM OffersReachTheInterested == TradesSpec => []OffersAreAnnounced
BY TradesImplyAnnounced, TradesInductive, PTL

-----------------------------------------------------------------------------
(* The promise of the alerts, implemented                                   *)

\* The requests of the owner neither create nor delete trades.
LEMMA TradesStayStored == TradesNext => UNCHANGED stored
<1> SUFFICES ASSUME TradesNext PROVE UNCHANGED stored
  OBVIOUS
<1>1. PICK r \in Requests :
        \/ \E t \in Trades, kind \in Kinds : Submit(r, t, kind)
        \/ RequestStep(r)
        \/ CutRound(r)
  BY DEF TradesNext
<1>2. \A row : WriteTrade(r, row) => UNCHANGED stored
  BY DEF WriteTrade
<1>3. \A terms : Promote(r, terms) => UNCHANGED stored
  BY <1>2 DEF Promote
<1>4. Confirm(r) \/ Reject(r) => UNCHANGED stored
  BY <1>3 DEF Confirm, Reject
<1>5. \A terms : Edit(r, terms) => UNCHANGED stored
  BY <1>3 DEF Edit
<1>6. \A visibility : SetVisibility(r, visibility) => UNCHANGED stored
  BY <1>2 DEF SetVisibility
<1>7. \A u : CreateDelivery(r, u) => UNCHANGED stored
  BY DEF CreateDelivery
<1>8. NotFound(r) \/ LeaveTrade(r) \/ ReadAlertContext(r) \/ SkipRecipient(r) \/ SendAlert(r)
        \/ AlertRefused(r) \/ MarkDelivery(r) \/ EndRound(r) => UNCHANGED stored
  BY DEF NotFound, LeaveTrade, ReadAlertContext, SkipRecipient, SendAlert, AlertRefused, MarkDelivery, EndRound
<1>9. RequestStep(r) => UNCHANGED stored
  BY <1>4, <1>5, <1>6, <1>7, <1>8 DEF RequestStep
<1> QED
  BY <1>1, <1>9 DEF Submit, CutRound

\* A step of a request that writes no trade, delivery or message is none of the
\* promise.
LEMMA QuietStepsPromiseNothing ==
  ASSUME NEW r, \/ \E t, kind : Submit(r, t, kind)
                \/ NotFound(r) \/ LeaveTrade(r) \/ ReadAlertContext(r)
                \/ SkipRecipient(r) \/ AlertRefused(r) \/ EndRound(r) \/ CutRound(r)
  PROVE  UNCHANGED Promised!vars
  BY DEF Promised!vars, Submit, NotFound, LeaveTrade, ReadAlertContext, SkipRecipient,
     AlertRefused, EndRound, CutRound

\* A trade is offered with its material, if at all.
LEMMA WrittenTradesAreOffered ==
  ASSUME TradesIInv, NEW r \in Requests, NEW row, WriteTrade(r, row)
  PROVE  [Promised!Next]_(Promised!vars)
<1>1. req[r].trade \in Trades
  BY DEF TradesIInv, TradesTypeOK, Request
<1>2. /\ UNCHANGED <<delivery, alerts>>
      /\ offered' = offered \cup {<<req[r].trade, m>> : m \in {x \in Materials :
                                     OnOffer(row) /\ x = row.terms.material}}
  BY DEF WriteTrade
<1>3. CASE OnOffer(row) /\ row.terms.material \in Materials
  <2>1. Promised!Offer(req[r].trade, row.terms.material)
    BY <1>2, <1>3 DEF Promised!Offer
  <2> QED
    BY <1>1, <1>3, <2>1 DEF Promised!Next
<1>4. CASE ~(OnOffer(row) /\ row.terms.material \in Materials)
  BY <1>2, <1>4 DEF Promised!vars
<1> QED
  BY <1>3, <1>4

\* The unique row begins an attempt, or another round has begun it.
LEMMA CreationBegins ==
  ASSUME TradesIInv, NEW r \in Requests, NEW u \in Recipients, CreateDelivery(r, u)
  PROVE  [Promised!Next]_(Promised!vars)
<1>1. /\ req[r].trade \in Trades /\ req[r].material \in Materials
      /\ <<req[r].trade, req[r].material>> \in offered
      /\ <<u, req[r].material>> \in Interests
  BY DEF TradesIInv, TradesTypeOK, Request, Rounds, Round, InRound, CreateDelivery, At, InterestedIn
<1>2. PICK t, m : t = req[r].trade /\ m = req[r].material
  OBVIOUS
<1>3. UNCHANGED <<offered, alerts>>
  BY DEF CreateDelivery
<1>4. CASE Deliverable(<<t, u, m>>)
  <2>1. delivery' = [delivery EXCEPT ![<<t, u, m>>] = "pending"]
    BY <1>2, <1>4 DEF CreateDelivery
  <2>2. Promised!Begin(t, u, m)
    BY <1>1, <1>2, <1>3, <1>4, <2>1 DEF Promised!Begin, Deliverable
  <2> QED
    BY <1>1, <1>2, <2>2 DEF Promised!Next
<1>5. CASE ~Deliverable(<<t, u, m>>)
  BY <1>2, <1>3, <1>5 DEF CreateDelivery, Promised!vars
<1> QED
  BY <1>4, <1>5

\* A round that holds a delivery holds a pending one.
LEMMA HeldIsPending ==
  ASSUME TradesIInv, stored = Trades, NEW r \in Requests, HoldsDelivery(r)
  PROVE  KeyOf(r) \in Promised!Alerts /\ delivery[KeyOf(r)] = "pending"
<1>1. req[r].trade \in Trades /\ req[r].recipient \in Recipients /\ req[r].material \in Materials
  BY DEF TradesIInv, TradesTypeOK, Request, Rounds, Round, InRound, HoldsDelivery
<1>2. KeyOf(r) \in Promised!Alerts
  BY <1>1 DEF KeyOf, Promised!Alerts
<1> QED
  BY <1>1, <1>2 DEF TradesIInv, Rounds, Round

\* A provider that takes the message reaches the user, for the first time.
LEMMA SendingReaches ==
  ASSUME TradesIInv, stored = Trades, NEW r \in Requests, SendAlert(r)
  PROVE  Promised!Next
<1>1. PICK k : k = KeyOf(r)
  OBVIOUS
<1>2. k \in Promised!Alerts /\ delivery[k] = "pending" /\ alerts[k] = 0
  <2>1. HoldsDelivery(r) /\ req[r].step = "send"
    BY DEF SendAlert, At, HoldsDelivery
  <2> QED
    BY <1>1, <2>1, HeldIsPending DEF TradesIInv, Rounds, Round
<1>3. alerts' = [alerts EXCEPT ![k] = 1] /\ UNCHANGED <<offered, delivery>>
  BY <1>1, <1>2 DEF SendAlert
<1>4. Promised!Reach(k)
  BY <1>2, <1>3 DEF Promised!Reach
<1> QED
  BY <1>2, <1>4 DEF Promised!Next

\* The mark closes the attempt that the round has made.
LEMMA MarkingCloses ==
  ASSUME TradesIInv, stored = Trades, NEW r \in Requests, MarkDelivery(r)
  PROVE  Promised!Next
<1>1. PICK k, result : k = KeyOf(r) /\ result = req[r].result
  OBVIOUS
<1>2. HoldsDelivery(r) /\ req[r].step = "mark"
  BY DEF MarkDelivery, At, HoldsDelivery
<1>3. k \in Promised!Alerts /\ delivery[k] = "pending"
  BY <1>1, <1>2, HeldIsPending
<1>4. /\ result \in {"sent", "skipped", "failed"}
      /\ result = "sent" => alerts[k] = 1
      /\ result = "skipped" => alerts[k] = 0
  BY <1>1, <1>2 DEF TradesIInv, Rounds, Round
<1>5. delivery' = [delivery EXCEPT ![k] = result] /\ UNCHANGED <<offered, alerts>>
  BY <1>1, <1>3 DEF MarkDelivery, MarkedDelivery
<1>6. Promised!Close(k, result)
  BY <1>3, <1>4, <1>5 DEF Promised!Close
<1> QED
  BY <1>3, <1>4, <1>6 DEF Promised!Next

\* Every step of the trades is a step of the promise, or none.
LEMMA TradesStepKeepsPromise ==
  ASSUME TradesIInv, stored = Trades, [TradesNext]_tradeVars
  PROVE  [Promised!Next]_(Promised!vars)
<1>1. CASE UNCHANGED tradeVars
  BY <1>1 DEF tradeVars, Promised!vars
<1>2. ASSUME NEW r \in Requests,
             \/ Confirm(r) \/ Reject(r)
             \/ \E terms : Edit(r, terms)
             \/ \E visibility : SetVisibility(r, visibility)
      PROVE  \E row : WriteTrade(r, row)
  BY <1>2 DEF Confirm, Reject, Edit, SetVisibility, Promote
<1>3. ASSUME NEW r \in Requests, RequestStep(r)
      PROVE  [Promised!Next]_(Promised!vars)
  BY <1>2, <1>3, WrittenTradesAreOffered, CreationBegins, SendingReaches, MarkingCloses,
     QuietStepsPromiseNothing DEF RequestStep
<1> QED
  BY <1>1, <1>3, QuietStepsPromiseNothing DEF TradesNext

\* For any number of trades, users, materials and overlapping requests: one
\* round takes a user on about a trade and a material, and what it has put on
\* record no later round takes back or tells again.
THEOREM AlertsKeepTheirPromise == TradesSpec => KeepsAlertPromise
<1>1. TradesInit => Promised!Init
  BY DEF TradesInit, NoTradeYet, Promised!Init, AlertKeys, Promised!Alerts
<1>2. TradesSpec => [](stored = Trades)
  <2>1. TradesInit => stored = Trades
    BY DEF TradesInit
  <2>2. stored = Trades /\ [TradesNext]_tradeVars => (stored = Trades)'
    BY TradesStayStored DEF tradeVars
  <2> QED
    BY <2>1, <2>2, PTL DEF TradesSpec
<1>3. TradesIInv /\ stored = Trades /\ [TradesNext]_tradeVars => [Promised!Next]_(Promised!vars)
  BY TradesStepKeepsPromise
<1> QED
  BY <1>1, <1>2, <1>3, TradesInductive, PTL DEF TradesSpec, KeepsAlertPromise, Promised!Spec

-----------------------------------------------------------------------------
(* The analyses of a message, and the trades they leave.                    *)

\* The runs in flight have claimed the text as it came, each under a number of its
\* own; a message that shows as blocked is settled, so that nobody claims it again.
MessageAgrees ==
    /\ message \in Message
    /\ attempt \in [Attempts -> Attempt]
    /\ batch \in [Trades -> 0 .. MaxRuns]
    /\ stored \subseteq Trades
    /\ runs \in 0 .. MaxRuns
    /\ lost \in 0 .. MaxLost
    /\ \A a \in Attempts :
          /\ attempt[a].text = "raw"
          /\ attempt[a].step # "idle" => attempt[a].run # 0
    /\ Blocked(message) => Settled /\ stored = {}
    /\ Blocked(message) <=> message.text = "blank"
    /\ \A t, u \in stored : batch[t] = batch[u] /\ batch[t] # 0

\* The bounds are numbers.
LEMMA RunParams == MaxRuns \in Nat /\ MaxLost \in Nat
BY MessageTradesAssumption

\* What a message shows follows from the inductive invariant.
LEMMA TradesOfOneRun == MessageAgrees => TradesFollowTheirMessage
BY DEF MessageAgrees, TradesFollowTheirMessage, InboxItem, TextShown, Blocked

\* What is decided of a run is a verdict.
LEMMA VerdictsAreTyped ==
  ASSUME NEW policy \in PolicyOutcomes, NEW model \in ModelOutcomes
  PROVE  VerdictOf(policy, model) \in Verdicts
BY DEF Verdicts

\* An idle attempt is an attempt.
LEMMA IdleAttemptIsTyped == IdleAttempt \in Attempt /\ IdleAttempt.step = "idle" /\ IdleAttempt.text = "raw"
<1>1. VerdictOf("raised", "raised") = "failed"
  BY DEF VerdictOf
<1>2. "failed" \in Verdicts
  <2>1. "raised" \in PolicyOutcomes /\ "raised" \in ModelOutcomes
    BY DEF PolicyOutcomes, ModelOutcomes
  <2> QED
    BY <1>1, <2>1, VerdictsAreTyped
<1>3. 0 \in 0 .. MaxRuns
  BY RunParams
<1> QED
  BY <1>2, <1>3 DEF IdleAttempt, Attempt

\* The invariant holds of a message that has just come.
LEMMA MessageInitAgrees == MessageInit => MessageAgrees
<1> SUFFICES ASSUME MessageInit PROVE MessageAgrees
  OBVIOUS
<1>1. 0 \in 0 .. MaxRuns /\ 0 \in 0 .. MaxLost
  BY RunParams
<1>2. message \in Message /\ message.moderation = "not_reviewed" /\ message.text = "raw"
  BY DEF MessageInit, Message
<1>3. attempt \in [Attempts -> Attempt] /\ \A a \in Attempts : attempt[a] = IdleAttempt
  BY IdleAttemptIsTyped DEF MessageInit
<1>4. stored = {} /\ batch \in [Trades -> 0 .. MaxRuns] /\ runs = 0 /\ lost = 0
  BY <1>1 DEF MessageInit
<1> QED
  BY <1>1, <1>2, <1>3, <1>4, IdleAttemptIsTyped DEF MessageAgrees, Blocked

\* The owner of the trades changes the trades and never the message.
LEMMA OwnerLeavesMessage == OwnerStep => UNCHANGED <<message, attempt, batch, stored, runs, lost>>
BY TradesStayStored DEF OwnerStep, messageVars

\* A claim takes the text as it came.
LEMMA ClaimAgrees == ASSUME MessageAgrees, NEW a \in Attempts, Claim(a) PROVE MessageAgrees'
<1>1. ~Settled /\ ~Blocked(message) /\ message.text = "raw"
  BY DEF Claim, Claimable, MessageAgrees, Message
<1>2. /\ message' \in Message /\ message'.moderation = message.moderation /\ message'.text = message.text
  BY DEF Claim, MessageAgrees, Message
<1>3. runs' \in 0 .. MaxRuns /\ runs + 1 \in 0 .. MaxRuns /\ runs + 1 # 0
  BY RunParams DEF Claim, MessageAgrees
<1> DEFINE x == [IdleAttempt EXCEPT !.step = "analyse", !.run = runs + 1, !.text = message.text]
<1>4. x \in Attempt /\ x.text = "raw" /\ x.run # 0
  BY <1>1, <1>3, IdleAttemptIsTyped DEF Attempt
<1>5. attempt' = [attempt EXCEPT ![a] = x]
  BY DEF Claim
<1> HIDE DEF x
<1>6. attempt' \in [Attempts -> Attempt]
      /\ \A b \in Attempts : attempt'[b].text = "raw" /\ (attempt'[b].step # "idle" => attempt'[b].run # 0)
  BY <1>4, <1>5 DEF MessageAgrees
<1>7. UNCHANGED <<batch, stored, lost>>
  BY DEF Claim, tradeVars
<1> QED
  BY <1>1, <1>2, <1>3, <1>6, <1>7 DEF MessageAgrees, Blocked

\* A run decides without a transaction.
LEMMA AnalyseAgrees ==
  ASSUME MessageAgrees, NEW a \in Attempts, NEW policy \in PolicyOutcomes, NEW model \in ModelOutcomes,
         Analyse(a, policy, model)
  PROVE  MessageAgrees'
<1> DEFINE x == [attempt[a] EXCEPT !.step = "persist", !.verdict = VerdictOf(policy, model)]
<1>1. attempt[a] \in Attempt /\ attempt[a].text = "raw" /\ attempt[a].run # 0
  BY DEF Analyse, MessageAgrees
<1>2. VerdictOf(policy, model) \in Verdicts
  BY VerdictsAreTyped
<1>3. x \in Attempt /\ x.text = "raw" /\ x.run # 0
  BY <1>1, <1>2 DEF Attempt
<1>4. attempt' = [attempt EXCEPT ![a] = x]
  BY DEF Analyse
<1> HIDE DEF x
<1>5. attempt' \in [Attempts -> Attempt]
      /\ \A b \in Attempts : attempt'[b].text = "raw" /\ (attempt'[b].step # "idle" => attempt'[b].run # 0)
  BY <1>3, <1>4 DEF MessageAgrees
<1>6. UNCHANGED <<message, batch, stored, runs, lost>>
  BY DEF Analyse, tradeVars
<1> QED
  BY <1>5, <1>6 DEF MessageAgrees, Blocked, Settled

\* A lost worker leaves the message claimed, and a later claim takes it again.
LEMMA LoseAgrees == ASSUME MessageAgrees, NEW a \in Attempts, LoseAttempt(a) PROVE MessageAgrees'
<1>1. attempt' = [attempt EXCEPT ![a] = IdleAttempt]
  BY DEF LoseAttempt
<1>2. attempt' \in [Attempts -> Attempt]
      /\ \A b \in Attempts : attempt'[b].text = "raw" /\ (attempt'[b].step # "idle" => attempt'[b].run # 0)
  BY <1>1, IdleAttemptIsTyped DEF MessageAgrees
<1>3. UNCHANGED <<message, batch, stored, runs>>
  BY DEF LoseAttempt, tradeVars
<1>4. lost' \in 0 .. MaxLost
  BY RunParams DEF LoseAttempt, MessageAgrees
<1> QED
  BY <1>2, <1>3, <1>4 DEF MessageAgrees, Blocked, Settled

\* What a run has decided is stored with its trades, once the message is not
\* settled.
LEMMA PersistAgrees ==
  ASSUME MessageAgrees, NEW a \in Attempts, NEW fresh \in SUBSET FreshIds, NEW itemFailed \in BOOLEAN,
         Persist(a, fresh, itemFailed)
  PROVE  MessageAgrees'
<1> DEFINE verdict == attempt[a].verdict
<1>1. attempt[a] \in Attempt /\ attempt[a].text = "raw" /\ attempt[a].run # 0
  BY DEF Persist, MessageAgrees
<1>2. message' = PersistedMessage(a, itemFailed) /\ message \in Message
  BY DEF Persist, MessageAgrees
<1>3. message' \in Message
  <2>1. Classification(verdict, itemFailed) \in {"not_started", "completed", "partial", "failed"}
    BY DEF Classification
  <2> QED
    BY <1>1, <1>2, <2>1 DEF PersistedMessage, Message, ProcessingAfter, PolicyAnswers
<1>4. /\ message'.moderation = "prohibited" <=> verdict = "prohibited"
      /\ message'.text = "blank" <=> verdict = "prohibited"
  BY <1>1, <1>2 DEF PersistedMessage, Message, PolicyAnswers
<1>5. verdict = "prohibited" => fresh = {} /\ ~itemFailed
  BY DEF Persist, Projectable
<1>6. verdict = "prohibited" => Settled'
  BY <1>2, <1>5 DEF PersistedMessage, Message, ProcessingAfter, Classification, Settled
<1>7. stored' = fresh /\ fresh \subseteq Trades
  BY DEF Persist, TradesAfter, FreshIds
<1>8. /\ batch' \in [Trades -> 0 .. MaxRuns]
      /\ \A t \in fresh : batch'[t] = attempt[a].run
  <2>1. batch' = [t \in Trades |-> IF t \in fresh THEN attempt[a].run ELSE batch[t]]
    BY DEF Persist
  <2>2. attempt[a].run \in 0 .. MaxRuns /\ batch \in [Trades -> 0 .. MaxRuns]
    BY <1>1 DEF Attempt, MessageAgrees
  <2> QED
    BY <1>7, <2>1, <2>2
<1>9. attempt' \in [Attempts -> Attempt]
      /\ \A b \in Attempts : attempt'[b].text = "raw" /\ (attempt'[b].step # "idle" => attempt'[b].run # 0)
  BY IdleAttemptIsTyped DEF MessageAgrees, Persist
<1>10. runs' = runs /\ lost' = lost
  BY DEF Persist
<1> QED
  BY <1>1, <1>3, <1>4, <1>5, <1>6, <1>7, <1>8, <1>9, <1>10 DEF MessageAgrees, Blocked

\* Every step of the message and of its trades keeps the invariant.
LEMMA MessageNextAgrees == MessageAgrees /\ [MessageNext]_allTradeVars => MessageAgrees'
<1> SUFFICES ASSUME MessageAgrees, [MessageNext]_allTradeVars PROVE MessageAgrees'
  OBVIOUS
<1>1. CASE OwnerStep \/ UNCHANGED allTradeVars
  <2>1. UNCHANGED <<message, attempt, batch, stored, runs, lost>>
    BY <1>1, OwnerLeavesMessage DEF allTradeVars, tradeVars, messageVars
  <2> QED
    BY <2>1 DEF MessageAgrees, Blocked, Settled
<1>2. ASSUME NEW a \in Attempts, Claim(a) \/ AttemptStep(a) \/ LoseAttempt(a) PROVE MessageAgrees'
  BY <1>2, ClaimAgrees, AnalyseAgrees, PersistAgrees, LoseAgrees DEF AttemptStep
<1> QED
  BY <1>1, <1>2 DEF MessageNext

\* The invariant holds in every state of the message.
LEMMA MessageInductive == MessageSpec => []MessageAgrees
BY MessageInitAgrees, MessageNextAgrees, PTL DEF MessageSpec

\* What is projected of an item is a first version, and a trade that went away
\* leaves an empty row.
LEMMA ProjectedRowsAreTyped ==
  /\ \A terms \in Projections : FirstVersion(terms) \in Row
  /\ NoRow \in Row
<1>1. \A terms \in Terms : FirstVersion(terms) \in Row
  BY DEF FirstVersion, Row, Visibilities, PublicationStatuses
<1>2. \A terms \in Projections : terms \in Terms
  BY TradesAssumption
<1> DEFINE empty == [confirmation |-> "draft", status |-> "draft", complete |-> FALSE, material |-> NoKey]
<1>3. empty \in Terms
  BY DEF Terms, ConfirmationStatuses, TradeStatuses
<1>4. NoRow = [FirstVersion(empty) EXCEPT !.last = 0, !.current = 0, !.live = {}]
  BY DEF NoRow
<1> HIDE DEF empty
<1>5. NoRow \in Row
  <2>1. FirstVersion(empty) \in Row
    BY <1>1, <1>3
  <2>2. 0 \in Nat /\ {} \in SUBSET Nat
    OBVIOUS
  <2> QED
    BY <1>4, <2>1, <2>2 DEF Row
<1> QED
  BY <1>1, <1>2, <1>5

\* A request writes a row for a trade.
LEMMA WritesAreTyped ==
  ASSUME TradesTypeOK, NEW r \in Requests, NEW row \in Row, WriteTrade(r, row),
         NEW next \in Request, req' = [req EXCEPT ![r] = next]
  PROVE  TradesTypeOK'
<1>1. req[r].trade \in Trades /\ req' \in [Requests -> Request]
  BY OneRequestMoves DEF TradesTypeOK, Request
<1>2. trade' \in [Trades -> Row] /\ offered' \subseteq Trades \X Materials
  BY <1>1 DEF TradesTypeOK, WriteTrade
<1> QED
  BY <1>1, <1>2 DEF TradesTypeOK, WriteTrade

\* The owner's requests keep the types of the trades, also while analyses take
\* the trades away from under them.
LEMMA OwnerStepsAreTyped ==
  ASSUME TradesTypeOK, NEW r \in Requests,
         \/ \E t \in Trades, kind \in Kinds : Submit(r, t, kind)
         \/ NotFound(r) \/ Confirm(r) \/ Reject(r) \/ LeaveTrade(r)
         \/ \E terms \in Edits \cup {TermsOf(r)} : Edit(r, terms)
         \/ \E visibility \in Visibilities : SetVisibility(r, visibility)
  PROVE  TradesTypeOK'
<1>1. /\ req[r] \in Request /\ TradeOf(r) \in Row /\ TermsOf(r) \in Terms
      /\ req[r].seen \in Nat
  BY DEF TradesTypeOK, Request, TradeOf, TermsOf, Row
<1>2. IdleRequest \in Request
  BY IdleRequestType
<1>3. [req[r] EXCEPT !.step = "context"] \in Request
  BY <1>1 DEF Request, Steps
<1>4. ASSUME NEW terms \in Terms, Promote(r, terms), Finish(r) \/ GoTo(r, "context")
      PROVE  TradesTypeOK'
  <2> DEFINE row == NextVersion(TradeOf(r), req[r].seen, terms)
  <2>1. WriteTrade(r, row)
    BY <1>4 DEF Promote
  <2>2. row \in Row
    <3>1. row = [TradeOf(r) EXCEPT !.last = TradeOf(r).last + 1, !.current = TradeOf(r).last + 1,
                    !.live = (TradeOf(r).live \ {req[r].seen}) \cup {TradeOf(r).last + 1},
                    !.terms = terms]
      BY DEF NextVersion
    <3>2. TradeOf(r).last \in Nat /\ TradeOf(r).live \in SUBSET Nat
      BY <1>1 DEF Row
    <3>3. /\ TradeOf(r).last + 1 \in Nat
          /\ (TradeOf(r).live \ {req[r].seen}) \cup {TradeOf(r).last + 1} \in SUBSET Nat
      BY <3>2
    <3> HIDE DEF row
    <3> QED
      BY <1>1, <3>1, <3>3 DEF Row
  <2> QED
    BY <1>2, <1>3, <1>4, <2>1, <2>2, WritesAreTyped DEF Finish, GoTo
<1>5. ASSUME NEW t \in Trades, NEW kind \in Kinds, Submit(r, t, kind) PROVE TradesTypeOK'
  <2>1. trade[t].current \in Nat
    BY DEF TradesTypeOK, Row
  <2>2. [IdleRequest EXCEPT !.step = "lock", !.kind = kind, !.trade = t, !.seen = trade[t].current] \in Request
    BY <1>2, <2>1 DEF Request, Steps
  <2> QED
    BY <1>5, <2>2, OneRequestMoves DEF Submit, TradesTypeOK
<1>6. CASE NotFound(r) \/ LeaveTrade(r)
  BY <1>2, <1>6, OneRequestMoves DEF NotFound, LeaveTrade, Finish, TradesTypeOK
<1>7. CASE Confirm(r) \/ Reject(r)
  <2>1. /\ [TermsOf(r) EXCEPT !.confirmation = "confirmed", !.status = "open"] \in Terms
        /\ [TermsOf(r) EXCEPT !.confirmation = "rejected", !.status = "archived"] \in Terms
    BY <1>1 DEF Terms, ConfirmationStatuses, TradeStatuses
  <2> QED
    BY <1>4, <1>7, <2>1 DEF Confirm, Reject
<1>8. ASSUME NEW terms \in Edits \cup {TermsOf(r)}, Edit(r, terms) PROVE TradesTypeOK'
  <2>1. terms \in Terms
    BY <1>1, TradesAssumption
  <2> QED
    BY <1>4, <1>8, <2>1 DEF Edit
<1>9. ASSUME NEW visibility \in Visibilities, SetVisibility(r, visibility) PROVE TradesTypeOK'
  <2>1. Withdrawn(TradeOf(r)) \in Row /\ Published(TradeOf(r)) \in Row
    BY <1>1 DEF Withdrawn, Published, Row, Visibilities, PublicationStatuses
  <2> QED
    BY <1>2, <1>3, <1>9, <2>1, WritesAreTyped DEF SetVisibility, Finish, GoTo
<1> QED
  BY <1>5, <1>6, <1>7, <1>8, <1>9

\* So do the rounds of alerts.
LEMMA RoundStepsAreTyped ==
  ASSUME TradesTypeOK, NEW r \in Requests,
         \/ ReadAlertContext(r) \/ SkipRecipient(r) \/ SendAlert(r) \/ AlertRefused(r)
         \/ MarkDelivery(r) \/ EndRound(r) \/ CutRound(r)
         \/ \E u \in Recipients : CreateDelivery(r, u)
  PROVE  TradesTypeOK'
<1>1. /\ req[r] \in Request /\ req[r].trade \in Trades /\ req[r].result \in DeliveryStatuses
  BY DEF TradesTypeOK, Request
<1>2. IdleRequest \in Request /\ IdleRequest.recipient \in Recipients
  BY IdleRequestType
<1>3. \A next \in Request : req' = [req EXCEPT ![r] = next] => req' \in [Requests -> Request]
  BY OneRequestMoves DEF TradesTypeOK
<1>4. CASE ReadAlertContext(r)
  <2>1. trade[req[r].trade].terms.material \in Materials \cup {NoKey}
    BY <1>1 DEF TradesTypeOK, Row, Terms
  <2>2. [req[r] EXCEPT !.step = "next", !.material = trade[req[r].trade].terms.material,
                       !.todo = InterestedIn(trade[req[r].trade].terms.material)] \in Request
    BY <1>1, <2>1 DEF Request, Steps, InterestedIn
  <2>3. req' \in [Requests -> Request]
    BY <1>2, <1>3, <1>4, <2>2 DEF ReadAlertContext, Finish
  <2> QED
    BY <1>4, <2>3 DEF ReadAlertContext, TradesTypeOK
<1>5. ASSUME NEW u \in Recipients, CreateDelivery(r, u) PROVE TradesTypeOK'
  <2>1. /\ [req[r] EXCEPT !.step = "send", !.recipient = u] \in Request
        /\ [req[r] EXCEPT !.todo = @ \ {u}] \in Request
    BY <1>1 DEF Request, Steps
  <2>2. req' \in [Requests -> Request]
    <3>1. \/ req' = [req EXCEPT ![r].step = "send", ![r].recipient = u]
          \/ req' = [req EXCEPT ![r].todo = @ \ {u}]
      BY <1>5 DEF CreateDelivery
    <3>2. CASE req' = [req EXCEPT ![r].step = "send", ![r].recipient = u]
      BY <2>1, <3>2 DEF TradesTypeOK
    <3>3. CASE req' = [req EXCEPT ![r].todo = @ \ {u}]
      BY <2>1, <3>3 DEF TradesTypeOK
    <3> QED
      BY <3>1, <3>2, <3>3
  <2>3. delivery' \in [AlertKeys -> DeliveryStatuses]
    BY <1>5 DEF CreateDelivery, TradesTypeOK, DeliveryStatuses
  <2> QED
    BY <1>5, <2>2, <2>3 DEF CreateDelivery, TradesTypeOK
<1>6. CASE SkipRecipient(r) \/ SendAlert(r) \/ AlertRefused(r)
  <2>1. \A result \in {"sent", "skipped", "failed"} :
            [req[r] EXCEPT !.step = "mark", !.result = result] \in Request
    BY <1>1 DEF Request, Steps, DeliveryStatuses
  <2>2. req' \in [Requests -> Request]
    BY <1>3, <1>6, <2>1 DEF SkipRecipient, SendAlert, AlertRefused, Marks
  <2>3. alerts' \in [AlertKeys -> Nat]
    BY <1>6 DEF SkipRecipient, SendAlert, AlertRefused, TradesTypeOK
  <2> QED
    BY <1>6, <2>2, <2>3 DEF SkipRecipient, SendAlert, AlertRefused, TradesTypeOK
<1>7. CASE MarkDelivery(r)
  <2>1. [req[r] EXCEPT !.step = "next", !.todo = @ \ {req[r].recipient},
                       !.recipient = IdleRequest.recipient, !.result = "none"] \in Request
    BY <1>1, <1>2 DEF Request, Steps, DeliveryStatuses
  <2>2. req' \in [Requests -> Request]
    BY <1>3, <1>7, <2>1 DEF MarkDelivery
  <2>3. delivery' \in [AlertKeys -> DeliveryStatuses]
    BY <1>1, <1>7 DEF MarkDelivery, MarkedDelivery, TradesTypeOK
  <2> QED
    BY <1>7, <2>2, <2>3 DEF MarkDelivery, TradesTypeOK
<1>8. CASE EndRound(r) \/ CutRound(r)
  <2>1. req' \in [Requests -> Request]
    BY <1>2, <1>3, <1>8 DEF EndRound, CutRound, Finish
  <2> QED
    BY <1>1, <1>8, <2>1 DEF EndRound, CutRound, TradesTypeOK
<1> QED
  BY <1>4, <1>5, <1>6, <1>7, <1>8

\* A run that persists writes rows, and no deliveries.
LEMMA PersistIsTyped ==
  ASSUME TradesTypeOK, NEW a \in Attempts, NEW fresh \in SUBSET FreshIds, NEW itemFailed \in BOOLEAN,
         Persist(a, fresh, itemFailed)
  PROVE  TradesTypeOK'
<1>1. stored' = fresh /\ fresh \subseteq Trades
  BY DEF Persist, TradesAfter, FreshIds
<1>2. PICK terms \in [fresh -> Projections] :
        trade' = [t \in Trades |-> CASE t \in fresh -> FirstVersion(terms[t])
                                    [] t \in stored' \ fresh -> trade[t]
                                    [] OTHER -> NoRow]
  BY DEF Persist
<1>3. trade' \in [Trades -> Row]
  <2>1. \A t \in fresh : FirstVersion(terms[t]) \in Row
    BY ProjectedRowsAreTyped
  <2> QED
    BY <1>1, <1>2, <2>1, ProjectedRowsAreTyped
<1>4. delivery' \in [AlertKeys -> DeliveryStatuses]
  <2>1. \A k \in AlertKeys : delivery[k] \in DeliveryStatuses /\ "none" \in DeliveryStatuses
    BY DEF TradesTypeOK, DeliveryStatuses
  <2> QED
    BY <2>1 DEF Persist
<1> QED
  BY <1>1, <1>3, <1>4 DEF Persist, TradesTypeOK

\* The message, its runs and its trades keep their types (src/messages).
THEOREM MessageTypeCorrect == MessageSpec => []MessageTypeOK
<1>1. MessageInit => TradesTypeOK
  <2> SUFFICES ASSUME MessageInit PROVE TradesTypeOK
    OBVIOUS
  <2>1. stored = {} /\ trade \in [Trades -> Row] /\ NoTradeYet
    BY ProjectedRowsAreTyped DEF MessageInit
  <2> QED
    BY <2>1, IdleRequestType DEF NoTradeYet, TradesTypeOK, DeliveryStatuses
<1>2. TradesTypeOK /\ [MessageNext]_allTradeVars => TradesTypeOK'
  <2> SUFFICES ASSUME TradesTypeOK, [MessageNext]_allTradeVars PROVE TradesTypeOK'
    OBVIOUS
  <2>1. CASE OwnerStep
    BY <2>1, OwnerStepsAreTyped, RoundStepsAreTyped DEF OwnerStep, TradesNext, RequestStep
  <2>2. ASSUME NEW a \in Attempts, Claim(a) \/ AttemptStep(a) \/ LoseAttempt(a) PROVE TradesTypeOK'
    <3>1. CASE \E fresh \in SUBSET FreshIds, itemFailed \in BOOLEAN : Persist(a, fresh, itemFailed)
      BY <3>1, PersistIsTyped
    <3>2. CASE UNCHANGED tradeVars
      BY <3>2 DEF tradeVars, TradesTypeOK
    <3> QED
      BY <2>2, <3>1, <3>2 DEF Claim, AttemptStep, Analyse, LoseAttempt
  <2>3. CASE UNCHANGED allTradeVars
    BY <2>3 DEF allTradeVars, tradeVars, TradesTypeOK
  <2> QED
    BY <2>1, <2>2, <2>3 DEF MessageNext
<1>3. TradesTypeOK /\ MessageAgrees => MessageTypeOK
  BY DEF MessageAgrees, MessageTypeOK
<1> QED
  BY <1>1, <1>2, <1>3, MessageInductive, PTL DEF MessageSpec

\* However many runs overlap and are lost, the trades of a message come from
\* one of them; a message shows as blocked exactly when its text is gone, and
\* then has no trades and asks nothing of its owner.
THEOREM TradesComeFromOneRun == MessageSpec => []TradesFollowTheirMessage
BY TradesOfOneRun, MessageInductive, PTL

\* An id that no run has projected onto yet is no trade that anybody works on or
\* was told of.
NewIdsAreUnused ==
    /\ \A r \in Requests : req[r].step # "idle" => batch[req[r].trade] # 0
    /\ \A key \in AlertKeys : alerts[key] > 0 => batch[key[1]] # 0

\* What holds of the trades when analyses delete and create them meanwhile.
ComposedIInv == TradesIInv /\ MessageAgrees /\ NewIdsAreUnused

\* Before the first analysis there is no trade.
LEMMA ComposedInitHolds == MessageInit => ComposedIInv
<1> SUFFICES ASSUME MessageInit PROVE ComposedIInv
  OBVIOUS
<1>1. /\ stored = {} /\ trade \in [Trades -> Row] /\ NoTradeYet
  BY ProjectedRowsAreTyped DEF MessageInit
<1>2. TradesTypeOK
  BY <1>1, IdleRequestType DEF NoTradeYet, TradesTypeOK, DeliveryStatuses
<1>3. \A r \in Requests : req[r].step = "idle"
  BY <1>1, IdleRequestType DEF NoTradeYet
<1>4. \A key \in AlertKeys : alerts[key] = 0 /\ delivery[key] = "none"
  BY <1>1 DEF NoTradeYet
<1>5. TradeRows /\ Rounds /\ OneSender /\ OffersWillBeAnnounced
  BY <1>1, <1>3 DEF TradeRows, Rounds, Round, OneSender, InRound, HoldsDelivery, OffersWillBeAnnounced
<1>6. NoRowNoAlert /\ DeliveriesTellTheTruth
  BY <1>4 DEF NoRowNoAlert, DeliveriesTellTheTruth, AlertKeys
<1>7. NewIdsAreUnused
  BY <1>3, <1>4 DEF NewIdsAreUnused
<1> QED
  BY <1>2, <1>5, <1>6, <1>7, MessageInitAgrees DEF ComposedIInv, TradesIInv

\* A request keeps to the trade it was submitted for until it is idle again, and
\* messages go out about that trade only.
LEMMA RequestsKeepTheirTrade ==
  ASSUME TradesIInv, NEW r \in Requests, RequestStep(r) \/ CutRound(r)
  PROVE  /\ req[r].step # "idle"
         /\ \A q \in Requests : q # r => req'[q] = req[q]
         /\ req'[r].step # "idle" => req'[r].trade = req[r].trade
         /\ alerts' = alerts \/ alerts' = [alerts EXCEPT ![KeyOf(r)] = @ + 1]
<1> DEFINE Kept ==
        /\ \A q \in Requests : q # r => req'[q] = req[q]
        /\ req'[r].step # "idle" => req'[r].trade = req[r].trade
<1>1. req \in [Requests -> Request] /\ req[r] \in Request /\ IdleRequest.step = "idle"
  BY IdleRequestType DEF TradesIInv, TradesTypeOK
<1>2. Finish(r) => Kept
  BY <1>1 DEF Finish
<1>3. \A step : GoTo(r, step) => Kept
  BY <1>1 DEF GoTo, Request
<1>4. CASE NotFound(r) \/ LeaveTrade(r) \/ EndRound(r) \/ CutRound(r)
  BY <1>2, <1>4 DEF NotFound, LeaveTrade, EndRound, CutRound, Found, At
<1>5. CASE \/ Confirm(r) \/ Reject(r) \/ (\E terms \in Edits \cup {TermsOf(r)} : Edit(r, terms))
           \/ (\E visibility \in Visibilities : SetVisibility(r, visibility))
  BY <1>2, <1>3, <1>5 DEF Confirm, Reject, Edit, SetVisibility, Promote, WriteTrade, Found, At
<1>6. CASE ReadAlertContext(r)
  <2>1. Kept
    BY <1>1, <1>2, <1>6 DEF ReadAlertContext, Request
  <2> QED
    BY <1>6, <2>1 DEF ReadAlertContext, At
<1>7. CASE \E u \in Recipients : CreateDelivery(r, u)
  BY <1>1, <1>7 DEF CreateDelivery, At, Request
<1>8. CASE SkipRecipient(r) \/ SendAlert(r) \/ AlertRefused(r)
  BY <1>1, <1>8 DEF SkipRecipient, SendAlert, AlertRefused, Marks, At, Request
<1>9. CASE MarkDelivery(r)
  BY <1>1, <1>9 DEF MarkDelivery, At, Request
<1> QED
  BY <1>4, <1>5, <1>6, <1>7, <1>8, <1>9 DEF RequestStep

\* A request takes on a trade that is there and stays with it.
LEMMA OwnerKeepsNewIds ==
  ASSUME TradesIInv, MessageAgrees, NewIdsAreUnused, OwnerStep
  PROVE  NewIdsAreUnused'
<1>1. batch' = batch
  BY DEF OwnerStep, messageVars
<1>2. PICK r \in Requests :
        \/ \E t \in Trades, kind \in Kinds : Submit(r, t, kind)
        \/ RequestStep(r)
        \/ CutRound(r)
  BY DEF OwnerStep, TradesNext
<1>3. CASE \E t \in Trades, kind \in Kinds : Submit(r, t, kind)
  <2>1. PICK t \in Trades, kind \in Kinds : Submit(r, t, kind)
    BY <1>3
  <2>2. t \in stored /\ batch[t] # 0
    BY <2>1 DEF Submit, MessageAgrees
  <2>3. req \in [Requests -> Request] /\ IdleRequest \in Request
    BY IdleRequestType DEF TradesIInv, TradesTypeOK
  <2>4. /\ req'[r].trade = t /\ \A q \in Requests : q # r => req'[q] = req[q]
        /\ alerts' = alerts
    BY <2>1, <2>3 DEF Submit, Request
  <2> QED
    BY <1>1, <2>2, <2>4 DEF NewIdsAreUnused
<1>4. CASE RequestStep(r) \/ CutRound(r)
  <2>1. \A q \in Requests : req'[q].step # "idle" => batch[req'[q].trade] # 0
    BY <1>4, RequestsKeepTheirTrade DEF NewIdsAreUnused
  <2>2. ASSUME NEW key \in AlertKeys, alerts'[key] > 0
        PROVE  batch[key[1]] # 0
    <3>1. alerts \in [AlertKeys -> Nat]
      BY DEF TradesIInv, TradesTypeOK
    <3>2. CASE key = KeyOf(r)
      <4>1. key[1] = req[r].trade
        BY <3>2 DEF KeyOf
      <4> QED
        BY <1>4, <4>1, RequestsKeepTheirTrade DEF NewIdsAreUnused
    <3>3. CASE key # KeyOf(r)
      <4>1. alerts'[key] = alerts[key]
        BY <1>4, <3>1, <3>3, RequestsKeepTheirTrade
      <4> QED
        BY <2>2, <4>1 DEF NewIdsAreUnused
    <3> QED
      BY <3>2, <3>3
  <2> QED
    BY <1>1, <2>1, <2>2 DEF NewIdsAreUnused
<1> QED
  BY <1>2, <1>3, <1>4

\* An analysis takes trades away with all that hangs on them, and creates others
\* under ids that nobody has a request or a message about.
LEMMA PersistKeepsComposedIInv ==
  ASSUME ComposedIInv, NEW a \in Attempts, NEW fresh \in SUBSET FreshIds, NEW itemFailed \in BOOLEAN,
         Persist(a, fresh, itemFailed)
  PROVE  ComposedIInv'
<1>1. TradesIInv /\ MessageAgrees /\ NewIdsAreUnused /\ TradesTypeOK
  BY DEF ComposedIInv, TradesIInv
<1>2. /\ stored' = fresh /\ fresh \subseteq Trades /\ \A t \in fresh : batch[t] = 0
      /\ UNCHANGED <<req, alerts, offered, cut>>
  BY DEF Persist, TradesAfter, FreshIds
<1>3. TradesTypeOK' /\ MessageAgrees'
  BY <1>1, PersistIsTyped, PersistAgrees
<1>4. PICK terms \in [fresh -> Projections] :
        trade' = [t \in Trades |-> CASE t \in fresh -> FirstVersion(terms[t])
                                    [] t \in stored' \ fresh -> trade[t]
                                    [] OTHER -> NoRow]
  BY DEF Persist
<1>5. \A t \in fresh : /\ trade'[t].live = {trade'[t].current}
                        /\ trade'[t].current = trade'[t].last
                        /\ trade'[t].publication = "none"
  <2> SUFFICES ASSUME NEW t \in fresh
               PROVE  /\ trade'[t].live = {trade'[t].current}
                      /\ trade'[t].current = trade'[t].last
                      /\ trade'[t].publication = "none"
    OBVIOUS
  <2>1. trade'[t] = FirstVersion(terms[t])
    BY <1>2, <1>4
  <2>2. \A x : /\ FirstVersion(x).live = {FirstVersion(x).current}
               /\ FirstVersion(x).current = FirstVersion(x).last
               /\ FirstVersion(x).publication = "none"
    BY DEF FirstVersion
  <2> QED
    BY <2>1, <2>2
<1>6. TradeRows' /\ OffersWillBeAnnounced'
  BY <1>2, <1>5 DEF TradeRows, TradeRow, OnOffer, OffersWillBeAnnounced
<1>7. \A key \in AlertKeys : delivery'[key] = "none"
  BY <1>2 DEF Persist
<1>8. NoRowNoAlert' /\ DeliveriesTellTheTruth'
  <2>1. \A key \in AlertKeys : key[1] \in fresh => alerts[key] = 0
    <3>1. alerts \in [AlertKeys -> Nat]
      BY <1>1 DEF TradesTypeOK
    <3> QED
      BY <1>1, <1>2, <3>1 DEF NewIdsAreUnused
  <2>2. NoRowNoAlert'
    BY <1>2, <2>1 DEF NoRowNoAlert
  <2>3. DeliveriesTellTheTruth'
    <3>1. \A t \in Trades, u \in Recipients, m \in Materials : <<t, u, m>> \in AlertKeys
      BY DEF AlertKeys
    <3> QED
      BY <1>1, <1>2, <1>7, <3>1 DEF TradesIInv, DeliveriesTellTheTruth
  <2> QED
    BY <2>2, <2>3
<1>9. Rounds' /\ OneSender'
  <2>1. ASSUME NEW r \in Requests PROVE Round(r)'
    <3>1. Round(r)
      BY <1>1 DEF TradesIInv, Rounds
    <3>2. HoldsDelivery(r) => req[r].trade \notin fresh /\ delivery'[KeyOf(r)] = "none"
      <4>1. SUFFICES ASSUME HoldsDelivery(r) PROVE req[r].trade \notin fresh /\ delivery'[KeyOf(r)] = "none"
        OBVIOUS
      <4>2. batch[req[r].trade] # 0
        BY <1>1, <4>1 DEF HoldsDelivery, NewIdsAreUnused
      <4> QED
        BY <1>1, <1>2, <1>7, <4>1, <4>2, HeldKey
    <3> QED
      BY <1>2, <3>1, <3>2 DEF Round, InRound, HoldsDelivery, KeyOf
  <2>2. OneSender'
    BY <1>1, <1>2 DEF TradesIInv, OneSender, HoldsDelivery, KeyOf
  <2> QED
    BY <2>1, <2>2 DEF Rounds
<1>10. NewIdsAreUnused'
  <2>1. \A t \in Trades : batch[t] # 0 => batch'[t] # 0
    BY <1>2 DEF Persist
  <2>2. \A r \in Requests : req[r].trade \in Trades
    BY <1>1 DEF TradesTypeOK, Request
  <2>3. \A key \in AlertKeys : key[1] \in Trades
    BY DEF AlertKeys
  <2> QED
    BY <1>1, <1>2, <2>1, <2>2, <2>3 DEF NewIdsAreUnused
<1> QED
  BY <1>3, <1>6, <1>8, <1>9, <1>10 DEF ComposedIInv, TradesIInv

\* Every step of the analyses and of the owner keeps the invariant.
LEMMA ComposedInductive == MessageSpec => []ComposedIInv
<1>1. ComposedIInv /\ [MessageNext]_allTradeVars => ComposedIInv'
  <2> SUFFICES ASSUME ComposedIInv, [MessageNext]_allTradeVars PROVE ComposedIInv'
    OBVIOUS
  <2>1. MessageAgrees'
    BY MessageNextAgrees DEF ComposedIInv
  <2>2. CASE OwnerStep
    <3>1. TradesIInv'
      BY <2>2, TradesNextKeepsIInv DEF ComposedIInv, OwnerStep
    <3> QED
      BY <2>1, <2>2, <3>1, OwnerKeepsNewIds DEF ComposedIInv
  <2>3. CASE UNCHANGED <<tradeVars, batch>>
    <3>1. TradesIInv'
      BY <2>3, TradesStutter DEF ComposedIInv
    <3>2. NewIdsAreUnused'
      BY <2>3 DEF ComposedIInv, NewIdsAreUnused, tradeVars
    <3> QED
      BY <2>1, <3>1, <3>2 DEF ComposedIInv
  <2>4. ASSUME NEW a \in Attempts, Claim(a) \/ AttemptStep(a) \/ LoseAttempt(a) PROVE ComposedIInv'
    <3>1. CASE \E fresh \in SUBSET FreshIds, itemFailed \in BOOLEAN : Persist(a, fresh, itemFailed)
      BY <3>1, PersistKeepsComposedIInv
    <3> QED
      BY <2>3, <2>4, <3>1 DEF Claim, AttemptStep, Analyse, LoseAttempt
  <2> QED
    BY <2>2, <2>3, <2>4 DEF MessageNext, allTradeVars, messageVars
<1> QED
  BY <1>1, ComposedInitHolds, PTL DEF MessageSpec

\* What the owner, the market and the users that are told rely on survives the
\* analyses that delete and create trades under their requests and rounds: one
\* version is live, nobody is told twice, and the delivery rows that are left
\* are true.
THEOREM TradesSurviveAnalyses == MessageSpec => [](OneLiveVersion /\ DeliveriesTellTheTruth)
<1>1. ComposedIInv => OneLiveVersion /\ DeliveriesTellTheTruth
  BY TradesImplyOneVersion DEF ComposedIInv, TradesIInv
<1> QED
  BY <1>1, ComposedInductive, PTL

\* Nor do they leave anybody out who is interested in an offer: at rest every
\* such user has a delivery for the trade that is there now.
THEOREM OffersSurviveAnalyses == MessageSpec => []OffersAreAnnounced
<1>1. ComposedIInv => OffersAreAnnounced
  BY TradesImplyAnnounced DEF ComposedIInv
<1> QED
  BY <1>1, ComposedInductive, PTL

\* When no run is in flight, nobody but the owner steps on a settled message.
LEMMA SettledStaysSettled ==
  [MessageNext]_allTradeVars =>
    [Settled /\ InFlight = {} =>
          /\ message' = message /\ stored' = stored
          /\ MessagePage(message, stored') = MessagePage(message', stored')]_allTradeVars
<1> SUFFICES ASSUME [MessageNext]_allTradeVars, Settled, InFlight = {}
             PROVE  message' = message /\ stored' = stored
  OBVIOUS
<1>1. \A a \in Attempts : attempt[a].step = "idle"
  BY DEF InFlight
<1>2. \A a \in Attempts : ~(Claim(a) \/ AttemptStep(a) \/ LoseAttempt(a))
  BY <1>1 DEF Claim, Claimable, AttemptStep, Analyse, Persist, LoseAttempt
<1>3. OwnerStep \/ UNCHANGED allTradeVars
  BY <1>2 DEF MessageNext
<1> QED
  BY <1>3, OwnerLeavesMessage DEF allTradeVars, tradeVars, messageVars

\* Redeliveries and retries of a message that is analysed, with no run in
\* flight, change neither the message nor which trades it has, whatever the
\* owner does with the trades.
THEOREM SettledMessagesStay == MessageSpec => SettledIsFinal
BY SettledStaysSettled, PTL DEF MessageSpec, SettledIsFinal

-----------------------------------------------------------------------------
(* The translation jobs, and the versions they store.                       *)

\* The jobs of a language.
Rows(l) == 1..Len(job[l])

\* What a job has stored stays a machine text of the source version it was made for.
ResultsStand ==
    \A l \in Languages : \A j \in Rows(l) :
        /\ job[l][j].status = "completed" => job[l][j].target # None
        /\ job[l][j].target # None =>
              /\ job[l][j].target \in 1..Len(page[l])
              /\ page[l][job[l][j].target].by = "machine"
              /\ page[l][job[l][j].target].from = job[l][j].snapshot

\* A language gets another job only after the one before has ended.
ActiveIsLast ==
    \A l \in Languages : \A j \in Rows(l) :
        job[l][j].status \in ActiveJobStatuses => j = Len(job[l])

\* A worker holds a job alone, and it is in processing until it has stored.
WorkersHoldJobs ==
    /\ \A w \in Workers : worker[w].step # "idle" =>
          /\ worker[w].job \in Rows(worker[w].language)
          /\ JobOf(w).status # "queued"
          /\ worker[w].step \notin {"usage", "mark_failed"} => JobOf(w).status = "processing"
    /\ \A w, u \in Workers :
          worker[w].step # "idle" /\ worker[u].step # "idle"
          /\ worker[w].language = worker[u].language /\ worker[w].job = worker[u].job
              => w = u

\* A job was made for a source version that is there; if a save overtook it, the
\* newest version is another one.
JobsAreOld ==
    /\ \A l \in Languages : \A j \in Rows(l) : job[l][j].snapshot <= Len(source)
    /\ \A l \in Languages : \A j \in overtaken[l] : j \in Rows(l) /\ job[l][j].snapshot < Len(source)

\* A worker that is past the first check has the text of its job, and one that is
\* past the second check was not overtaken before.
TextsAreOfTheirJobs ==
    \A w \in Workers :
        /\ worker[w].step \in {"translate", "store", "write"} => worker[w].read = JobOf(w).snapshot
        /\ worker[w].step = "write" => worker[w].job \notin overtaken[worker[w].language]

\* No job that was overtaken is completed.
CompletedInTime ==
    \A l \in Languages : \A j \in Rows(l) : job[l][j].status = "completed" => j \notin overtaken[l]

SourceIsRead == JobsAreOld /\ TextsAreOfTheirJobs /\ CompletedInTime

\* The inductive invariant.  The labels alone are not inductive: a worker that
\* stores must still hold a job that is in processing, hold it alone, and have
\* read the text its job was made for before any save overtook it.
JobsIInv ==
    /\ JobsTypeOK /\ ResultsStand /\ ActiveIsLast /\ WorkersHoldJobs /\ SourceIsRead
    /\ TranslationsMoveForward

\* A sequence with one element replaced.
LEMMA SeqUpdated ==
  ASSUME NEW S, NEW s \in Seq(S), NEW i \in 1..Len(s), NEW e \in S
  PROVE  /\ [s EXCEPT ![i] = e] \in Seq(S)
         /\ Len([s EXCEPT ![i] = e]) = Len(s)
         /\ \A j \in 1..Len(s) : [s EXCEPT ![i] = e][j] = IF j = i THEN e ELSE s[j]
OBVIOUS

\* A sequence with one element more.
LEMMA SeqExtended ==
  ASSUME NEW S, NEW s \in Seq(S), NEW e \in S
  PROVE  /\ Append(s, e) \in Seq(S)
         /\ Len(Append(s, e)) = Len(s) + 1
         /\ Append(s, e)[Len(s) + 1] = e
         /\ \A j \in 1..Len(s) : Append(s, e)[j] = s[j]
OBVIOUS

\* A function on 1..n is a sequence.
LEMMA SeqListed ==
  ASSUME NEW S, NEW n \in Nat, NEW s, DOMAIN s = 1..n, s = [i \in DOMAIN s |-> s[i]], \A i \in 1..n : s[i] \in S
  PROVE  s \in Seq(S) /\ Len(s) = n
<1>1. s \in [1..n -> S]
  OBVIOUS
<1> QED
  BY <1>1

\* The labels follow from the inductive invariant.
LEMMA JobsImply == JobsIInv => LabelsAreTrue
BY DEF JobsIInv, ResultsStand, SourceIsRead, CompletedInTime, LabelsAreTrue, Rows

\* An idle worker is a worker.
LEMMA IdleIsTyped == Idle \in Worker
<1>1. (CHOOSE l \in Languages : TRUE) \in Languages
  BY TranslationJobsAssumption
<1>2. None \in Nat
  BY DEF None
<1> DEFINE lang == CHOOSE l \in Languages : TRUE
<1>3. lang \in Languages
  BY <1>1
<1> HIDE DEF lang
<1>4. [step |-> "idle", language |-> lang, job |-> None, read |-> None, seen |-> None] \in Worker
  BY <1>2, <1>3 DEF Worker, WorkerSteps
<1> QED
  BY <1>4 DEF Idle, lang

\* The invariant holds before the first job.
LEMMA JobsInitHolds == JobsInit => JobsIInv
<1> SUFFICES ASSUME JobsInit PROVE JobsIInv
  OBVIOUS
<1>1. \A l \in Languages : page[l] = <<>> /\ job[l] = <<>> /\ Len(job[l]) = 0
  BY DEF JobsInit
<1>2. JobsTypeOK
  <2>1. source \in Seq(Texts)
    BY DEF JobsInit
  <2>2. page \in [Languages -> Seq(Version)] /\ job \in [Languages -> Seq(Job)]
    BY DEF JobsInit
  <2>3. worker \in [Workers -> Worker] /\ overtaken \in [Languages -> SUBSET Nat]
    BY IdleIsTyped DEF JobsInit
  <2> QED
    BY <2>1, <2>2, <2>3 DEF JobsTypeOK, JobsInit
<1>3. \A w \in Workers : worker[w].step = "idle"
  BY DEF JobsInit, Idle
<1>4. \A l \in Languages : Rows(l) = {}
  <2>1. 1..0 = {}
    OBVIOUS
  <2> QED
    BY <1>1, <2>1 DEF Rows
<1> QED
  <2>1. SourceIsRead
    <3>1. \A l \in Languages : overtaken[l] = {}
      BY DEF JobsInit
    <3> QED
      BY <1>3, <1>4, <3>1 DEF SourceIsRead, JobsAreOld, TextsAreOfTheirJobs, CompletedInTime
  <2> QED
    BY <1>2, <1>3, <1>4, <1>1, <2>1 DEF JobsIInv, ResultsStand, ActiveIsLast, WorkersHoldJobs, TranslationsMoveForward, Rows

\* The versions of a page are only added to; those there keep their text.
LEMMA NewVersionsKeepJobsIInv ==
  ASSUME JobsIInv, UNCHANGED <<source, job, worker, crashes, overtaken>>,
         page' \in [Languages -> Seq(Version)],
         \A l \in Languages :
            /\ Len(page[l]) <= Len(page'[l])
            /\ \A v \in 1..Len(page[l]) : page'[l][v].by = page[l][v].by /\ page'[l][v].from = page[l][v].from
  PROVE  JobsIInv'
<1>1. JobsTypeOK'
  BY DEF JobsIInv, JobsTypeOK
<1>2. ResultsStand'
  <2>1. \A l \in Languages : Len(page[l]) \in Nat /\ Len(page'[l]) \in Nat
    BY DEF JobsIInv, JobsTypeOK
  <2> SUFFICES ASSUME NEW l \in Languages, NEW j \in Rows(l)
               PROVE  /\ job[l][j].status = "completed" => job[l][j].target # None
                      /\ job[l][j].target # None =>
                            /\ job[l][j].target \in 1..Len(page'[l])
                            /\ page'[l][job[l][j].target].by = "machine"
                            /\ page'[l][job[l][j].target].from = job[l][j].snapshot
    BY DEF ResultsStand, Rows
  <2>2. /\ job[l][j].status = "completed" => job[l][j].target # None
        /\ job[l][j].target # None =>
              /\ job[l][j].target \in 1..Len(page[l])
              /\ page[l][job[l][j].target].by = "machine"
              /\ page[l][job[l][j].target].from = job[l][j].snapshot
    BY DEF JobsIInv, ResultsStand
  <2>3. 1..Len(page[l]) \subseteq 1..Len(page'[l])
    BY <2>1
  <2> QED
    BY <2>2, <2>3
<1>3. ActiveIsLast' /\ WorkersHoldJobs' /\ TranslationsMoveForward' /\ SourceIsRead'
  BY DEF JobsIInv, ActiveIsLast, WorkersHoldJobs, TranslationsMoveForward, Rows, JobOf,
         SourceIsRead, JobsAreOld, TextsAreOfTheirJobs, CompletedInTime
<1> QED
  BY <1>1, <1>2, <1>3 DEF JobsIInv

\* A new source version leaves every translation as it is, and overtakes the
\* jobs that nobody is storing.
LEMMA SaveSourceKeepsJobsIInv ==
  ASSUME JobsIInv, NEW text \in Texts, SaveSource(text) PROVE JobsIInv'
<1>1. source' \in Seq(Texts) /\ Len(source') = Len(source) + 1 /\ Len(source) \in Nat
  BY SeqExtended DEF SaveSource, JobsIInv, JobsTypeOK
<1>2. UNCHANGED <<page, job, worker, crashes>>
  BY DEF SaveSource
<1>3. \A l \in Languages : /\ overtaken'[l] = overtaken[l] \cup NotBeingStored(l)
                           /\ NotBeingStored(l) \subseteq Rows(l)
                           /\ \A j \in NotBeingStored(l) : job[l][j].status # "completed"
  BY DEF SaveSource, NotBeingStored, Rows, ActiveJobStatuses
<1>4. overtaken' \in [Languages -> SUBSET Nat]
  <2>1. \A l \in Languages : Rows(l) \subseteq Nat
    BY DEF Rows
  <2> QED
    BY <1>3, <2>1 DEF SaveSource, JobsIInv, JobsTypeOK
<1>5. SourceIsRead
  BY DEF JobsIInv
<1>6. \A l \in Languages : \A j \in Rows(l) : job[l][j].snapshot \in Nat
  <2>1. \A l \in Languages : \A j \in Rows(l) : job[l][j] \in Job
    BY DEF JobsIInv, JobsTypeOK, Rows
  <2> QED
    BY <2>1 DEF Job
<1>7. JobsAreOld'
  <2>1. \A l \in Languages : \A j \in Rows(l) : job[l][j].snapshot <= Len(source)
    BY <1>5 DEF SourceIsRead, JobsAreOld
  <2>2. \A l \in Languages : \A j \in Rows(l) : job[l][j].snapshot < Len(source')
    BY <1>1, <1>6, <2>1
  <2>3. \A l \in Languages : Rows(l)' = Rows(l)
    BY <1>2 DEF Rows
  <2>4. \A l \in Languages : overtaken'[l] \subseteq Rows(l)
    BY <1>3, <1>5 DEF SourceIsRead, JobsAreOld
  <2>5. \A l \in Languages : \A j \in Rows(l)' : job'[l][j].snapshot <= Len(source')
    BY <1>1, <1>2, <1>6, <2>2, <2>3
  <2> QED
    BY <1>2, <2>2, <2>3, <2>4, <2>5 DEF JobsAreOld
<1>8. TextsAreOfTheirJobs'
  <2>1. \A w \in Workers : JobOf(w)' = JobOf(w)
    BY <1>2 DEF JobOf
  <2>2. \A w \in Workers : worker[w].step = "write" => worker[w].job \notin NotBeingStored(worker[w].language)
    BY DEF NotBeingStored
  <2>3. \A w \in Workers : worker[w].language \in Languages
    BY DEF JobsIInv, JobsTypeOK, Worker
  <2> QED
    BY <1>2, <1>3, <1>5, <2>1, <2>2, <2>3 DEF SourceIsRead, TextsAreOfTheirJobs
<1>9. CompletedInTime'
  BY <1>2, <1>3, <1>5 DEF SourceIsRead, CompletedInTime, Rows
<1>10. JobsTypeOK' /\ ResultsStand' /\ ActiveIsLast' /\ WorkersHoldJobs' /\ TranslationsMoveForward'
  BY <1>1, <1>2, <1>4 DEF JobsIInv, JobsTypeOK, ResultsStand, ActiveIsLast, WorkersHoldJobs,
                          TranslationsMoveForward, Rows, JobOf
<1> QED
  BY <1>7, <1>8, <1>9, <1>10 DEF JobsIInv, SourceIsRead

\* A translation by hand is one version more.
LEMMA CreateTranslationKeepsJobsIInv ==
  ASSUME JobsIInv, NEW l \in Languages, CreateTranslation(l) PROVE JobsIInv'
<1> DEFINE e == [by |-> "copy", from |-> None, status |-> "draft", live |-> TRUE]
<1>1. e \in Version
  BY DEF Version, None, PageStatuses
<1> HIDE DEF e
<1>2. page \in [Languages -> Seq(Version)] /\ page' = [page EXCEPT ![l] = Append(page[l], e)]
  BY DEF JobsIInv, JobsTypeOK, CreateTranslation, e
<1>3. page[l] \in Seq(Version)
  BY <1>2
<1>4. /\ page' \in [Languages -> Seq(Version)]
      /\ \A k \in Languages :
            /\ Len(page[k]) <= Len(page'[k])
            /\ \A v \in 1..Len(page[k]) : page'[k][v] = page[k][v]
  BY <1>1, <1>2, <1>3, SeqExtended
<1>5. UNCHANGED <<source, job, worker, crashes, overtaken>>
  BY DEF CreateTranslation
<1> QED
  BY <1>4, <1>5, NewVersionsKeepJobsIInv

\* A version that is retired keeps its author and its source.
LEMMA RetiredRows ==
  ASSUME NEW s \in Seq(Version), NEW v \in 1..Len(s)
  PROVE  /\ Retired(s, v) \in Seq(Version)
         /\ Len(Retired(s, v)) = Len(s)
         /\ \A u \in 1..Len(s) : /\ Retired(s, v)[u].by = s[u].by
                                 /\ Retired(s, v)[u].from = s[u].from
         /\ ~Retired(s, v)[v].live
<1> DEFINE r == [s[v] EXCEPT !.live = FALSE]
<1>1. s[v] \in Version
  OBVIOUS
<1>2. r \in Version /\ r.by = s[v].by /\ r.from = s[v].from /\ ~r.live
  BY <1>1 DEF Version
<1>3. Retired(s, v) = [s EXCEPT ![v] = r]
  BY DEF Retired
<1> HIDE DEF r
<1> QED
  BY <1>2, <1>3, SeqUpdated

\* A saved translation retires a version and appends another one.
LEMMA SaveTranslationKeepsJobsIInv ==
  ASSUME JobsIInv, NEW l \in Languages, NEW v \in LiveVersions(l), NEW edited \in BOOLEAN,
         NEW status \in PageStatuses, SaveTranslation(l, v, edited, status)
  PROVE  JobsIInv'
<1> DEFINE e == [page[l][v] EXCEPT !.by = IF edited THEN "editor" ELSE @,
                                   !.from = IF edited THEN None ELSE @,
                                   !.status = status]
<1>1. v \in 1..Len(page[l]) /\ page[l] \in Seq(Version) /\ page \in [Languages -> Seq(Version)]
  BY DEF LiveVersions, JobsIInv, JobsTypeOK
<1>2. page[l][v] \in Version
  BY <1>1
<1>3. e \in Version
  BY <1>2 DEF Version, None
<1>4. page' = [page EXCEPT ![l] = Append(Retired(page[l], v), e)]
  BY <1>1 DEF SaveTranslation
<1> HIDE DEF e
<1>5. /\ Append(Retired(page[l], v), e) \in Seq(Version)
      /\ Len(Append(Retired(page[l], v), e)) = Len(page[l]) + 1
      /\ \A u \in 1..Len(page[l]) :
            /\ Append(Retired(page[l], v), e)[u].by = page[l][u].by
            /\ Append(Retired(page[l], v), e)[u].from = page[l][u].from
  <2> DEFINE r == Retired(page[l], v)
  <2>1. /\ r \in Seq(Version) /\ Len(r) = Len(page[l])
        /\ \A u \in 1..Len(page[l]) : r[u].by = page[l][u].by /\ r[u].from = page[l][u].from
    BY <1>1, RetiredRows
  <2> HIDE DEF r
  <2>2. /\ Append(r, e) \in Seq(Version) /\ Len(Append(r, e)) = Len(r) + 1
        /\ \A u \in 1..Len(r) : Append(r, e)[u] = r[u]
    BY <1>3, <2>1, SeqExtended
  <2>3. \A u \in 1..Len(page[l]) : Append(r, e)[u].by = page[l][u].by /\ Append(r, e)[u].from = page[l][u].from
    BY <2>1, <2>2
  <2> QED
    BY <2>1, <2>2, <2>3 DEF r
<1>6. Len(page[l]) \in Nat
  BY <1>1
<1>7. /\ page' \in [Languages -> Seq(Version)]
      /\ \A k \in Languages :
            /\ Len(page[k]) <= Len(page'[k])
            /\ \A u \in 1..Len(page[k]) : page'[k][u].by = page[k][u].by /\ page'[k][u].from = page[k][u].from
  <2>1. \A k \in Languages : page'[k] = IF k = l THEN Append(Retired(page[l], v), e) ELSE page[k]
    BY <1>1, <1>4
  <2>2. \A k \in Languages : Len(page[k]) <= Len(page[k])
    BY <1>1
  <2> QED
    BY <1>1, <1>4, <1>5, <1>6, <2>1, <2>2
<1>8. UNCHANGED <<source, job, worker, crashes, overtaken>>
  BY DEF SaveTranslation
<1> QED
  BY <1>7, <1>8, NewVersionsKeepJobsIInv

\* The n-th draft is one of the drafts.
LEMMA DraftsAreFound ==
  ASSUME JobsIInv, NEW l \in Languages
  PROVE  /\ Cardinality(DraftVersions(l)) \in Nat
         /\ \A n \in 1..Cardinality(DraftVersions(l)) : NthDraft(l, n) \in DraftVersions(l)
<1>1. page[l] \in Seq(Version) /\ Len(page[l]) \in Nat
  BY DEF JobsIInv, JobsTypeOK
<1>2. DraftVersions(l) \subseteq 1..Len(page[l])
  BY DEF DraftVersions, LiveVersions
<1>3. IsFiniteSet(DraftVersions(l))
  <2>1. IsFiniteSet(1..Len(page[l]))
    BY <1>1, FS_Interval
  <2> QED
    BY <1>2, <2>1, FS_Subset
<1>4. DraftVersions(l) \subseteq Nat
  BY <1>1, <1>2
<1>5. \A n \in 1..Cardinality(DraftVersions(l)) : \E d \in DraftVersions(l) : Cardinality({e \in DraftVersions(l) : e <= d}) = n
  BY <1>3, <1>4, RowsAreNumbered
<1> QED
  BY <1>3, <1>5, FS_CardinalityType DEF NthDraft

\* Publishing appends a copy of each draft, and no version changes its author
\* or source.
LEMMA CopiesOfDrafts ==
  ASSUME JobsIInv, NEW l \in Languages
  PROVE  /\ PublishedCopies(l) \in Seq(Version)
         /\ Len(page[l]) <= Len(PublishedCopies(l))
         /\ \A v \in 1..Len(page[l]) : /\ PublishedCopies(l)[v].by = page[l][v].by
                                       /\ PublishedCopies(l)[v].from = page[l][v].from
<1> DEFINE n == Len(page[l])
           d == Cardinality(DraftVersions(l))
           s == PublishedCopies(l)
<1>1. page[l] \in Seq(Version) /\ n \in Nat /\ \A v \in 1..n : page[l][v] \in Version
  BY DEF JobsIInv, JobsTypeOK
<1>2. d \in Nat /\ \A k \in 1..d : NthDraft(l, k) \in 1..n
  BY DraftsAreFound DEF DraftVersions, LiveVersions
<1>3. n + d \in Nat
  BY <1>1, <1>2
<1>4. s = [v \in 1..n + d |->
            IF v <= n
            THEN [page[l][v] EXCEPT !.live = @ /\ v \notin DraftVersions(l)]
            ELSE [page[l][NthDraft(l, v - n)] EXCEPT !.status = "published"]]
  BY DEF PublishedCopies
<1> HIDE DEF s, d
<1>5. ASSUME NEW v \in 1..n
      PROVE  s[v] \in Version /\ s[v].by = page[l][v].by /\ s[v].from = page[l][v].from
  <2>1. v \in 1..n + d /\ v <= n
    BY <1>1, <1>2
  <2>2. s[v] = [page[l][v] EXCEPT !.live = page[l][v].live /\ v \notin DraftVersions(l)]
    BY <1>4, <2>1
  <2>3. page[l][v] \in Version
    BY <1>1
  <2>4. (page[l][v].live /\ v \notin DraftVersions(l)) \in BOOLEAN
    OBVIOUS
  <2> QED
    BY <2>2, <2>3, <2>4 DEF Version
<1>6. ASSUME NEW v \in 1..n + d, ~(v <= n)
      PROVE  s[v] \in Version
  <2>1. v - n \in 1..d
    BY <1>1, <1>2, <1>6
  <2>2. s[v] = [page[l][NthDraft(l, v - n)] EXCEPT !.status = "published"]
    BY <1>4, <1>6
  <2>3. page[l][NthDraft(l, v - n)] \in Version
    BY <1>1, <1>2, <2>1
  <2> QED
    BY <2>2, <2>3 DEF Version, PageStatuses
<1>7. \A v \in 1..n + d : s[v] \in Version
  BY <1>1, <1>3, <1>5, <1>6
<1>8. s \in Seq(Version) /\ Len(s) = n + d
  <2>1. DOMAIN s = 1..n + d /\ s = [v \in DOMAIN s |-> s[v]]
    BY <1>4
  <2> QED
    BY <1>3, <1>7, <2>1, SeqListed
<1> QED
  BY <1>1, <1>2, <1>5, <1>8 DEF s

\* Published copies come after the versions that are there.
LEMMA PublishKeepsJobsIInv ==
  ASSUME JobsIInv, PublishTranslatedDrafts PROVE JobsIInv'
<1>1. page' = [l \in Languages |-> PublishedCopies(l)]
  BY DEF PublishTranslatedDrafts
<1>2. UNCHANGED <<source, job, worker, crashes, overtaken>>
  BY DEF PublishTranslatedDrafts
<1> QED
  BY <1>1, <1>2, CopiesOfDrafts, NewVersionsKeepJobsIInv

\* A language without an active job gets one, of the newest source version.
LEMMA EnqueueKeepsJobsIInv ==
  ASSUME JobsIInv, NEW targets \in SUBSET Languages, EnqueueTranslationJobs(targets) PROVE JobsIInv'
<1> DEFINE e == [status |-> "queued", snapshot |-> Len(source), target |-> None]
           Got(l) == l \in targets /\ NeedsJob(l)
<1>1. job' = [l \in Languages |-> IF Got(l) THEN Append(job[l], e) ELSE job[l]]
  BY DEF EnqueueTranslationJobs
<1>2. UNCHANGED <<source, page, worker, crashes, overtaken>>
  BY DEF EnqueueTranslationJobs
<1>3. e \in Job /\ e.status = "queued" /\ e.target = None /\ e.snapshot = Len(source)
  BY DEF Job, JobStatuses, None, JobsIInv, JobsTypeOK
<1>4. \A l \in Languages : job[l] \in Seq(Job) /\ Len(job[l]) \in Nat
  BY DEF JobsIInv, JobsTypeOK
<1>5. \A l \in Languages : Got(l) => \A j \in Rows(l) : job[l][j].status \notin ActiveJobStatuses
  BY DEF NeedsJob, HasActiveJob, Rows
<1> HIDE DEF e, Got
<1>6. \A l \in Languages : ~Got(l) => job'[l] = job[l]
  BY <1>1
<1>7. \A l \in Languages : Got(l) =>
         /\ job'[l] \in Seq(Job) /\ Len(job'[l]) = Len(job[l]) + 1
         /\ job'[l][Len(job[l]) + 1] = e
         /\ \A j \in Rows(l) : job'[l][j] = job[l][j]
  BY <1>1, <1>3, <1>4, SeqExtended DEF Rows
<1>8. \A l \in Languages : \A j \in Rows(l) : j \in Rows(l)' /\ job'[l][j] = job[l][j]
  BY <1>4, <1>6, <1>7 DEF Rows
<1>9. \A l \in Languages : \A j \in Rows(l)' : j \in Rows(l) \/ (Got(l) /\ j = Len(job[l]) + 1 /\ job'[l][j] = e)
  BY <1>4, <1>6, <1>7 DEF Rows
<1>10. JobsTypeOK'
  <2>1. job' \in [Languages -> Seq(Job)]
    BY <1>1, <1>4, <1>6, <1>7
  <2> QED
    BY <1>2, <2>1 DEF JobsIInv, JobsTypeOK
<1>11. ResultsStand'
  <2> SUFFICES ASSUME NEW l \in Languages, NEW j \in Rows(l)'
               PROVE  /\ job'[l][j].status = "completed" => job'[l][j].target # None
                      /\ job'[l][j].target # None =>
                            /\ job'[l][j].target \in 1..Len(page[l])
                            /\ page[l][job'[l][j].target].by = "machine"
                            /\ page[l][job'[l][j].target].from = job'[l][j].snapshot
    BY <1>2 DEF ResultsStand
  <2>1. CASE j \in Rows(l)
    BY <1>8, <2>1 DEF JobsIInv, ResultsStand
  <2>2. CASE job'[l][j] = e
    BY <1>3, <2>2
  <2> QED
    BY <1>9, <2>1, <2>2
<1>12. ActiveIsLast'
  <2> SUFFICES ASSUME NEW l \in Languages, NEW j \in Rows(l)', job'[l][j].status \in ActiveJobStatuses
               PROVE  j = Len(job'[l])
    BY DEF ActiveIsLast
  <2>1. CASE j \in Rows(l)
    <3>1. ~Got(l)
      BY <1>5, <1>8, <2>1
    <3> QED
      BY <1>6, <2>1, <3>1 DEF JobsIInv, ActiveIsLast
  <2>2. CASE Got(l) /\ j = Len(job[l]) + 1
    BY <1>7, <2>2
  <2> QED
    BY <1>9, <2>1, <2>2
<1>13. WorkersHoldJobs'
  <2>1. \A w \in Workers : worker[w].language \in Languages
    BY DEF JobsIInv, JobsTypeOK, Worker
  <2>2. \A w \in Workers : worker[w].step # "idle" => worker[w].job \in Rows(worker[w].language)' /\ JobOf(w)' = JobOf(w)
    BY <1>2, <1>8, <2>1 DEF JobsIInv, WorkersHoldJobs, JobOf
  <2>3. WorkersHoldJobs
    BY DEF JobsIInv
  <2>4. \A w \in Workers : worker[w].step # "idle" =>
            /\ JobOf(w)'.status # "queued"
            /\ worker[w].step \notin {"usage", "mark_failed"} => JobOf(w)'.status = "processing"
    BY <2>2, <2>3 DEF WorkersHoldJobs
  <2> QED
    BY <1>2, <2>2, <2>3, <2>4 DEF WorkersHoldJobs
<1>14. TranslationsMoveForward'
  <2> SUFFICES ASSUME NEW l \in Languages, NEW i \in Rows(l)', NEW j \in Rows(l)',
                      i < j, job'[l][i].target # None, job'[l][j].target # None
               PROVE  job'[l][i].target < job'[l][j].target
    BY DEF TranslationsMoveForward, Rows
  <2>1. i \in Rows(l) /\ j \in Rows(l)
    BY <1>3, <1>9
  <2> QED
    BY <1>8, <2>1 DEF JobsIInv, TranslationsMoveForward, Rows
<1>15. SourceIsRead'
  <2>1. SourceIsRead /\ Len(source) \in Nat
    BY DEF JobsIInv, JobsTypeOK
  <2>2. \A l \in Languages : overtaken[l] \subseteq Rows(l)
    BY <2>1 DEF SourceIsRead, JobsAreOld
  <2>3. JobsAreOld'
    <3>1. \A l \in Languages : \A j \in Rows(l)' : job'[l][j].snapshot <= Len(source)
      BY <1>3, <1>8, <1>9, <2>1 DEF SourceIsRead, JobsAreOld
    <3>2. \A l \in Languages : \A j \in overtaken[l] : j \in Rows(l)' /\ job'[l][j].snapshot < Len(source)
      BY <1>8, <2>1, <2>2 DEF SourceIsRead, JobsAreOld
    <3> QED
      BY <1>2, <3>1, <3>2 DEF JobsAreOld
  <2>4. TextsAreOfTheirJobs'
    <3>1. \A w \in Workers : worker[w].language \in Languages
      BY DEF JobsIInv, JobsTypeOK, Worker
    <3>2. \A w \in Workers : worker[w].step # "idle" => JobOf(w)' = JobOf(w)
      BY <1>2, <1>8, <3>1 DEF JobsIInv, WorkersHoldJobs, JobOf
    <3> QED
      BY <1>2, <2>1, <3>2 DEF SourceIsRead, TextsAreOfTheirJobs
  <2>5. CompletedInTime'
    BY <1>2, <1>3, <1>8, <1>9, <2>1 DEF SourceIsRead, CompletedInTime
  <2> QED
    BY <2>3, <2>4, <2>5 DEF SourceIsRead
<1> QED
  BY <1>10, <1>11, <1>12, <1>13, <1>14, <1>15 DEF JobsIInv

\* A worker that goes on, or leaves, with the tables as they are.
LEMMA WorkerMovesKeepJobsIInv ==
  ASSUME JobsIInv, NEW w \in Workers, NEW x \in Worker,
         UNCHANGED <<source, page, job, overtaken>>, crashes' \in Nat,
         worker' = [worker EXCEPT ![w] = x],
         \/ x.step = "idle"
         \/ /\ worker[w].step # "idle"
            /\ x.language = worker[w].language /\ x.job = worker[w].job
            /\ x.step \in {"usage", "mark_failed"} \/ worker[w].step \notin {"usage", "mark_failed"}
            /\ x.step \in {"translate", "store", "write"} => x.read = JobOf(w).snapshot
            /\ x.step = "write" => x.job \notin overtaken[x.language]
  PROVE  JobsIInv'
<1>1. JobsTypeOK'
  BY DEF JobsIInv, JobsTypeOK
<1>2. ResultsStand' /\ ActiveIsLast' /\ TranslationsMoveForward'
  BY DEF JobsIInv, ResultsStand, ActiveIsLast, TranslationsMoveForward, Rows
<1>3. \A u \in Workers : worker'[u] = IF u = w THEN x ELSE worker[u]
  BY DEF JobsIInv, JobsTypeOK
<1>4. \A u \in Workers : worker'[u].step # "idle" =>
         /\ worker[u].step # "idle"
         /\ worker'[u].language = worker[u].language /\ worker'[u].job = worker[u].job
         /\ worker'[u].step \in {"usage", "mark_failed"} \/ worker[u].step \notin {"usage", "mark_failed"}
  BY <1>3
<1>5. \A u \in Workers : worker'[u].step # "idle" => JobOf(u)' = JobOf(u) /\ Rows(worker[u].language)' = Rows(worker[u].language)
  BY <1>4 DEF JobOf, Rows
<1>6. WorkersHoldJobs'
  <2>1. WorkersHoldJobs
    BY DEF JobsIInv
  <2>2. ASSUME NEW u \in Workers, worker'[u].step # "idle"
        PROVE  /\ worker'[u].job \in Rows(worker[u].language)'
               /\ JobOf(u)'.status # "queued"
               /\ worker'[u].step \notin {"usage", "mark_failed"} => JobOf(u)'.status = "processing"
    <3>1. /\ worker[u].job \in Rows(worker[u].language) /\ JobOf(u).status # "queued"
          /\ worker[u].step \notin {"usage", "mark_failed"} => JobOf(u).status = "processing"
      BY <1>4, <2>1, <2>2 DEF WorkersHoldJobs
    <3> QED
      BY <1>4, <1>5, <2>2, <3>1
  <2>3. \A u, v \in Workers :
          worker'[u].step # "idle" /\ worker'[v].step # "idle"
          /\ worker'[u].language = worker'[v].language /\ worker'[u].job = worker'[v].job
              => u = v
    BY <1>4, <2>1 DEF WorkersHoldJobs
  <2> QED
    BY <2>2, <2>3 DEF WorkersHoldJobs
<1>7. SourceIsRead'
  <2>1. SourceIsRead
    BY DEF JobsIInv
  <2>2. TextsAreOfTheirJobs'
    <3> SUFFICES ASSUME NEW u \in Workers, worker'[u].step \in {"translate", "store", "write"}
                 PROVE  /\ worker'[u].read = JobOf(u)'.snapshot
                        /\ worker'[u].step = "write" => worker'[u].job \notin overtaken[worker'[u].language]
      BY DEF TextsAreOfTheirJobs
    <3>1. JobOf(u)' = JobOf(u)
      BY <1>5
    <3>2. CASE u = w
      BY <1>3, <3>1, <3>2
    <3>3. CASE u # w
      BY <1>3, <2>1, <3>1, <3>3 DEF SourceIsRead, TextsAreOfTheirJobs
    <3> QED
      BY <3>2, <3>3
  <2> QED
    BY <2>1, <2>2 DEF SourceIsRead, JobsAreOld, CompletedInTime, Rows
<1> QED
  BY <1>1, <1>2, <1>6, <1>7 DEF JobsIInv

\* A worker that goes a step on keeps its job.
LEMMA SteppedWorker ==
  ASSUME JobsIInv, NEW w \in Workers, NEW step \in WorkerSteps, WorkerGoesTo(w, step)
  PROVE  \E x \in Worker : /\ worker' = [worker EXCEPT ![w] = x]
                           /\ x.step = step /\ x.language = worker[w].language /\ x.job = worker[w].job
                           /\ x.read = worker[w].read
<1>1. worker[w] \in Worker
  BY DEF JobsIInv, JobsTypeOK
<1> DEFINE x == [worker[w] EXCEPT !.step = step]
<1>2. /\ x \in Worker /\ x.step = step /\ x.language = worker[w].language /\ x.job = worker[w].job
      /\ x.read = worker[w].read
  BY <1>1 DEF Worker
<1>3. worker' = [worker EXCEPT ![w] = x]
  BY DEF WorkerGoesTo
<1> HIDE DEF x
<1> QED
  BY <1>2, <1>3

\* A worker that checks the source goes on or marks the job as stale.
LEMMA CheckKeepsJobsIInv == ASSUME JobsIInv, NEW w \in Workers, CheckSource(w) PROVE JobsIInv'
<1> DEFINE step == IF SourceChanged(w) THEN "mark_stale" ELSE "translate"
           x == [worker[w] EXCEPT !.step = step, !.read = Len(source)]
<1>1. worker[w].step = "check" /\ UNCHANGED <<source, page, job, overtaken>> /\ crashes' \in Nat
  BY DEF CheckSource, WorkerAt, JobsIInv, JobsTypeOK
<1>2. worker[w] \in Worker /\ Len(source) \in Nat
  BY DEF JobsIInv, JobsTypeOK
<1>3. /\ x \in Worker /\ x.language = worker[w].language /\ x.job = worker[w].job
      /\ x.read = Len(source) /\ x.step \in {"mark_stale", "translate"}
      /\ x.step = "translate" => ~SourceChanged(w)
  BY <1>2 DEF Worker, WorkerSteps
<1>4. worker' = [worker EXCEPT ![w] = x]
  BY DEF CheckSource
<1>5. x.step = "translate" => x.read = JobOf(w).snapshot
  BY <1>3 DEF SourceChanged
<1> HIDE DEF x, step
<1>6. PICK y \in Worker : y = x
  BY <1>3
<1> QED
  BY <1>1, <1>3, <1>4, <1>5, <1>6, WorkerMovesKeepJobsIInv

\* The model is called without a transaction.
LEMMA TranslateKeepsJobsIInv == ASSUME JobsIInv, NEW w \in Workers, Translate(w) PROVE JobsIInv'
<1>1. WorkerGoesTo(w, "store") /\ "store" \in WorkerSteps
  BY DEF Translate, WorkerSteps
<1>2. worker[w].step = "translate" /\ UNCHANGED <<source, page, job, overtaken>> /\ crashes' \in Nat
  BY DEF Translate, WorkerAt, JobsIInv, JobsTypeOK
<1>3. worker[w].read = JobOf(w).snapshot
  BY <1>2 DEF JobsIInv, SourceIsRead, TextsAreOfTheirJobs
<1> QED
  BY <1>1, <1>2, <1>3, SteppedWorker, WorkerMovesKeepJobsIInv

\* A job that raises is about to be marked as failed.
LEMMA RaiseKeepsJobsIInv == ASSUME JobsIInv, NEW w \in Workers, JobRaises(w) PROVE JobsIInv'
<1>1. WorkerGoesTo(w, "mark_failed") /\ "mark_failed" \in WorkerSteps
  BY DEF JobRaises, WorkerSteps
<1>2. worker[w].step # "idle" /\ UNCHANGED <<source, page, job, overtaken>> /\ crashes' \in Nat
  BY DEF JobRaises, JobsIInv, JobsTypeOK
<1> QED
  BY <1>1, <1>2, SteppedWorker, WorkerMovesKeepJobsIInv

\* A worker that is done, or dies, leaves its job as it is.
LEMMA LeaveKeepsJobsIInv ==
  ASSUME JobsIInv, NEW w \in Workers, RecordUsage(w) \/ DropJob(w) PROVE JobsIInv'
<1>1. JobLeft(w) /\ UNCHANGED <<source, page, job, overtaken>> /\ crashes' \in Nat
  BY DEF RecordUsage, DropJob, JobsIInv, JobsTypeOK
<1>2. worker' = [worker EXCEPT ![w] = Idle] /\ Idle.step = "idle"
  BY <1>1 DEF JobLeft, Idle
<1> QED
  BY <1>1, <1>2, IdleIsTyped, WorkerMovesKeepJobsIInv

\* One row of the job table becomes r.
RowBecomes(l, k, r) == job' = [job EXCEPT ![l] = [job[l] EXCEPT ![k] = r]]

\* One row of the job table changes.
LEMMA JobRowChanges ==
  ASSUME JobsIInv, NEW l \in Languages, NEW k \in Rows(l), NEW r \in Job, RowBecomes(l, k, r)
  PROVE  /\ job' \in [Languages -> Seq(Job)]
         /\ \A m \in Languages : Len(job'[m]) = Len(job[m]) /\ Rows(m)' = Rows(m)
         /\ job'[l][k] = r
         /\ \A m \in Languages : \A j \in Rows(m) : m # l \/ j # k => job'[m][j] = job[m][j]
<1>1. job \in [Languages -> Seq(Job)] /\ job[l] \in Seq(Job)
  BY DEF JobsIInv, JobsTypeOK
<1> DEFINE s == [job[l] EXCEPT ![k] = r]
<1>2. s \in Seq(Job) /\ Len(s) = Len(job[l]) /\ \A j \in 1..Len(job[l]) : s[j] = IF j = k THEN r ELSE job[l][j]
  BY <1>1, SeqUpdated DEF Rows
<1> HIDE DEF s
<1>3. job' = [job EXCEPT ![l] = s]
  BY DEF s, RowBecomes
<1>4. \A m \in Languages : job'[m] = IF m = l THEN s ELSE job[m]
  BY <1>1, <1>3
<1> QED
  BY <1>1, <1>2, <1>3, <1>4 DEF Rows

\* A job ends without a result, and its worker leaves.
LEMMA EndedKeepsJobsIInv ==
  ASSUME JobsIInv, NEW w \in Workers, worker[w].step # "idle", NEW status \in {"stale_source", "failed"},
         SetStatus(w, status), JobLeft(w), UNCHANGED <<source, page, crashes, overtaken>>
  PROVE  JobsIInv'
<1> DEFINE l == worker[w].language
           k == worker[w].job
           r == [job[l][k] EXCEPT !.status = status]
<1>1. l \in Languages /\ k \in Rows(l) /\ job[l][k] \in Job
  BY DEF JobsIInv, JobsTypeOK, WorkersHoldJobs, Worker, Rows
<1>2. r \in Job /\ r.status = status /\ r.target = job[l][k].target /\ r.snapshot = job[l][k].snapshot
  BY <1>1 DEF Job, JobStatuses
<1>3. job' = [job EXCEPT ![l] = [job[l] EXCEPT ![k] = r]]
  BY DEF SetStatus
<1>4. worker' = [worker EXCEPT ![w] = Idle] /\ Idle.step = "idle"
  BY DEF JobLeft, Idle
<1> HIDE DEF r
<1> SUFFICES ASSUME NEW ll, ll = l, NEW kk, kk = k, NEW rr, rr = r PROVE JobsIInv'
  OBVIOUS
<1>5. ll \in Languages /\ kk \in Rows(ll) /\ RowBecomes(ll, kk, rr) /\ rr \in Job
  BY <1>1, <1>2, <1>3 DEF RowBecomes
<1>6. /\ job' \in [Languages -> Seq(Job)]
      /\ \A m \in Languages : Len(job'[m]) = Len(job[m]) /\ Rows(m)' = Rows(m)
      /\ job'[ll][kk] = rr
      /\ \A m \in Languages : \A j \in Rows(m) : m # ll \/ j # kk => job'[m][j] = job[m][j]
  BY <1>5, JobRowChanges
<1>7. \A m \in Languages : \A j \in Rows(m) : /\ job'[m][j].target = job[m][j].target
                                              /\ job'[m][j].snapshot = job[m][j].snapshot
  BY <1>2, <1>5, <1>6
<1>8. \A m \in Languages : \A j \in Rows(m) : job'[m][j].status = job[m][j].status \/ (job'[m][j].status = status /\ m = ll /\ j = kk)
  BY <1>2, <1>5, <1>6
<1>9. JobsTypeOK'
  BY <1>4, <1>6, IdleIsTyped DEF JobsIInv, JobsTypeOK
<1>10. ResultsStand'
  BY <1>6, <1>7, <1>8 DEF JobsIInv, ResultsStand
<1>11. ActiveIsLast'
  BY <1>6, <1>8 DEF JobsIInv, ActiveIsLast, ActiveJobStatuses
<1>12. TranslationsMoveForward'
  BY <1>6, <1>7 DEF JobsIInv, TranslationsMoveForward, Rows
<1>13. WorkersHoldJobs'
  <2>1. \A u \in Workers : worker'[u] = IF u = w THEN Idle ELSE worker[u]
    BY <1>4 DEF JobsIInv, JobsTypeOK
  <2>2. \A u \in Workers : worker'[u].step # "idle" => u # w /\ worker'[u] = worker[u]
    BY <1>4, <2>1
  <2>3. \A u \in Workers : worker'[u].step # "idle" => JobOf(u)' = JobOf(u) /\ worker[u].language \in Languages
    <3> SUFFICES ASSUME NEW u \in Workers, worker'[u].step # "idle"
                 PROVE  JobOf(u)' = JobOf(u) /\ worker[u].language \in Languages
      OBVIOUS
    <3>1. worker[u].step # "idle" /\ u # w /\ worker'[u] = worker[u]
      BY <2>2
    <3>2. worker[u].language \in Languages /\ worker[u].job \in Rows(worker[u].language)
      BY <3>1 DEF JobsIInv, JobsTypeOK, WorkersHoldJobs, Worker
    <3>3. worker[u].language # ll \/ worker[u].job # kk
      BY <3>1 DEF JobsIInv, WorkersHoldJobs
    <3> QED
      BY <1>6, <3>1, <3>2, <3>3 DEF JobOf
  <2>4. WorkersHoldJobs
    BY DEF JobsIInv
  <2>5. ASSUME NEW u \in Workers, worker'[u].step # "idle"
        PROVE  /\ worker'[u].job \in Rows(worker[u].language)'
               /\ JobOf(u)'.status # "queued"
               /\ worker'[u].step \notin {"usage", "mark_failed"} => JobOf(u)'.status = "processing"
    <3>1. worker'[u] = worker[u] /\ JobOf(u)' = JobOf(u) /\ Rows(worker[u].language)' = Rows(worker[u].language)
      BY <1>6, <2>2, <2>3, <2>5
    <3>2. /\ worker[u].job \in Rows(worker[u].language) /\ JobOf(u).status # "queued"
          /\ worker[u].step \notin {"usage", "mark_failed"} => JobOf(u).status = "processing"
      BY <2>4, <2>5, <3>1 DEF WorkersHoldJobs
    <3> QED
      BY <2>5, <3>1, <3>2
  <2>6. \A u, v \in Workers :
          worker'[u].step # "idle" /\ worker'[v].step # "idle"
          /\ worker'[u].language = worker'[v].language /\ worker'[u].job = worker'[v].job
              => u = v
    BY <2>2, <2>4 DEF WorkersHoldJobs
  <2> QED
    BY <2>5, <2>6 DEF WorkersHoldJobs
<1>14. SourceIsRead'
  <2>1. SourceIsRead
    BY DEF JobsIInv
  <2>2. JobsAreOld'
    BY <1>6, <1>7, <2>1 DEF SourceIsRead, JobsAreOld
  <2>3. CompletedInTime'
    BY <1>6, <1>8, <2>1 DEF SourceIsRead, CompletedInTime
  <2>4. ASSUME NEW u \in Workers, worker'[u].step # "idle"
        PROVE  worker'[u] = worker[u] /\ JobOf(u)'.snapshot = JobOf(u).snapshot
    <3>1. worker'[u] = IF u = w THEN Idle ELSE worker[u]
      BY <1>4 DEF JobsIInv, JobsTypeOK
    <3>2. u # w /\ worker'[u] = worker[u]
      BY <1>4, <2>4, <3>1
    <3>3. worker[u].language \in Languages /\ worker[u].job \in Rows(worker[u].language)
      BY <2>4, <3>2 DEF JobsIInv, JobsTypeOK, WorkersHoldJobs, Worker
    <3> QED
      BY <1>7, <3>2, <3>3 DEF JobOf
  <2>5. TextsAreOfTheirJobs'
    BY <2>1, <2>4 DEF SourceIsRead, TextsAreOfTheirJobs
  <2> QED
    BY <2>2, <2>3, <2>5 DEF SourceIsRead
<1> QED
  BY <1>9, <1>10, <1>11, <1>12, <1>13, <1>14 DEF JobsIInv

\* A job is marked as stale or failed by the worker that holds it.
LEMMA MarksKeepJobsIInv ==
  ASSUME JobsIInv, NEW w \in Workers, MarkStale(w) \/ MarkFailed(w) PROVE JobsIInv'
<1>1. PICK status \in {"stale_source", "failed"} : SetStatus(w, status)
  BY DEF MarkStale, MarkFailed
<1>2. worker[w].step # "idle" /\ JobLeft(w) /\ UNCHANGED <<source, page, crashes, overtaken>>
  BY DEF MarkStale, MarkFailed, WorkerAt
<1> QED
  BY <1>1, <1>2, EndedKeepsJobsIInv

\* The second check of the source comes right before the store.
LEMMA RecheckKeepsJobsIInv ==
  ASSUME JobsIInv, NEW w \in Workers, NEW seen \in LiveVersions(worker[w].language) \cup {None},
         RecheckSource(w, seen)
  PROVE  JobsIInv'
<1>1. worker[w].step = "store" /\ UNCHANGED <<source, page, crashes, overtaken>>
  BY DEF RecheckSource, WorkerAt
<1>2. CASE SetStatus(w, "stale_source") /\ JobLeft(w)
  BY <1>1, <1>2, EndedKeepsJobsIInv
<1>3. CASE ~SourceChanged(w) /\ worker' = [worker EXCEPT ![w].step = "write", ![w].seen = seen] /\ UNCHANGED job
  <2> DEFINE x == [worker[w] EXCEPT !.step = "write", !.seen = seen]
  <2>1. worker[w] \in Worker /\ page[worker[w].language] \in Seq(Version) /\ crashes \in Nat
    BY DEF JobsIInv, JobsTypeOK, Worker
  <2>2. seen \in Nat
    BY <2>1 DEF LiveVersions, None
  <2>3. /\ x \in Worker /\ x.step = "write" /\ x.language = worker[w].language /\ x.job = worker[w].job
        /\ x.read = worker[w].read
    BY <2>1, <2>2 DEF Worker, WorkerSteps
  <2>4. worker' = [worker EXCEPT ![w] = x]
    BY <1>3
  <2> HIDE DEF x
  <2>5. PICK y \in Worker : y = x
    BY <2>3
  <2>6. worker[w].read = JobOf(w).snapshot
    BY <1>1 DEF JobsIInv, SourceIsRead, TextsAreOfTheirJobs
  <2>7. worker[w].job \notin overtaken[worker[w].language]
    <3>1. JobOf(w).snapshot = Len(source) /\ Len(source) \in Nat
      BY <1>3 DEF SourceChanged, JobsIInv, JobsTypeOK
    <3>2. worker[w].language \in Languages
      BY <2>1 DEF Worker
    <3> QED
      BY <3>1, <3>2 DEF JobsIInv, SourceIsRead, JobsAreOld, JobOf
  <2> QED
    BY <1>1, <1>3, <2>1, <2>3, <2>4, <2>5, <2>6, <2>7, WorkerMovesKeepJobsIInv
<1> QED
  BY <1>2, <1>3 DEF RecheckSource

\* A claim takes a queued job, or one whose worker was lost, that nobody holds.
LEMMA ClaimKeepsJobsIInv ==
  ASSUME JobsIInv, NEW w \in Workers, NEW l \in Languages, ClaimJob(w, l) PROVE JobsIInv'
<1>1. job[l] \in Seq(Job) /\ job[l] # <<>> /\ worker[w].step = "idle"
  BY DEF ClaimJob, JobsIInv, JobsTypeOK, WorkerAt
<1> SUFFICES ASSUME NEW k, k = Len(job[l]) PROVE JobsIInv'
  OBVIOUS
<1>2. k \in Rows(l) /\ k \in Nat
  BY <1>1 DEF Rows
<1>3. job[l][k] \in Job /\ job[l][k].status = "queued"
  BY <1>1, <1>2 DEF ClaimJob, LastJob, Rows
<1> SUFFICES ASSUME NEW r, r = [job[l][k] EXCEPT !.status = "processing"],
                    NEW x, x = [step |-> "check", language |-> l, job |-> k, read |-> None, seen |-> None]
             PROVE  JobsIInv'
  OBVIOUS
<1>4. r \in Job /\ r.status = "processing" /\ r.target = job[l][k].target /\ r.snapshot = job[l][k].snapshot
  BY <1>3 DEF Job, JobStatuses
<1>5. x \in Worker /\ x.step = "check" /\ x.language = l /\ x.job = k
  BY <1>2 DEF Worker, WorkerSteps, None
<1>6. RowBecomes(l, k, r)
  BY DEF ClaimJob, RowBecomes
<1>7. worker' = [worker EXCEPT ![w] = x] /\ UNCHANGED <<source, page, crashes, overtaken>>
  BY DEF ClaimJob
<1>8. /\ job' \in [Languages -> Seq(Job)]
      /\ \A m \in Languages : Len(job'[m]) = Len(job[m]) /\ Rows(m)' = Rows(m)
      /\ job'[l][k] = r
      /\ \A m \in Languages : \A j \in Rows(m) : m # l \/ j # k => job'[m][j] = job[m][j]
  BY <1>2, <1>4, <1>6, JobRowChanges
<1>9. \A m \in Languages : \A j \in Rows(m) : /\ job'[m][j].target = job[m][j].target
                                              /\ job'[m][j].snapshot = job[m][j].snapshot
  BY <1>4, <1>8
<1>10. \A m \in Languages : \A j \in Rows(m) :
          job'[m][j].status = job[m][j].status \/ (job'[m][j].status = "processing" /\ m = l /\ j = k)
  BY <1>4, <1>8
<1>11. JobsTypeOK'
  BY <1>5, <1>7, <1>8 DEF JobsIInv, JobsTypeOK
<1>12. ResultsStand'
  BY <1>7, <1>8, <1>9, <1>10 DEF JobsIInv, ResultsStand
<1>13. ActiveIsLast'
  BY <1>8, <1>10 DEF JobsIInv, ActiveIsLast, ActiveJobStatuses
<1>14. TranslationsMoveForward'
  BY <1>8, <1>9 DEF JobsIInv, TranslationsMoveForward, Rows
<1>15. WorkersHoldJobs'
  <2>1. \A u \in Workers : worker'[u] = IF u = w THEN x ELSE worker[u]
    BY <1>7 DEF JobsIInv, JobsTypeOK
  <2>2. ASSUME NEW u \in Workers, worker[u].step # "idle"
        PROVE  /\ u # w /\ worker'[u] = worker[u]
               /\ worker[u].language \in Languages
               /\ worker[u].job \in Rows(worker[u].language)
               /\ worker[u].language # l \/ worker[u].job # k
               /\ JobOf(u)' = JobOf(u)
    <3>1. u # w /\ worker'[u] = worker[u]
      BY <1>1, <2>1, <2>2
    <3>2. /\ worker[u].language \in Languages /\ worker[u].job \in Rows(worker[u].language)
          /\ JobOf(u).status # "queued"
      BY <2>2 DEF JobsIInv, JobsTypeOK, WorkersHoldJobs, Worker
    <3>3. worker[u].language # l \/ worker[u].job # k
      BY <1>3, <3>2 DEF JobOf
    <3>4. job'[worker[u].language][worker[u].job] = job[worker[u].language][worker[u].job]
      BY <1>8, <3>2, <3>3
    <3> QED
      BY <3>1, <3>2, <3>3, <3>4 DEF JobOf
  <2>3. WorkersHoldJobs
    BY DEF JobsIInv
  <2>4. ASSUME NEW u \in Workers, worker'[u].step # "idle"
        PROVE  /\ worker'[u].job \in Rows(worker[u].language)'
               /\ JobOf(u)'.status # "queued"
               /\ worker'[u].step \notin {"usage", "mark_failed"} => JobOf(u)'.status = "processing"
    <3>1. CASE u = w
      <4>1. worker'[u] = x
        BY <2>1, <3>1
      <4>2. JobOf(u)' = r
        BY <1>5, <1>8, <4>1 DEF JobOf
      <4>3. Rows(worker[u].language)' = Rows(l)
        BY <1>5, <1>8, <4>1 DEF Rows
      <4> QED
        BY <1>2, <1>4, <1>5, <4>1, <4>2, <4>3
    <3>2. CASE u # w
      <4>1. worker'[u] = worker[u] /\ worker[u].step # "idle"
        BY <2>1, <2>4, <3>2
      <4>2. Rows(worker[u].language)' = Rows(worker[u].language) /\ JobOf(u)' = JobOf(u)
        BY <1>8, <2>2, <4>1 DEF Rows
      <4>3. /\ worker[u].job \in Rows(worker[u].language) /\ JobOf(u).status # "queued"
            /\ worker[u].step \notin {"usage", "mark_failed"} => JobOf(u).status = "processing"
        BY <2>3, <4>1 DEF WorkersHoldJobs
      <4> QED
        BY <4>1, <4>2, <4>3
    <3> QED
      BY <3>1, <3>2
  <2>5. ASSUME NEW u \in Workers, NEW v \in Workers,
               worker'[u].step # "idle", worker'[v].step # "idle",
               worker'[u].language = worker'[v].language, worker'[u].job = worker'[v].job
        PROVE  u = v
    <3>1. CASE u # w /\ v # w
      BY <2>1, <2>3, <2>5, <3>1 DEF WorkersHoldJobs
    <3>2. \A a \in Workers : a # w /\ worker'[a].step # "idle" => worker'[a].language # l \/ worker'[a].job # k
      BY <2>1, <2>2
    <3> QED
      BY <1>5, <2>1, <2>5, <3>1, <3>2
  <2> QED
    BY <2>4, <2>5 DEF WorkersHoldJobs
<1>16. SourceIsRead'
  <2>1. SourceIsRead
    BY DEF JobsIInv
  <2>2. JobsAreOld'
    <3>1. overtaken' = overtaken /\ source' = source /\ \A m \in Languages : Rows(m)' = Rows(m)
      BY <1>7, <1>8
    <3>2. /\ \A m \in Languages : \A j \in Rows(m) : job'[m][j].snapshot <= Len(source)
          /\ \A m \in Languages : \A j \in overtaken[m] : j \in Rows(m) /\ job'[m][j].snapshot < Len(source)
      BY <1>9, <2>1 DEF SourceIsRead, JobsAreOld
    <3> QED
      BY <3>1, <3>2 DEF JobsAreOld
  <2>5. \A m \in Languages : \A j \in Rows(m) :
           job'[m][j].status = "completed" => job[m][j].status = "completed"
    BY <1>10
  <2>6. CompletedInTime'
    <3>1. overtaken' = overtaken
      BY <1>7
    <3>2. \A m \in Languages : \A j \in Rows(m) : job[m][j].status = "completed" => j \notin overtaken[m]
      BY <2>1 DEF SourceIsRead, CompletedInTime
    <3>3. \A m \in Languages : Rows(m)' = Rows(m)
      BY <1>8
    <3>4. \A m \in Languages : \A j \in Rows(m)' : job'[m][j].status = "completed" => j \notin overtaken'[m]
      BY <2>5, <3>1, <3>2, <3>3
    <3> QED
      BY <3>4 DEF CompletedInTime
  <2>3. ASSUME NEW u \in Workers, worker'[u].step \in {"translate", "store", "write"}
        PROVE  worker'[u] = worker[u] /\ JobOf(u)'.snapshot = JobOf(u).snapshot
    <3>1. worker'[u] = IF u = w THEN x ELSE worker[u]
      BY <1>7 DEF JobsIInv, JobsTypeOK
    <3>2. worker'[u] = worker[u]
      BY <1>5, <2>3, <3>1
    <3>3. worker[u].language \in Languages /\ worker[u].job \in Rows(worker[u].language)
      BY <2>3, <3>2 DEF JobsIInv, JobsTypeOK, WorkersHoldJobs, Worker
    <3> QED
      BY <1>9, <3>2, <3>3 DEF JobOf
  <2>4. TextsAreOfTheirJobs'
    BY <1>7, <2>1, <2>3 DEF SourceIsRead, TextsAreOfTheirJobs
  <2> QED
    BY <2>2, <2>6, <2>4 DEF SourceIsRead
<1> QED
  BY <1>11, <1>12, <1>13, <1>14, <1>15, <1>16 DEF JobsIInv

\* What is stored is a machine text of the version the job was made for.
LEMMA StoredIsTyped ==
  ASSUME JobsIInv, NEW w \in Workers, StoreTranslation(w)
  PROVE  /\ StoredVersion(w) \in Version
         /\ StoredVersion(w).by = "machine" /\ StoredVersion(w).from = JobOf(w).snapshot
         /\ JobOf(w) \in Job /\ JobOf(w).status = "processing"
         /\ worker[w].language \in Languages /\ worker[w].job \in Rows(worker[w].language)
<1>1. /\ worker[w] \in Worker /\ worker[w].job \in Rows(worker[w].language)
      /\ JobOf(w).status = "processing"
  BY DEF StoreTranslation, WorkerAt, JobsIInv, JobsTypeOK, WorkersHoldJobs
<1>2. worker[w].language \in Languages
  BY <1>1 DEF Worker
<1>3. JobOf(w) \in Job /\ JobOf(w).snapshot \in Nat
  <2>1. job[worker[w].language] \in Seq(Job)
    BY <1>2 DEF JobsIInv, JobsTypeOK
  <2>2. JobOf(w) \in Job
    BY <1>1, <2>1 DEF JobOf, Rows
  <2> QED
    BY <2>2 DEF Job
<1>a. worker[w].read = JobOf(w).snapshot
  BY DEF StoreTranslation, WorkerAt, JobsIInv, SourceIsRead, TextsAreOfTheirJobs
<1> DEFINE st == IF FoundTranslation(w) THEN page[worker[w].language][worker[w].seen].status ELSE "draft"
<1>4. st \in PageStatuses
  <2>1. CASE FoundTranslation(w)
    <3>1. page[worker[w].language] \in Seq(Version)
      BY <1>2 DEF JobsIInv, JobsTypeOK
    <3>2. page[worker[w].language][worker[w].seen] \in Version
      BY <2>1, <3>1 DEF FoundTranslation, LiveVersions
    <3> QED
      BY <2>1, <3>2 DEF Version
  <2> QED
    BY <2>1 DEF PageStatuses
<1> HIDE DEF st
<1>5. [by |-> "machine", from |-> JobOf(w).snapshot, live |-> TRUE, status |-> st] \in Version
  BY <1>3, <1>4 DEF Version
<1>6. StoredVersion(w) = [by |-> "machine", from |-> JobOf(w).snapshot, live |-> TRUE, status |-> st]
  BY <1>a DEF StoredVersion, st
<1> QED
  BY <1>1, <1>2, <1>3, <1>5, <1>6

\* The translation and the completion of the job are one transaction.
LEMMA StoreKeepsJobsIInv ==
  ASSUME JobsIInv, NEW w \in Workers, StoreTranslation(w) PROVE JobsIInv'
<1> SUFFICES ASSUME NEW l, l = worker[w].language, NEW k, k = worker[w].job,
                    NEW e, e = StoredVersion(w), NEW n, n = Len(page[l]),
                    NEW old, old = IF FoundTranslation(w) THEN Retired(page[l], worker[w].seen) ELSE page[l],
                    NEW r, r = [job[l][k] EXCEPT !.status = "completed", !.target = n + 1]
             PROVE  JobsIInv'
  OBVIOUS
<1>1. /\ e \in Version /\ e.by = "machine" /\ e.from = job[l][k].snapshot
      /\ l \in Languages /\ k \in Rows(l) /\ job[l][k] \in Job /\ job[l][k].status = "processing"
  BY StoredIsTyped DEF JobOf
<1>2. page[l] \in Seq(Version) /\ n \in Nat /\ n + 1 \in Nat /\ n + 1 # None
  BY <1>1 DEF JobsIInv, JobsTypeOK, None
<1>3. r \in Job /\ r.status = "completed" /\ r.target = n + 1 /\ r.snapshot = job[l][k].snapshot
  BY <1>1, <1>2 DEF Job, JobStatuses
<1>4. RowBecomes(l, k, r)
  <2>1. job' = [job EXCEPT ![l][k] = [@ EXCEPT !.status = "completed", !.target = n + 1]]
    BY DEF StoreTranslation, StoredRow
  <2> QED
    BY <2>1 DEF RowBecomes
<1>5. /\ job' \in [Languages -> Seq(Job)]
      /\ \A m \in Languages : Len(job'[m]) = Len(job[m]) /\ Rows(m)' = Rows(m)
      /\ job'[l][k] = r
      /\ \A m \in Languages : \A j \in Rows(m) : m # l \/ j # k => job'[m][j] = job[m][j]
  BY <1>1, <1>3, <1>4, JobRowChanges
<1>6. /\ old \in Seq(Version) /\ Len(old) = n
      /\ \A v \in 1..n : old[v].by = page[l][v].by /\ old[v].from = page[l][v].from
  <2>1. CASE FoundTranslation(w)
    <3>1. worker[w].seen \in 1..Len(page[l])
      BY <2>1 DEF FoundTranslation, LiveVersions
    <3> QED
      BY <1>2, <2>1, <3>1, RetiredRows
  <2>2. CASE ~FoundTranslation(w)
    BY <1>2, <2>2
  <2> QED
    BY <2>1, <2>2
<1>7. /\ Append(old, e) \in Seq(Version) /\ Len(Append(old, e)) = n + 1
      /\ Append(old, e)[n + 1] = e
      /\ \A v \in 1..n : Append(old, e)[v] = old[v]
  BY <1>1, <1>6, SeqExtended
<1>8. page' = [page EXCEPT ![l] = Append(old, e)]
  BY DEF StoreTranslation
<1>9. \A m \in Languages : page'[m] = IF m = l THEN Append(old, e) ELSE page[m]
  BY <1>8 DEF JobsIInv, JobsTypeOK
<1>10. /\ page' \in [Languages -> Seq(Version)]
       /\ page'[l] = Append(old, e)
       /\ \A m \in Languages : \A v \in 1..Len(page[m]) :
             /\ v \in 1..Len(page'[m])
             /\ page'[m][v].by = page[m][v].by /\ page'[m][v].from = page[m][v].from
  <2>1. page' \in [Languages -> Seq(Version)]
    BY <1>7, <1>8 DEF JobsIInv, JobsTypeOK
  <2>2. page'[l] = Append(old, e)
    BY <1>1, <1>9
  <2>3. ASSUME NEW m \in Languages, NEW v \in 1..Len(page[m])
        PROVE  /\ v \in 1..Len(page'[m])
               /\ page'[m][v].by = page[m][v].by /\ page'[m][v].from = page[m][v].from
    <3>1. CASE m = l
      BY <1>2, <1>6, <1>7, <2>2, <2>3, <3>1
    <3>2. CASE m # l
      BY <1>9, <2>3, <3>2
    <3> QED
      BY <3>1, <3>2
  <2> QED
    BY <2>1, <2>2, <2>3
<1>11. PICK x \in Worker : /\ worker' = [worker EXCEPT ![w] = x]
                           /\ x.step = "usage" /\ x.language = l /\ x.job = k
  BY SteppedWorker DEF StoreTranslation, WorkerSteps
<1>12. UNCHANGED <<source, crashes, overtaken>>
  BY DEF StoreTranslation
<1>13. JobsTypeOK'
  BY <1>5, <1>10, <1>11, <1>12 DEF JobsIInv, JobsTypeOK
<1>14. ResultsStand'
  <2> SUFFICES ASSUME NEW m \in Languages, NEW j \in Rows(m)
               PROVE  /\ job'[m][j].status = "completed" => job'[m][j].target # None
                      /\ job'[m][j].target # None =>
                            /\ job'[m][j].target \in 1..Len(page'[m])
                            /\ page'[m][job'[m][j].target].by = "machine"
                            /\ page'[m][job'[m][j].target].from = job'[m][j].snapshot
    BY <1>5 DEF ResultsStand
  <2>1. CASE m = l /\ j = k
    <3>1. job'[m][j] = r /\ page'[m] = Append(old, e)
      BY <1>5, <1>10, <2>1
    <3>2. n + 1 \in 1..Len(Append(old, e))
      BY <1>2, <1>7
    <3> QED
      BY <1>1, <1>2, <1>3, <1>7, <3>1, <3>2
  <2>2. CASE m # l \/ j # k
    <3>1. job'[m][j] = job[m][j]
      BY <1>5, <2>2
    <3>2. /\ job[m][j].status = "completed" => job[m][j].target # None
          /\ job[m][j].target # None =>
                /\ job[m][j].target \in 1..Len(page[m])
                /\ page[m][job[m][j].target].by = "machine"
                /\ page[m][job[m][j].target].from = job[m][j].snapshot
      BY DEF JobsIInv, ResultsStand
    <3> QED
      BY <1>10, <3>1, <3>2
  <2> QED
    BY <2>1, <2>2
<1>15. ActiveIsLast'
  <2>1. \A m \in Languages : \A j \in Rows(m) :
          job'[m][j].status \in ActiveJobStatuses => job'[m][j] = job[m][j]
    BY <1>3, <1>5 DEF ActiveJobStatuses
  <2> QED
    BY <1>5, <2>1 DEF JobsIInv, ActiveIsLast
<1>16. TranslationsMoveForward'
  <2> SUFFICES ASSUME NEW m \in Languages, NEW i \in Rows(m), NEW j \in Rows(m),
                      i < j, job'[m][i].target # None, job'[m][j].target # None
               PROVE  job'[m][i].target < job'[m][j].target
    BY <1>5 DEF TranslationsMoveForward, Rows
  <2>1. k = Len(job[l])
    BY <1>1 DEF JobsIInv, ActiveIsLast, ActiveJobStatuses
  <2>2. m # l \/ i # k
    BY <1>1, <2>1 DEF JobsIInv, JobsTypeOK, Rows
  <2>3. job'[m][i] = job[m][i]
    BY <1>5, <2>2
  <2>4. CASE m = l /\ j = k
    <3>1. job[l][i].target \in 1..n
      BY <2>3, <2>4 DEF JobsIInv, ResultsStand
    <3> QED
      <4>1. job'[m][i].target = job[l][i].target /\ job'[m][j].target = n + 1
        BY <1>3, <1>5, <2>3, <2>4
      <4> QED
        BY <1>2, <3>1, <4>1
  <2>5. CASE m # l \/ j # k
    BY <1>5, <2>3, <2>5 DEF JobsIInv, TranslationsMoveForward, Rows
  <2> QED
    BY <2>4, <2>5
<1>17. WorkersHoldJobs'
  <2>1. \A u \in Workers : worker'[u] = IF u = w THEN x ELSE worker[u]
    BY <1>11 DEF JobsIInv, JobsTypeOK
  <2>2. worker[w].step = "write"
    BY DEF StoreTranslation, WorkerAt
  <2>3. WorkersHoldJobs
    BY DEF JobsIInv
  <2>4. ASSUME NEW u \in Workers, worker'[u].step # "idle"
        PROVE  /\ worker'[u].job \in Rows(worker[u].language)'
               /\ JobOf(u)'.status # "queued"
               /\ worker'[u].step \notin {"usage", "mark_failed"} => JobOf(u)'.status = "processing"
    <3>1. CASE u = w
      <4>1. worker'[u] = x
        BY <2>1, <3>1
      <4>2. JobOf(u)' = r
        BY <1>5, <1>11, <4>1 DEF JobOf
      <4>3. Rows(worker[u].language)' = Rows(l)
        BY <1>1, <1>5, <1>11, <4>1 DEF Rows
      <4> QED
        BY <1>1, <1>3, <1>11, <4>1, <4>2, <4>3
    <3>2. CASE u # w
      <4>1. worker'[u] = worker[u] /\ worker[u].step # "idle" /\ worker[u].language \in Languages
        BY <2>1, <2>4, <3>2 DEF JobsIInv, JobsTypeOK, Worker
      <4>2. worker[u].language # l \/ worker[u].job # k
        BY <2>2, <2>3, <3>2, <4>1 DEF WorkersHoldJobs
      <4>3. /\ worker[u].job \in Rows(worker[u].language) /\ JobOf(u).status # "queued"
            /\ worker[u].step \notin {"usage", "mark_failed"} => JobOf(u).status = "processing"
        BY <2>3, <4>1 DEF WorkersHoldJobs
      <4>4. Rows(worker[u].language)' = Rows(worker[u].language) /\ JobOf(u)' = JobOf(u)
        BY <1>5, <4>1, <4>2, <4>3 DEF Rows, JobOf
      <4> QED
        BY <4>1, <4>3, <4>4
    <3> QED
      BY <3>1, <3>2
  <2>5. \A u, v \in Workers :
          worker'[u].step # "idle" /\ worker'[v].step # "idle"
          /\ worker'[u].language = worker'[v].language /\ worker'[u].job = worker'[v].job
              => u = v
    <3>1. \A u \in Workers : worker'[u].step # "idle" =>
             /\ worker[u].step # "idle" /\ worker'[u].language = worker[u].language
             /\ worker'[u].job = worker[u].job
      BY <1>11, <2>1, <2>2
    <3> QED
      BY <2>3, <3>1 DEF WorkersHoldJobs
  <2> QED
    BY <2>4, <2>5 DEF WorkersHoldJobs
<1>18. SourceIsRead'
  <2>1. SourceIsRead
    BY DEF JobsIInv
  <2>2. k \notin overtaken[l]
    BY <2>1 DEF StoreTranslation, WorkerAt, SourceIsRead, TextsAreOfTheirJobs
  <2>3. \A m \in Languages : \A j \in Rows(m) : job'[m][j].snapshot = job[m][j].snapshot
    BY <1>1, <1>3, <1>5
  <2>4. JobsAreOld' /\ CompletedInTime'
    BY <1>5, <1>12, <2>1, <2>2, <2>3 DEF SourceIsRead, JobsAreOld, CompletedInTime
  <2>5. ASSUME NEW u \in Workers, worker'[u].step \in {"translate", "store", "write"}
        PROVE  worker'[u] = worker[u] /\ JobOf(u)'.snapshot = JobOf(u).snapshot
    <3>1. worker'[u] = IF u = w THEN x ELSE worker[u]
      BY <1>11 DEF JobsIInv, JobsTypeOK
    <3>2. worker'[u] = worker[u]
      BY <1>11, <2>5, <3>1
    <3>3. worker[u].language \in Languages /\ worker[u].job \in Rows(worker[u].language)
      BY <2>5, <3>2 DEF JobsIInv, JobsTypeOK, WorkersHoldJobs, Worker
    <3> QED
      BY <2>3, <3>2, <3>3 DEF JobOf
  <2>6. TextsAreOfTheirJobs'
    BY <1>12, <2>1, <2>5 DEF SourceIsRead, TextsAreOfTheirJobs
  <2> QED
    BY <2>4, <2>6 DEF SourceIsRead
<1> QED
  BY <1>13, <1>14, <1>15, <1>16, <1>17, <1>18 DEF JobsIInv

\* Every step of the editors and the workers keeps the invariant.
LEMMA JobsNextKeepsJobsIInv == JobsIInv /\ [JobsNext]_jobs => JobsIInv'
<1> SUFFICES ASSUME JobsIInv, [JobsNext]_jobs PROVE JobsIInv'
  OBVIOUS
<1>1. CASE EditorStep
  BY <1>1, SaveSourceKeepsJobsIInv, CreateTranslationKeepsJobsIInv, SaveTranslationKeepsJobsIInv,
     PublishKeepsJobsIInv, EnqueueKeepsJobsIInv DEF EditorStep
<1>2. ASSUME NEW w \in Workers, WorkerStep(w) \/ DropJob(w) PROVE JobsIInv'
  <2>1. CASE DropJob(w)
    BY <2>1, LeaveKeepsJobsIInv
  <2>2. CASE \E l \in Languages : ClaimJob(w, l)
    BY <2>2, ClaimKeepsJobsIInv
  <2>3. CASE CheckSource(w)
    BY <2>3, CheckKeepsJobsIInv
  <2>4. CASE MarkStale(w) \/ MarkFailed(w)
    BY <2>4, MarksKeepJobsIInv
  <2>5. CASE Translate(w)
    BY <2>5, TranslateKeepsJobsIInv
  <2>6. CASE \E seen \in LiveVersions(worker[w].language) \cup {None} : RecheckSource(w, seen)
    BY <2>6, RecheckKeepsJobsIInv
  <2>7. CASE StoreTranslation(w)
    BY <2>7, StoreKeepsJobsIInv
  <2>8. CASE RecordUsage(w)
    BY <2>8, LeaveKeepsJobsIInv
  <2>9. CASE JobRaises(w)
    BY <2>9, RaiseKeepsJobsIInv
  <2> QED
    BY <1>2, <2>1, <2>2, <2>3, <2>4, <2>5, <2>6, <2>7, <2>8, <2>9 DEF WorkerStep
<1>3. CASE UNCHANGED jobs
  BY <1>3 DEF jobs, JobsIInv, JobsTypeOK, ResultsStand, ActiveIsLast, WorkersHoldJobs,
              TranslationsMoveForward, Rows, JobOf, SourceIsRead, JobsAreOld, TextsAreOfTheirJobs,
              CompletedInTime
<1> QED
  BY <1>1, <1>2, <1>3 DEF JobsNext

\* The invariant holds in every state of the translation jobs.
THEOREM JobsInductive == JobsSpec => []JobsIInv
BY JobsInitHolds, JobsNextKeepsJobsIInv, PTL DEF JobsSpec

\* The rows of pages, translations and jobs keep their types (src/content/
\* translation jobs).
THEOREM JobsTypeCorrect == JobsSpec => []JobsTypeOK
<1>1. JobsIInv => JobsTypeOK
  BY DEF JobsIInv
<1> QED
  BY <1>1, JobsInductive, PTL

\* A completed job names a stored version, that version is the machine's text of
\* the source version the job was made for, and no save of the source overtook
\* the job before the storing transaction looked again, whatever the editors, the
\* other workers and lost workers do.
THEOREM LabelsTellTheTruth == JobsSpec => []LabelsAreTrue
BY JobsImply, JobsInductive, PTL

\* A worker that is late never writes over the result of a later request: the
\* stored translations of a language follow the order of their jobs, for any
\* number of editors, workers and crashes.
THEOREM TranslationsAreInOrder == JobsSpec => []TranslationsMoveForward
<1>1. JobsIInv => TranslationsMoveForward
  BY DEF JobsIInv
<1> QED
  BY <1>1, JobsInductive, PTL

\* A step of one worker leaves the others where they are.
LEMMA WorkerSteppedAlone ==
  ASSUME NEW u \in Workers, WorkerStep(u) \/ DropJob(u)
  PROVE  \E x : worker' = [worker EXCEPT ![u] = x]
BY DEF WorkerStep, DropJob, ClaimJob, CheckSource, MarkStale, Translate, RecheckSource, StoreTranslation,
       RecordUsage, JobRaises, MarkFailed, JobLeft, WorkerGoesTo

\* A worker that leaves a published version behind has replaced a published
\* one.
LEMMA StepNeedsAnEditor ==
  ASSUME JobsIInv, [JobsNext]_jobs, NEW w \in Workers, NEW l \in Languages,
         WorkerAt(w, "write"), worker'[w].step = "usage", worker[w].language = l,
         page'[l][Len(page'[l])].status = "published"
  PROVE  \E v \in LiveVersions(l) : page[l][v].status = "published" /\ ~page'[l][v].live
<1>1. StoreTranslation(w)
  <2>1. worker # worker'
    BY DEF WorkerAt
  <2>2. worker \in [Workers -> Worker]
    BY DEF JobsIInv, JobsTypeOK
  <2>3. ~EditorStep
    BY <2>1 DEF EditorStep, SaveSource, CreateTranslation, SaveTranslation, PublishTranslatedDrafts, EnqueueTranslationJobs
  <2>4. PICK u \in Workers : WorkerStep(u) \/ DropJob(u)
    BY <2>1, <2>3 DEF JobsNext, jobs
  <2>5. u = w
    <3>1. \E x : worker' = [worker EXCEPT ![u] = x]
      BY <2>4, WorkerSteppedAlone
    <3> QED
      BY <2>2, <3>1 DEF WorkerAt
  <2> QED
    <3>1. ~JobLeft(w)
      BY <2>2 DEF JobLeft, Idle
    <3>2. \A step : WorkerGoesTo(w, step) => step = "usage"
      BY <2>2 DEF WorkerGoesTo
    <3>3. ~DropJob(w) /\ ~MarkStale(w) /\ ~RecordUsage(w) /\ ~MarkFailed(w)
      BY <3>1 DEF DropJob, MarkStale, RecordUsage, MarkFailed
    <3>4. ~Translate(w) /\ ~JobRaises(w) /\ ~CheckSource(w)
      BY <3>2 DEF Translate, JobRaises, CheckSource, WorkerAt
    <3>5. \A k \in Languages : ~ClaimJob(w, k)
      BY DEF ClaimJob, WorkerAt
    <3>6. \A seen : ~RecheckSource(w, seen)
      BY DEF RecheckSource, WorkerAt
    <3> QED
      BY <2>4, <2>5, <3>3, <3>4, <3>5, <3>6 DEF WorkerStep
<1> DEFINE v == worker[w].seen
           old == IF FoundTranslation(w) THEN Retired(page[l], v) ELSE page[l]
           e == StoredVersion(w)
<1>2. page \in [Languages -> Seq(Version)] /\ page[l] \in Seq(Version)
  BY DEF JobsIInv, JobsTypeOK
<1>3. page'[l] = Append(old, e)
  BY <1>1, <1>2 DEF StoreTranslation
<1>4. old \in Seq(Version) /\ Len(old) = Len(page[l])
  BY <1>2, RetiredRows DEF FoundTranslation, LiveVersions
<1>5. e \in Version
  BY <1>1, StoredIsTyped
<1> HIDE DEF e, old
<1>6. page'[l][Len(page'[l])] = e
  BY <1>3, <1>4, <1>5, SeqExtended
<1>7. e.status = "published"
  BY <1>6
<1>8. FoundTranslation(w) /\ page[l][v].status = "published"
  BY <1>7 DEF e, StoredVersion
<1>9. v \in LiveVersions(l) /\ v \in 1..Len(page[l])
  BY <1>8 DEF FoundTranslation, LiveVersions
<1>10. old = Retired(page[l], v)
  BY <1>8 DEF old
<1>11. ~page'[l][v].live
  BY <1>2, <1>3, <1>4, <1>5, <1>9, <1>10, RetiredRows, SeqExtended
<1> QED
  BY <1>8, <1>9, <1>11

\* A worker never publishes a machine text that no editor has published: a
\* version it stores is published only in the place of a published one.
THEOREM MachineTextIsNotPublishedAlone == JobsSpec => MachineTextNeedsAnEditor
<1>1. JobsIInv /\ [JobsNext]_jobs =>
        [\A w \in Workers, l \in Languages :
          WorkerAt(w, "write") /\ worker'[w].step = "usage" /\ worker[w].language = l =>
             (page'[l][Len(page'[l])].status = "published" =>
                \E v \in LiveVersions(l) :
                    page[l][v].status = "published" /\ ~page'[l][v].live)]_jobs
  BY StepNeedsAnEditor
<1> QED
  BY <1>1, JobsInductive, PTL DEF JobsSpec, MachineTextNeedsAnEditor

=============================================================================
