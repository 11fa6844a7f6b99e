------------------------------- MODULE Trades -------------------------------
(***************************************************************************)
(* Trades of one owner: the trade row with its current version, the         *)
(* publication on the market, and the alerts that go to users interested in *)
(* its material.                                                            *)
(*                                                                         *)
(* A request of the owner is one transaction that waits for the lock of the *)
(* trade row, followed, when the trade may have become news, by a round of  *)
(* alerts outside of it: a read of the trade, and for every recipient a      *)
(* delivery row, a provider call and a mark, each on its own.               *)
(***************************************************************************)
EXTENDS Naturals, FiniteSets

CONSTANTS
    Trades,        \* ids of trade rows
    Requests,      \* calls of the owner in flight
    Materials,     \* material keys
    NoKey,         \* the material text matches no key
    Recipients,    \* users other than the owner
    Interests,     \* pairs of a recipient and a material key
    Reachable,     \* recipients with an e-mail or WhatsApp route
    Projections,   \* terms the analysis of a message may leave in a first version
    Edits,         \* terms an edit of the owner may leave behind
    MaxVersions,   \* bound: versions of a trade
    MaxCuts        \* bound: alert rounds that raise or whose process dies

ConfirmationStatuses == {"draft", "needs_more_detail", "pending_confirmation",
                         "confirmed", "under_revision", "rejected"}
TradeStatuses == {"draft", "open", "archived"}
\* A shareable trade takes the branches of a public one in everything below; the
\* list of the market alone leaves it out.
Visibilities == {"private", "public"}
PublicationStatuses == {"none", "active", "withdrawn"}
DeliveryStatuses == {"none", "pending", "sent", "skipped", "failed"}
Kinds == {"confirm", "reject", "edit", "visibility"}
Steps == {"idle", "lock", "context", "next", "send", "mark"}

\* complete: side and material name are both there
Terms == [confirmation : ConfirmationStatuses, status : TradeStatuses,
          complete : BOOLEAN, material : Materials \cup {NoKey}]

ASSUME TradesAssumption ==
    /\ Trades # {} /\ Recipients # {}
    /\ NoKey \notin Materials
    /\ Interests \subseteq Recipients \X Materials
    /\ Reachable \subseteq Recipients
    /\ Projections \subseteq {terms \in Terms :
          /\ terms.status = "draft"
          /\ terms.confirmation \in {"needs_more_detail", "pending_confirmation"}}
    /\ Edits \subseteq Terms
    /\ MaxVersions \in Nat \ {0}
    /\ MaxCuts \in Nat

VARIABLES
    stored,     \* trades that have a row
    trade,      \* the row: version numbers, the terms of the current one, publication
    delivery,   \* rows of stephen_dcx_trade_interest_alert_deliveries
    req,        \* what each request is doing
    alerts,     \* history: external messages that reached a recipient
    offered,    \* history: trades that were on offer, with the material
    cut         \* history: trades whose alert round was cut off

tradeVars == <<stored, trade, delivery, req, alerts, offered, cut>>

\* last numbers the versions, current is the pointer of the trade row
Row == [last : Nat, current : Nat, live : SUBSET Nat, terms : Terms,
        visibility : Visibilities, publication : PublicationStatuses]

\* seen is the version the locking statement joined before it had to wait
Request == [step : Steps, kind : Kinds, trade : Trades, seen : Nat,
            material : Materials \cup {NoKey}, todo : SUBSET Recipients,
            recipient : Recipients, result : DeliveryStatuses]

AlertKeys == Trades \X Recipients \X Materials

TradesTypeOK ==
    /\ stored \subseteq Trades
    /\ trade \in [Trades -> Row]
    /\ delivery \in [AlertKeys -> DeliveryStatuses]
    /\ req \in [Requests -> Request]
    /\ alerts \in [AlertKeys -> Nat]
    /\ offered \subseteq Trades \X Materials
    /\ cut \subseteq Trades

FirstVersion(terms) ==
    [last |-> 1, current |-> 1, live |-> {1}, terms |-> terms,
     visibility |-> "private", publication |-> "none"]

IdleRequest ==
    [step |-> "idle", kind |-> "confirm", trade |-> CHOOSE t \in Trades : TRUE,
     seen |-> 0, material |-> NoKey, todo |-> {},
     recipient |-> CHOOSE u \in Recipients : TRUE, result |-> "none"]

NoTradeYet ==
    /\ delivery = [k \in AlertKeys |-> "none"]
    /\ req = [r \in Requests |-> IdleRequest]
    /\ alerts = [k \in AlertKeys |-> 0]
    /\ offered = {}
    /\ cut = {}

TradesInit ==
    /\ stored = Trades
    /\ trade \in [Trades -> {FirstVersion(terms) : terms \in Projections}]
    /\ NoTradeYet

-----------------------------------------------------------------------------
(* The owner's requests                                                     *)

At(r, step) == req[r].step = step
TradeOf(r) == trade[req[r].trade]
TermsOf(r) == TradeOf(r).terms
GoTo(r, step) == req' = [req EXCEPT ![r].step = step]
Finish(r) == req' = [req EXCEPT ![r] = IdleRequest]

Waiting(t) ==
    {r \in Requests : At(r, "lock") /\ req[r].trade = t /\ req[r].kind # "visibility"}

\* The locking statement starts; its join is over what is committed now.
Submit(r, t, kind) ==
    /\ At(r, "idle")
    /\ t \in stored
    /\ kind = "visibility" \/ trade[t].last + Cardinality(Waiting(t)) < MaxVersions
    /\ req' = [req EXCEPT ![r] = [IdleRequest EXCEPT !.step = "lock", !.kind = kind,
                                                     !.trade = t, !.seen = trade[t].current]]
    /\ UNCHANGED <<stored, trade, delivery, alerts, offered, cut>>

\* Once the lock is granted the join is evaluated again on the new rows: the
\* version joined before is no longer the current one when another request
\* replaced it meanwhile. Setting the visibility locks the trade row alone.
Found(r) ==
    /\ At(r, "lock")
    /\ req[r].trade \in stored
    /\ req[r].kind = "visibility" \/ TradeOf(r).current = req[r].seen

\* The answer is "not found", also for a trade that is there.
NotFound(r) ==
    /\ At(r, "lock")
    /\ ~Found(r)
    /\ Finish(r)
    /\ UNCHANGED <<stored, trade, delivery, alerts, offered, cut>>

ConfirmedAndOpen(terms) == terms.confirmation = "confirmed" /\ terms.status = "open"

OnOffer(row) ==
    /\ ConfirmedAndOpen(row.terms)
    /\ row.visibility # "private"
    /\ row.publication = "active"

\* Writes the trade of a request, and the history of what was on offer with it.
WriteTrade(r, row) ==
    /\ trade' = [trade EXCEPT ![req[r].trade] = row]
    /\ offered' = offered \cup {<<req[r].trade, m>> : m \in {x \in Materials :
                                    OnOffer(row) /\ x = row.terms.material}}
    /\ UNCHANGED <<stored, delivery, alerts, cut>>

Bug_PointerStays(row, seen, terms) ==
    [row EXCEPT !.last = @ + 1, !.live = (@ \ {seen}) \cup {row.last + 1}, !.terms = terms]

NextVersion(row, seen, terms) ==
    [row EXCEPT !.last = @ + 1, !.current = row.last + 1,
                !.live = (@ \ {seen}) \cup {row.last + 1}, !.terms = terms]

\* A unique index refuses a second live version.
Promote(r, terms) ==
    LET row == NextVersion(TradeOf(r), req[r].seen, terms)
    IN  Cardinality(row.live) = 1 /\ WriteTrade(r, row)

Confirmable(terms) ==
    /\ terms.confirmation # "rejected"
    /\ ~ConfirmedAndOpen(terms)
    /\ terms.complete

Confirm(r) ==
    /\ Found(r)
    /\ req[r].kind = "confirm"
    /\ Confirmable(TermsOf(r))
    /\ Promote(r, [TermsOf(r) EXCEPT !.confirmation = "confirmed", !.status = "open"])
    /\ GoTo(r, "context")

\* The publication of a rejected trade is left as it is.
Reject(r) ==
    /\ Found(r)
    /\ req[r].kind = "reject"
    /\ TermsOf(r).confirmation # "rejected"
    /\ Promote(r, [TermsOf(r) EXCEPT !.confirmation = "rejected", !.status = "archived"])
    /\ Finish(r)

Bug_EditsAreNotNews(terms) == FALSE

EditIsNews(terms) == ConfirmedAndOpen(terms)

\* Both statuses are fields an edit may carry, whatever they were before; an
\* edit of other fields, a price say, is a new version with the same terms.
Edit(r, terms) ==
    /\ Found(r)
    /\ req[r].kind = "edit"
    /\ Promote(r, terms)
    /\ IF EditIsNews(terms) THEN GoTo(r, "context") ELSE Finish(r)

\* Refused, or nothing to change; the transaction writes nothing.
LeaveTrade(r) ==
    /\ Found(r)
    /\ \/ req[r].kind = "confirm" /\ ~Confirmable(TermsOf(r))
       \/ req[r].kind = "reject" /\ TermsOf(r).confirmation = "rejected"
       \/ req[r].kind = "edit"
    /\ Finish(r)
    /\ UNCHANGED <<stored, trade, delivery, alerts, offered, cut>>

Withdrawn(row) ==
    [row EXCEPT !.visibility = "private",
                !.publication = IF @ = "none" THEN "none" ELSE "withdrawn"]

Published(row) == [row EXCEPT !.visibility = "public", !.publication = "active"]

SetVisibility(r, visibility) ==
    /\ Found(r)
    /\ req[r].kind = "visibility"
    /\ WriteTrade(r, IF visibility = "private" THEN Withdrawn(TradeOf(r))
                                              ELSE Published(TradeOf(r)))
    /\ IF visibility = "private" THEN Finish(r) ELSE GoTo(r, "context")

-----------------------------------------------------------------------------
(* A round of alerts                                                        *)

\* The context joins the active publication, not the visibility of the trade row.
AlertEligible(t) ==
    /\ t \in stored
    /\ ConfirmedAndOpen(trade[t].terms)
    /\ trade[t].publication = "active"

InterestedIn(material) == {u \in Recipients : <<u, material>> \in Interests}

ReadAlertContext(r) ==
    /\ At(r, "context")
    /\ LET t == req[r].trade
           m == trade[t].terms.material
       IN  IF AlertEligible(t) /\ m # NoKey /\ InterestedIn(m) # {}
           THEN req' = [req EXCEPT ![r].step = "next", ![r].material = m,
                                   ![r].todo = InterestedIn(m)]
           ELSE Finish(r)
    /\ UNCHANGED <<stored, trade, delivery, alerts, offered, cut>>

KeyOf(r) == <<req[r].trade, req[r].recipient, req[r].material>>

Bug_NoUniqueDelivery(key) == delivery[key] # "sent"

\* INSERT ... ON CONFLICT (trade, recipient, material) DO NOTHING
Deliverable(key) == delivery[key] = "none"

CreateDelivery(r, u) ==
    /\ At(r, "next")
    /\ u \in req[r].todo
    /\ req[r].trade \in stored
    /\ LET key == <<req[r].trade, u, req[r].material>>
       IN  IF Deliverable(key)
           THEN /\ delivery' = [delivery EXCEPT ![key] = "pending"]
                /\ req' = [req EXCEPT ![r].step = "send", ![r].recipient = u]
           ELSE /\ req' = [req EXCEPT ![r].todo = @ \ {u}]
                /\ UNCHANGED delivery
    /\ UNCHANGED <<stored, trade, alerts, offered, cut>>

Marks(r, result) == req' = [req EXCEPT ![r].step = "mark", ![r].result = result]

SkipRecipient(r) ==
    /\ At(r, "send")
    /\ req[r].recipient \notin Reachable
    /\ Marks(r, "skipped")
    /\ UNCHANGED <<stored, trade, delivery, alerts, offered, cut>>

\* The provider takes the message; its answer, or the mark that follows, may
\* still raise, and the delivery is marked as failed then.
SendAlert(r) ==
    /\ At(r, "send")
    /\ req[r].recipient \in Reachable
    /\ alerts' = [alerts EXCEPT ![KeyOf(r)] = @ + 1]
    /\ \E result \in {"sent", "failed"} : Marks(r, result)
    /\ UNCHANGED <<stored, trade, delivery, offered, cut>>

AlertRefused(r) ==
    /\ At(r, "send")
    /\ req[r].recipient \in Reachable
    /\ Marks(r, "failed")
    /\ UNCHANGED <<stored, trade, delivery, alerts, offered, cut>>

Bug_FailureIsNotMarked(r) ==
    IF req[r].result = "failed" THEN delivery
    ELSE [delivery EXCEPT ![KeyOf(r)] = req[r].result]

Bug_FailureClearsTheRow(r) ==
    [delivery EXCEPT ![KeyOf(r)] = IF req[r].result = "failed" THEN "none" ELSE req[r].result]

\* An UPDATE by id: nothing happens when the row went away with its trade.
MarkedDelivery(r) ==
    [delivery EXCEPT ![KeyOf(r)] = IF @ = "none" THEN @ ELSE req[r].result]

MarkDelivery(r) ==
    /\ At(r, "mark")
    /\ delivery' = MarkedDelivery(r)
    /\ req' = [req EXCEPT ![r].step = "next", ![r].todo = @ \ {req[r].recipient},
                          ![r].recipient = IdleRequest.recipient, ![r].result = "none"]
    /\ UNCHANGED <<stored, trade, alerts, offered, cut>>

EndRound(r) ==
    /\ At(r, "next")
    /\ req[r].todo = {} \/ req[r].trade \notin stored
    /\ Finish(r)
    /\ UNCHANGED <<stored, trade, delivery, alerts, offered, cut>>

\* An exception outside the provider call ends the round for the recipients
\* still to come, as does the end of the process; nobody takes it up again.
CutRound(r) ==
    /\ req[r].step \in {"context", "next", "send", "mark"}
    /\ Cardinality(cut) < MaxCuts
    /\ cut' = cut \cup {req[r].trade}
    /\ Finish(r)
    /\ UNCHANGED <<stored, trade, delivery, alerts, offered>>

-----------------------------------------------------------------------------
(* What is read of the trades                                               *)

\* Everybody, the owner included, reads the version the trade row points to.
Shown(t) == [trade |-> t, version |-> trade[t].current, terms |-> trade[t].terms]

\* Neither asks whether the trade was confirmed, or has been rejected.
MarketCatalog ==
    {Shown(t) : t \in {x \in stored : /\ trade[x].visibility = "public"
                                     /\ trade[x].publication = "active"}}

MarketDetail(t) ==
    {Shown(x) : x \in {y \in stored : y = t /\ trade[y].publication = "active"}}

\* The owner's list tells which trade is on the market.
OwnTrades ==
    {[shown |-> Shown(t), onMarket |-> trade[t].publication = "active"] : t \in stored}

\* The owner's page of a trade lists its versions with the flag of the live one.
OwnTrade(t) ==
    [shown |-> Shown(t), onMarket |-> trade[t].publication = "active",
     versions |-> 1 .. trade[t].last, markedLive |-> trade[t].live]

-----------------------------------------------------------------------------
RequestStep(r) ==
    \/ NotFound(r)
    \/ Confirm(r)
    \/ Reject(r)
    \/ \E terms \in Edits \cup {TermsOf(r)} : Edit(r, terms)
    \/ LeaveTrade(r)
    \/ \E visibility \in Visibilities : SetVisibility(r, visibility)
    \/ ReadAlertContext(r)
    \/ \E u \in Recipients : CreateDelivery(r, u)
    \/ SkipRecipient(r)
    \/ SendAlert(r)
    \/ AlertRefused(r)
    \/ MarkDelivery(r)
    \/ EndRound(r)

TradesNext ==
    \E r \in Requests :
        \/ \E t \in Trades, kind \in Kinds : Submit(r, t, kind)
        \/ RequestStep(r)
        \/ CutRound(r)

TradesSpec == TradesInit /\ [][TradesNext]_tradeVars

\* A request that runs returns: a lock is granted, a provider call ends.
FairTradesSpec == TradesSpec /\ \A r \in Requests : WF_tradeVars(RequestStep(r))

-----------------------------------------------------------------------------
(* Safety                                                                   *)

\* However the owner's requests meet, a trade has a live version, and everybody
\* reads the same one: the owner sees marked as live the version the market shows,
\* although one follows the flag and the other the pointer of the trade row, and
\* what the list of the market shows can be opened and is in the owner's list.
OneLiveVersion ==
    /\ \A t \in stored :
          /\ OwnTrade(t).markedLive = {OwnTrade(t).shown.version}
          /\ \A item \in MarketDetail(t) : item.version = trade[t].last
    /\ \A item \in MarketCatalog :
          /\ item \in MarketDetail(item.trade)
          /\ [shown |-> item, onMarket |-> TRUE] \in OwnTrades

\* Confirming, editing and publishing all start rounds of alerts, and rounds
\* overlap: a user is still told about a trade and a material at most once, and
\* the delivery row says sent only of a message that went out, and skipped only
\* of a user to whom none did. Nobody hears of a trade that was never confirmed,
\* open and published with the material they are interested in. (It may be
\* withdrawn again by the time the message goes out: the round does not look twice.)
DeliveriesTellTheTruth ==
    \A t \in Trades, u \in Recipients, m \in Materials :
        LET key == <<t, u, m>>
        IN  /\ alerts[key] <= 1
            /\ alerts[key] > 0 => <<t, m>> \in offered /\ <<u, m>> \in Interests
            /\ delivery[key] = "sent" => alerts[key] = 1
            /\ delivery[key] = "skipped" => alerts[key] = 0

\* Confirming and publishing race, and each looks at the other only after its own
\* commit: once all requests are done and none was cut off, everybody interested
\* in a trade on offer has a delivery.
OffersAreAnnounced ==
    (\A r \in Requests : At(r, "idle")) =>
        \A t \in stored \ cut :
            OnOffer(trade[t]) => \A u \in InterestedIn(trade[t].terms.material) :
                              delivery[<<t, u, trade[t].terms.material>>] # "none"

-----------------------------------------------------------------------------
(* The promise of the alerts, implemented                                   *)

Promised == INSTANCE AlertPromise WITH
    offers <- offered, report <- delivery, messages <- alerts

\* The unique delivery row and the order of its statements implement the
\* promise: however many rounds overlap, one of them takes a user on, and what
\* it has put on record no later round takes back or tells again.
KeepsAlertPromise == Promised!Spec

-----------------------------------------------------------------------------
(* Liveness                                                                 *)

\* A delivery that was begun gets its result, unless the round was cut off; then
\* the row stays pending and keeps later rounds from the recipient.
DeliveriesSettle ==
    \A key \in AlertKeys :
        delivery[key] = "pending" ~> delivery[key] # "pending" \/ key[1] \in cut
=============================================================================
