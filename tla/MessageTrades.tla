---------------------------- MODULE MessageTrades ----------------------------
(***************************************************************************)
(* One message of the owner, its analyses, and the trades they leave.       *)
(*                                                                         *)
(* The first delivery, a redelivery by the provider and the retry of the     *)
(* user all run the same analysis. A run claims the message in one           *)
(* transaction, calls the model, and persists in a second transaction that   *)
(* deletes every trade of the message and projects the items anew. Nothing   *)
(* keeps two runs apart between the two. Meanwhile the owner works on the     *)
(* trades as in Trades, which this module composes with.                    *)
(***************************************************************************)
EXTENDS Trades

CONSTANTS
    Attempts,   \* calls of process_stored_dcx_contact_message_analysis in flight
    MaxRuns,    \* bound: claims of the message
    MaxLost     \* bound: runs that raise between the two transactions, or die

ASSUME MessageTradesAssumption == MaxRuns \in Nat /\ MaxLost \in Nat

\* The policy check allows or prohibits, is skipped where no model is configured,
\* or raises; a file that cannot be read raises before it.
PolicyAnswers == {"allowed", "prohibited"}
PolicyOutcomes == PolicyAnswers \cup {"skipped", "raised"}
\* What the model found is data, but for the items it may name.
ModelOutcomes == {"classified", "raised"}

\* The model is asked only about what the check allows.
VerdictOf(policy, model) ==
    CASE policy = "prohibited" -> "prohibited"
      [] policy = "skipped" -> "unclassified"
      [] policy = "raised" \/ model = "raised" -> "failed"
      [] OTHER -> "allowed"

Verdicts == {VerdictOf(policy, model) : policy \in PolicyOutcomes, model \in ModelOutcomes}

VARIABLES
    message,    \* the row of stephen_dcx_contact_messages
    attempt,    \* what each analysis in flight has read and found
    batch,      \* history: the run that created a trade, 0 for an id not taken
    runs,       \* history: claims so far
    lost        \* history: runs that never persisted

messageVars == <<message, attempt, batch, runs, lost>>
allTradeVars == <<tradeVars, messageVars>>

Message ==
    [processing : {"queued", "processing", "ready", "failed"},
     analysis : {"pending", "processing", "completed", "failed"},
     classification : {"not_started", "completed", "partial", "failed"},
     moderation : {"not_reviewed", "allowed", "prohibited"},
     text : {"raw", "blank"}]

Attempt == [step : {"idle", "analyse", "persist"}, run : 0 .. MaxRuns,
            text : {"raw", "blank"}, verdict : Verdicts]

MessageTypeOK ==
    /\ TradesTypeOK
    /\ message \in Message
    /\ attempt \in [Attempts -> Attempt]
    /\ batch \in [Trades -> 0 .. MaxRuns]
    /\ runs \in 0 .. MaxRuns
    /\ lost \in 0 .. MaxLost

IdleAttempt == [step |-> "idle", run |-> 0, text |-> "raw", verdict |-> "failed"]

NoRow == [FirstVersion([confirmation |-> "draft", status |-> "draft",
                        complete |-> FALSE, material |-> NoKey])
             EXCEPT !.last = 0, !.current = 0, !.live = {}]

MessageInit ==
    /\ stored = {}
    /\ trade = [t \in Trades |-> NoRow]
    /\ NoTradeYet
    /\ message = [processing |-> "queued", analysis |-> "pending",
                  classification |-> "not_started", moderation |-> "not_reviewed",
                  text |-> "raw"]
    /\ attempt = [a \in Attempts |-> IdleAttempt]
    /\ batch = [t \in Trades |-> 0]
    /\ runs = 0
    /\ lost = 0

-----------------------------------------------------------------------------
(* An analysis                                                              *)

Settled ==
    /\ message.analysis = "completed"
    /\ message.processing = "ready"
    /\ message.classification = "completed"

Bug_EveryCallClaims == TRUE

\* A settled message is left alone; any other is claimed, also one that another
\* run has claimed already and one whose trades the user has confirmed.
Claimable == ~Settled

\* The job row it reuses or creates mirrors the run and is left out.
Claim(a) ==
    /\ attempt[a].step = "idle"
    /\ runs < MaxRuns
    /\ Claimable
    /\ runs' = runs + 1
    /\ message' = [message EXCEPT !.processing = "processing", !.analysis = "processing"]
    /\ attempt' = [attempt EXCEPT ![a] = [IdleAttempt EXCEPT !.step = "analyse",
                                             !.run = runs + 1, !.text = message.text]]
    /\ UNCHANGED <<tradeVars, batch, lost>>

\* Without a model the analysis completes unclassified.
Analyse(a, policy, model) ==
    /\ attempt[a].step = "analyse"
    /\ attempt' = [attempt EXCEPT ![a].step = "persist",
                                  ![a].verdict = VerdictOf(policy, model)]
    /\ UNCHANGED <<tradeVars, message, batch, runs, lost>>

Classification(verdict, itemFailed) ==
    CASE verdict = "failed" -> "failed"
      [] verdict = "unclassified" -> "not_started"
      [] itemFailed -> "partial"
      [] OTHER -> "completed"

ProcessingAfter(verdict) == IF verdict = "failed" THEN "failed" ELSE "ready"

Bug_FailureStaysProcessing(a, itemFailed) ==
    IF attempt[a].verdict = "failed"
    THEN [message EXCEPT !.processing = "processing", !.analysis = "failed"]
    ELSE [message EXCEPT !.processing = "ready", !.analysis = "completed",
                         !.classification = Classification(attempt[a].verdict, itemFailed)]

Bug_TextReadAgain(a, itemFailed) ==
    [message EXCEPT !.processing = ProcessingAfter(attempt[a].verdict),
                    !.moderation = attempt[a].verdict,
                    !.text = IF attempt[a].verdict = "prohibited" THEN "blank" ELSE @]

\* The text goes back as it was claimed, unless the run found it prohibited.
PersistedMessage(a, itemFailed) ==
    LET verdict == attempt[a].verdict
    IN  [message EXCEPT
            !.processing = ProcessingAfter(verdict),
            !.analysis = IF verdict = "failed" THEN "failed" ELSE "completed",
            !.classification = Classification(verdict, itemFailed),
            !.moderation = IF verdict \in PolicyAnswers THEN verdict ELSE "not_reviewed",
            !.text = IF verdict = "prohibited" THEN "blank" ELSE attempt[a].text]

Projectable(a) == attempt[a].verdict = "allowed"

TradesAfter(fresh) == fresh

\* One transaction: the message row, which serialises two of them, the deletion
\* of the trades with the rows that hang on them, and the new projection, in
\* which an item may fail on its own.
Persist(a, fresh, itemFailed) ==
    /\ attempt[a].step = "persist"
    /\ fresh # {} \/ itemFailed => Projectable(a)
    /\ message' = PersistedMessage(a, itemFailed)
    /\ stored' = TradesAfter(fresh)
    /\ \E terms \in [fresh -> Projections] :
          trade' = [t \in Trades |->
                       CASE t \in fresh -> FirstVersion(terms[t])
                         [] t \in stored' \ fresh -> trade[t]
                         [] OTHER -> NoRow]
    /\ delivery' = [k \in AlertKeys |-> IF k[1] \in stored' \ fresh THEN delivery[k]
                                                                    ELSE "none"]
    /\ batch' = [t \in Trades |-> IF t \in fresh THEN attempt[a].run ELSE batch[t]]
    /\ attempt' = [attempt EXCEPT ![a] = IdleAttempt]
    /\ UNCHANGED <<req, alerts, offered, cut, runs, lost>>

\* The second transaction fails as a whole, or the process ends: the message
\* says processing until somebody runs the analysis again.
LoseAttempt(a) ==
    /\ attempt[a].step # "idle"
    /\ lost < MaxLost
    /\ lost' = lost + 1
    /\ attempt' = [attempt EXCEPT ![a] = IdleAttempt]
    /\ UNCHANGED <<tradeVars, message, batch, runs>>

-----------------------------------------------------------------------------
(* What the owner reads of the message                                      *)

Blocked(row) == row.moderation = "prohibited"
TextShown(row) == IF Blocked(row) THEN "blank" ELSE row.text

NeedsAttention(t, statuses) == trade[t].terms.confirmation \in statuses

\* The inbox is one statement: the message, and whether a trade of it waits.
InboxItem ==
    [text |-> TextShown(message), processing |-> message.processing,
     attention |-> \E t \in stored : NeedsAttention(t,
        {"draft", "pending_confirmation", "needs_more_detail", "under_revision"})]

\* The page of the message reads its row first and its trades in a later
\* statement: it shows a row with the trades that are there by then.
MessagePage(row, trades) ==
    [text |-> TextShown(row), processing |-> row.processing,
     analysis |-> row.analysis, trades |-> trades]

-----------------------------------------------------------------------------
\* A projected item takes a new id, whatever trade it was before.
FreshIds == {t \in Trades : batch[t] = 0}

AttemptStep(a) ==
    \/ \E policy \in PolicyOutcomes, model \in ModelOutcomes : Analyse(a, policy, model)
    \/ \E fresh \in SUBSET FreshIds, itemFailed \in BOOLEAN : Persist(a, fresh, itemFailed)

OwnerStep == TradesNext /\ UNCHANGED messageVars

MessageNext ==
    \/ \E a \in Attempts : Claim(a) \/ AttemptStep(a) \/ LoseAttempt(a)
    \/ OwnerStep

MessageSpec == MessageInit /\ [][MessageNext]_allTradeVars

\* A model call ends in an answer or a timeout, and a request then persists.
FairMessageSpec == MessageSpec /\ \A a \in Attempts : WF_allTradeVars(AttemptStep(a))

-----------------------------------------------------------------------------
(* Safety                                                                   *)

InFlight == {a \in Attempts : attempt[a].step # "idle"}

\* However many runs overlap, the trades of a message come from one of them: an
\* item never shows as two trades. A message shows as blocked exactly when its
\* text is gone; nothing that another run projected from it is left then, and
\* the inbox asks its owner for nothing.
TradesFollowTheirMessage ==
    /\ \A t, u \in stored : batch[t] = batch[u] /\ batch[t] # 0
    /\ Blocked(message) <=> message.text = "blank"
    /\ Blocked(message) => stored = {} /\ InboxItem.text = "blank" /\ ~InboxItem.attention

\* Redeliveries and retries of a message that is analysed, with no run in
\* flight, change neither the message nor which trades it has, so that what the
\* user confirmed stays, and a page read in two statements shows what is there.
SettledIsFinal ==
    [][Settled /\ InFlight = {} =>
          /\ message' = message /\ stored' = stored
          /\ MessagePage(message, stored') = MessagePage(message', stored')]_allTradeVars

\* What the contract says of duplicate attempts: the state of a finished
\* analysis is what they converge on.
FinishedAnalysisStays == [][Settled => Settled' /\ stored \subseteq stored']_allTradeVars

-----------------------------------------------------------------------------
(* Liveness                                                                 *)

\* A message does not stay in processing, unless a run was lost: nothing else
\* ever takes such a message up.
ProcessingEnds == message.processing = "processing" ~> message.processing # "processing" \/ lost > 0
=============================================================================
