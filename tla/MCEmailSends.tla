---------------------------- MODULE MCEmailSends ----------------------------
(* Populations of accounts for the runs of EmailSends, and two scenes of it.  *)
EXTENDS EmailSends

Reader == [email |-> "verified", confirmed |-> TRUE, role |-> "user",
           translated |-> TRUE, preference |-> "newsletters"]
Promotional == [Reader EXCEPT !.preference = "all_email"]
Staff(role) == [Reader EXCEPT !.role = role]

\* Everybody may be mailed.
Readers == {[u \in Users |-> Reader]}

\* One of two users is skipped, for each of the reasons, or is out of reach of
\* every newsletter to all because of a missing address.
MixedPopulations ==
    {[u \in Users |-> IF u = 1 THEN Reader ELSE other] :
        other \in {[Staff("admin") EXCEPT !.email = "unverified"],
                   [Staff("shareholder") EXCEPT !.translated = FALSE],
                   [Staff("dev") EXCEPT !.email = "none", !.confirmed = FALSE]}}

PromotionalReader == {[u \in Users |-> Promotional]}

\* One user gets everything, the other one asked for no e-mail and changes nothing.
PromotionalAndNone ==
    {[u \in Users |-> IF u = 1 THEN Promotional ELSE [Reader EXCEPT !.preference = "no_email"]]}

DispatchPopulations == Readers \cup MixedPopulations
Populations == DispatchPopulations \cup PromotionalAndNone

(***************************************************************************)
(* In the dispatch scene two workers dispatch, are rolled back and wait for *)
(* the clock; in the webhook scene the provider posts its events while the   *)
(* recipient changes his preferences and one worker, never rolled back,      *)
(* dispatches what is due at once.                                          *)
(***************************************************************************)
VARIABLE scene

MCInit ==
    /\ Init
    /\ scene \in {"dispatch", "webhook"}
    /\ scene = "dispatch" <=> account \in DispatchPopulations

OneWorker == CHOOSE w \in Workers : TRUE

DispatchScene ==
    \/ Tick
    \/ AdminStep
    \/ \E w \in Workers : DispatchStep(w) \/ AbortDispatch(w)

WebhookScene ==
    \/ AdminStep /\ \A s \in Sends : send'[s].scheduledAt = 0
    \/ DispatchStep(OneWorker)
    \/ ProviderStep
    \/ UserStep

MCNext ==
    \/ scene = "dispatch" /\ DispatchScene /\ UNCHANGED scene
    \/ scene = "webhook" /\ WebhookScene /\ UNCHANGED scene

\* The fairness of FairSpec, in each scene for those who act in it.
MCFairness ==
    /\ WF_vars(scene = "dispatch" /\ Tick)
    /\ \A w \in Workers : WF_vars((scene = "dispatch" \/ w = OneWorker) /\ DispatchStep(w))

MCSpec == MCInit /\ [][MCNext]_<<vars, scene>> /\ MCFairness
=============================================================================
