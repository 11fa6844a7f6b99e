---------------------------- MODULE AlertPromise ----------------------------
(***************************************************************************)
(* What the alerts about trades promise a user, whatever requests and       *)
(* rounds bring them about: news is of an offer and for those interested in *)
(* its material, somebody is told of a trade and a material once at most    *)
(* and by one attempt, and the report of that attempt is true and final.    *)
(***************************************************************************)
EXTENDS Naturals

CONSTANTS Trades, Recipients, Materials, Interests

VARIABLES
    offers,     \* trades that were on offer, with the material
    report,     \* what is on record of a trade, a user and a material
    messages    \* messages that reached the user about the two

vars == <<offers, report, messages>>

Alerts == Trades \X Recipients \X Materials

Init ==
    /\ offers = {}
    /\ report = [k \in Alerts |-> "none"]
    /\ messages = [k \in Alerts |-> 0]

Offer(t, m) ==
    /\ offers' = offers \cup {<<t, m>>}
    /\ UNCHANGED <<report, messages>>

Begin(t, u, m) ==
    /\ <<t, m>> \in offers
    /\ <<u, m>> \in Interests
    /\ report[<<t, u, m>>] = "none"
    /\ report' = [report EXCEPT ![<<t, u, m>>] = "pending"]
    /\ UNCHANGED <<offers, messages>>

Reach(k) ==
    /\ report[k] = "pending"
    /\ messages[k] = 0
    /\ messages' = [messages EXCEPT ![k] = 1]
    /\ UNCHANGED <<offers, report>>

\* A failure may be one of the answer only, after the message has gone out.
Close(k, result) ==
    /\ report[k] = "pending"
    /\ result = "sent" => messages[k] = 1
    /\ result = "skipped" => messages[k] = 0
    /\ report' = [report EXCEPT ![k] = result]
    /\ UNCHANGED <<offers, messages>>

Next ==
    \/ \E t \in Trades, m \in Materials : Offer(t, m)
    \/ \E t \in Trades, u \in Recipients, m \in Materials : Begin(t, u, m)
    \/ \E k \in Alerts : Reach(k) \/ \E result \in {"sent", "skipped", "failed"} : Close(k, result)

Spec == Init /\ [][Next]_vars
=============================================================================
