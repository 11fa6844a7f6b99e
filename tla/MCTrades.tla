------------------------------ MODULE MCTrades ------------------------------
(* Materials, interests and edits for the runs of Trades.                    *)
EXTENDS Trades

CONSTANTS cocoa, coffee, ana, ben

\* ana can be reached and follows both materials, ben has no route.
MCInterests == {<<ana, cocoa>>, <<ana, coffee>>, <<ben, cocoa>>}
MCReachable == {ana}

\* A trade the projection found whole, and one with a field missing.
Whole == [confirmation |-> "pending_confirmation", status |-> "draft",
          complete |-> TRUE, material |-> cocoa]
MCProjections ==
    {Whole, [Whole EXCEPT !.confirmation = "needs_more_detail", !.complete = FALSE]}

Offer(material) ==
    [confirmation |-> "confirmed", status |-> "open", complete |-> TRUE,
     material |-> material]

\* The edit of another material, one that empties a needed field of a confirmed
\* trade, and one that leaves material text without a key.
MCEdits == {Offer(coffee), [Offer(cocoa) EXCEPT !.complete = FALSE], Offer(NoKey)}
=============================================================================
