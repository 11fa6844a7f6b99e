--------------------------- MODULE MCMessageTrades ---------------------------
(* A message about one material that one user follows.                       *)
EXTENDS MessageTrades

CONSTANTS cocoa, ana

MCInterests == {<<ana, cocoa>>}
MCReachable == {ana}
MCProjections ==
    {[confirmation |-> "pending_confirmation", status |-> "draft",
      complete |-> TRUE, material |-> cocoa]}
\* A confirmed trade loses a needed field.
MCEdits ==
    {[confirmation |-> "confirmed", status |-> "open", complete |-> FALSE,
      material |-> cocoa]}
=============================================================================
