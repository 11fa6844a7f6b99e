-------------------------- MODULE DeliveryPromise --------------------------
(***************************************************************************)
(* What a prepared send promises, whatever the workers, the locks and the   *)
(* transactions behind it: it is attempted by one worker at a time, an      *)
(* attempt tries a recipient at most once, a cancelled send is attempted no *)
(* more, and a settled one is never attempted again.                       *)
(***************************************************************************)
EXTENDS Naturals

CONSTANTS Users, Sends

VARIABLES
    phase,    \* how far a send has come
    tried,    \* the recipients tried by the attempt in progress
    copies    \* messages the provider accepted, per send and user

vars == <<phase, tried, copies>>

Init ==
    /\ phase = [s \in Sends |-> "absent"]
    /\ tried = [s \in Sends |-> {}]
    /\ copies = [s \in Sends |-> [u \in Users |-> 0]]

Moves(s, from, to) ==
    /\ phase[s] = from
    /\ phase' = [phase EXCEPT ![s] = to]
    /\ tried' = [tried EXCEPT ![s] = {}]
    /\ UNCHANGED copies

Prepare(s) == Moves(s, "absent", "scheduled")
Cancel(s) == Moves(s, "scheduled", "cancelled")
Settle(s) == Moves(s, "attempted", "settled")
GiveUp(s) == Moves(s, "attempted", "scheduled")

\* Recipients that are not to be mailed count as tried from the start.
Begin(s, excluded) ==
    /\ phase[s] = "scheduled"
    /\ phase' = [phase EXCEPT ![s] = "attempted"]
    /\ tried' = [tried EXCEPT ![s] = excluded]
    /\ UNCHANGED copies

Try(s, chunk) ==
    /\ phase[s] = "attempted"
    /\ chunk \cap tried[s] = {}
    /\ tried' = [tried EXCEPT ![s] = @ \cup chunk]
    /\ \/ UNCHANGED copies
       \/ copies' = [copies EXCEPT ![s] = [u \in Users |->
                        IF u \in chunk THEN copies[s][u] + 1 ELSE copies[s][u]]]
    /\ UNCHANGED phase

Next ==
    \E s \in Sends :
        \/ Prepare(s) \/ Cancel(s) \/ Settle(s) \/ GiveUp(s)
        \/ \E excluded \in SUBSET Users : Begin(s, excluded)
        \/ \E chunk \in SUBSET Users : Try(s, chunk)

Spec == Init /\ [][Next]_vars
=============================================================================
