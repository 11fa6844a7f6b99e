---------------------------- MODULE MCBackground ----------------------------
(***************************************************************************)
(* Work that goes on after the request that asked for it: the round of      *)
(* alerts about a trade, and the translation jobs of a page.  They share no *)
(* row, so a behaviour is a scene of one of them.                          *)
(***************************************************************************)
EXTENDS MCTrades, TranslationJobs

VARIABLE scene

MCInit ==
    /\ scene \in {"trades", "jobs"}
    /\ TradesInit /\ JobsInit
    /\ scene = "trades" => source = <<CHOOSE text \in Texts : TRUE>>
    /\ scene = "jobs" => \A t \in Trades : trade[t].terms = Whole

MCNext ==
    \/ scene = "trades" /\ TradesNext /\ UNCHANGED <<scene, jobs>>
    \/ scene = "jobs" /\ JobsNext /\ UNCHANGED <<scene, tradeVars>>

\* The fairness of FairTradesSpec and of FairJobsSpec, each in its scene.
MCFairness ==
    /\ \A r \in Requests : WF_tradeVars(scene = "trades" /\ RequestStep(r))
    /\ \A w \in Workers : WF_jobs(scene = "jobs" /\ WorkerStep(w))

MCSpec == MCInit /\ [][MCNext]_<<scene, tradeVars, jobs>> /\ MCFairness
=============================================================================
