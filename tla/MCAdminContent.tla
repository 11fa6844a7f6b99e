--------------------------- MODULE MCAdminContent ---------------------------
(***************************************************************************)
(* What administrators do: write content, alone or while a translation     *)
(* worker stores results, publish the public site from it, arm e-mail      *)
(* sequences, and plan their work in the tracker.  A behaviour is a scene  *)
(* of one of them.                                                         *)
(***************************************************************************)
EXTENDS PublicSite, EmailSequences, Tracker, TLC

CONSTANTS
    StoreRows,     \* bound: rows in the scene with a translation worker
    LoneEditor,    \* the one editor of the scene of the public site
    SiteRows       \* bound: rows in that scene

VARIABLE scene

MCInit ==
    /\ scene \in {"content", "stores", "site", "sequences", "tracker"}
    /\ ContentInit /\ SiteInit /\ SequencesInit /\ TrackerInit
    /\ scene # "site" => hosted
    /\ scene # "sequences" => wanted = {}

\* Bound: the e-mails that meet a translation worker are templates and newsletters.
FewRowsWithStores ==
    \A e \in Writers :
        /\ Len(rows') + Len(request'[e].writes) <= StoreRows
        /\ \A w \in Range(request'[e].writes) : w.kind # "sequence"

\* Bound: the site has one editor and does without e-mails, and its pages without
\* translations (a worker stores nothing else).
OnlyPublicRows ==
    /\ Len(rows') <= SiteRows
    /\ \A w \in Range(request'[LoneEditor].writes) :
          w.kind \notin Emails /\ w.language = "first"

ContentScenes ==
    \/ scene = "content" /\ \E e \in Editors : EditorStep(e)
    \/ scene = "stores" /\ ContentNext /\ FewRowsWithStores

SiteScene ==
    \/ EditorStep(LoneEditor) /\ OnlyPublicRows /\ UNCHANGED siteVars
    \/ SiteStep /\ UNCHANGED content

MCNext ==
    \/ ContentScenes /\ UNCHANGED <<scene, siteVars, sequences, tracker>>
    \/ scene = "site" /\ SiteScene /\ UNCHANGED <<scene, sequences, tracker>>
    \/ scene = "sequences" /\ SequencesNext /\ UNCHANGED <<scene, content, siteVars, tracker>>
    \/ scene = "tracker" /\ TrackerNext /\ UNCHANGED <<scene, content, siteVars, sequences>>

\* Requests and runs of the same kind are interchangeable.
MCSymmetry == Permutations(Publishers) \cup Permutations(Launchers) \cup Permutations(Savers)

MCSpec == MCInit /\ [][MCNext]_<<scene, content, siteVars, sequences, tracker>>
=============================================================================
