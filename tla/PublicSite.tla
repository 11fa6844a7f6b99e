----------------------------- MODULE PublicSite -----------------------------
(***************************************************************************)
(* Publishing the public site: the button that calls the deploy hook, the  *)
(* build that reads the content some time later, and the publish screen    *)
(* that counts the changes still waiting.                                  *)
(*                                                                         *)
(* A row of ContentVersions is written when it is committed, so the number *)
(* of rows is the clock: row r has the time r.                             *)
(***************************************************************************)
EXTENDS ContentVersions

CONSTANTS
    Publishers,     \* publish requests that run at the same time
    MaxPublishes    \* bound: publish requests

ASSUME PublicSiteAssumption == MaxPublishes \in Nat

VARIABLES
    hosted,         \* not a local or development environment
    publish,        \* the row of stephen_dcx_public_content_publish_state
    trigger,        \* where each publish request is
    builds,         \* hook calls whose build has not read the content
    site,           \* the rows of the last build, and whether it succeeded
    presses         \* history: publish requests

siteVars == <<hosted, publish, trigger, builds, site, presses>>

PublishStatuses == {"never_published", "deploy_requested", "failed", "trigger_accepted",
                    "local_manual_rebuild_required", "local_manual_rebuild_completed"}

SiteTypeOK ==
    /\ hosted \in BOOLEAN
    /\ publish.status \in PublishStatuses
    /\ publish.attempted \in 0..MaxRows /\ publish.succeeded \in 0..MaxRows
    /\ \A p \in Publishers :
          /\ trigger[p].step \in {"idle", "requested", "accepted", "stamped", "rejected"}
          /\ trigger[p].stamp \in 0..MaxRows
    /\ builds \in 0..MaxPublishes
    /\ site.rows \subseteq DOMAIN rows /\ site.ok \in BOOLEAN
    /\ presses \in 0..MaxPublishes

Clock == Len(rows)

\* What a build reads: UX strings, categories, and the pages that are published.
PublicRows ==
    Live("ux_string") \cup Live("category")
        \cup {r \in Live("page") : rows[r].status = "published"}

SiteInit ==
    /\ hosted \in BOOLEAN
    /\ publish = [status |-> "never_published", attempted |-> 0, succeeded |-> 0]
    /\ trigger = [p \in Publishers |-> [step |-> "idle", stamp |-> 0]]
    /\ builds = 0
    /\ site = [rows |-> {}, ok |-> TRUE]
    /\ presses = 0

Is(p, step) == trigger[p].step = step
GoesTo(p, step) == trigger' = [trigger EXCEPT ![p].step = step]
Ends(p) == trigger' = [trigger EXCEPT ![p] = [step |-> "idle", stamp |-> 0]]

-----------------------------------------------------------------------------
(* The publish request. The state row is written in transactions of its own *)
(* and whoever writes last wins.                                            *)

Attempt(status, time) == [publish EXCEPT !.status = status, !.attempted = time]

RequestPublish(p) ==
    /\ Is(p, "idle")
    /\ presses < MaxPublishes
    /\ presses' = presses + 1
    /\ publish' = Attempt("deploy_requested", Clock)
    /\ trigger' = [trigger EXCEPT ![p] = [step |-> "requested", stamp |-> Clock]]
    /\ UNCHANGED <<hosted, builds, site>>

RequireLocalRebuild(p) ==
    /\ ~hosted /\ Is(p, "requested")
    /\ publish' = Attempt("local_manual_rebuild_required", trigger[p].stamp)
    /\ Ends(p)
    /\ UNCHANGED <<hosted, builds, site, presses>>

\* Raised without another write: the row keeps saying deploy_requested.
HookNotConfigured(p) ==
    /\ hosted /\ Is(p, "requested")
    /\ Ends(p)
    /\ UNCHANGED <<hosted, publish, builds, site, presses>>

\* The call may be answered, refused, or done and its answer lost.
CallDeployHook(p) ==
    /\ hosted /\ Is(p, "requested")
    /\ \/ GoesTo(p, "accepted") /\ builds' = builds + 1
       \/ GoesTo(p, "rejected") /\ builds' \in {builds, builds + 1}
    /\ UNCHANGED <<hosted, publish, site, presses>>

Bug_FailureCountsAsPublished(p) == [Attempt("failed", trigger[p].stamp) EXCEPT !.succeeded = Clock]

\* The accepted time is not advanced.
AfterFailure(p) == Attempt("failed", trigger[p].stamp)

RecordFailure(p) ==
    /\ Is(p, "rejected")
    /\ publish' = AfterFailure(p)
    /\ Ends(p)
    /\ UNCHANGED <<hosted, builds, site, presses>>

\* The accepted time is read after the answer and written in the next step.
ReadAcceptedTime(p) ==
    /\ Is(p, "accepted")
    /\ trigger' = [trigger EXCEPT ![p] = [step |-> "stamped", stamp |-> Clock]]
    /\ UNCHANGED <<hosted, publish, builds, site, presses>>

RecordAccepted(p) ==
    /\ Is(p, "stamped")
    /\ publish' = [status |-> "trigger_accepted", attempted |-> trigger[p].stamp,
                   succeeded |-> trigger[p].stamp]
    /\ Ends(p)
    /\ UNCHANGED <<hosted, builds, site, presses>>

PublisherDies(p) ==
    /\ ~Is(p, "idle")
    /\ Ends(p)
    /\ UNCHANGED <<hosted, publish, builds, site, presses>>

MarkLocalRebuildComplete ==
    /\ ~hosted
    /\ publish' = [status |-> "local_manual_rebuild_completed", attempted |-> Clock,
                   succeeded |-> Clock]
    /\ UNCHANGED <<hosted, trigger, builds, site, presses>>

\* The build is started by the hook call and installs its tools first: it reads
\* the content when the request that started it has its answer. It may fail.
BuildSite ==
    /\ builds > 0
    /\ \A p \in Publishers : ~Is(p, "accepted")
    /\ builds' = builds - 1
    /\ site' \in {[rows |-> PublicRows, ok |-> TRUE], [site EXCEPT !.ok = FALSE]}
    /\ UNCHANGED <<hosted, publish, trigger, presses>>

SiteStep ==
    \/ \E p \in Publishers :
        \/ RequestPublish(p) \/ RequireLocalRebuild(p) \/ HookNotConfigured(p)
        \/ CallDeployHook(p) \/ RecordFailure(p) \/ ReadAcceptedTime(p)
        \/ RecordAccepted(p) \/ PublisherDies(p)
    \/ MarkLocalRebuildComplete
    \/ BuildSite

SiteNext ==
    \/ ContentNext /\ UNCHANGED siteVars
    \/ SiteStep /\ UNCHANGED content

SiteSpec == ContentInit /\ SiteInit /\ [][SiteNext]_<<content, siteVars>>

-----------------------------------------------------------------------------
\* The publish screen: public rows that are newer than the accepted time, counted
\* by kind, and the newest of them listed.
PendingRows == {r \in PublicRows : r > publish.succeeded}

\* A row the screen does not count as waiting is on the site, as soon as the
\* builds that were asked for are done: nothing that another request, a failed
\* call or a lost answer writes hides a change that no build has read.
UncountedRowsAreOnTheSite ==
    hosted /\ builds = 0 /\ site.ok => PublicRows \ PendingRows \subseteq site.rows
=============================================================================
