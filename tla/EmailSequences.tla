--------------------------- MODULE EmailSequences ---------------------------
(***************************************************************************)
(* E-mail sequences: an administrator saves the steps of a sequence and    *)
(* arms it with a launch time; the e-mail jobs launch what is due, one     *)
(* sequence per run, by scheduling a send for every active step. What      *)
(* becomes of the sends is the subject of EmailSends.                      *)
(***************************************************************************)
EXTENDS Naturals, FiniteSets

CONSTANTS
    Campaigns,      \* sequences
    Launchers,      \* runs of the e-mail jobs at the same time
    Subscribers,    \* confirmed users with a verified primary e-mail address
    MaxSteps,       \* bound: steps of a sequence
    MaxStepIds,     \* bound: step rows ever inserted
    MaxMailEdits    \* bound: edits of the e-mail the steps send

ASSUME EmailSequencesAssumption ==
    /\ MaxSteps \in Nat
    /\ MaxStepIds \in Nat
    /\ MaxMailEdits \in Nat

VARIABLES
    campaign,       \* sequence rows with their steps
    stepIds,        \* step rows inserted so far; a save never uses an id again
    liveMail,       \* the live version of the sequence e-mail
    wanted,         \* who has not opted out of newsletters
    enrolled,       \* active enrollments
    launched,       \* sends of launched steps
    launcher        \* the sequence each run holds locked

sequences == <<campaign, stepIds, liveMail, wanted, enrolled, launched, launcher>>

Step == [id : Nat, order : Nat, mail : Nat, active : BOOLEAN]
\* armed is trigger_type = 'scheduled_launch' with its time, which due says has
\* come. The other two trigger types are stored and read by nobody.
Campaign == [saved : BOOLEAN, live : BOOLEAN, armed : BOOLEAN, due : BOOLEAN, steps : SUBSET Step]
NoCampaign == [saved |-> FALSE, live |-> FALSE, armed |-> FALSE, due |-> FALSE, steps |-> {}]
Nothing == "nothing"

SequencesTypeOK ==
    /\ stepIds \in 0..MaxStepIds
    /\ liveMail \in 1..(MaxMailEdits + 1)
    /\ wanted \subseteq Subscribers
    /\ \A c \in Campaigns :
          /\ enrolled[c] \subseteq Subscribers
          /\ campaign[c].steps \subseteq Step /\ Cardinality(campaign[c].steps) <= MaxSteps
          /\ campaign[c].due => campaign[c].armed
    /\ \A l \in Launchers : launcher[l] \in Campaigns \cup {Nothing}
    /\ \A s \in launched : s.campaign \in Campaigns /\ s.to \subseteq Subscribers

SequencesInit ==
    /\ campaign = [c \in Campaigns |-> NoCampaign]
    /\ stepIds = 0
    /\ liveMail = 1
    /\ wanted \in SUBSET Subscribers
    /\ enrolled = [c \in Campaigns |-> {}]
    /\ launched = {}
    /\ launcher = [l \in Launchers |-> Nothing]

LockedCampaign(c) == \E l \in Launchers : launcher[l] = c

-----------------------------------------------------------------------------
(* The administrator, the users and the clock                               *)

\* A draft is not live and has no launch time.
CreateSequenceDraft(c) ==
    /\ ~campaign[c].saved
    /\ campaign' = [campaign EXCEPT ![c].saved = TRUE]
    /\ UNCHANGED <<stepIds, liveMail, wanted, enrolled, launched, launcher>>

\* The step rows of a form, in order, with their new ids; their e-mail must be
\* a live one when the form is saved.
StepRows(active) ==
    {[id |-> stepIds + i, order |-> i, mail |-> liveMail, active |-> active[i]] : i \in DOMAIN active}

\* One transaction: the row is updated (a launch that holds it is waited for),
\* all steps are deleted and the ones of the form inserted. It fails, and then
\* changes nothing, where the database does not let a step go that has a send.
SaveSequence(c, live, armed, due, active) ==
    /\ campaign[c].saved
    /\ ~LockedCampaign(c)
    /\ stepIds + Cardinality(DOMAIN active) <= MaxStepIds
    /\ due => armed
    /\ campaign' = [campaign EXCEPT ![c] = [saved |-> TRUE, live |-> live, armed |-> armed,
                                            due |-> due, steps |-> StepRows(active)]]
    /\ stepIds' = stepIds + Cardinality(DOMAIN active)
    /\ UNCHANGED <<liveMail, wanted, enrolled, launched, launcher>>

\* An edited e-mail is another row: the steps keep the row they were saved with.
EditMail ==
    /\ liveMail <= MaxMailEdits
    /\ liveMail' = liveMail + 1
    /\ UNCHANGED <<campaign, stepIds, wanted, enrolled, launched, launcher>>

LaunchTimeComes(c) ==
    /\ campaign[c].armed
    /\ campaign' = [campaign EXCEPT ![c].due = TRUE]
    /\ UNCHANGED <<stepIds, liveMail, wanted, enrolled, launched, launcher>>

ChangePreference(u) ==
    /\ wanted' = IF u \in wanted THEN wanted \ {u} ELSE wanted \cup {u}
    /\ UNCHANGED <<campaign, stepIds, liveMail, enrolled, launched, launcher>>

-----------------------------------------------------------------------------
(* A launch, which is one transaction                                       *)

Due(c) == campaign[c].live /\ campaign[c].armed /\ campaign[c].due

Bug_NoRowLock(c) == Due(c)

\* FOR UPDATE SKIP LOCKED: what another run holds is not waited for.
Launchable(c) == Due(c) /\ ~LockedCampaign(c)

PickDueSequence(l, c) ==
    /\ launcher[l] = Nothing
    /\ Launchable(c)
    /\ launcher' = [launcher EXCEPT ![l] = c]
    /\ UNCHANGED <<campaign, stepIds, liveMail, wanted, enrolled, launched>>

\* A launch is used up: the sequence goes back to 'manual_launch'.
Disarmed(c) == [campaign[c] EXCEPT !.armed = FALSE, !.due = FALSE]

ActiveSteps(c) == {s \in campaign[c].steps : s.active}

\* Every user who wants newsletters is enrolled, or has been already, and becomes
\* a recipient of the send of every active step.
LaunchedSteps(l, c) ==
    {[by |-> l, nr |-> Cardinality(launched), campaign |-> c, step |-> s.id,
      mail |-> s.mail, to |-> wanted] : s \in ActiveSteps(c)}

LaunchSequence(l) ==
    LET c == launcher[l]
    IN  /\ c # Nothing
        /\ launched' = launched \cup LaunchedSteps(l, c)
        /\ enrolled' = [enrolled EXCEPT ![c] = IF ActiveSteps(c) = {} THEN @ ELSE @ \cup wanted]
        /\ campaign' = [campaign EXCEPT ![c] = Disarmed(c)]
        /\ launcher' = [launcher EXCEPT ![l] = Nothing]
        /\ UNCHANGED <<stepIds, liveMail, wanted>>

\* A failed statement or a lost process: nothing was scheduled.
LaunchFails(l) ==
    /\ launcher[l] # Nothing
    /\ launcher' = [launcher EXCEPT ![l] = Nothing]
    /\ UNCHANGED <<campaign, stepIds, liveMail, wanted, enrolled, launched>>

SequencesNext ==
    \/ \E c \in Campaigns :
        \/ CreateSequenceDraft(c)
        \/ \E live, armed, due \in BOOLEAN, n \in 0..MaxSteps : \E active \in [1..n -> BOOLEAN] :
              SaveSequence(c, live, armed, due, active)
        \/ LaunchTimeComes(c)
    \/ EditMail
    \/ \E u \in Subscribers : ChangePreference(u)
    \/ \E l \in Launchers :
        \/ \E c \in Campaigns : PickDueSequence(l, c)
        \/ LaunchSequence(l)
        \/ LaunchFails(l)

SequencesSpec == SequencesInit /\ [][SequencesNext]_sequences

-----------------------------------------------------------------------------
(* A step of a sequence, as it was saved, is sent to a user at most once:   *)
(* not by two runs of the jobs, not by the next run, and not by the run     *)
(* after one that failed. To send it again it must be saved again.          *)
SavedStepsAreSentOnce ==
    \A s, t \in launched :
        s.campaign = t.campaign /\ s.step = t.step /\ s.to \cap t.to # {} => s = t
=============================================================================
