------------------------- MODULE AdminContent_proofs ------------------------
(***************************************************************************)
(* What administrators do: e-mail sequences, the tracker, the versions of  *)
(* the content, and the public site that is built from them.               *)
(***************************************************************************)
EXTENDS PublicSite, EmailSequences, Tracker, SequenceTheorems, FiniteOrders

-----------------------------------------------------------------------------
(* E-mail sequences: a step, as it was saved, goes to a user at most once.  *)

\* The rows of the sequences, the locks and the enrollments.
RowTypes ==
    /\ campaign \in [Campaigns -> Campaign]
    /\ launcher \in [Launchers -> Campaigns \cup {Nothing}]
    /\ enrolled \in [Campaigns -> SUBSET Subscribers]

\* Step ids are given once: within a sequence they differ, and none is greater
\* than the last one given.
StepIdsAreFresh ==
    /\ \A c \in Campaigns : \A s, t \in campaign[c].steps :
          s.id <= stepIds /\ (s.id = t.id => s = t)
    /\ \A e \in launched : e.step \in Nat /\ e.step <= stepIds

\* Two runs never hold the same sequence, and what one holds is still armed.
HeldIsArmed ==
    /\ \A l \in Launchers : launcher[l] # Nothing => campaign[launcher[l]].armed
    /\ \A k, l \in Launchers : launcher[k] # Nothing /\ launcher[k] = launcher[l] => k = l

\* A sequence is armed by a save, which gives its steps ids that no send has.
ArmedStepsAreUnsent ==
    \A c \in Campaigns : campaign[c].armed =>
        \A e \in launched, s \in campaign[c].steps : e.campaign = c => e.step # s.id

\* The users do not matter: no step is sent twice at all.
StepsAreSentOnce ==
    \A s, t \in launched : s.campaign = t.campaign /\ s.step = t.step => s = t

\* The inductive invariant.  SavedStepsAreSentOnce alone is not inductive: it
\* does not say that the steps of an armed sequence have ids that no send has.
SequencesIInv ==
    /\ SequencesTypeOK
    /\ RowTypes
    /\ StepIdsAreFresh
    /\ HeldIsArmed
    /\ ArmedStepsAreUnsent
    /\ StepsAreSentOnce

-----------------------------------------------------------------------------
\* The invariant holds before the first sequence.
LEMMA SequencesInitHolds == SequencesInit => SequencesIInv
<1> SUFFICES ASSUME SequencesInit
             PROVE  SequencesIInv
  OBVIOUS
<1>1. /\ NoCampaign \in Campaign
      /\ NoCampaign.steps = {} /\ ~NoCampaign.armed /\ ~NoCampaign.due
  BY DEF NoCampaign, Campaign
<1>2. \A c \in Campaigns : campaign[c] = NoCampaign /\ enrolled[c] = {}
  BY DEF SequencesInit
<1>3. Cardinality({}) <= MaxSteps
  BY FS_EmptySet, EmailSequencesAssumption
<1>4. RowTypes
  BY <1>1 DEF SequencesInit, RowTypes
<1>5. SequencesTypeOK
  BY <1>1, <1>2, <1>3, EmailSequencesAssumption DEF SequencesInit, SequencesTypeOK
<1>6. StepIdsAreFresh /\ HeldIsArmed /\ ArmedStepsAreUnsent /\ StepsAreSentOnce
  BY <1>1, <1>2
     DEF SequencesInit, StepIdsAreFresh, HeldIsArmed, ArmedStepsAreUnsent, StepsAreSentOnce
<1> QED
  BY <1>4, <1>5, <1>6 DEF SequencesIInv

\* The step rows of a form are new rows, as many as the form has.
LEMMA StepRowsAreNew ==
  ASSUME NEW n \in 0..MaxSteps, NEW active \in [1..n -> BOOLEAN],
         stepIds \in Nat, liveMail \in Nat
  PROVE  /\ Cardinality(DOMAIN active) = n
         /\ StepRows(active) \subseteq Step
         /\ Cardinality(StepRows(active)) \in 0..n
         /\ \A s, t \in StepRows(active) :
               /\ s.id > stepIds /\ s.id <= stepIds + n
               /\ s.id = t.id => s = t
<1> DEFINE row(i) == [id |-> stepIds + i, order |-> i, mail |-> liveMail, active |-> active[i]]
           f == [i \in 1..n |-> row(i)]
<1>1. n \in Nat /\ DOMAIN active = 1..n
  BY EmailSequencesAssumption
<1>2. IsFiniteSet(1..n) /\ Cardinality(1..n) = n
  BY <1>1, FS_Interval
<1>3. StepRows(active) = {row(i) : i \in 1..n}
  BY <1>1 DEF StepRows
<1>4. \A i \in 1..n : row(i) \in Step /\ row(i).id = stepIds + i
  BY <1>1 DEF Step
<1>5. f \in Surjection(1..n, StepRows(active))
  BY <1>3 DEF Surjection
<1>6. Cardinality(StepRows(active)) \in 0..n
  <2>1. IsFiniteSet(StepRows(active)) /\ Cardinality(StepRows(active)) <= n
    BY <1>2, <1>5, FS_Surjection
  <2> QED
    BY <1>1, <2>1, FS_CardinalityType
<1>7. \A s, t \in StepRows(active) :
          /\ s.id > stepIds /\ s.id <= stepIds + n
          /\ s.id = t.id => s = t
  BY <1>1, <1>3, <1>4
<1> QED
  BY <1>1, <1>2, <1>3, <1>4, <1>6, <1>7

\* Saving gives every step an id that no send has; no run holds the sequence.
LEMMA SaveKeepsSequencesIInv ==
  ASSUME SequencesIInv, NEW c \in Campaigns,
         NEW live \in BOOLEAN, NEW armed \in BOOLEAN, NEW due \in BOOLEAN,
         NEW n \in 0..MaxSteps, NEW active \in [1..n -> BOOLEAN],
         SaveSequence(c, live, armed, due, active)
  PROVE  SequencesIInv'
<1> DEFINE row == [saved |-> TRUE, live |-> live, armed |-> armed, due |-> due,
                   steps |-> StepRows(active)]
<1>1. /\ stepIds \in Nat /\ liveMail \in Nat /\ n \in Nat
      /\ MaxStepIds \in Nat /\ MaxSteps \in Nat
  BY EmailSequencesAssumption DEF SequencesIInv, SequencesTypeOK
<1>2. /\ Cardinality(DOMAIN active) = n
      /\ StepRows(active) \subseteq Step
      /\ Cardinality(StepRows(active)) \in 0..n
      /\ \A s, t \in StepRows(active) :
            /\ s.id > stepIds /\ s.id <= stepIds + n
            /\ s.id = t.id => s = t
  BY <1>1, StepRowsAreNew
<1>3. /\ campaign' = [campaign EXCEPT ![c] = row]
      /\ stepIds' = stepIds + n /\ stepIds + n <= MaxStepIds
      /\ ~LockedCampaign(c) /\ (due => armed)
      /\ UNCHANGED <<liveMail, wanted, enrolled, launched, launcher>>
  BY <1>2 DEF SaveSequence
<1>4. row \in Campaign /\ row.steps = StepRows(active) /\ row.armed = armed /\ row.due = due
  BY <1>2 DEF Campaign
<1> HIDE DEF row
<1>5. /\ campaign' \in [Campaigns -> Campaign]
      /\ campaign'[c] = row
      /\ \A d \in Campaigns : d # c => campaign'[d] = campaign[d]
  BY <1>3, <1>4 DEF SequencesIInv, RowTypes
<1>6. RowTypes'
  BY <1>3, <1>5 DEF SequencesIInv, RowTypes
<1>7. SequencesTypeOK'
  <2>1. Cardinality(StepRows(active)) <= MaxSteps
    BY <1>1, <1>2
  <2> QED
    BY <1>1, <1>2, <1>3, <1>4, <1>5, <2>1 DEF SequencesIInv, SequencesTypeOK
<1>8. StepIdsAreFresh'
  <2>1. ASSUME NEW d \in Campaigns, NEW s \in campaign'[d].steps, NEW t \in campaign'[d].steps
        PROVE  s.id <= stepIds' /\ (s.id = t.id => s = t)
    <3>1. CASE d = c
      BY <1>2, <1>3, <1>4, <1>5, <2>1, <3>1
    <3>2. CASE d # c
      <4>1. s \in campaign[d].steps /\ t \in campaign[d].steps
        BY <1>5, <2>1, <3>2
      <4>2. s \in Step
        BY <4>1 DEF SequencesIInv, SequencesTypeOK
      <4> QED
        BY <1>1, <1>3, <4>1, <4>2 DEF SequencesIInv, StepIdsAreFresh, Step
    <3> QED
      BY <3>1, <3>2
  <2>2. \A e \in launched : e.step \in Nat /\ e.step <= stepIds'
    BY <1>1, <1>3 DEF SequencesIInv, StepIdsAreFresh
  <2> QED
    BY <1>3, <2>1, <2>2 DEF StepIdsAreFresh
<1>9. HeldIsArmed'
  BY <1>3, <1>5 DEF SequencesIInv, HeldIsArmed, LockedCampaign, RowTypes
<1>10. ArmedStepsAreUnsent'
  <2>1. ASSUME NEW d \in Campaigns, campaign'[d].armed,
               NEW e \in launched, NEW s \in campaign'[d].steps, e.campaign = d
        PROVE  e.step # s.id
    <3>1. CASE d = c
      <4>1. s.id \in Nat /\ s.id > stepIds
        BY <1>2, <1>4, <1>5, <2>1, <3>1 DEF Step
      <4> QED
        BY <1>1, <4>1 DEF SequencesIInv, StepIdsAreFresh
    <3>2. CASE d # c
      BY <1>5, <2>1, <3>2 DEF SequencesIInv, ArmedStepsAreUnsent
    <3> QED
      BY <3>1, <3>2
  <2> QED
    BY <1>3, <2>1 DEF ArmedStepsAreUnsent
<1>11. StepsAreSentOnce'
  BY <1>3 DEF SequencesIInv, StepsAreSentOnce
<1> QED
  BY <1>6, <1>7, <1>8, <1>9, <1>10, <1>11 DEF SequencesIInv

\* A draft, or a launch time that comes, changes no step and arms nothing.
LEMMA RowChangeKeepsSequencesIInv ==
  ASSUME SequencesIInv, NEW c \in Campaigns, NEW row \in Campaign,
         row.steps = campaign[c].steps, row.armed = campaign[c].armed, row.due => row.armed,
         campaign' = [campaign EXCEPT ![c] = row],
         UNCHANGED <<stepIds, liveMail, wanted, enrolled, launched, launcher>>
  PROVE  SequencesIInv'
<1>1. /\ campaign' \in [Campaigns -> Campaign]
      /\ campaign'[c] = row
      /\ \A d \in Campaigns : d # c => campaign'[d] = campaign[d]
  BY DEF SequencesIInv, RowTypes
<1>2. \A d \in Campaigns : /\ campaign'[d].steps = campaign[d].steps
                          /\ campaign'[d].armed = campaign[d].armed
  BY <1>1
<1>3. RowTypes'
  BY <1>1 DEF SequencesIInv, RowTypes
<1>4. SequencesTypeOK'
  BY <1>1 DEF SequencesIInv, SequencesTypeOK
<1>5. HeldIsArmed'
  BY <1>2 DEF SequencesIInv, HeldIsArmed, RowTypes
<1>6. StepIdsAreFresh' /\ ArmedStepsAreUnsent' /\ StepsAreSentOnce'
  BY <1>2 DEF SequencesIInv, StepIdsAreFresh, ArmedStepsAreUnsent, StepsAreSentOnce
<1> QED
  BY <1>3, <1>4, <1>5, <1>6 DEF SequencesIInv

\* Edits of the e-mail and of preferences touch no sequence.
LEMMA OthersKeepSequencesIInv ==
  ASSUME SequencesIInv, EditMail \/ \E u \in Subscribers : ChangePreference(u)
  PROVE  SequencesIInv'
<1>1. UNCHANGED <<campaign, stepIds, enrolled, launched, launcher>>
  BY DEF EditMail, ChangePreference
<1>2. liveMail' \in 1..(MaxMailEdits + 1) /\ wanted' \subseteq Subscribers
  BY EmailSequencesAssumption
     DEF SequencesIInv, SequencesTypeOK, EditMail, ChangePreference
<1>3. SequencesTypeOK' /\ RowTypes'
  BY <1>1, <1>2 DEF SequencesIInv, SequencesTypeOK, RowTypes
<1>4. StepIdsAreFresh' /\ HeldIsArmed' /\ ArmedStepsAreUnsent' /\ StepsAreSentOnce'
  BY <1>1 DEF SequencesIInv, StepIdsAreFresh, HeldIsArmed, ArmedStepsAreUnsent, StepsAreSentOnce
<1> QED
  BY <1>3, <1>4 DEF SequencesIInv

\* A run takes the lock of a sequence nobody holds.
LEMMA PickKeepsSequencesIInv ==
  ASSUME SequencesIInv, NEW l \in Launchers, NEW c \in Campaigns, PickDueSequence(l, c)
  PROVE  SequencesIInv'
<1>1. /\ launcher' = [launcher EXCEPT ![l] = c]
      /\ campaign[c].armed /\ ~LockedCampaign(c)
      /\ UNCHANGED <<campaign, stepIds, liveMail, wanted, enrolled, launched>>
  BY DEF PickDueSequence, Launchable, Due
<1>2. /\ launcher'[l] = c
      /\ \A k \in Launchers : k # l => launcher'[k] = launcher[k]
  BY <1>1 DEF SequencesIInv, RowTypes
<1>3. SequencesTypeOK' /\ RowTypes'
  BY <1>1, <1>2 DEF SequencesIInv, SequencesTypeOK, RowTypes
<1>4. HeldIsArmed'
  BY <1>1, <1>2 DEF SequencesIInv, HeldIsArmed, LockedCampaign
<1>5. StepIdsAreFresh' /\ ArmedStepsAreUnsent' /\ StepsAreSentOnce'
  BY <1>1 DEF SequencesIInv, StepIdsAreFresh, ArmedStepsAreUnsent, StepsAreSentOnce
<1> QED
  BY <1>3, <1>4, <1>5 DEF SequencesIInv

\* A run that fails leaves the sequence armed.
LEMMA LaunchFailsKeepsSequencesIInv ==
  ASSUME SequencesIInv, NEW l \in Launchers, LaunchFails(l)
  PROVE  SequencesIInv'
<1>1. /\ launcher' = [launcher EXCEPT ![l] = Nothing]
      /\ UNCHANGED <<campaign, stepIds, liveMail, wanted, enrolled, launched>>
  BY DEF LaunchFails
<1>2. /\ launcher'[l] = Nothing
      /\ \A k \in Launchers : k # l => launcher'[k] = launcher[k]
  BY <1>1 DEF SequencesIInv, RowTypes
<1>3. SequencesTypeOK' /\ RowTypes'
  BY <1>1, <1>2 DEF SequencesIInv, SequencesTypeOK, RowTypes
<1>4. HeldIsArmed'
  BY <1>1, <1>2 DEF SequencesIInv, HeldIsArmed
<1>5. StepIdsAreFresh' /\ ArmedStepsAreUnsent' /\ StepsAreSentOnce'
  BY <1>1 DEF SequencesIInv, StepIdsAreFresh, ArmedStepsAreUnsent, StepsAreSentOnce
<1> QED
  BY <1>3, <1>4, <1>5 DEF SequencesIInv

\* The sequence launched was armed, so its steps had no send, and it is not armed
\* any more when they have.
LEMMA LaunchKeepsSequencesIInv ==
  ASSUME SequencesIInv, NEW l \in Launchers, LaunchSequence(l)
  PROVE  SequencesIInv'
<1> DEFINE c == launcher[l]
           entry(s) == [by |-> l, nr |-> Cardinality(launched), campaign |-> c, step |-> s.id,
                        mail |-> s.mail, to |-> wanted]
<1>1. /\ c \in Campaigns /\ c # Nothing /\ campaign[c].armed
      /\ campaign[c] \in Campaign
  BY DEF LaunchSequence, SequencesIInv, RowTypes, HeldIsArmed
<1>2. /\ launched' = launched \cup {entry(s) : s \in ActiveSteps(c)}
      /\ enrolled' = [enrolled EXCEPT ![c] = IF ActiveSteps(c) = {} THEN @ ELSE @ \cup wanted]
      /\ campaign' = [campaign EXCEPT ![c] = Disarmed(c)]
      /\ launcher' = [launcher EXCEPT ![l] = Nothing]
      /\ UNCHANGED <<stepIds, liveMail, wanted>>
  BY DEF LaunchSequence, LaunchedSteps
<1>3. /\ Disarmed(c) \in Campaign /\ Disarmed(c).steps = campaign[c].steps
      /\ ~Disarmed(c).armed /\ ~Disarmed(c).due
  BY <1>1 DEF Disarmed, Campaign
<1>4. /\ campaign' \in [Campaigns -> Campaign]
      /\ campaign'[c] = Disarmed(c)
      /\ \A d \in Campaigns : d # c => campaign'[d] = campaign[d]
  BY <1>1, <1>2, <1>3 DEF SequencesIInv, RowTypes
<1>5. /\ launcher' \in [Launchers -> Campaigns \cup {Nothing}]
      /\ launcher'[l] = Nothing
      /\ \A k \in Launchers : k # l => launcher'[k] = launcher[k]
  BY <1>2 DEF SequencesIInv, RowTypes
<1>6. wanted \subseteq Subscribers
  BY DEF SequencesIInv, SequencesTypeOK
<1>7. enrolled' \in [Campaigns -> SUBSET Subscribers]
  BY <1>1, <1>2, <1>6 DEF SequencesIInv, RowTypes
<1>8. \A s \in ActiveSteps(c) :
          /\ s \in campaign[c].steps /\ s.id \in Nat /\ s.id <= stepIds
          /\ entry(s).campaign = c /\ entry(s).step = s.id /\ entry(s).to \subseteq Subscribers
  BY <1>1, <1>6 DEF ActiveSteps, SequencesIInv, StepIdsAreFresh, SequencesTypeOK, Step
<1> HIDE DEF c, entry
<1>9. RowTypes'
  BY <1>4, <1>5, <1>7 DEF RowTypes
<1>10. SequencesTypeOK'
  <2>1. \A s \in launched' : s.campaign \in Campaigns /\ s.to \subseteq Subscribers
    BY <1>1, <1>2, <1>8 DEF SequencesIInv, SequencesTypeOK
  <2>2. \A d \in Campaigns :
            /\ enrolled'[d] \subseteq Subscribers
            /\ campaign'[d].steps \subseteq Step
            /\ Cardinality(campaign'[d].steps) <= MaxSteps
            /\ campaign'[d].due => campaign'[d].armed
    BY <1>3, <1>4, <1>7 DEF SequencesIInv, SequencesTypeOK
  <2>3. \A k \in Launchers : launcher'[k] \in Campaigns \cup {Nothing}
    BY <1>5
  <2> QED
    BY <1>2, <2>1, <2>2, <2>3 DEF SequencesIInv, SequencesTypeOK
<1>11. StepIdsAreFresh'
  <2>1. \A d \in Campaigns : campaign'[d].steps = campaign[d].steps
    BY <1>3, <1>4
  <2>2. \A e \in launched' : e.step \in Nat /\ e.step <= stepIds
    BY <1>2, <1>8 DEF SequencesIInv, StepIdsAreFresh
  <2> QED
    BY <1>2, <2>1, <2>2 DEF SequencesIInv, StepIdsAreFresh
<1>12. HeldIsArmed'
  <2>1. \A k \in Launchers : launcher'[k] # Nothing => launcher'[k] # c /\ k # l
    BY <1>1, <1>5 DEF SequencesIInv, HeldIsArmed, c
  <2> QED
    BY <1>4, <1>5, <2>1 DEF SequencesIInv, HeldIsArmed, RowTypes
<1>13. ArmedStepsAreUnsent'
  <2>1. ASSUME NEW d \in Campaigns, campaign'[d].armed
        PROVE  d # c /\ campaign[d].armed /\ campaign'[d].steps = campaign[d].steps
    BY <1>3, <1>4, <2>1
  <2>2. \A e \in launched' : e \in launched \/ e.campaign = c
    BY <1>2, <1>8
  <2> QED
    BY <2>1, <2>2 DEF SequencesIInv, ArmedStepsAreUnsent
<1>14. StepsAreSentOnce'
  <2>1. \A e \in launched, s \in ActiveSteps(c) :
            e.campaign = c => e.step # s.id
    BY <1>1, <1>8 DEF SequencesIInv, ArmedStepsAreUnsent
  <2>2. \A s, t \in ActiveSteps(c) : s.id = t.id => entry(s) = entry(t)
    BY <1>1, <1>8 DEF SequencesIInv, StepIdsAreFresh
  <2> QED
    BY <1>2, <1>8, <2>1, <2>2 DEF SequencesIInv, StepsAreSentOnce
<1> QED
  BY <1>9, <1>10, <1>11, <1>12, <1>13, <1>14 DEF SequencesIInv

-----------------------------------------------------------------------------
\* Every step of the sequences keeps the invariant.
LEMMA SequencesNextKeepsIInv == SequencesIInv /\ SequencesNext => SequencesIInv'
<1> SUFFICES ASSUME SequencesIInv, SequencesNext
             PROVE  SequencesIInv'
  OBVIOUS
<1>1. ASSUME NEW c \in Campaigns, CreateSequenceDraft(c) \/ LaunchTimeComes(c)
      PROVE  SequencesIInv'
  <2>1. campaign[c] \in Campaign /\ (campaign[c].due => campaign[c].armed)
    BY DEF SequencesIInv, RowTypes, SequencesTypeOK
  <2>2. PICK row \in Campaign :
            /\ row.steps = campaign[c].steps /\ row.armed = campaign[c].armed
            /\ row.due => row.armed
            /\ campaign' = [campaign EXCEPT ![c] = row]
    <3>1. CASE CreateSequenceDraft(c)
      <4> DEFINE row == [campaign[c] EXCEPT !.saved = TRUE]
      <4>1. /\ row \in Campaign /\ row.steps = campaign[c].steps
            /\ row.armed = campaign[c].armed /\ row.due = campaign[c].due
        BY <2>1 DEF Campaign
      <4>2. campaign' = [campaign EXCEPT ![c] = row]
        BY <3>1 DEF CreateSequenceDraft
      <4> QED
        BY <2>1, <4>1, <4>2
    <3>2. CASE LaunchTimeComes(c)
      <4> DEFINE row == [campaign[c] EXCEPT !.due = TRUE]
      <4>1. /\ row \in Campaign /\ row.steps = campaign[c].steps
            /\ row.armed = campaign[c].armed
        BY <2>1 DEF Campaign
      <4>2. campaign[c].armed /\ campaign' = [campaign EXCEPT ![c] = row]
        BY <3>2 DEF LaunchTimeComes
      <4> QED
        BY <4>1, <4>2
    <3> QED
      BY <1>1, <3>1, <3>2
  <2>3. UNCHANGED <<stepIds, liveMail, wanted, enrolled, launched, launcher>>
    BY <1>1 DEF CreateSequenceDraft, LaunchTimeComes
  <2> QED
    BY <2>2, <2>3, RowChangeKeepsSequencesIInv
<1>2. ASSUME NEW c \in Campaigns, NEW live \in BOOLEAN, NEW armed \in BOOLEAN,
             NEW due \in BOOLEAN, NEW n \in 0..MaxSteps, NEW active \in [1..n -> BOOLEAN],
             SaveSequence(c, live, armed, due, active)
      PROVE  SequencesIInv'
  BY <1>2, SaveKeepsSequencesIInv
<1>3. CASE EditMail \/ \E u \in Subscribers : ChangePreference(u)
  BY <1>3, OthersKeepSequencesIInv
<1>4. ASSUME NEW l \in Launchers,
             \/ \E c \in Campaigns : PickDueSequence(l, c)
             \/ LaunchSequence(l)
             \/ LaunchFails(l)
      PROVE  SequencesIInv'
  BY <1>4, PickKeepsSequencesIInv, LaunchKeepsSequencesIInv, LaunchFailsKeepsSequencesIInv
<1> QED
  BY <1>1, <1>2, <1>3, <1>4 DEF SequencesNext

\* The facts the theorems rest on hold in every reachable state.
LEMMA SequencesInductive == SequencesSpec => []SequencesIInv
<1>1. SequencesIInv /\ UNCHANGED sequences => SequencesIInv'
  BY DEF sequences, SequencesIInv, SequencesTypeOK, RowTypes, StepIdsAreFresh, HeldIsArmed,
         ArmedStepsAreUnsent, StepsAreSentOnce
<1> QED
  BY SequencesInitHolds, SequencesNextKeepsIInv, <1>1, PTL DEF SequencesSpec

\* Every reachable state of the sequences is well typed: no save gives a sequence
\* more steps than a form has, or an id twice.
THEOREM SequencesTypeCorrect == SequencesSpec => []SequencesTypeOK
<1>1. SequencesIInv => SequencesTypeOK
  BY DEF SequencesIInv
<1> QED
  BY SequencesInductive, <1>1, PTL

\* A step of a sequence, as it was saved, is sent to a user at most once, whatever
\* runs of the e-mail jobs, saves, failures and launches interleave.
THEOREM StepsReachUsersOnce == SequencesSpec => []SavedStepsAreSentOnce
<1>1. SequencesIInv => SavedStepsAreSentOnce
  BY DEF SequencesIInv, StepsAreSentOnce, SavedStepsAreSentOnce
<1> QED
  BY SequencesInductive, <1>1, PTL

-----------------------------------------------------------------------------
(* The tracker.                                                             *)

\* An open save is of items that are there, under another item than itself.
SavesAreOfItems ==
    /\ saving \in [Savers -> Save \cup {NoSave}]
    /\ \A s \in Savers : saving[s] # NoSave =>
          /\ saving[s].item \in Items /\ saving[s].parent \in Items \cup {NoItem}
          /\ saving[s].parent # saving[s].item

\* The parent of a save that has been checked stays outside of the item until the
\* save has ended: nobody can move it there without the row that the save holds.
CheckedParentsStayOutside ==
    \A s \in Savers :
        saving[s] # NoSave /\ saving[s].checked /\ saving[s].parent # NoItem
            => parentOf[saving[s].parent] # saving[s].item

\* The inductive invariant.  ParentsAreNotMutual alone is not inductive: a save
\* writes the parent it has checked in an earlier step.
TrackerIInv == TrackerTypeOK /\ SavesAreOfItems /\ CheckedParentsStayOutside /\ ParentsAreNotMutual

\* The bounds are numbers.
LEMMA TrackerParams == MaxItems \in Nat /\ MaxUpdates \in Nat
BY TrackerAssumption

\* What the WITH RECURSIVE query reads after n rounds.
Round(i, f) == f = [n \in Nat |-> IF n = 0 THEN Children({i}) ELSE f[n - 1] \cup Children(f[n - 1])]

\* Items below i at the end of a path of parents.
PathTo(i, j, k) ==
    \E path \in [0..k -> Items \cup {i}] :
        path[0] = i /\ path[k] = j /\ \A m \in 1..k : path[m] \in Items /\ parentOf[path[m]] = path[m - 1]

\* The items that are below i within n + 1 links.
Reached(i) == [n \in Nat |-> {j \in Items : \E k \in 1..(n + 1) : PathTo(i, j, k)}]

\* A path to i and a link from i make a path that is one longer.
LEMMA LongerPath ==
  ASSUME NEW i, NEW j, NEW k \in Nat, PathTo(i, j, k), NEW c \in Items, parentOf[c] = j
  PROVE  PathTo(i, c, k + 1)
<1>1. PICK path \in [0..k -> Items \cup {i}] :
         path[0] = i /\ path[k] = j /\ \A m \in 1..k : path[m] \in Items /\ parentOf[path[m]] = path[m - 1]
  BY DEF PathTo
<1> DEFINE q == [m \in 0..(k + 1) |-> IF m = k + 1 THEN c ELSE path[m]]
<1>2. q \in [0..(k + 1) -> Items \cup {i}]
  BY <1>1
<1>3. q[0] = i /\ q[k + 1] = c
  BY <1>1
<1>4. ASSUME NEW m \in 1..(k + 1) PROVE q[m] \in Items /\ parentOf[q[m]] = q[m - 1]
  <2>1. CASE m = k + 1
    BY <1>1, <2>1
  <2>2. CASE m # k + 1
    <3>1. m \in 1..k /\ m - 1 \in 0..k /\ m - 1 # k + 1
      BY <2>2
    <3> QED
      BY <1>1, <2>2, <3>1
  <2> QED
    BY <2>1, <2>2
<1> QED
  BY <1>2, <1>3, <1>4 DEF PathTo

\* A longer path has a shorter one in it, to an item whose parent its end is.
LEMMA ShorterPath ==
  ASSUME NEW i, NEW j, NEW k \in Nat, k > 1, PathTo(i, j, k)
  PROVE  \E c \in Items : PathTo(i, c, k - 1) /\ parentOf[j] = c
<1>1. PICK path \in [0..k -> Items \cup {i}] :
         path[0] = i /\ path[k] = j /\ \A m \in 1..k : path[m] \in Items /\ parentOf[path[m]] = path[m - 1]
  BY DEF PathTo
<1> DEFINE q == [m \in 0..(k - 1) |-> path[m]]
<1>2. q \in [0..(k - 1) -> Items \cup {i}] /\ q[0] = i
  BY <1>1
<1>3. k - 1 \in 1..k /\ k \in 1..k
  OBVIOUS
<1>4. q[k - 1] = path[k - 1] /\ path[k - 1] \in Items /\ parentOf[j] = path[k - 1]
  BY <1>1, <1>3
<1>5. \A m \in 1..(k - 1) : q[m] \in Items /\ parentOf[q[m]] = q[m - 1]
  <2> SUFFICES ASSUME NEW m \in 1..(k - 1) PROVE q[m] \in Items /\ parentOf[q[m]] = q[m - 1]
    OBVIOUS
  <2>1. m \in 1..k /\ m \in 0..(k - 1) /\ m - 1 \in 0..(k - 1)
    OBVIOUS
  <2> QED
    BY <1>1, <2>1
<1> HIDE DEF q
<1>6. PathTo(i, path[k - 1], k - 1)
  BY <1>2, <1>4, <1>5 DEF PathTo
<1> QED
  BY <1>4, <1>6

\* The only end of a path without links is where it starts.
LEMMA PathOfOne ==
  ASSUME NEW i, NEW j \in Items
  PROVE  PathTo(i, j, 1) <=> parentOf[j] = i
<1>1. ASSUME parentOf[j] = i PROVE PathTo(i, j, 1)
  <2> DEFINE q == [m \in 0..1 |-> IF m = 0 THEN i ELSE j]
  <2>1. q \in [0..1 -> Items \cup {i}] /\ q[0] = i /\ q[1] = j
    OBVIOUS
  <2>2. \A m \in 1..1 : m = 1
    OBVIOUS
  <2>3. \A m \in 1..1 : q[m] \in Items /\ parentOf[q[m]] = q[m - 1]
    BY <1>1, <2>1, <2>2
  <2> HIDE DEF q
  <2> QED
    BY <2>1, <2>3 DEF PathTo
<1>2. ASSUME PathTo(i, j, 1) PROVE parentOf[j] = i
  <2>1. PICK path \in [0..1 -> Items \cup {i}] :
         path[0] = i /\ path[1] = j /\ \A m \in 1..1 : path[m] \in Items /\ parentOf[path[m]] = path[m - 1]
    BY <1>2 DEF PathTo
  <2>2. 1 \in 1..1 /\ 1 - 1 = 0
    OBVIOUS
  <2> QED
    BY <2>1, <2>2
<1> QED
  BY <1>1, <1>2

\* The query has a result: the items that a path of parents leads up to i.
LEMMA ReachedIsRound ==
  ASSUME NEW i
  PROVE  Round(i, Reached(i))
<1> DEFINE g == Reached(i)
<1>1. \A n \in Nat : g[n] = {j \in Items : \E k \in 1..(n + 1) : PathTo(i, j, k)}
  BY DEF Reached
<1>2. g[0] = Children({i})
  <2>1. \A k \in 1..(0 + 1) : k = 1
    OBVIOUS
  <2>2. \A j \in Items : (\E k \in 1..(0 + 1) : PathTo(i, j, k)) <=> PathTo(i, j, 1)
    BY <2>1
  <2> QED
    BY <1>1, <2>2, PathOfOne DEF Children
<1>3. ASSUME NEW n \in Nat, n # 0 PROVE g[n] = g[n - 1] \cup Children(g[n - 1])
  <2>1. g[n - 1] = {j \in Items : \E k \in 1..n : PathTo(i, j, k)}
    BY <1>1, <1>3
  <2>2. ASSUME NEW j \in Items, NEW k \in 1..(n + 1), PathTo(i, j, k)
        PROVE  j \in g[n - 1] \cup Children(g[n - 1])
    <3>1. CASE k \in 1..n
      BY <2>1, <2>2, <3>1
    <3>2. CASE k = n + 1
      <4>1. k \in Nat /\ k > 1 /\ k - 1 \in 1..n
        BY <1>3, <3>2
      <4>2. PICK c \in Items : PathTo(i, c, k - 1) /\ parentOf[j] = c
        BY <2>2, <4>1, ShorterPath
      <4>3. c \in g[n - 1]
        BY <2>1, <4>1, <4>2
      <4> QED
        BY <4>2, <4>3 DEF Children
    <3> QED
      BY <3>1, <3>2
  <2>3. ASSUME NEW j \in Items, j \in g[n - 1] PROVE j \in g[n]
    <3>1. PICK k \in 1..n : PathTo(i, j, k)
      BY <2>1, <2>3
    <3>2. k \in 1..(n + 1)
      OBVIOUS
    <3> QED
      BY <1>1, <3>1, <3>2
  <2>4. ASSUME NEW j \in Items, NEW c \in g[n - 1], parentOf[j] = c PROVE j \in g[n]
    <3>1. PICK k \in 1..n : PathTo(i, c, k)
      BY <2>1
    <3>2. k \in Nat /\ k + 1 \in 1..(n + 1)
      OBVIOUS
    <3>3. PathTo(i, j, k + 1)
      BY <2>4, <3>1, <3>2, LongerPath
    <3> QED
      BY <1>1, <3>2, <3>3
  <2>5. g[n] \subseteq Items /\ g[n - 1] \subseteq Items
    BY <1>1, <2>1
  <2>6. \A j : j \in g[n] => j \in g[n - 1] \cup Children(g[n - 1])
    BY <1>1, <2>2
  <2>7. \A j : j \in g[n - 1] \cup Children(g[n - 1]) => j \in g[n]
    BY <2>3, <2>4, <2>5 DEF Children
  <2> QED
    BY <2>6, <2>7
<1>4. g = [n \in Nat |-> g[n]]
  BY DEF Reached
<1> HIDE DEF g
<1>5. g = [n \in Nat |-> IF n = 0 THEN Children({i}) ELSE g[n - 1] \cup Children(g[n - 1])]
  BY <1>2, <1>3, <1>4
<1> QED
  BY <1>5 DEF Round, g

\* The children of an item are among what the query reads.
LEMMA ChildrenAreDescendants ==
  ASSUME itemCount \in Nat, NEW i, NEW j \in Items, parentOf[j] = i
  PROVE  j \in Descendants(i)
<1> DEFINE f == CHOOSE g : Round(i, g)
<1>1. Round(i, f)
  BY ReachedIsRound
<1>2. Descendants(i) = f[itemCount]
  BY DEF Descendants, Round
<1> HIDE DEF f
<1>3. \A n \in Nat : f[n] = IF n = 0 THEN Children({i}) ELSE f[n - 1] \cup Children(f[n - 1])
  BY <1>1 DEF Round
<1>4. j \in f[0]
  BY <1>3 DEF Children
<1>5. ASSUME j \notin f[itemCount] PROVE FALSE
  <2> DEFINE S == {n \in Nat : j \notin f[n]}
  <2>1. S \in SUBSET Nat /\ S # {}
    BY <1>5
  <2>2. PICK n \in S : \A m \in S : n <= m
    <3> HIDE DEF S
    <3> QED
      BY <2>1, SmallestNat
  <2>3. n # 0 /\ n \in Nat /\ n - 1 \in Nat /\ ~(n <= n - 1)
    BY <1>4
  <2>4. j \in f[n - 1]
    BY <2>2, <2>3
  <2> QED
    BY <1>3, <2>3, <2>4
<1> QED
  BY <1>2, <1>5

\* The absence of a save is no save.
LEMMA NoSaveIsNone == NoSave.item = NoItem /\ NoSave \notin Save
BY DEF NoSave, Save, NoItem

\* The invariant holds before the first item.
LEMMA TrackerInitHolds == TrackerInit => TrackerIInv
<1> SUFFICES ASSUME TrackerInit PROVE TrackerIInv
  OBVIOUS
<1>1. Items = {} /\ itemCount = 0
  BY DEF TrackerInit, Items
<1>2. TrackerTypeOK
  <2>1. 0 \in 0..MaxItems /\ 0 \in 0..MaxUpdates
    BY TrackerParams
  <2>2. parentOf \in [Items -> Items \cup {NoItem}]
    BY <1>1 DEF TrackerInit
  <2>3. 1..0 = {}
    OBVIOUS
  <2>4. updateItem \in [1..0 -> Items]
    BY <2>3 DEF TrackerInit
  <2> QED
    BY <1>1, <2>1, <2>2, <2>4 DEF TrackerTypeOK, TrackerInit
<1>3. SavesAreOfItems /\ CheckedParentsStayOutside
  BY DEF TrackerInit, SavesAreOfItems, CheckedParentsStayOutside
<1> QED
  BY <1>1, <1>2, <1>3 DEF TrackerIInv, ParentsAreNotMutual

\* Archiving and updates leave the tree alone.
LEMMA TreeUntouched ==
  ASSUME TrackerIInv, UNCHANGED <<itemCount, parentOf, saving>>,
         archivedItem' \subseteq Items, \E n \in 0..MaxUpdates : updateItem' \in [1..n -> Items]
  PROVE  TrackerIInv'
<1>1. TrackerTypeOK'
  BY DEF TrackerIInv, TrackerTypeOK, Items
<1>2. SavesAreOfItems' /\ CheckedParentsStayOutside'
  BY DEF TrackerIInv, SavesAreOfItems, CheckedParentsStayOutside, Items
<1>3. ParentsAreNotMutual'
  BY DEF TrackerIInv, ParentsAreNotMutual, Items
<1> QED
  BY <1>1, <1>2, <1>3 DEF TrackerIInv

\* Archiving an item and saving updates of it move no item.
LEMMA UpdatesKeepTrackerIInv ==
  ASSUME TrackerIInv, NEW i \in Items,
         \/ \E archived \in BOOLEAN : ArchiveItem(i, archived)
         \/ CreateUpdate(i)
         \/ \E u \in DOMAIN updateItem : SaveUpdate(u, i)
  PROVE  TrackerIInv'
<1>1. PICK n \in 0..MaxUpdates : updateItem \in [1..n -> Items]
  BY DEF TrackerIInv, TrackerTypeOK
<1>2. archivedItem \subseteq Items /\ MaxUpdates \in Nat
  BY TrackerParams DEF TrackerIInv, TrackerTypeOK
<1>3. ASSUME NEW archived \in BOOLEAN, ArchiveItem(i, archived) PROVE TrackerIInv'
  <2>1. archivedItem' \subseteq Items /\ UNCHANGED <<itemCount, parentOf, updateItem, saving>>
    BY <1>2, <1>3 DEF ArchiveItem
  <2> QED
    BY <1>1, <2>1, TreeUntouched
<1>4. CASE CreateUpdate(i)
  <2>1. DOMAIN updateItem = 1..n /\ Cardinality(1..n) = n
    BY <1>1, FS_Interval
  <2>2. n + 1 \in 0..MaxUpdates /\ updateItem' = [u \in 1..(n + 1) |-> IF u = n + 1 THEN i ELSE updateItem[u]]
    BY <1>2, <1>4, <2>1 DEF CreateUpdate
  <2>3. updateItem' \in [1..(n + 1) -> Items]
    BY <1>1, <2>2
  <2>4. UNCHANGED <<itemCount, parentOf, archivedItem, saving>>
    BY <1>4 DEF CreateUpdate
  <2> QED
    BY <1>2, <2>2, <2>3, <2>4, TreeUntouched
<1>5. ASSUME NEW u \in DOMAIN updateItem, SaveUpdate(u, i) PROVE TrackerIInv'
  <2>1. updateItem' = [updateItem EXCEPT ![u] = i] /\ UNCHANGED <<itemCount, parentOf, archivedItem, saving>>
    BY <1>5 DEF SaveUpdate
  <2>2. updateItem' \in [1..n -> Items]
    BY <1>1, <2>1
  <2> QED
    BY <1>2, <2>1, <2>2, TreeUntouched
<1> QED
  BY <1>3, <1>4, <1>5

\* A new item is under an existing one, and nothing is under it.
LEMMA CreateItemKeepsTrackerIInv ==
  ASSUME TrackerIInv, NEW parent \in Items \cup {NoItem}, CreateItem(parent) PROVE TrackerIInv'
<1>1. /\ itemCount \in Nat /\ itemCount < MaxItems /\ MaxItems \in Nat /\ itemCount' = itemCount + 1
      /\ parentOf' = [i \in 1..(itemCount + 1) |-> IF i \in Items THEN parentOf[i] ELSE parent]
      /\ UNCHANGED <<archivedItem, updateItem, saving>>
      /\ parentOf \in [Items -> Items \cup {NoItem}]
  BY TrackerParams DEF CreateItem, TrackerIInv, TrackerTypeOK
<1>2. /\ Items' = Items \cup {itemCount + 1} /\ itemCount + 1 \notin Items /\ NoItem \notin Items'
      /\ Items' = 1..(itemCount + 1)
  BY <1>1 DEF Items, NoItem
<1>3. \A i \in Items : parentOf'[i] = parentOf[i]
  BY <1>1, <1>2
<1>4. parentOf'[itemCount + 1] = parent
  BY <1>1, <1>2
<1>5. TrackerTypeOK'
  <2>1. itemCount' \in 0..MaxItems
    BY <1>1
  <2>2. parentOf' \in [Items' -> Items' \cup {NoItem}]
    BY <1>1, <1>2
  <2>3. \E n \in 0..MaxUpdates : updateItem' \in [1..n -> Items']
    BY <1>1, <1>2 DEF TrackerIInv, TrackerTypeOK
  <2> QED
    BY <1>1, <1>2, <2>1, <2>2, <2>3 DEF TrackerIInv, TrackerTypeOK
<1>6. SavesAreOfItems'
  BY <1>1, <1>2 DEF TrackerIInv, SavesAreOfItems
<1>7. CheckedParentsStayOutside'
  BY <1>1, <1>3 DEF TrackerIInv, SavesAreOfItems, CheckedParentsStayOutside
<1>8. ParentsAreNotMutual'
  <2> SUFFICES ASSUME NEW i \in Items', parentOf'[i] # NoItem PROVE parentOf'[parentOf'[i]] # i
    BY DEF ParentsAreNotMutual
  <2>1. CASE i \in Items
    BY <1>1, <1>3, <2>1 DEF TrackerIInv, ParentsAreNotMutual
  <2>2. CASE i = itemCount + 1
    BY <1>1, <1>2, <1>3, <1>4, <2>2
  <2> QED
    BY <1>2, <2>1, <2>2
<1> QED
  BY <1>5, <1>6, <1>7, <1>8 DEF TrackerIInv

\* A save that starts, is refused or goes on changes no item.
LEMMA SaveMovesKeepTrackerIInv ==
  ASSUME TrackerIInv, NEW s \in Savers, NEW x \in Save \cup {NoSave},
         saving' = [saving EXCEPT ![s] = x],
         UNCHANGED <<itemCount, parentOf, archivedItem, updateItem>>,
         x # NoSave => /\ x.item \in Items /\ x.parent \in Items \cup {NoItem} /\ x.parent # x.item
                       /\ x.checked /\ x.parent # NoItem => parentOf[x.parent] # x.item
  PROVE  TrackerIInv'
<1>1. saving' \in [Savers -> Save \cup {NoSave}] /\ saving'[s] = x
      /\ \A t \in Savers : t # s => saving'[t] = saving[t]
  BY DEF TrackerIInv, SavesAreOfItems
<1>2. TrackerTypeOK'
  BY <1>1 DEF TrackerIInv, TrackerTypeOK, Items
<1>3. SavesAreOfItems'
  BY <1>1 DEF TrackerIInv, SavesAreOfItems, Items
<1>4. CheckedParentsStayOutside'
  BY <1>1 DEF TrackerIInv, CheckedParentsStayOutside
<1>5. ParentsAreNotMutual'
  BY DEF TrackerIInv, ParentsAreNotMutual, Items
<1> QED
  BY <1>2, <1>3, <1>4, <1>5 DEF TrackerIInv

\* A save that begins or is rolled back moves no item.
LEMMA StartedSavesKeepTrackerIInv ==
  ASSUME TrackerIInv, NEW s \in Savers,
         \/ \E i \in Items, parent \in Items \cup {NoItem} : LockItem(s, i, parent)
         \/ SaveRollsBack(s)
  PROVE  TrackerIInv'
<1>1. CASE SaveRollsBack(s)
  BY <1>1, SaveMovesKeepTrackerIInv DEF SaveRollsBack
<1>2. ASSUME NEW i \in Items, NEW parent \in Items \cup {NoItem}, LockItem(s, i, parent) PROVE TrackerIInv'
  <2> SUFFICES ASSUME NEW x, x = [item |-> i, parent |-> parent, checked |-> FALSE] PROVE TrackerIInv'
    OBVIOUS
  <2>1. itemCount \in 0..MaxItems /\ MaxItems \in Nat
    BY TrackerParams DEF TrackerIInv, TrackerTypeOK
  <2>2. i \in 1..MaxItems /\ parent \in 0..MaxItems
    BY <2>1 DEF Items, NoItem
  <2>3. x \in Save /\ x.item = i /\ x.parent = parent /\ ~x.checked
    BY <2>2 DEF Save
  <2>4. saving' = [saving EXCEPT ![s] = x] /\ parent # i
        /\ UNCHANGED <<itemCount, parentOf, archivedItem, updateItem>>
    BY <1>2 DEF LockItem
  <2> QED
    BY <2>3, <2>4, SaveMovesKeepTrackerIInv
<1> QED
  BY <1>1, <1>2

\* A parent that is not below the item has another parent than the item.
LEMMA CheckParentKeepsTrackerIInv ==
  ASSUME TrackerIInv, NEW s \in Savers, CheckParent(s) PROVE TrackerIInv'
<1> SUFFICES ASSUME NEW save, save = saving[s] PROVE TrackerIInv'
  OBVIOUS
<1>1. /\ save # NoSave /\ save \in Save /\ save.item \in Items /\ save.parent \in Items \cup {NoItem}
      /\ save.parent # save.item /\ itemCount \in Nat
  BY DEF CheckParent, TrackerIInv, TrackerTypeOK, SavesAreOfItems
<1>2. UNCHANGED <<itemCount, parentOf, archivedItem, updateItem>>
  BY DEF CheckParent
<1>3. CASE save.parent # NoItem /\ save.parent \in Descendants(save.item)
  <2>1. saving' = [saving EXCEPT ![s] = NoSave]
    BY <1>3 DEF CheckParent
  <2> QED
    BY <1>2, <2>1, SaveMovesKeepTrackerIInv
<1>4. CASE ~(save.parent # NoItem /\ save.parent \in Descendants(save.item))
  <2> SUFFICES ASSUME NEW x, x = [save EXCEPT !.checked = TRUE] PROVE TrackerIInv'
    OBVIOUS
  <2>1. x \in Save /\ x.item = save.item /\ x.parent = save.parent
    BY <1>1 DEF Save
  <2>2. saving' = [saving EXCEPT ![s] = x]
    BY <1>4 DEF CheckParent
  <2>3. x.parent # NoItem => parentOf[x.parent] # x.item
    BY <1>1, <1>4, <2>1, ChildrenAreDescendants
  <2> QED
    BY <1>1, <1>2, <2>1, <2>2, <2>3, SaveMovesKeepTrackerIInv
<1> QED
  BY <1>3, <1>4

\* The foreign key waits for the row that another save holds: what the others
\* have checked stays as it was, and the new parent is not below the item.
LEMMA SaveItemKeepsTrackerIInv ==
  ASSUME TrackerIInv, NEW s \in Savers, SaveItem(s) PROVE TrackerIInv'
<1> SUFFICES ASSUME NEW i, i = saving[s].item, NEW p, p = saving[s].parent PROVE TrackerIInv'
  OBVIOUS
<1>1. /\ saving[s] # NoSave /\ saving[s].checked /\ i \in Items /\ p \in Items \cup {NoItem} /\ p # i
      /\ parentOf \in [Items -> Items \cup {NoItem}] /\ saving \in [Savers -> Save \cup {NoSave}]
  BY DEF SaveItem, TrackerIInv, TrackerTypeOK, SavesAreOfItems
<1>2. /\ parentOf' = [parentOf EXCEPT ![i] = p] /\ saving' = [saving EXCEPT ![s] = NoSave]
      /\ UNCHANGED <<itemCount, archivedItem, updateItem>> /\ ~WaitsForParent(s)
  BY DEF SaveItem
<1>3. /\ saving'[s] = NoSave /\ \A t \in Savers : t # s => saving'[t] = saving[t]
      /\ saving' \in [Savers -> Save \cup {NoSave}]
  BY <1>1, <1>2
<1>4. /\ parentOf'[i] = p /\ \A j \in Items : j # i => parentOf'[j] = parentOf[j]
      /\ parentOf' \in [Items -> Items \cup {NoItem}] /\ Items' = Items
  BY <1>1, <1>2 DEF Items
<1>5. p # NoItem => parentOf[p] # i
  BY <1>1 DEF TrackerIInv, CheckedParentsStayOutside
<1>6. p \in {NoItem, parentOf[i]} \/ \A t \in Savers : t # s => saving[t] = NoSave \/ saving[t].item # p
  BY <1>1, <1>2 DEF WaitsForParent, RowLockedByOther
<1>7. TrackerTypeOK'
  BY <1>2, <1>3, <1>4 DEF TrackerIInv, TrackerTypeOK
<1>8. SavesAreOfItems'
  BY <1>3, <1>4 DEF TrackerIInv, SavesAreOfItems
<1>9. CheckedParentsStayOutside'
  <2> SUFFICES ASSUME NEW t \in Savers, saving'[t] # NoSave, saving'[t].checked, saving'[t].parent # NoItem
               PROVE  parentOf'[saving'[t].parent] # saving'[t].item
    BY DEF CheckedParentsStayOutside
  <2> SUFFICES ASSUME NEW q, q = saving[t].item, NEW r, r = saving[t].parent
               PROVE  parentOf'[r] # q
    BY <1>3
  <2>1. /\ t # s /\ saving[t] # NoSave /\ r # NoItem /\ r \in Items /\ q \in Items /\ r # q
        /\ parentOf[r] # q
    BY <1>3 DEF TrackerIInv, SavesAreOfItems, CheckedParentsStayOutside
  <2>2. CASE r # i
    BY <1>4, <2>1, <2>2
  <2>3. CASE r = i
    <3>1. q \in Items /\ NoItem \notin Items
      BY <2>1 DEF Items, NoItem
    <3> QED
      BY <1>4, <1>6, <2>1, <2>3, <3>1
  <2> QED
    BY <2>2, <2>3
<1>10. ParentsAreNotMutual'
  <2> SUFFICES ASSUME NEW j \in Items, parentOf'[j] # NoItem PROVE parentOf'[parentOf'[j]] # j
    BY <1>4 DEF ParentsAreNotMutual
  <2>1. parentOf'[j] \in Items /\ NoItem \notin Items
    BY <1>4 DEF Items, NoItem
  <2>2. CASE j = i
    BY <1>1, <1>4, <1>5, <2>1, <2>2
  <2>3. CASE j # i /\ parentOf[j] = i
    BY <1>1, <1>4, <1>5, <2>1, <2>3
  <2>4. CASE j # i /\ parentOf[j] # i
    BY <1>4, <2>1, <2>4 DEF TrackerIInv, ParentsAreNotMutual
  <2> QED
    BY <2>2, <2>3, <2>4
<1> QED
  BY <1>7, <1>8, <1>9, <1>10 DEF TrackerIInv

\* Every step of the tracker keeps the invariant.
LEMMA TrackerNextKeepsTrackerIInv == TrackerIInv /\ [TrackerNext]_tracker => TrackerIInv'
<1> SUFFICES ASSUME TrackerIInv, [TrackerNext]_tracker PROVE TrackerIInv'
  OBVIOUS
<1>1. CASE UNCHANGED tracker
  <2>1. UNCHANGED <<itemCount, parentOf, archivedItem, updateItem, saving>>
    BY <1>1 DEF tracker
  <2>2. archivedItem' \subseteq Items /\ \E n \in 0..MaxUpdates : updateItem' \in [1..n -> Items]
    BY <2>1 DEF TrackerIInv, TrackerTypeOK
  <2> QED
    BY <2>1, <2>2, TreeUntouched
<1>2. CASE TrackerNext
  BY <1>2, CreateItemKeepsTrackerIInv, StartedSavesKeepTrackerIInv, CheckParentKeepsTrackerIInv,
     SaveItemKeepsTrackerIInv, UpdatesKeepTrackerIInv DEF TrackerNext
<1> QED
  BY <1>1, <1>2

\* The invariant holds in every state of the tracker.
THEOREM TrackerInductive == TrackerSpec => []TrackerIInv
BY TrackerInitHolds, TrackerNextKeepsTrackerIInv, PTL DEF TrackerSpec

\* Items, updates and running saves keep their types (src/admin/tracker/: work
\* items with their parents and updates).
THEOREM TrackerTypeCorrect == TrackerSpec => []TrackerTypeOK
<1>1. TrackerIInv => TrackerTypeOK
  BY DEF TrackerIInv
<1> QED
  BY <1>1, TrackerInductive, PTL

\* However saves overlap and roll back, no two items are each other's parent,
\* for any number of items and saves: what the descendants query cannot see of
\* the other save, the key share lock on the new parent waits for.
THEOREM NoTwoParentsOfEachOther == TrackerSpec => []ParentsAreNotMutual
<1>1. TrackerIInv => ParentsAreNotMutual
  BY DEF TrackerIInv
<1> QED
  BY <1>1, TrackerInductive, PTL

-----------------------------------------------------------------------------
(* The versions of the content, and the public site.                        *)

\* The requests, and the rows there is room for.
ContentShapes ==
    /\ Len(rows) \in 1..MaxRows
    /\ DOMAIN request = Writers
    /\ \A e \in Writers : DOMAIN request[e] = DOMAIN NoRequest

\* The same text: what a save never changes.
SameText(v, w) ==
    /\ v.kind = w.kind /\ v.key = w.key
    /\ v.language = w.language /\ v.original = w.original

\* The live rows of a text in a language that are not its original.
LiveTranslations(kind, key, language) ==
    {r \in LiveTexts(kind, key, language) : ~rows[r].original}

\* A row that will follow another one retires it, and is the same text.  A worker
\* may make a translation of an original.
WriteFollows(e, q, i) ==
    q.writes[i].versionOf # None =>
        /\ q.writes[i].versionOf \in q.retires
        /\ TextName(q.writes[i]) = TextName(rows[q.writes[i].versionOf])
        /\ \/ q.writes[i].original = rows[q.writes[i].versionOf].original
           \/ e \in Workers /\ ~q.writes[i].original /\ DOMAIN q.writes = {i}

\* A new translation is written alone, and under its lock unless a worker writes
\* it.  The live ones have all been seen, or others were at work on the text.
WriteIsFirst(e, q, i) ==
    q.writes[i].versionOf = None /\ ~q.writes[i].original =>
        /\ \/ e \in Workers
           \/ /\ q.lock = TranslationLock(q.writes[i].kind, q.writes[i].key, q.writes[i].language)
              /\ q.seen = {}
        /\ DOMAIN q.writes = {i}
        /\ \/ LiveTranslations(q.writes[i].kind, q.writes[i].key, q.writes[i].language) \subseteq q.seen
           \/ TextName(q.writes[i]) \in raced

\* What a request has read still holds when it writes.
PlanHolds(e, q) ==
    /\ q.retires \subseteq DOMAIN rows
    /\ \A r \in q.retires : rows[r].live
    /\ q.writes \in Seq(Row)
    /\ \A i \in DOMAIN q.writes : WriteFollows(e, q, i) /\ WriteIsFirst(e, q, i)
    /\ \A i, j \in DOMAIN q.writes :
          q.writes[i].versionOf = q.writes[j].versionOf /\ q.writes[i].versionOf # None => i = j
    /\ q.step = "writing" => q.seen = {}
    /\ q.step = "storing" =>
          DOMAIN q.writes = {1} /\ q.writes[1].versionOf = None /\ ~q.writes[1].original

\* The plans of all requests hold.
PlansHold == \A e \in Writers : PlanHolds(e, request[e])

\* Two requests never retire the same row, and never hold the same lock.
PlansAreApart ==
    \A e, f \in Writers : e # f =>
        /\ request[e].retires \cap request[f].retires = {}
        /\ request[e].lock # NoLock => request[e].lock # request[f].lock

\* A row that is followed by another is retired.
FollowedAreRetired ==
    \A r \in DOMAIN rows : rows[r].versionOf # None =>
        rows[r].versionOf \in DOMAIN rows /\ ~rows[rows[r].versionOf].live

\* The inductive invariant.  ContentHasOneHistory alone is not inductive: it
\* does not say that what a request is going to retire is still live, and that
\* what it is going to add is still missing, or known to be raced for.
ContentIInv ==
    /\ ContentTypeOK
    /\ ContentShapes
    /\ PlansHold
    /\ PlansAreApart
    /\ FollowedAreRetired
    /\ ContentHasOneHistory

-----------------------------------------------------------------------------
\* The fields of a request.
LEMMA RequestFields ==
  DOMAIN NoRequest = {"step", "seen", "retires", "writes", "lock"}
BY DEF NoRequest

\* The lock of a translation is a lock.
LEMMA TranslationLocks ==
  ASSUME NEW kind \in Kinds, NEW key, NEW language
  PROVE  TranslationLock(kind, key, language) # NoLock
<1>1. kind # "nothing"
  BY DEF Kinds, Emails
<1> QED
  BY <1>1 DEF TranslationLock, NoLock, Lock

\* A draft is a row, an original, and follows no other.
LEMMA DraftIsRow ==
  ASSUME NEW kind \in Kinds, NEW key \in Identifiers, NEW category \in Identifiers,
         NEW language \in Locales
  PROVE  /\ Draft(kind, key, category, language) \in Row
         /\ Draft(kind, key, category, language).original
         /\ Draft(kind, key, category, language).versionOf = None
<1>1. (CHOOSE empty \in Texts : TRUE) \in Texts
  BY ContentVersionsAssumption
<1>2. "draft" \in PageStatuses /\ None \in Nat
  BY DEF PageStatuses, None
<1> QED
  BY <1>1, <1>2 DEF Draft, Row

\* A numbered title is an identifier.
LEMMA FirstIdentifiers ==
  ASSUME NEW title \in Titles, NEW n \in Nat
  PROVE  Identifier(title, n) \in Identifiers
BY DEF Identifier, Identifiers

\* There is an identifier that is not taken yet.
LEMMA NextIdentifierIsFree ==
  ASSUME NEW title \in Titles, NEW taken, IsFiniteSet(taken)
  PROVE  /\ NextIdentifier(title, taken) \in Identifiers
         /\ NextIdentifier(title, taken) \notin taken
<1> DEFINE m == Cardinality(taken) + 1
           free == {n \in 1..m : Identifier(title, n) \notin taken}
<1>1. Cardinality(taken) \in Nat /\ m \in Nat
  BY FS_CardinalityType
<1>2. free # {}
  <2> SUFFICES ASSUME free = {}
               PROVE  FALSE
    OBVIOUS
  <2> DEFINE f == [n \in 1..m |-> Identifier(title, n)]
  <2>1. f \in [1..m -> taken]
    BY <1>1
  <2>2. IsFiniteSet(1..m) /\ Cardinality(1..m) = m
    <3>1. Cardinality(1..m) = IF 1 > m THEN 0 ELSE m - 1 + 1
      BY <1>1, FS_Interval
    <3> QED
      BY <1>1, <3>1, FS_Interval
  <2>3. Cardinality(taken) < Cardinality(1..m)
    BY <1>1, <2>2
  <2>4. PICK x, y \in 1..m : x # y /\ f[x] = f[y]
    <3>1. ASSUME NEW S, IsFiniteSet(S), Cardinality(taken) < Cardinality(S), NEW g \in [S -> taken]
          PROVE  \E a, b \in S : a # b /\ g[a] = g[b]
      BY <3>1, FS_PigeonHole
    <3> HIDE DEF f, m
    <3>2. \E a, b \in 1..m : a # b /\ f[a] = f[b]
      BY <2>1, <2>2, <2>3, <3>1, Zenon
    <3> QED
      BY <3>2
  <2>5. Identifier(title, x) = Identifier(title, y)
    BY <2>4
  <2>6. Identifier(title, x).n = x /\ Identifier(title, y).n = y
    BY DEF Identifier
  <2> QED
    BY <2>4, <2>5, <2>6
<1>3. free \in SUBSET Nat
  BY <1>1
<1>4. Min(free) \in free
  <2>1. \E n \in free : \A k \in free : n <= k
    <3> HIDE DEF free
    <3> QED
      BY <1>2, <1>3, SmallestNat
  <2> HIDE DEF free
  <2> QED
    BY <2>1 DEF Min
<1>5. NextIdentifier(title, taken) = Identifier(title, Min(free))
  BY DEF NextIdentifier
<1>6. Min(free) \in Nat /\ Identifier(title, Min(free)) \notin taken
  BY <1>3, <1>4
<1> QED
  BY <1>5, <1>6, FirstIdentifiers

\* Keys of rows are finitely many.
LEMMA KeysAreFinite ==
  ASSUME ContentTypeOK, NEW S, S \subseteq DOMAIN rows
  PROVE  /\ IsFiniteSet({rows[r].key : r \in S})
         /\ IsFiniteSet({rows[r].slug : r \in S})
         /\ IsFiniteSet(S)
<1>1. rows \in Seq(Row) /\ Len(rows) \in Nat /\ DOMAIN rows = 1..Len(rows)
  BY DEF ContentTypeOK
<1>2. IsFiniteSet(1..Len(rows))
  BY <1>1, FS_Interval
<1>3. IsFiniteSet(S)
  BY <1>1, <1>2, FS_Subset
<1>4. IsFiniteSet({rows[r].key : r \in S})
  <2> DEFINE f == [r \in S |-> rows[r].key]
  <2>1. f \in Surjection(S, {rows[r].key : r \in S})
    BY DEF Surjection
  <2> HIDE DEF f
  <2> QED
    BY <1>3, <2>1, FS_Surjection
<1>5. IsFiniteSet({rows[r].slug : r \in S})
  <2> DEFINE f == [r \in S |-> rows[r].slug]
  <2>1. f \in Surjection(S, {rows[r].slug : r \in S})
    BY DEF Surjection
  <2> HIDE DEF f
  <2> QED
    BY <1>3, <2>1, FS_Surjection
<1> QED
  BY <1>3, <1>4, <1>5

\* A finite set can be listed without repetition.
LEMMA SetsAreListed ==
  ASSUME NEW S, IsFiniteSet(S)
  PROVE  \E s \in [1..Cardinality(S) -> S] : Range(s) = S
<1>1. PICK n \in Nat : ExistsBijection(1..n, S)
  BY FS_NatBijection
<1>2. Cardinality(S) = n
  BY <1>1, FS_CountingElements
<1>3. PICK s \in Bijection(1..n, S) : TRUE
  BY <1>1 DEF ExistsBijection
<1>4. s \in [1..n -> S] /\ \A x \in S : \E i \in 1..n : s[i] = x
  BY <1>3 DEF Bijection, Surjection
<1>5. Range(s) = S
  BY <1>4 DEF Range
<1> QED
  BY <1>2, <1>4, <1>5

\* A list of all members of a set that is as long as the set has each of them
\* once.
LEMMA ListsHaveNoRepetition ==
  ASSUME NEW S, IsFiniteSet(S), NEW s \in [1..Cardinality(S) -> S], Range(s) = S
  PROVE  \A i, j \in 1..Cardinality(S) : s[i] = s[j] => i = j
<1> DEFINE n == Cardinality(S)
<1>1. n \in Nat
  BY FS_CardinalityType
<1>2. IsFiniteSet(1..n) /\ Cardinality(1..n) = n
  <2>1. Cardinality(1..n) = IF 1 > n THEN 0 ELSE n - 1 + 1
    BY <1>1, FS_Interval
  <2> QED
    BY <1>1, <2>1, FS_Interval
<1>3. s \in Surjection(1..n, S)
  BY DEF Surjection, Range
<1>4. s \in Injection(1..n, S)
  BY <1>2, <1>3, FS_Surjection
<1> QED
  BY <1>4 DEF Injection, IsInjective

-----------------------------------------------------------------------------
\* The plan that a request makes of what it has read.
Plan(lock, retired, written) ==
    [step |-> "writing", seen |-> {}, lock |-> lock, retires |-> retired, writes |-> written]

\* The fields of a plan.
LEMMA PlanFields ==
  ASSUME NEW lock, NEW retired, NEW written
  PROVE  /\ Plan(lock, retired, written).lock = lock
         /\ Plan(lock, retired, written).retires = retired
         /\ Plan(lock, retired, written).writes = written
         /\ Plan(lock, retired, written).seen = {}
         /\ Plan(lock, retired, written).step = "writing"
         /\ DOMAIN Plan(lock, retired, written) = DOMAIN NoRequest
BY RequestFields DEF Plan

\* Rows that have not changed are read the same.
LEMMA PlansOfTheSameRows ==
  ASSUME UNCHANGED rows, UNCHANGED raced, NEW e, NEW q
  PROVE  PlanHolds(e, q) <=> PlanHolds(e, q)'
<1>1. \A kind : Live(kind)' = Live(kind)
  BY DEF Live
<1>2. \A kind, key, language :
          LiveTranslations(kind, key, language)' = LiveTranslations(kind, key, language)
  <2>1. \A kind, key, language : LiveTexts(kind, key, language)' = LiveTexts(kind, key, language)
    BY <1>1 DEF LiveTexts
  <2> QED
    BY <2>1 DEF LiveTranslations
<1>3. \A i : WriteFollows(e, q, i)' <=> WriteFollows(e, q, i)
  BY DEF WriteFollows
<1>4. \A i : WriteIsFirst(e, q, i)' <=> WriteIsFirst(e, q, i)
  BY <1>2 DEF WriteIsFirst
<1> QED
  BY <1>3, <1>4 DEF PlanHolds

\* A request may go on as it likes, as long as what it plans holds, on rows nobody
\* else retires and under a lock nobody else holds.
LEMMA RequestKeepsIInv ==
  ASSUME ContentIInv, NEW e \in Writers, NEW q,
         request' = [request EXCEPT ![e] = q], UNCHANGED <<rows, raced>>,
         DOMAIN q = DOMAIN NoRequest,
         q.step \in {"idle", "locking", "storing", "writing"},
         q.seen \subseteq DOMAIN rows,
         q.lock = NoLock \/ Free(q.lock),
         \A r \in q.retires : ~Locked(r),
         PlanHolds(e, q)
  PROVE  ContentIInv'
<1> USE DEF ContentIInv
<1>1. rows' = rows /\ raced' = raced
  OBVIOUS
<1>2. /\ request'[e] = q
      /\ DOMAIN request' = Writers
      /\ \A f \in Writers : f # e => request'[f] = request[f]
  BY DEF ContentShapes
<1>3. ContentShapes'
  BY <1>1, <1>2 DEF ContentShapes
<1>4. PlansHold'
  <2> SUFFICES ASSUME NEW f \in Writers
               PROVE  PlanHolds(f, request[f])'
    BY DEF PlansHold
  <2>1. PICK p : p = request'[f]
    OBVIOUS
  <2>2. PlanHolds(f, p)
    BY <1>2, <2>1 DEF PlansHold
  <2>3. PlanHolds(f, p)'
    BY <1>1, <2>2, PlansOfTheSameRows
  <2> QED
    BY <2>1, <2>3
<1>5. ContentTypeOK'
  <2>1. q.retires \subseteq DOMAIN rows /\ q.writes \in Seq(Row)
    BY DEF PlanHolds
  <2> QED
    BY <1>1, <1>2, <2>1 DEF ContentTypeOK
<1>6. PlansAreApart'
  <2> SUFFICES ASSUME NEW f \in Writers, NEW g \in Writers, f # g
               PROVE  /\ request'[f].retires \cap request'[g].retires = {}
                      /\ request'[f].lock # NoLock => request'[f].lock # request'[g].lock
    BY DEF PlansAreApart
  <2>1. \A h \in Writers : request[h].retires \cap q.retires = {}
    BY DEF Locked
  <2>2. q.lock = NoLock \/ \A h \in Writers : request[h].lock # q.lock
    BY DEF Free
  <2> QED
    BY <1>2, <2>1, <2>2 DEF PlansAreApart
<1>7. FollowedAreRetired'
  BY <1>1 DEF FollowedAreRetired
<1>8. ContentHasOneHistory'
  BY <1>1 DEF ContentHasOneHistory, RivalTranslations
<1> QED
  BY <1>3, <1>4, <1>5, <1>6, <1>7, <1>8

\* So it may go on to write.
LEMMA PlanKeepsIInv ==
  ASSUME ContentIInv, NEW e \in Writers, NEW lock, NEW retired, NEW written,
         WillWrite(e, lock, retired, written),
         lock = NoLock \/ Free(lock),
         \A r \in retired : ~Locked(r),
         PlanHolds(e, Plan(lock, retired, written))
  PROVE  ContentIInv'
<1> DEFINE q == Plan(lock, retired, written)
<1>1. request' = [request EXCEPT ![e] = q] /\ UNCHANGED <<rows, raced>>
  BY DEF WillWrite, Plan
<1>2. q.lock = lock /\ q.retires = retired /\ q.seen = {} /\ q.step = "writing"
      /\ DOMAIN q = DOMAIN NoRequest
  BY PlanFields
<1> HIDE DEF q
<1>3. PlanHolds(e, q)
  BY DEF q
<1> QED
  BY <1>1, <1>2, <1>3, RequestKeepsIInv

\* A request that only makes a draft, or a first translation, retires nothing.
LEMMA AddedPlanHolds ==
  ASSUME NEW e, NEW lock, NEW row \in Row, row.versionOf = None,
         row.original \/ (/\ e \in Workers \/ lock = TranslationLock(row.kind, row.key, row.language)
                          /\ \/ LiveTranslations(row.kind, row.key, row.language) = {}
                             \/ TextName(row) \in raced)
  PROVE  PlanHolds(e, Plan(lock, {}, <<row>>))
<1> DEFINE q == Plan(lock, {}, <<row>>)
<1>1. q.lock = lock /\ q.retires = {} /\ q.writes = <<row>> /\ q.seen = {} /\ q.step = "writing"
  BY PlanFields
<1> HIDE DEF q
<1>2. <<row>> \in Seq(Row) /\ DOMAIN <<row>> = {1} /\ <<row>>[1] = row
  OBVIOUS
<1>3. WriteFollows(e, q, 1)
  BY <1>1, <1>2 DEF WriteFollows
<1>4. WriteIsFirst(e, q, 1)
  BY <1>1, <1>2 DEF WriteIsFirst
<1>5. PlanHolds(e, q)
  BY <1>1, <1>2, <1>3, <1>4 DEF PlanHolds
<1> QED
  BY <1>5 DEF q

\* A request that replaces a live row keeps what the text is.
LEMMA ReplacingPlanHolds ==
  ASSUME ContentTypeOK, NEW e, NEW r \in DOMAIN rows, rows[r].live,
         NEW row \in Row, row.versionOf = r, TextName(row) = TextName(rows[r]),
         row.original = rows[r].original \/ (e \in Workers /\ ~row.original)
  PROVE  PlanHolds(e, Plan(NoLock, {r}, <<row>>))
<1> DEFINE q == Plan(NoLock, {r}, <<row>>)
<1>1. q.lock = NoLock /\ q.retires = {r} /\ q.writes = <<row>> /\ q.seen = {} /\ q.step = "writing"
  BY PlanFields
<1>2. r \in Nat /\ r # None
  BY DEF ContentTypeOK, None
<1> HIDE DEF q
<1>3. <<row>> \in Seq(Row) /\ DOMAIN <<row>> = {1} /\ <<row>>[1] = row
  OBVIOUS
<1>4. WriteFollows(e, q, 1) /\ WriteIsFirst(e, q, 1)
  BY <1>1, <1>2, <1>3 DEF WriteFollows, WriteIsFirst
<1>5. PlanHolds(e, q)
  BY <1>1, <1>3, <1>4 DEF PlanHolds
<1> QED
  BY <1>5 DEF q

-----------------------------------------------------------------------------
\* A draft of an e-mail takes a free key under a lock.
LEMMA EmailDraftKeepsIInv ==
  ASSUME ContentIInv, NEW e \in Writers, NEW kind \in {"newsletter", "sequence"},
         NEW title \in Titles, NEW language \in Locales, CreateEmailDraft(e, kind, title, language)
  PROVE  ContentIInv'
<1> DEFINE lock == Lock(kind, Identifier(title, 1), Identifier(title, 1), "first")
           taken == {rows[r].key : r \in {x \in DOMAIN rows : rows[x].kind = kind}}
           key == NextIdentifier(title, taken)
           row == Draft(kind, key, key, language)
<1>1. Free(lock) /\ WillWrite(e, lock, {}, <<row>>)
  BY DEF CreateEmailDraft
<1>2. key \in Identifiers
  <2>1. IsFiniteSet(taken)
    BY KeysAreFinite DEF ContentIInv
  <2> HIDE DEF taken
  <2> QED
    BY <2>1, NextIdentifierIsFree
<1>3. kind \in Kinds
  BY DEF Kinds, Emails
<1> HIDE DEF key
<1>4. row \in Row /\ row.original /\ row.versionOf = None
  BY <1>2, <1>3, DraftIsRow
<1> HIDE DEF row, lock
<1>5. PlanHolds(e, Plan(lock, {}, <<row>>))
  BY <1>4, AddedPlanHolds
<1> QED
  BY <1>1, <1>5, PlanKeepsIInv

\* A draft of a category is an original, whether or not its key was free.
LEMMA CategoryDraftKeepsIInv ==
  ASSUME ContentIInv, NEW e \in Writers, NEW title \in Titles, NEW language \in Locales,
         CreateCategoryDraft(e, title, language)
  PROVE  ContentIInv'
<1> DEFINE key == Identifier(title, 1)
           row == Draft("category", key, key, language)
<1>1. WillWrite(e, NoLock, {}, <<row>>)
  BY DEF CreateCategoryDraft
<1>2. key \in Identifiers /\ "category" \in Kinds
  BY FirstIdentifiers DEF Kinds
<1> HIDE DEF key
<1>3. row \in Row /\ row.original /\ row.versionOf = None
  BY <1>2, DraftIsRow
<1> HIDE DEF row
<1>4. PlanHolds(e, Plan(NoLock, {}, <<row>>))
  BY <1>3, AddedPlanHolds
<1> QED
  BY <1>1, <1>4, PlanKeepsIInv

\* A draft of a page takes a free key under the lock of its category.
LEMMA PageDraftKeepsIInv ==
  ASSUME ContentIInv, NEW e \in Writers, NEW title \in Titles, NEW language \in Locales,
         NEW category \in Identifiers, CreatePageDraft(e, category, title, language)
  PROVE  ContentIInv'
<1> DEFINE lock == Lock("page draft", category, Identifier(title, 1), "first")
           near == {x \in DOMAIN rows : rows[x].kind = "page"
                       /\ rows[x].category = category /\ rows[x].language = language}
           neighbours == {rows[r] : r \in near}
           taken == {p.key : p \in neighbours} \cup {p.slug : p \in neighbours}
           key == NextIdentifier(title, taken)
           row == Draft("page", key, category, language)
<1>1. Free(lock) /\ WillWrite(e, lock, {}, <<row>>)
  BY DEF CreatePageDraft
<1>2. key \in Identifiers
  <2>1. near \subseteq DOMAIN rows
    OBVIOUS
  <2>2. {p.key : p \in neighbours} = {rows[r].key : r \in near}
    OBVIOUS
  <2>3. {p.slug : p \in neighbours} = {rows[r].slug : r \in near}
    OBVIOUS
  <2>4. IsFiniteSet({rows[r].key : r \in near}) /\ IsFiniteSet({rows[r].slug : r \in near})
    <3> HIDE DEF near
    <3> QED
      BY <2>1, KeysAreFinite DEF ContentIInv
  <2>5. IsFiniteSet({rows[r].key : r \in near} \cup {rows[r].slug : r \in near})
    <3> HIDE DEF near
    <3> QED
      BY <2>4, FS_Union
  <2>6. IsFiniteSet(taken)
    BY <2>2, <2>3, <2>5
  <2> HIDE DEF taken
  <2> QED
    BY <2>6, NextIdentifierIsFree
<1>3. "page" \in Kinds
  BY DEF Kinds
<1> HIDE DEF key
<1>4. row \in Row /\ row.original /\ row.versionOf = None
  BY <1>2, <1>3, DraftIsRow
<1> HIDE DEF row, lock
<1>5. PlanHolds(e, Plan(lock, {}, <<row>>))
  BY <1>4, AddedPlanHolds
<1> QED
  BY <1>1, <1>5, PlanKeepsIInv

\* The first row of a translation is no original and follows no other.
LEMMA FirstCopiesAreFirst ==
  ASSUME ContentTypeOK, NEW source \in DOMAIN rows, NEW language \in Locales,
         NEW copy \in FirstCopies(source, language)
  PROVE  /\ copy \in Row
         /\ copy.versionOf = None /\ ~copy.original
         /\ copy.kind = rows[source].kind /\ copy.key = rows[source].key /\ copy.language = language
<1> DEFINE kind == rows[source].kind
           key == rows[source].key
           of(original) == [rows[source] EXCEPT !.language = language, !.status = "draft",
                               !.original = FALSE, !.versionOf = None, !.translationOf = original]
<1>1. PICK original \in IF OriginalOf(kind, key) = {} THEN {source} ELSE OriginalOf(kind, key) :
          copy = of(original)
  BY DEF FirstCopies
<1>2. rows \in Seq(Row) /\ rows[source] \in Row
  BY DEF ContentTypeOK
<1>3. original \in Nat
  <2>1. original \in DOMAIN rows
    BY <1>1 DEF OriginalOf, Live
  <2> QED
    BY <1>2, <2>1
<1>4. "draft" \in PageStatuses /\ None \in Nat
  BY DEF PageStatuses, None
<1>5. of(original) \in Row
  BY <1>2, <1>3, <1>4 DEF Row
<1>6. /\ of(original).versionOf = None /\ ~of(original).original
      /\ of(original).kind = kind /\ of(original).key = key /\ of(original).language = language
  BY <1>2 DEF Row
<1> QED
  BY <1>1, <1>5, <1>6

\* A translation is planned under the lock of its text and language.
LEMMA CopyKeepsIInv ==
  ASSUME ContentIInv, NEW e \in Writers, NEW source \in DOMAIN rows, NEW language \in Locales,
         CreateCopy(e, source, language)
  PROVE  ContentIInv'
<1> DEFINE kind == rows[source].kind
           key == rows[source].key
           lock == TranslationLock(kind, key, language)
<1>1. /\ lock = NoLock \/ Free(lock)
      /\ LiveTexts(kind, key, language) = {}
  BY DEF CreateCopy
<1>2. PICK row \in FirstCopies(source, language) : WillWrite(e, lock, {}, <<row>>)
  BY DEF CreateCopy
<1>3. /\ row \in Row /\ row.versionOf = None
      /\ row.kind = kind /\ row.key = key /\ row.language = language
  BY FirstCopiesAreFirst DEF ContentIInv
<1>4. lock = TranslationLock(row.kind, row.key, row.language)
      /\ LiveTranslations(row.kind, row.key, row.language) = {}
  BY <1>1, <1>3 DEF LiveTranslations
<1> HIDE DEF lock
<1>5. PlanHolds(e, Plan(lock, {}, <<row>>))
  BY <1>3, <1>4, AddedPlanHolds
<1> QED
  BY <1>1, <1>2, <1>5, PlanKeepsIInv

\* A save replaces one live row that it has locked.
LEMMA ReplaceKeepsIInv ==
  ASSUME ContentIInv, NEW e \in Writers, NEW r \in DOMAIN rows, NEW edited \in Row,
         SameText(edited, rows[r]), Replace(e, r, edited)
  PROVE  ContentIInv'
<1> DEFINE row == [edited EXCEPT !.versionOf = r]
<1>1. /\ ~Locked(r) /\ rows[r].live
      /\ WillWrite(e, NoLock, {r}, <<row>>)
  BY DEF Replace, StillLive
<1>2. ContentTypeOK /\ r \in Nat
  BY DEF ContentIInv, ContentTypeOK
<1>3. row \in Row /\ row.versionOf = r
  BY <1>2 DEF Row
<1>4. TextName(row) = TextName(rows[r]) /\ row.original = rows[r].original
  <2>1. /\ row.kind = edited.kind /\ row.key = edited.key
        /\ row.language = edited.language /\ row.original = edited.original
    BY DEF Row
  <2> QED
    BY <2>1 DEF SameText, TextName
<1> HIDE DEF row
<1>5. PlanHolds(e, Plan(NoLock, {r}, <<row>>))
  BY <1>1, <1>2, <1>3, <1>4, ReplacingPlanHolds
<1>6. \A x \in {r} : ~Locked(x)
  BY <1>1
<1> QED
  BY <1>1, <1>5, <1>6, PlanKeepsIInv

\* All kinds of drafts.
LEMMA StartedDraftsKeepIInv ==
  ASSUME ContentIInv, NEW e \in Writers, StartDraft(e)
  PROVE  ContentIInv'
<1>1. PICK title \in Titles, language \in Locales :
        \/ CreateNewsletterDraft(e, title, language)
        \/ CreateSequenceEmailDraft(e, title, language)
        \/ CreateCategoryDraft(e, title, language)
        \/ \E r \in Live("category") : CreatePageDraft(e, rows[r].key, title, language)
  BY DEF StartDraft
<1>2. CASE CreateNewsletterDraft(e, title, language)
  BY <1>2, EmailDraftKeepsIInv DEF CreateNewsletterDraft
<1>3. CASE CreateSequenceEmailDraft(e, title, language)
  BY <1>3, EmailDraftKeepsIInv DEF CreateSequenceEmailDraft
<1>4. CASE CreateCategoryDraft(e, title, language)
  BY <1>4, CategoryDraftKeepsIInv
<1>5. CASE \E r \in Live("category") : CreatePageDraft(e, rows[r].key, title, language)
  <2>1. PICK r \in Live("category") : CreatePageDraft(e, rows[r].key, title, language)
    BY <1>5
  <2>2. rows[r].key \in Identifiers
    <3>1. r \in DOMAIN rows /\ rows \in Seq(Row)
      BY DEF Live, ContentIInv, ContentTypeOK
    <3>2. rows[r] \in Row
      BY <3>1
    <3> QED
      BY <3>2 DEF Row
  <2> QED
    BY <2>1, <2>2, PageDraftKeepsIInv
<1> QED
  BY <1>1, <1>2, <1>3, <1>4, <1>5

\* All kinds of translations.
LEMMA StartedTranslationsKeepIInv ==
  ASSUME ContentIInv, NEW e \in Writers, StartTranslation(e)
  PROVE  ContentIInv'
<1>1. PICK r \in DOMAIN rows, language \in Locales : CreateCopy(e, r, language)
  BY DEF StartTranslation, CreateEmailTranslation, CreateNewsletterTranslation,
         CreateUxStringTranslation, CreateCategoryTranslation, CreatePageTranslation
<1> QED
  BY <1>1, CopyKeepsIInv

\* Saves change the text, the slug, the category and the status of a row.
LEMMA EditedRows ==
  ASSUME NEW row \in Row, NEW text \in Texts, NEW slug \in Identifiers,
         NEW category \in Identifiers, NEW status \in PageStatuses
  PROVE  /\ [row EXCEPT !.text = text] \in Row
         /\ SameText([row EXCEPT !.text = text], row)
         /\ [row EXCEPT !.text = text, !.slug = slug] \in Row
         /\ SameText([row EXCEPT !.text = text, !.slug = slug], row)
         /\ [row EXCEPT !.text = text, !.slug = slug,
                        !.category = category, !.status = status] \in Row
         /\ SameText([row EXCEPT !.text = text, !.slug = slug,
                                 !.category = category, !.status = status], row)
<1>1. [row EXCEPT !.text = text] \in Row /\ [row EXCEPT !.text = text, !.slug = slug] \in Row
  BY DEF Row
<1>2. [row EXCEPT !.text = text, !.slug = slug,
                  !.category = category, !.status = status] \in Row
  BY DEF Row
<1>3. SameText([row EXCEPT !.text = text], row)
  BY DEF SameText, Row
<1>4. SameText([row EXCEPT !.text = text, !.slug = slug], row)
  BY DEF SameText, Row
<1>5. SameText([row EXCEPT !.text = text, !.slug = slug,
                           !.category = category, !.status = status], row)
  BY DEF SameText, Row
<1> QED
  BY <1>1, <1>2, <1>3, <1>4, <1>5

\* A save of a page, its publication and its archiving.
LEMMA SavedPagesKeepIInv ==
  ASSUME ContentIInv, NEW e \in Writers, NEW r \in DOMAIN rows, NEW text \in Texts,
         NEW slug \in Identifiers, NEW category \in Identifiers, NEW status \in PageStatuses,
         NEW stamped, SavePage(e, r, text, slug, category, status, stamped)
  PROVE  ContentIInv'
<1> DEFINE edited == [rows[r] EXCEPT !.text = text, !.slug = slug,
                                     !.category = category, !.status = status]
<1>1. Replace(e, r, edited)
  BY DEF SavePage
<1>2. rows[r] \in Row
  BY DEF ContentIInv, ContentTypeOK
<1>3. edited \in Row /\ SameText(edited, rows[r])
  BY <1>2, EditedRows
<1> HIDE DEF edited
<1> QED
  BY <1>1, <1>3, ReplaceKeepsIInv

\* All kinds of saves.
LEMMA StartedContentSavesKeepIInv ==
  ASSUME ContentIInv, NEW e \in Writers, StartSave(e)
  PROVE  ContentIInv'
<1>1. PICK r \in DOMAIN rows, text \in Texts, title \in Titles :
        \/ SaveEmail(e, r, text)
        \/ SaveUxString(e, r, text)
        \/ SaveCategory(e, r, text, Identifier(title, 1))
        \/ \E c \in Live("category") :
              LET slug == Identifier(title, 1)
                  category == rows[c].key
              IN  \/ \E status \in PageStatuses :
                         SavePage(e, r, text, slug, category, status, FALSE)
                  \/ PublishPage(e, r, text, slug, category)
                  \/ ArchivePage(e, r, text, slug, category)
  BY DEF StartSave
<1>2. rows \in Seq(Row) /\ rows[r] \in Row
  BY DEF ContentIInv, ContentTypeOK
<1>3. Identifier(title, 1) \in Identifiers
  BY FirstIdentifiers
<1>4. CASE SaveEmail(e, r, text) \/ SaveUxString(e, r, text)
  <2>1. Replace(e, r, [rows[r] EXCEPT !.text = text])
    BY <1>4 DEF SaveEmail, SaveUxString
  <2>2. [rows[r] EXCEPT !.text = text] \in Row /\ SameText([rows[r] EXCEPT !.text = text], rows[r])
    <3>1. \E status \in PageStatuses : TRUE
      BY DEF PageStatuses
    <3> QED
      BY <1>2, <1>3, <3>1, EditedRows
  <2> QED
    BY <2>1, <2>2, ReplaceKeepsIInv
<1>5. CASE SaveCategory(e, r, text, Identifier(title, 1))
  <2> DEFINE edited == [rows[r] EXCEPT !.text = text, !.slug = Identifier(title, 1)]
  <2>1. Replace(e, r, edited)
    BY <1>5 DEF SaveCategory
  <2>2. edited \in Row /\ SameText(edited, rows[r])
    <3>1. \E status \in PageStatuses : TRUE
      BY DEF PageStatuses
    <3> QED
      BY <1>2, <1>3, <3>1, EditedRows
  <2> HIDE DEF edited
  <2> QED
    BY <2>1, <2>2, ReplaceKeepsIInv
<1>6. CASE \E c \in Live("category") :
              LET slug == Identifier(title, 1)
                  category == rows[c].key
              IN  \/ \E status \in PageStatuses :
                         SavePage(e, r, text, slug, category, status, FALSE)
                  \/ PublishPage(e, r, text, slug, category)
                  \/ ArchivePage(e, r, text, slug, category)
  <2>1. PICK c \in Live("category"), status \in PageStatuses, stamped \in BOOLEAN :
            SavePage(e, r, text, Identifier(title, 1), rows[c].key, status, stamped)
    <3>1. "published" \in PageStatuses /\ "archived" \in PageStatuses
      BY DEF PageStatuses
    <3> QED
      BY <1>6, <3>1 DEF PublishPage, ArchivePage
  <2>2. rows[c].key \in Identifiers
    <3>1. rows[c] \in Row
      BY <1>2 DEF Live
    <3> QED
      BY <3>1 DEF Row
  <2> QED
    BY <1>3, <2>1, <2>2, SavedPagesKeepIInv
<1> QED
  BY <1>1, <1>4, <1>5, <1>6

\* Publishing replaces the drafts it found that are still live, each of them once.
LEMMA PublishDraftsKeepsIInv ==
  ASSUME ContentIInv, NEW e \in Writers, PublishDrafts(e)
  PROVE  ContentIInv'
<1> DEFINE drafts == {r \in request[e].seen : rows[r].live /\ rows[r].status = "draft"}
           n == Cardinality(drafts)
           published(r) == [rows[r] EXCEPT !.status = "published", !.versionOf = r]
           order == CHOOSE s \in [1..n -> drafts] : Range(s) = drafts
           written == [i \in 1..n |-> published(order[i])]
<1>1. /\ \A r \in request[e].seen : ~Locked(r)
      /\ WillWrite(e, NoLock, drafts, written)
  BY DEF PublishDrafts
<1>2. rows \in Seq(Row) /\ request[e].seen \subseteq DOMAIN rows
  BY DEF ContentIInv, ContentTypeOK
<1>3. drafts \subseteq DOMAIN rows /\ \A r \in drafts : rows[r].live /\ ~Locked(r)
  BY <1>1, <1>2
<1>4. IsFiniteSet(drafts) /\ n \in Nat
  <2> HIDE DEF drafts
  <2>1. IsFiniteSet(drafts)
    BY <1>3, KeysAreFinite DEF ContentIInv
  <2> QED
    BY <2>1, FS_CardinalityType
<1> HIDE DEF drafts
<1>5. order \in [1..n -> drafts] /\ Range(order) = drafts
  BY <1>4, SetsAreListed
<1>6. \A i, j \in 1..n : order[i] = order[j] => i = j
  <2> HIDE DEF order
  <2> QED
    BY <1>4, <1>5, ListsHaveNoRepetition
<1> HIDE DEF order
<1>7. ASSUME NEW r \in drafts
      PROVE  /\ published(r) \in Row /\ published(r).versionOf = r
             /\ SameText(published(r), rows[r])
             /\ r # None
  <2>1. rows[r] \in Row /\ r \in Nat /\ r # None
    BY <1>2, <1>3 DEF None
  <2>2. "published" \in PageStatuses
    BY DEF PageStatuses
  <2>3. published(r) \in Row
    BY <2>1, <2>2 DEF Row
  <2>4. published(r).versionOf = r /\ SameText(published(r), rows[r])
    BY <2>1 DEF Row, SameText
  <2> QED
    BY <2>1, <2>3, <2>4
<1> HIDE DEF published
<1>8. \A i \in 1..n : order[i] \in drafts
  BY <1>5
<1>9. written \in Seq(Row) /\ DOMAIN written = 1..n
  <2>1. written \in [1..n -> Row]
    BY <1>7, <1>8
  <2> HIDE DEF written
  <2> QED
    BY <1>4, <2>1
<1>10. \A i \in 1..n : /\ written[i].versionOf = order[i]
                       /\ order[i] # None
                       /\ SameText(written[i], rows[order[i]])
  BY <1>7, <1>8
<1> HIDE DEF written, n
<1> DEFINE q == Plan(NoLock, drafts, written)
<1>11. q.lock = NoLock /\ q.retires = drafts /\ q.writes = written /\ q.seen = {} /\ q.step = "writing"
  BY PlanFields
<1> HIDE DEF q
<1>12. \A i \in DOMAIN q.writes : WriteFollows(e, q, i) /\ WriteIsFirst(e, q, i)
  BY <1>8, <1>9, <1>10, <1>11 DEF WriteFollows, WriteIsFirst, SameText, TextName
<1>13. PlanHolds(e, q)
  BY <1>3, <1>6, <1>9, <1>10, <1>11, <1>12 DEF PlanHolds
<1> QED
  BY <1>1, <1>3, <1>13, PlanKeepsIInv DEF q

\* A request that does nothing has a plan that holds.
LEMMA NoPlanHolds ==
  /\ \A e \in Writers : PlanHolds(e, NoRequest)
  /\ NoRequest.retires = {} /\ NoRequest.seen = {} /\ NoRequest.writes = <<>>
  /\ NoRequest.lock = NoLock /\ NoRequest.step = "idle"
<1>1. NoRequest.retires = {} /\ NoRequest.seen = {} /\ NoRequest.writes = <<>>
      /\ NoRequest.lock = NoLock /\ NoRequest.step = "idle"
  BY DEF NoRequest
<1>2. <<>> \in Seq(Row) /\ DOMAIN <<>> = {}
  OBVIOUS
<1> QED
  BY <1>1, <1>2 DEF PlanHolds

\* A request that is rolled back leaves the rows as they were.
LEMMA RollBackKeepsIInv ==
  ASSUME ContentIInv, NEW e \in Writers, RollBackRequest(e)
  PROVE  ContentIInv'
<1>1. UNCHANGED <<rows, raced>> /\ request' = [request EXCEPT ![e] = NoRequest]
  BY DEF RollBackRequest
<1>2. DOMAIN NoRequest = DOMAIN NoRequest /\ PlanHolds(e, NoRequest)
  BY NoPlanHolds
<1> QED
  BY <1>1, <1>2, NoPlanHolds, RequestKeepsIInv

\* A request that only waits for the drafts it found plans nothing yet.
LEMMA FindDraftsKeepsIInv ==
  ASSUME ContentIInv, NEW e \in Writers, NEW key, FindDrafts(e, key)
  PROVE  ContentIInv'
<1> DEFINE q == [NoRequest EXCEPT !.step = "locking", !.seen = DraftTranslations(key)]
<1>1. UNCHANGED <<rows, raced>> /\ request' = [request EXCEPT ![e] = q]
  BY DEF FindDrafts
<1>2. /\ DOMAIN q = DOMAIN NoRequest
      /\ q.step = "locking" /\ q.seen = DraftTranslations(key)
      /\ q.retires = {} /\ q.writes = <<>> /\ q.lock = NoLock
  BY NoPlanHolds DEF NoRequest
<1> HIDE DEF q
<1>3. DraftTranslations(key) \subseteq DOMAIN rows
  BY DEF DraftTranslations, Live
<1>4. PlanHolds(e, q)
  <2>1. <<>> \in Seq(Row) /\ DOMAIN <<>> = {}
    OBVIOUS
  <2> QED
    BY <1>2, <2>1 DEF PlanHolds
<1> QED
  BY <1>1, <1>2, <1>3, <1>4, RequestKeepsIInv

\* A worker has seen the live rows of its target when it waits for them.
LEMMA FindTranslationKeepsIInv ==
  ASSUME ContentIInv, NEW e \in Workers, NEW source \in DOMAIN rows, NEW language \in Locales,
         FindTranslation(e, source, language)
  PROVE  ContentIInv'
<1> DEFINE seen == LiveTexts(rows[source].kind, rows[source].key, language)
<1>1. PICK row \in FirstCopies(source, language) :
          request' = [request EXCEPT ![e] = [NoRequest EXCEPT
                         !.step = "storing", !.writes = <<row>>, !.seen = seen]]
  BY DEF FindTranslation
<1> DEFINE q == [NoRequest EXCEPT !.step = "storing", !.writes = <<row>>, !.seen = seen]
<1>2. /\ DOMAIN q = DOMAIN NoRequest
      /\ q.step = "storing" /\ q.seen = seen
      /\ q.retires = {} /\ q.writes = <<row>> /\ q.lock = NoLock
  BY NoPlanHolds DEF NoRequest
<1>3. UNCHANGED <<rows, raced>> /\ request' = [request EXCEPT ![e] = q] /\ e \in Writers
  BY <1>1 DEF FindTranslation, Writers
<1>4. seen \subseteq DOMAIN rows
  BY DEF LiveTexts, Live
<1>5. /\ row \in Row /\ row.versionOf = None /\ ~row.original
      /\ LiveTranslations(row.kind, row.key, row.language) \subseteq seen
  BY FirstCopiesAreFirst DEF ContentIInv, LiveTranslations
<1> HIDE DEF q, seen
<1>6. <<row>> \in Seq(Row) /\ DOMAIN <<row>> = {1} /\ <<row>>[1] = row
  BY <1>5
<1>7. WriteFollows(e, q, 1) /\ WriteIsFirst(e, q, 1)
  BY <1>2, <1>5, <1>6 DEF WriteFollows, WriteIsFirst
<1>8. PlanHolds(e, q)
  BY <1>2, <1>5, <1>6, <1>7 DEF PlanHolds
<1> QED
  BY <1>2, <1>3, <1>4, <1>8, RequestKeepsIInv

\* A slug that the live rows beside a row do not have.
LEMMA FreeSlugs ==
  ASSUME ContentIInv, NEW row \in Row, NEW title \in Titles, NEW id
  PROVE  FreeSlug(row, title, id) \in Identifiers
<1> DEFINE beside == {x \in Live(row.kind) \ {id} :
                         /\ rows[x].language = row.language
                         /\ row.kind = "page" => rows[x].category = row.category}
<1>1. beside \subseteq DOMAIN rows
  BY DEF Live
<1>2. SlugsBeside(row, id) = {rows[r].slug : r \in beside}
  BY DEF SlugsBeside
<1> HIDE DEF beside
<1>3. IsFiniteSet(SlugsBeside(row, id))
  BY <1>1, <1>2, KeysAreFinite DEF ContentIInv
<1>4. NextIdentifier(title, SlugsBeside(row, id)) \in Identifiers
  BY <1>3, NextIdentifierIsFree
<1>5. row.slug \in Identifiers
  BY DEF Row
<1> QED
  BY <1>4, <1>5 DEF FreeSlug

\* A worker replaces a row that is still live, or adds one when none of those it
\* saw is: then there is none, unless others were at work on the text.
LEMMA StoreTranslationKeepsIInv ==
  ASSUME ContentIInv, NEW e \in Workers, NEW text \in Texts, NEW title \in Titles,
         StoreTranslation(e, text, title)
  PROVE  ContentIInv'
<1> DEFINE q == request[e]
           first == Head(q.writes)
           found == {r \in q.seen : StillLive(r)}
           stored(row, id) == [row EXCEPT !.text = text, !.slug = FreeSlug(row, title, id),
                                  !.original = FALSE, !.versionOf = id,
                                  !.translationOf = IF @ = None THEN first.translationOf ELSE @]
<1>1. /\ q.step = "storing"
      /\ \A r \in q.seen : ~Locked(r)
      /\ \/ found = {} /\ WillWrite(e, NoLock, {}, <<stored(first, None)>>)
         \/ \E r \in found : WillWrite(e, NoLock, {r}, <<stored(rows[r], r)>>)
  BY DEF StoreTranslation
<1>2. e \in Writers /\ ContentTypeOK /\ PlanHolds(e, q) /\ q.seen \subseteq DOMAIN rows
  BY DEF Writers, ContentIInv, PlansHold, ContentTypeOK
<1>3. /\ q.writes \in Seq(Row) /\ DOMAIN q.writes = {1} /\ first = q.writes[1]
      /\ first \in Row /\ first.versionOf = None /\ ~first.original
      /\ WriteIsFirst(e, q, 1)
  <2>1. /\ q.writes \in Seq(Row) /\ DOMAIN q.writes = {1}
        /\ q.writes[1].versionOf = None /\ ~q.writes[1].original
        /\ WriteIsFirst(e, q, 1)
    BY <1>1, <1>2 DEF PlanHolds
  <2>2. q.writes[1] \in Row /\ Head(q.writes) = q.writes[1]
    BY <2>1
  <2> QED
    BY <2>1, <2>2
<1> HIDE DEF q, first
<1>4. ASSUME NEW row \in Row, NEW id \in Nat
      PROVE  /\ stored(row, id) \in Row
             /\ stored(row, id).versionOf = id /\ ~stored(row, id).original
             /\ TextName(stored(row, id)) = TextName(row)
             /\ stored(row, id).kind = row.kind /\ stored(row, id).key = row.key
             /\ stored(row, id).language = row.language
  <2>1. FreeSlug(row, title, id) \in Identifiers
    BY FreeSlugs
  <2>2. PICK of \in Nat : of = IF row.translationOf = None THEN first.translationOf ELSE row.translationOf
    BY <1>3 DEF Row
  <2>3. PICK slug \in Identifiers : slug = FreeSlug(row, title, id)
    BY <2>1
  <2>4. stored(row, id) = [row EXCEPT !.text = text, !.slug = slug, !.original = FALSE,
                                      !.versionOf = id, !.translationOf = of]
    BY <2>2, <2>3
  <2> HIDE DEF stored
  <2>5. stored(row, id) \in Row
    BY <2>4 DEF Row
  <2>6. /\ stored(row, id).versionOf = id /\ ~stored(row, id).original
        /\ stored(row, id).kind = row.kind /\ stored(row, id).key = row.key
        /\ stored(row, id).language = row.language
    BY <2>4 DEF Row
  <2> QED
    BY <2>5, <2>6 DEF TextName
<1>5. None \in Nat /\ \A r \in DOMAIN rows : r \in Nat /\ rows[r] \in Row
  BY <1>2 DEF ContentTypeOK, None
<1> HIDE DEF stored, found
<1>6. CASE found = {} /\ WillWrite(e, NoLock, {}, <<stored(first, None)>>)
  <2>1. PICK row \in Row : row = stored(first, None)
    BY <1>3, <1>4, <1>5
  <2>2. LiveTranslations(row.kind, row.key, row.language) = {} \/ TextName(row) \in raced
    <3>1. \/ LiveTranslations(row.kind, row.key, row.language) \subseteq q.seen
          \/ TextName(row) \in raced
      BY <1>3, <1>4, <1>5, <2>1 DEF WriteIsFirst
    <3>2. \A r \in LiveTranslations(row.kind, row.key, row.language) : rows[r].live
      BY DEF LiveTranslations, LiveTexts, Live
    <3> QED
      BY <1>6, <3>1, <3>2 DEF found, StillLive
  <2>3. row.versionOf = None
    BY <1>3, <1>4, <1>5, <2>1
  <2>4. PlanHolds(e, Plan(NoLock, {}, <<row>>))
    BY <2>2, <2>3, AddedPlanHolds
  <2> QED
    BY <1>2, <1>6, <2>1, <2>4, PlanKeepsIInv
<1>7. CASE \E r \in found : WillWrite(e, NoLock, {r}, <<stored(rows[r], r)>>)
  <2>1. PICK r \in found : WillWrite(e, NoLock, {r}, <<stored(rows[r], r)>>)
    BY <1>7
  <2>2. r \in DOMAIN rows /\ rows[r].live /\ ~Locked(r)
    BY <1>1, <1>2 DEF found, StillLive
  <2>3. PICK row \in Row : row = stored(rows[r], r)
    BY <1>4, <1>5, <2>2
  <2>4. row.versionOf = r /\ TextName(row) = TextName(rows[r]) /\ ~row.original
    BY <1>4, <1>5, <2>2, <2>3
  <2>5. PlanHolds(e, Plan(NoLock, {r}, <<row>>))
    BY <1>2, <2>2, <2>4, ReplacingPlanHolds
  <2>6. \A x \in {r} : ~Locked(x)
    BY <2>2
  <2> QED
    BY <1>2, <2>1, <2>3, <2>5, <2>6, PlanKeepsIInv
<1> QED
  BY <1>1, <1>6, <1>7

-----------------------------------------------------------------------------
\* What a commit makes of the rows: the old ones stay what they are, except that
\* those it retires are not live any more, and the new ones come after them.
LEMMA CommittedRows ==
  ASSUME ContentIInv, NEW e \in Writers, CommitRequest(e)
  PROVE  /\ rows' \in Seq(Row)
         /\ DOMAIN rows \subseteq DOMAIN rows'
         /\ Len(rows') = Len(rows) + Len(request[e].writes)
         /\ \A r \in DOMAIN rows :
               /\ SameText(rows'[r], rows[r])
               /\ rows'[r].versionOf = rows[r].versionOf
               /\ rows'[r].status = rows[r].status
               /\ rows'[r].live <=> rows[r].live /\ r \notin request[e].retires
         /\ \A r \in DOMAIN rows' \ DOMAIN rows :
               /\ r - Len(rows) \in DOMAIN request[e].writes
               /\ rows'[r] = request[e].writes[r - Len(rows)]
<1> DEFINE kept == [r \in DOMAIN rows |-> [rows[r] EXCEPT !.live = @ /\ r \notin request[e].retires]]
           W == request[e].writes
<1>1. rows' = kept \o W
  BY DEF CommitRequest
<1>2. rows \in Seq(Row) /\ W \in Seq(Row)
  BY DEF ContentIInv, ContentTypeOK
<1>3. ASSUME NEW r \in DOMAIN rows
      PROVE  /\ kept[r] \in Row
             /\ SameText(kept[r], rows[r])
             /\ kept[r].versionOf = rows[r].versionOf
             /\ kept[r].status = rows[r].status
             /\ kept[r].live <=> rows[r].live /\ r \notin request[e].retires
  <2>1. rows[r] \in Row
    BY <1>2
  <2>2. kept[r] = [rows[r] EXCEPT !.live = @ /\ r \notin request[e].retires]
    OBVIOUS
  <2> DEFINE l == rows[r].live /\ r \notin request[e].retires
  <2>3. kept[r] = [rows[r] EXCEPT !.live = l] /\ l \in BOOLEAN
    BY <2>2
  <2> HIDE DEF kept, l
  <2>4. kept[r] \in Row /\ (kept[r].live = l)
    BY <2>1, <2>3 DEF Row
  <2>5. SameText(kept[r], rows[r])
    BY <2>1, <2>3 DEF Row, SameText
  <2>6. kept[r].versionOf = rows[r].versionOf /\ kept[r].status = rows[r].status
    BY <2>1, <2>3 DEF Row
  <2> QED
    BY <2>4, <2>5, <2>6 DEF l
<1>4. kept \in Seq(Row) /\ Len(kept) = Len(rows) /\ DOMAIN kept = DOMAIN rows
  <2>1. DOMAIN kept = DOMAIN rows /\ DOMAIN rows = 1..Len(rows) /\ Len(rows) \in Nat
    BY <1>2
  <2>2. kept \in [1..Len(rows) -> Row]
    BY <1>3, <2>1
  <2> HIDE DEF kept
  <2> QED
    BY <2>1, <2>2
<1> HIDE DEF kept
<1>5. /\ kept \o W \in Seq(Row)
      /\ Len(kept \o W) = Len(rows) + Len(W)
      /\ \A i \in 1..(Len(rows) + Len(W)) :
            (kept \o W)[i] = IF i <= Len(rows) THEN kept[i] ELSE W[i - Len(rows)]
  <2> HIDE DEF W
  <2>1. /\ kept \o W \in Seq(Row)
        /\ Len(kept \o W) = Len(kept) + Len(W)
        /\ \A i \in 1..(Len(kept) + Len(W)) :
              (kept \o W)[i] = IF i <= Len(kept) THEN kept[i] ELSE W[i - Len(kept)]
    <3>1. kept \in Seq(Row) /\ W \in Seq(Row)
      BY <1>2, <1>4
    <3> QED
      BY <3>1, ConcatProperties
  <2>2. Len(kept) = Len(rows)
    BY <1>4
  <2> QED
    BY <2>1, <2>2
<1>6. /\ rows' \in Seq(Row)
      /\ Len(rows') = Len(rows) + Len(W)
      /\ DOMAIN rows' = 1..(Len(rows) + Len(W))
      /\ DOMAIN rows = 1..Len(rows) /\ DOMAIN W = 1..Len(W)
      /\ Len(rows) \in Nat /\ Len(W) \in Nat
  BY <1>1, <1>2, <1>5
<1>7. \A r \in DOMAIN rows : rows'[r] = kept[r]
  BY <1>1, <1>5, <1>6
<1>8. \A r \in DOMAIN rows' \ DOMAIN rows :
          r - Len(rows) \in DOMAIN W /\ rows'[r] = W[r - Len(rows)]
  BY <1>1, <1>5, <1>6
<1>9. DOMAIN rows \subseteq DOMAIN rows'
  BY <1>6
<1> QED
  BY <1>3, <1>6, <1>7, <1>8, <1>9

\* A commit notes the texts that it races for, and forgets none.
LEMMA CommittedRaces ==
  ASSUME ContentIInv, NEW e \in Writers, CommitRequest(e)
  PROVE  /\ raced \subseteq raced'
         /\ \A name \in Translated(e) : Races(e, name) => name \in raced'
         /\ raced' \subseteq TextNames
         /\ \A i \in DOMAIN request[e].writes : ~request[e].writes[i].original =>
               TextName(request[e].writes[i]) \in Translated(e)
<1>1. raced' = raced \cup {name \in Translated(e) : Races(e, name)}
  BY DEF CommitRequest
<1>2. raced \subseteq TextNames /\ request[e].writes \in Seq(Row)
  BY DEF ContentIInv, ContentTypeOK
<1>3. \A w \in Row : TextName(w) \in TextNames
  <2> SUFFICES ASSUME NEW w \in Row
               PROVE  <<w.kind, w.key, w.language>> \in Kinds \X Identifiers \X Locales
    BY DEF TextName, TextNames
  <2>1. w.kind \in Kinds /\ w.key \in Identifiers /\ w.language \in Locales
    BY DEF Row
  <2> QED
    BY <2>1
<1>4. Range(request[e].writes) \subseteq Row
  BY <1>2 DEF Range
<1>5. Translated(e) \subseteq TextNames
  BY <1>3, <1>4 DEF Translated
<1>6. \A i \in DOMAIN request[e].writes : request[e].writes[i] \in Range(request[e].writes)
  BY DEF Range
<1> QED
  BY <1>1, <1>2, <1>5, <1>6 DEF Translated

\* What another request plans to add is still missing, or raced for: it holds
\* the lock of the text, or one of the two is a worker.
LEMMA FirstRowsStayFirst ==
  ASSUME ContentIInv, NEW e \in Writers, CommitRequest(e), request[e].step = "writing",
         NEW f \in Writers, f # e, NEW i \in DOMAIN request[f].writes
  PROVE  \A p : p = request[f] => WriteIsFirst(f, p, i)'
<1> SUFFICES ASSUME NEW p, p = request[f]
             PROVE  WriteIsFirst(f, p, i)'
  OBVIOUS
<1> DEFINE w == p.writes[i]
           name == TextName(w)
<1> SUFFICES ASSUME w.versionOf = None, ~w.original
             PROVE  /\ \/ f \in Workers
                       \/ p.lock = TranslationLock(w.kind, w.key, w.language) /\ p.seen = {}
                    /\ DOMAIN p.writes = {i}
                    /\ \/ LiveTranslations(w.kind, w.key, w.language)' \subseteq p.seen
                       \/ name \in raced'
  BY DEF WriteIsFirst
<1>1. /\ \/ f \in Workers
         \/ p.lock = TranslationLock(w.kind, w.key, w.language) /\ p.seen = {}
      /\ DOMAIN p.writes = {i}
      /\ \/ LiveTranslations(w.kind, w.key, w.language) \subseteq p.seen
         \/ name \in raced
  <2>1. WriteIsFirst(f, p, i)
    BY DEF ContentIInv, PlansHold, PlanHolds
  <2> QED
    BY <2>1 DEF WriteIsFirst
<1>2. ASSUME LiveTranslations(w.kind, w.key, w.language) \subseteq p.seen, name \notin raced',
             NEW r \in LiveTranslations(w.kind, w.key, w.language)', r \notin p.seen
      PROVE  FALSE
  <2>1. /\ r \in DOMAIN rows' /\ rows'[r].live /\ ~rows'[r].original
        /\ rows'[r].kind = w.kind /\ rows'[r].key = w.key /\ rows'[r].language = w.language
    BY <1>2 DEF LiveTranslations, LiveTexts, Live
  <2>2. r \notin DOMAIN rows
    <3>1. \A s \in DOMAIN rows : /\ rows[s].live /\ ~rows[s].original
                                 /\ rows[s].kind = w.kind /\ rows[s].key = w.key
                                 /\ rows[s].language = w.language
                                 => s \in p.seen
      BY <1>2 DEF LiveTranslations, LiveTexts, Live
    <3> QED
      BY <1>2, <2>1, <3>1, CommittedRows DEF SameText
  <2> DEFINE j == r - Len(rows)
             v == request[e].writes[j]
  <2>3. j \in DOMAIN request[e].writes /\ rows'[r] = v
    BY <2>1, <2>2, CommittedRows
  <2>4. /\ PlanHolds(e, request[e])
        /\ WriteFollows(e, request[e], j) /\ WriteIsFirst(e, request[e], j)
    BY <2>3 DEF ContentIInv, PlansHold, PlanHolds
  <2> HIDE DEF j
  <2>5. TextName(v) = name
    BY <2>1, <2>3 DEF TextName
  <2>6. e \notin Workers /\ f \notin Workers
    <3>1. name \in Translated(e)
      BY <2>1, <2>3, <2>5, CommittedRaces
    <3>2. name \in Translated(f)
      <4>1. w \in Range(request[f].writes)
        BY DEF Range
      <4> QED
        BY <4>1 DEF Translated
    <3>3. ~Races(e, name)
      BY <1>2, <3>1, CommittedRaces
    <3> QED
      BY <3>2, <3>3 DEF Races
  <2>7. p.lock = TranslationLock(w.kind, w.key, w.language) /\ p.seen = {}
    BY <1>1, <2>6
  <2>8. CASE v.versionOf = None
    <3>1. request[e].lock = TranslationLock(w.kind, w.key, w.language)
      BY <2>1, <2>3, <2>4, <2>6, <2>8 DEF WriteIsFirst
    <3>2. p.lock # NoLock
      <4>1. w \in Row
        BY DEF ContentIInv, ContentTypeOK
      <4>2. w.kind \in Kinds
        BY <4>1 DEF Row
      <4> QED
        BY <2>7, <4>2, TranslationLocks
    <3> QED
      BY <2>7, <3>1, <3>2 DEF ContentIInv, PlansAreApart
  <2>9. CASE v.versionOf # None
    <3>1. /\ v.versionOf \in DOMAIN rows /\ rows[v.versionOf].live
          /\ TextName(v) = TextName(rows[v.versionOf])
          /\ v.original = rows[v.versionOf].original
      BY <2>4, <2>6, <2>9 DEF WriteFollows, PlanHolds
    <3>2. v.versionOf \in LiveTranslations(w.kind, w.key, w.language)
      BY <2>1, <2>3, <2>5, <3>1 DEF LiveTranslations, LiveTexts, Live, TextName
    <3> QED
      BY <1>2, <2>7, <3>2
  <2> QED
    BY <2>8, <2>9
<1>3. raced \subseteq raced'
  BY CommittedRaces
<1> QED
  BY <1>1, <1>2, <1>3

\* A commit makes a plan true: what it retires was live and is followed once,
\* what it adds was missing, and the plans of the others hold on.
LEMMA CommitKeepsIInv ==
  ASSUME ContentIInv, NEW e \in Writers, CommitRequest(e)
  PROVE  ContentIInv'
<1> USE DEF ContentIInv
<1> DEFINE W == request[e].writes
           R == request[e].retires
           N == Len(rows)
<1>1. /\ request' = [request EXCEPT ![e] = NoRequest]
      /\ N + Len(W) <= MaxRows
      /\ request[e].step = "writing"
  BY DEF CommitRequest
<1>2. /\ request'[e] = NoRequest
      /\ DOMAIN request' = Writers
      /\ \A f \in Writers : f # e => request'[f] = request[f]
  BY <1>1 DEF ContentShapes
<1>3. /\ rows' \in Seq(Row)
      /\ DOMAIN rows \subseteq DOMAIN rows'
      /\ Len(rows') = N + Len(W)
      /\ rows \in Seq(Row) /\ W \in Seq(Row)
      /\ N \in Nat /\ Len(W) \in Nat
  BY CommittedRows DEF ContentTypeOK
<1>4. \A r \in DOMAIN rows :
               /\ SameText(rows'[r], rows[r])
               /\ rows'[r].versionOf = rows[r].versionOf
               /\ rows'[r].live <=> rows[r].live /\ r \notin R
  BY CommittedRows
<1>5. \A r \in DOMAIN rows' \ DOMAIN rows : r - N \in DOMAIN W /\ rows'[r] = W[r - N]
  BY CommittedRows
<1>6. PlanHolds(e, request[e]) /\ request[e].seen = {}
  BY <1>1 DEF PlansHold, PlanHolds
<1>7. \A r, s \in DOMAIN rows' \ DOMAIN rows : r - N = s - N => r = s
  BY <1>3
<1> HIDE DEF N, W
<1>8. \A r \in DOMAIN rows' \ DOMAIN rows : rows'[r].versionOf # None =>
          /\ rows'[r].versionOf \in R
          /\ rows'[r].versionOf \in DOMAIN rows
          /\ rows[rows'[r].versionOf].live
          /\ TextName(rows'[r]) = TextName(rows[rows'[r].versionOf])
          /\ \/ rows'[r].original = rows[rows'[r].versionOf].original
             \/ DOMAIN W = {r - N}
  BY <1>5, <1>6 DEF PlanHolds, WriteFollows, W
<1>9. ContentTypeOK'
  <2>1. \A f \in Writers : /\ request'[f].step \in {"idle", "locking", "storing", "writing"}
                           /\ request'[f].seen \cup request'[f].retires \subseteq DOMAIN rows
                           /\ request'[f].writes \in Seq(Row)
    <3>1. <<>> \in Seq(Row)
      OBVIOUS
    <3> QED
      BY <1>2, <3>1, NoPlanHolds DEF ContentTypeOK
  <2>2. raced' \subseteq TextNames
    BY CommittedRaces
  <2> QED
    BY <1>3, <2>1, <2>2 DEF ContentTypeOK
<1>10. ContentShapes'
  <2>1. Len(rows') \in 1..MaxRows
    BY <1>1, <1>3, ContentVersionsAssumption DEF ContentShapes, N
  <2> QED
    BY <1>2, <2>1 DEF ContentShapes
<1>11. PlansHold'
  <2> SUFFICES ASSUME NEW f \in Writers
               PROVE  PlanHolds(f, request[f])'
    BY DEF PlansHold
  <2>1. CASE f = e
    <3>1. PlanHolds(e, NoRequest)'
      <4>1. <<>> \in Seq(Row) /\ DOMAIN <<>> = {}
        OBVIOUS
      <4> QED
        BY <4>1, NoPlanHolds DEF PlanHolds
    <3>2. PICK p : p = request'[f]
      OBVIOUS
    <3> QED
      BY <1>2, <2>1, <3>1
  <2>2. CASE f # e
    <3>1. PICK p : p = request[f]
      OBVIOUS
    <3>2. PlanHolds(f, p) /\ request'[f] = p
      BY <1>2, <2>2, <3>1 DEF PlansHold
    <3>3. p.retires \cap R = {}
      BY <2>2, <3>1 DEF PlansAreApart
    <3>4. p.retires \subseteq DOMAIN rows' /\ \A r \in p.retires : rows'[r].live
      BY <1>3, <1>4, <3>2, <3>3 DEF PlanHolds
    <3>5. \A i \in DOMAIN p.writes : WriteFollows(f, p, i)'
      BY <1>4, <3>2 DEF PlanHolds, WriteFollows, SameText, TextName
    <3>6. \A i \in DOMAIN p.writes : WriteIsFirst(f, p, i)'
      BY <1>1, <2>2, <3>1, FirstRowsStayFirst
    <3>7. PlanHolds(f, p)'
      BY <3>2, <3>4, <3>5, <3>6 DEF PlanHolds
    <3> QED
      BY <3>2, <3>7
  <2> QED
    BY <2>1, <2>2
<1>12. PlansAreApart'
  BY <1>2, NoPlanHolds DEF PlansAreApart
<1>13. FollowedAreRetired'
  <2> SUFFICES ASSUME NEW r \in DOMAIN rows', rows'[r].versionOf # None
               PROVE  rows'[r].versionOf \in DOMAIN rows' /\ ~rows'[rows'[r].versionOf].live
    BY DEF FollowedAreRetired
  <2>1. CASE r \in DOMAIN rows
    BY <1>3, <1>4, <2>1 DEF FollowedAreRetired
  <2>2. CASE r \notin DOMAIN rows
    BY <1>3, <1>4, <1>8, <2>2
  <2> QED
    BY <2>1, <2>2
<1>14. ContentHasOneHistory'
  <2>1. ASSUME NEW r \in DOMAIN rows', NEW s \in DOMAIN rows',
               rows'[r].versionOf = rows'[s].versionOf, rows'[r].versionOf # None
        PROVE  r = s
    <3>1. CASE r \in DOMAIN rows /\ s \in DOMAIN rows
      BY <1>4, <2>1, <3>1 DEF ContentHasOneHistory
    <3>2. CASE r \notin DOMAIN rows /\ s \notin DOMAIN rows
      <4>1. r - N \in DOMAIN W /\ s - N \in DOMAIN W /\ rows'[r] = W[r - N] /\ rows'[s] = W[s - N]
        BY <1>5, <3>2
      <4>2. r - N = s - N
        BY <1>6, <2>1, <4>1 DEF PlanHolds, W
      <4> QED
        BY <1>7, <3>2, <4>2
    <3>3. ASSUME NEW x \in DOMAIN rows, NEW y \in DOMAIN rows' \ DOMAIN rows,
                 rows'[x].versionOf = rows'[y].versionOf, rows'[x].versionOf # None
          PROVE  FALSE
      <4>1. PICK z : z = rows'[y].versionOf
        OBVIOUS
      <4>2. z \in DOMAIN rows /\ rows[z].live
        BY <1>8, <3>3, <4>1
      <4>3. rows[x].versionOf = z /\ z # None
        BY <1>4, <3>3, <4>1
      <4> QED
        BY <4>2, <4>3 DEF FollowedAreRetired
    <3> QED
      BY <2>1, <3>1, <3>2, <3>3
  <2>2. ASSUME NEW r \in DOMAIN rows', NEW s \in DOMAIN rows',
               rows'[r].live, rows'[s].live, ~rows'[r].original, ~rows'[s].original,
               TextName(rows'[r]) = TextName(rows'[s]), TextName(rows'[r]) \notin raced'
        PROVE  r = s
    <3> DEFINE name == TextName(rows'[r])
    <3>1. name \notin raced
      BY <2>2, CommittedRaces
    <3>2. \A x, y \in DOMAIN rows :
              /\ rows[x].live /\ rows[y].live /\ ~rows[x].original /\ ~rows[y].original
              /\ TextName(rows[x]) = name /\ TextName(rows[y]) = name
              => x = y
      BY <3>1 DEF ContentHasOneHistory, RivalTranslations
    <3> HIDE DEF name
    <3>3. CASE r \in DOMAIN rows /\ s \in DOMAIN rows
      BY <1>4, <2>2, <3>2, <3>3 DEF SameText, TextName, name
    \* An old row that is live would be the one that the new row retires, or
    \* would have kept the new row from being planned, or would make it a race.
    <3>4. ASSUME NEW x \in DOMAIN rows, NEW y \in DOMAIN rows' \ DOMAIN rows,
                 rows'[x].live, rows'[y].live, ~rows'[x].original, ~rows'[y].original,
                 TextName(rows'[x]) = name, TextName(rows'[y]) = name
          PROVE  FALSE
      <4>1. rows[x].live /\ x \notin R /\ ~rows[x].original /\ TextName(rows[x]) = name
        BY <1>4, <3>4 DEF SameText, TextName
      <4>2. y - N \in DOMAIN W /\ rows'[y] = W[y - N]
        BY <1>5
      <4>3. CASE rows'[y].versionOf # None
        <5>1. PICK z : z = rows'[y].versionOf
          OBVIOUS
        <5>2. /\ z \in R /\ z \in DOMAIN rows /\ rows[z].live /\ TextName(rows[z]) = name
          BY <1>8, <3>4, <4>3, <5>1
        <5>3. rows[z].original
          BY <3>2, <4>1, <5>2
        <5>4. x \in LiveTexts(name[1], name[2], name[3])
          <6>1. /\ name[1] = rows[x].kind /\ name[2] = rows[x].key
                /\ name[3] = rows[x].language
            BY <4>1 DEF TextName
          <6> QED
            BY <4>1, <6>1 DEF LiveTexts, Live
        <5>5. Races(e, name)
          BY <4>1, <5>2, <5>3, <5>4 DEF Races
        <5>6. name \in Translated(e)
          BY <3>4, <4>2, CommittedRaces DEF W
        <5> QED
          BY <2>2, <5>5, <5>6, CommittedRaces DEF name
      <4>4. CASE rows'[y].versionOf = None
        <5>1. WriteIsFirst(e, request[e], y - N)
          BY <1>6, <4>2 DEF PlanHolds, W
        <5>2. LiveTranslations(rows'[y].kind, rows'[y].key, rows'[y].language) = {}
          BY <1>6, <3>1, <3>4, <4>2, <4>4, <5>1 DEF WriteIsFirst, W
        <5> QED
          BY <3>4, <4>1, <5>2 DEF LiveTranslations, LiveTexts, Live, TextName
      <4> QED
        BY <4>3, <4>4
    <3>5. CASE r \notin DOMAIN rows /\ s \notin DOMAIN rows
      <4>1. r - N \in DOMAIN W /\ s - N \in DOMAIN W /\ rows'[r] = W[r - N] /\ rows'[s] = W[s - N]
        BY <1>5, <3>5
      <4>2. /\ WriteIsFirst(e, request[e], r - N) /\ WriteIsFirst(e, request[e], s - N)
        BY <1>6, <4>1 DEF PlanHolds, W
      <4>3. CASE DOMAIN W = {r - N} \/ DOMAIN W = {s - N}
        <5>1. r - N = s - N
          BY <4>1, <4>3
        <5> QED
          BY <1>7, <3>5, <5>1
      <4>4. CASE rows'[r].versionOf = None \/ rows'[s].versionOf = None
        <5>1. DOMAIN W = {r - N} \/ DOMAIN W = {s - N}
          BY <2>2, <4>1, <4>2, <4>4 DEF WriteIsFirst, W
        <5> QED
          BY <4>3, <5>1
      <4>5. CASE /\ rows'[r].versionOf # None /\ rows'[s].versionOf # None
                 /\ DOMAIN W # {r - N} /\ DOMAIN W # {s - N}
        <5>1. /\ rows'[r].versionOf \in DOMAIN rows /\ rows[rows'[r].versionOf].live
              /\ TextName(rows[rows'[r].versionOf]) = name /\ ~rows[rows'[r].versionOf].original
          BY <1>8, <2>2, <3>5, <4>5 DEF name
        <5>2. /\ rows'[s].versionOf \in DOMAIN rows /\ rows[rows'[s].versionOf].live
              /\ TextName(rows[rows'[s].versionOf]) = name /\ ~rows[rows'[s].versionOf].original
          BY <1>8, <2>2, <3>5, <4>5 DEF name
        <5>3. rows'[r].versionOf = rows'[s].versionOf
          BY <3>2, <5>1, <5>2
        <5> QED
          BY <2>1, <4>5, <5>3
      <4> QED
        BY <4>3, <4>4, <4>5
    <3> QED
      BY <2>2, <3>3, <3>4, <3>5 DEF name
  <2> QED
    BY <2>1, <2>2 DEF ContentHasOneHistory, RivalTranslations
<1> QED
  BY <1>9, <1>10, <1>11, <1>12, <1>13, <1>14

-----------------------------------------------------------------------------
\* The invariant holds of the seeded row.
LEMMA ContentInitHolds == ContentInit => ContentIInv
<1> SUFFICES ASSUME ContentInit
             PROVE  ContentIInv
  OBVIOUS
<1>1. PICK kind \in {"template", "ux_string"}, title \in Titles :
          rows = <<Draft(kind, Identifier(title, 1), Identifier(title, 1), "first")>>
  BY DEF ContentInit
<1> DEFINE row == Draft(kind, Identifier(title, 1), Identifier(title, 1), "first")
<1>2. row \in Row /\ row.original /\ row.versionOf = None
  <2>1. kind \in Kinds /\ "first" \in Locales /\ Identifier(title, 1) \in Identifiers
    BY FirstIdentifiers DEF Kinds, Emails, Locales
  <2> QED
    BY <2>1, DraftIsRow
<1> HIDE DEF row
<1>3. rows = <<row>>
  BY <1>1 DEF row
<1>4. rows \in Seq(Row) /\ Len(rows) = 1 /\ DOMAIN rows = {1} /\ rows[1] = row
  BY <1>2, <1>3
<1>5. request = [e \in Writers |-> NoRequest] /\ raced = {}
  BY DEF ContentInit
<1>6. ContentTypeOK
  <2>1. <<>> \in Seq(Row)
    OBVIOUS
  <2> QED
    BY <1>4, <1>5, <2>1, NoPlanHolds DEF ContentTypeOK
<1>7. ContentShapes
  BY <1>4, <1>5, ContentVersionsAssumption DEF ContentShapes
<1>8. PlansHold /\ PlansAreApart
  BY <1>5, NoPlanHolds DEF PlansHold, PlansAreApart
<1>9. FollowedAreRetired
  BY <1>2, <1>4 DEF FollowedAreRetired
<1>10. ContentHasOneHistory
  BY <1>2, <1>4 DEF ContentHasOneHistory, RivalTranslations
<1> QED
  BY <1>6, <1>7, <1>8, <1>9, <1>10 DEF ContentIInv

\* Every step of the content keeps the invariant.
LEMMA ContentNextKeepsIInv ==
  ASSUME ContentIInv, [ContentNext]_content
  PROVE  ContentIInv'
<1>1. CASE UNCHANGED content
  <2>1. rows' = rows /\ request' = request /\ raced' = raced
    BY <1>1 DEF content
  <2>2. PlansHold'
    <3> SUFFICES ASSUME NEW f \in Writers
                 PROVE  PlanHolds(f, request[f])'
      BY DEF PlansHold
    <3>1. PICK p : p = request[f]
      OBVIOUS
    <3>2. PlanHolds(f, p)'
      BY <2>1, <3>1, PlansOfTheSameRows DEF ContentIInv, PlansHold
    <3> QED
      BY <2>1, <3>1, <3>2
  <2>3. ContentTypeOK' /\ ContentShapes'
    BY <2>1 DEF ContentIInv, ContentTypeOK, ContentShapes
  <2>4. PlansAreApart' /\ FollowedAreRetired'
    BY <2>1 DEF ContentIInv, PlansAreApart, FollowedAreRetired
  <2>5. ContentHasOneHistory'
    BY <2>1 DEF ContentIInv, ContentHasOneHistory, RivalTranslations
  <2> QED
    BY <2>2, <2>3, <2>4, <2>5 DEF ContentIInv
<1>2. CASE ContentNext
  <2>1. ASSUME NEW e \in Editors,
               \/ StartDraft(e) \/ StartTranslation(e) \/ StartSave(e)
               \/ \E r \in DOMAIN rows : FindDrafts(e, rows[r].key)
               \/ PublishDrafts(e)
        PROVE  ContentIInv'
    <3>1. e \in Writers
      BY DEF Writers
    <3>2. CASE StartDraft(e)
      BY <3>1, <3>2, StartedDraftsKeepIInv
    <3>3. CASE StartTranslation(e)
      BY <3>1, <3>3, StartedTranslationsKeepIInv
    <3>4. CASE StartSave(e)
      BY <3>1, <3>4, StartedContentSavesKeepIInv
    <3>5. CASE \E r \in DOMAIN rows : FindDrafts(e, rows[r].key)
      BY <3>1, <3>5, FindDraftsKeepsIInv
    <3>6. CASE PublishDrafts(e)
      BY <3>1, <3>6, PublishDraftsKeepsIInv
    <3> QED
      BY <2>1, <3>2, <3>3, <3>4, <3>5, <3>6
  <2>2. ASSUME NEW e \in Workers, StartStore(e)
        PROVE  ContentIInv'
    BY <2>2, FindTranslationKeepsIInv DEF StartStore
  <2>3. ASSUME NEW e \in Workers, NEW text \in Texts, NEW title \in Titles,
               StoreTranslation(e, text, title)
        PROVE  ContentIInv'
    BY <2>3, StoreTranslationKeepsIInv
  <2>4. ASSUME NEW e \in Writers, CommitRequest(e) \/ RollBackRequest(e)
        PROVE  ContentIInv'
    BY <2>4, CommitKeepsIInv, RollBackKeepsIInv
  <2> QED
    BY <1>2, <2>1, <2>2, <2>3, <2>4 DEF ContentNext, EditorStep, StoringStep, Writers
<1> QED
  BY <1>1, <1>2

\* The invariant holds in every state of the content.
LEMMA ContentInductive == ContentSpec => []ContentIInv
BY ContentInitHolds, ContentNextKeepsIInv, PTL DEF ContentSpec

\* Rows and requests keep their types (src/admin/content/: the tables of pages,
\* categories, e-mails, newsletters and UX strings).
THEOREM ContentTypeCorrect == ContentSpec => []ContentTypeOK
<1>1. ContentIInv => ContentTypeOK
  BY DEF ContentIInv
<1> QED
  BY <1>1, ContentInductive, PTL

\* Whatever drafts, translations, saves and publications of whatever number of
\* administrators and results of translation workers overlap, no version is
\* followed by two others; and a text has one live translation per language at
\* most, unless a worker stored one while another request wrote the same, or over
\* one of several originals of one name.
THEOREM NoEditIsLostBehindAnother == ContentSpec => []ContentHasOneHistory
<1>1. ContentIInv => ContentHasOneHistory
  BY DEF ContentIInv
<1> QED
  BY <1>1, ContentInductive, PTL

-----------------------------------------------------------------------------
(* Publishing the public site                                               *)

\* The rows that the state row and the requests name as times have been written.
TimesArePast ==
    /\ publish.succeeded \in 0..Clock
    /\ \A p \in Publishers : trigger[p].stamp \in 0..Clock
    /\ builds \in Nat

\* The fields of the state row, the site and the publish requests.
SiteShapes ==
    /\ DOMAIN publish = {"status", "attempted", "succeeded"}
    /\ DOMAIN site = {"rows", "ok"}
    /\ DOMAIN trigger = Publishers
    /\ \A p \in Publishers : DOMAIN trigger[p] = {"step", "stamp"}

\* The build of a call that was answered has not begun before the time of its
\* answer is read.
AcceptedBuildsWait ==
    hosted => \A p \in Publishers : Is(p, "accepted") => builds > 0

\* The rows up to base were there when the last build read the content.
SiteHas(base) == site.ok => \A r \in PublicRows : r <= base => r \in site.rows

\* When no build is waited for, nothing claims a time later than that.
NothingIsClaimedAfter(base) ==
    builds = 0 =>
        /\ publish.succeeded <= base
        /\ \A p \in Publishers : Is(p, "stamped") => trigger[p].stamp <= base

\* Between what is claimed to be published and what is on the site there is a
\* row number that the build has reached and no claim exceeds.
ClaimsAreBuilt ==
    hosted => \E base \in 0..Clock : SiteHas(base) /\ NothingIsClaimedAfter(base)

\* The inductive invariant of the public site.  UncountedRowsAreOnTheSite alone
\* is not inductive: it says nothing of the times that requests still carry,
\* nor of the builds that are waited for.
SiteIInv ==
    /\ ContentIInv
    /\ SiteShapes
    /\ TimesArePast
    /\ AcceptedBuildsWait
    /\ ClaimsAreBuilt

\* Nothing is claimed before the first publication.
LEMMA SiteInitHolds == ContentInit /\ SiteInit => SiteIInv
<1> SUFFICES ASSUME ContentInit, SiteInit
             PROVE  SiteIInv
  OBVIOUS
<1>1. ContentIInv
  BY ContentInitHolds
<1>2. Clock \in Nat /\ \A r \in PublicRows : r \in Nat /\ r > 0
  <2>1. rows \in Seq(Row)
    BY <1>1 DEF ContentIInv, ContentTypeOK
  <2> QED
    BY <2>1 DEF Clock, PublicRows, Live
<1>3. publish = [status |-> "never_published", attempted |-> 0, succeeded |-> 0]
  BY DEF SiteInit
<1>4. trigger = [p \in Publishers |-> [step |-> "idle", stamp |-> 0]] /\ builds = 0
  BY DEF SiteInit
<1>5. SiteShapes
  <2>1. site = [rows |-> {}, ok |-> TRUE]
    BY DEF SiteInit
  <2> QED
    BY <1>3, <1>4, <2>1 DEF SiteShapes
<1>6. TimesArePast
  BY <1>2, <1>3, <1>4 DEF TimesArePast
<1>7. AcceptedBuildsWait
  BY <1>4 DEF AcceptedBuildsWait, Is
<1>8. SiteHas(0)
  BY <1>2 DEF SiteHas
<1>9. NothingIsClaimedAfter(0)
  BY <1>3, <1>4 DEF NothingIsClaimedAfter, Is
<1>10. ClaimsAreBuilt
  BY <1>2, <1>8, <1>9 DEF ClaimsAreBuilt
<1> QED
  BY <1>1, <1>5, <1>6, <1>7, <1>10 DEF SiteIInv

\* No step makes an old row public that was not.
LEMMA OldRowsComeNotBack ==
  ASSUME ContentIInv, [ContentNext]_content
  PROVE  /\ Clock \in Nat /\ Clock' \in Nat /\ Clock <= Clock'
         /\ \A r \in PublicRows' : r <= Clock => r \in PublicRows
<1>1. /\ rows \in Seq(Row) /\ rows' \in Seq(Row)
  BY ContentNextKeepsIInv DEF ContentIInv, ContentTypeOK
<1>2. CASE rows' = rows
  <2>1. PublicRows' = PublicRows /\ Clock' = Clock
    BY <1>2 DEF PublicRows, Live, Clock
  <2> QED
    BY <1>1, <2>1 DEF Clock
<1>3. CASE \E e \in Writers : CommitRequest(e)
  <2>1. PICK e \in Writers : CommitRequest(e)
    BY <1>3
  <2>2. Len(rows') = Len(rows) + Len(request[e].writes)
        /\ request[e].writes \in Seq(Row)
    BY <2>1, CommittedRows DEF ContentIInv, ContentTypeOK
  <2>3. \A r \in DOMAIN rows : /\ rows'[r].kind = rows[r].kind
                               /\ rows'[r].status = rows[r].status
                               /\ rows'[r].live => rows[r].live
    BY <2>1, CommittedRows DEF SameText
  <2>4. \A r \in DOMAIN rows' : r <= Clock => r \in DOMAIN rows
    BY <1>1 DEF Clock
  <2>5. \A r \in PublicRows' : r <= Clock => r \in PublicRows
    BY <2>3, <2>4 DEF PublicRows, Live
  <2> QED
    BY <1>1, <2>2, <2>5 DEF Clock
<1>4. rows' = rows \/ \E e \in Writers : CommitRequest(e)
  <2>1. SUFFICES ASSUME ContentNext
                 PROVE  rows' = rows \/ \E e \in Writers : CommitRequest(e)
    BY DEF content
  <2>2. ASSUME NEW e \in Editors, StartDraft(e)
        PROVE  rows' = rows
    BY <2>2 DEF StartDraft, WillWrite, CreateNewsletterDraft, CreateSequenceEmailDraft,
                CreateEmailDraft, CreateCategoryDraft, CreatePageDraft
  <2>3. ASSUME NEW e \in Editors, StartTranslation(e)
        PROVE  rows' = rows
    <3>1. PICK r \in DOMAIN rows, language \in Locales : CreateCopy(e, r, language)
      BY <2>3 DEF StartTranslation, CreateEmailTranslation, CreateNewsletterTranslation,
             CreateUxStringTranslation, CreateCategoryTranslation, CreatePageTranslation
    <3>2. \E lock, written : WillWrite(e, lock, {}, written)
      BY <3>1 DEF CreateCopy
    <3> QED
      BY <3>2 DEF WillWrite
  <2>4. ASSUME NEW e \in Editors, StartSave(e)
        PROVE  rows' = rows
    <3>1. \A r, text : SaveEmail(e, r, text) \/ SaveUxString(e, r, text)
                        => \E edited : Replace(e, r, edited)
      BY DEF SaveEmail, SaveUxString
    <3>2. \A r, text, slug : SaveCategory(e, r, text, slug) => \E edited : Replace(e, r, edited)
      BY DEF SaveCategory
    <3>3. \A r, text, slug, category, status, stamped :
              SavePage(e, r, text, slug, category, status, stamped)
                  => \E edited : Replace(e, r, edited)
      BY DEF SavePage
    <3>4. \E r, edited : Replace(e, r, edited)
      BY <2>4, <3>1, <3>2, <3>3 DEF StartSave, PublishPage, ArchivePage
    <3> QED
      BY <3>4 DEF Replace, WillWrite
  <2>5. ASSUME NEW e \in Editors, NEW key, FindDrafts(e, key)
        PROVE  rows' = rows
    BY <2>5 DEF FindDrafts
  <2>6. ASSUME NEW e \in Editors, PublishDrafts(e)
        PROVE  rows' = rows
    BY <2>6 DEF PublishDrafts, WillWrite
  <2>7. ASSUME NEW e \in Workers, StartStore(e)
        PROVE  rows' = rows
    BY <2>7 DEF StartStore, FindTranslation
  <2>8. ASSUME NEW e \in Workers, NEW text \in Texts, NEW title \in Titles,
               StoreTranslation(e, text, title)
        PROVE  rows' = rows
    BY <2>8 DEF StoreTranslation, WillWrite
  <2>9. ASSUME NEW e \in Writers, RollBackRequest(e)
        PROVE  rows' = rows
    BY <2>9 DEF RollBackRequest
  <2> QED
    BY <2>1, <2>2, <2>3, <2>4, <2>5, <2>6, <2>7, <2>8, <2>9
    DEF ContentNext, EditorStep, StoringStep, Writers
<1> QED
  BY <1>2, <1>3, <1>4

\* Whatever the administrators write, what the screen relies on stays true.
LEMMA ContentStepKeepsSiteIInv ==
  ASSUME SiteIInv, [ContentNext]_content, UNCHANGED siteVars
  PROVE  SiteIInv'
<1> USE DEF SiteIInv
<1>1. /\ hosted' = hosted /\ publish' = publish /\ trigger' = trigger
      /\ builds' = builds /\ site' = site
  BY DEF siteVars
<1>2. /\ Clock \in Nat /\ Clock' \in Nat /\ Clock <= Clock'
      /\ \A r \in PublicRows' : r <= Clock => r \in PublicRows
  BY OldRowsComeNotBack
<1>3. ContentIInv'
  BY ContentNextKeepsIInv
<1>4. SiteShapes'
  BY <1>1 DEF SiteShapes
<1>5. TimesArePast'
  BY <1>1, <1>2 DEF TimesArePast
<1>6. AcceptedBuildsWait'
  BY <1>1 DEF AcceptedBuildsWait, Is
<1>7. ClaimsAreBuilt'
  <2> SUFFICES ASSUME hosted
               PROVE  \E base \in 0..Clock' : SiteHas(base)' /\ NothingIsClaimedAfter(base)'
    BY <1>1 DEF ClaimsAreBuilt
  <2>1. PICK base \in 0..Clock : SiteHas(base) /\ NothingIsClaimedAfter(base)
    BY DEF ClaimsAreBuilt
  <2>2. base \in 0..Clock'
    BY <1>2
  <2>3. \A r \in PublicRows' : r \in Nat
    <3>1. rows' \in Seq(Row)
      BY <1>3 DEF ContentIInv, ContentTypeOK
    <3> QED
      BY <3>1 DEF PublicRows, Live
  <2>4. SiteHas(base)'
    BY <1>1, <1>2, <2>1, <2>3 DEF SiteHas
  <2>5. NothingIsClaimedAfter(base)'
    BY <1>1, <2>1 DEF NothingIsClaimedAfter, Is
  <2> QED
    BY <2>2, <2>4, <2>5
<1> QED
  BY <1>3, <1>4, <1>5, <1>6, <1>7

\* A step of a publish request p that starts no build and claims nothing new.
LEMMA PublisherStepKeepsSiteIInv ==
  ASSUME SiteIInv, UNCHANGED content, UNCHANGED <<hosted, site>>, NEW p \in Publishers,
         DOMAIN publish' = DOMAIN publish,
         publish'.succeeded \in {publish.succeeded, trigger[p].stamp},
         publish'.succeeded # publish.succeeded => Is(p, "stamped"),
         NEW now, now \in {"idle", "requested", "accepted", "stamped", "rejected"},
         NEW stamp \in 0..Clock,
         trigger' = [trigger EXCEPT ![p] = [step |-> now, stamp |-> stamp]],
         builds' \in {builds, builds + 1},
         hosted /\ now = "accepted" => builds' = builds + 1,
         hosted /\ now = "stamped" => Is(p, "accepted") /\ builds' = builds
  PROVE  SiteIInv'
<1> USE DEF SiteIInv
<1>1. rows' = rows /\ hosted' = hosted /\ site' = site
  BY DEF content
<1>2. Clock' = Clock /\ Clock \in Nat /\ PublicRows' = PublicRows
  <2>1. rows \in Seq(Row)
    BY DEF ContentIInv, ContentTypeOK
  <2>2. \A kind : Live(kind)' = Live(kind)
    BY <1>1 DEF Live
  <2> QED
    BY <1>1, <2>1, <2>2 DEF Clock, PublicRows
<1>3. /\ DOMAIN trigger' = Publishers
      /\ trigger'[p].step = now /\ trigger'[p].stamp = stamp
      /\ \A x \in Publishers : DOMAIN trigger'[x] = {"step", "stamp"}
      /\ \A x \in Publishers : x # p => trigger'[x] = trigger[x]
  BY DEF SiteShapes
<1>4. ContentIInv'
  <2>1. [ContentNext]_content
    OBVIOUS
  <2> QED
    BY <2>1, ContentNextKeepsIInv
<1>5. SiteShapes'
  <2>1. DOMAIN publish' = DOMAIN publish
    OBVIOUS
  <2> QED
    BY <1>3, <2>1 DEF SiteShapes
<1>6. TimesArePast'
  <2>1. builds' \in Nat
    BY DEF TimesArePast
  <2>2. publish'.succeeded \in 0..Clock
    BY DEF TimesArePast
  <2>3. \A x \in Publishers : trigger'[x].stamp \in 0..Clock
    BY <1>3 DEF TimesArePast
  <2> QED
    BY <1>2, <2>1, <2>2, <2>3 DEF TimesArePast
<1>7. AcceptedBuildsWait'
  BY <1>1, <1>3 DEF AcceptedBuildsWait, Is, TimesArePast
<1>8. ClaimsAreBuilt'
  <2> SUFFICES ASSUME hosted
               PROVE  \E base \in 0..Clock' : SiteHas(base)' /\ NothingIsClaimedAfter(base)'
    BY <1>1 DEF ClaimsAreBuilt
  <2>1. PICK base \in 0..Clock : SiteHas(base) /\ NothingIsClaimedAfter(base)
    BY DEF ClaimsAreBuilt
  <2>2. SiteHas(base)'
    BY <1>1, <1>2, <2>1 DEF SiteHas
  <2>3. NothingIsClaimedAfter(base)'
    <3> SUFFICES ASSUME builds' = 0
                 PROVE  /\ publish'.succeeded <= base
                        /\ \A x \in Publishers : Is(x, "stamped")' => trigger'[x].stamp <= base
      BY DEF NothingIsClaimedAfter
    <3>1. builds = 0
      BY DEF TimesArePast
    <3>2. publish.succeeded <= base /\ \A x \in Publishers : Is(x, "stamped") => trigger[x].stamp <= base
      BY <2>1, <3>1 DEF NothingIsClaimedAfter
    <3>3. publish'.succeeded <= base
      BY <3>2
    <3>4. now # "stamped"
      BY <3>1 DEF AcceptedBuildsWait
    <3> QED
      BY <1>3, <3>2, <3>3, <3>4 DEF Is
  <2> QED
    BY <1>2, <2>1, <2>2, <2>3
<1> QED
  BY <1>4, <1>5, <1>6, <1>7, <1>8

\* All steps of a publish request.
LEMMA PublishStepsKeepSiteIInv ==
  ASSUME SiteIInv, UNCHANGED content, NEW p \in Publishers,
         \/ RequestPublish(p) \/ RequireLocalRebuild(p) \/ HookNotConfigured(p)
         \/ CallDeployHook(p) \/ RecordFailure(p) \/ ReadAcceptedTime(p)
         \/ RecordAccepted(p) \/ PublisherDies(p)
  PROVE  SiteIInv'
<1>1. /\ DOMAIN publish = {"status", "attempted", "succeeded"}
      /\ DOMAIN trigger = Publishers /\ DOMAIN trigger[p] = {"step", "stamp"}
      /\ trigger[p].stamp \in 0..Clock
  BY DEF SiteIInv, SiteShapes, TimesArePast
<1>2. 0 \in 0..Clock /\ Clock \in 0..Clock
  <2>1. rows \in Seq(Row)
    BY DEF SiteIInv, ContentIInv, ContentTypeOK
  <2> QED
    BY <2>1 DEF Clock
<1>3. ASSUME NEW step
      PROVE  [trigger EXCEPT ![p].step = step]
                = [trigger EXCEPT ![p] = [step |-> step, stamp |-> trigger[p].stamp]]
  <2>1. [trigger[p] EXCEPT !.step = step] = [step |-> step, stamp |-> trigger[p].stamp]
    BY <1>1
  <2> QED
    BY <2>1
<1>4. CASE RequestPublish(p)
  <2>1. /\ publish' = [publish EXCEPT !.status = "deploy_requested", !.attempted = Clock]
        /\ trigger' = [trigger EXCEPT ![p] = [step |-> "requested", stamp |-> Clock]]
        /\ UNCHANGED <<hosted, site>> /\ builds' = builds
    BY <1>4 DEF RequestPublish, Attempt
  <2>2. /\ DOMAIN publish' = DOMAIN publish
        /\ publish'.succeeded = publish.succeeded
    BY <1>1, <2>1
  <2> QED
    BY <1>2, <2>1, <2>2, PublisherStepKeepsSiteIInv
<1>5. CASE RequireLocalRebuild(p) \/ HookNotConfigured(p) \/ RecordFailure(p) \/ PublisherDies(p)
  <2>1. /\ trigger' = [trigger EXCEPT ![p] = [step |-> "idle", stamp |-> 0]]
        /\ UNCHANGED <<hosted, site>> /\ builds' = builds
    BY <1>5 DEF RequireLocalRebuild, HookNotConfigured, RecordFailure, PublisherDies, Ends
  <2>2. \/ publish' = publish
        \/ publish' = Attempt("local_manual_rebuild_required", trigger[p].stamp)
        \/ publish' = Attempt("failed", trigger[p].stamp)
    BY <1>5 DEF RequireLocalRebuild, HookNotConfigured, RecordFailure, PublisherDies, AfterFailure
  <2>3. /\ DOMAIN publish' = DOMAIN publish
        /\ publish'.succeeded = publish.succeeded
    BY <1>1, <2>2 DEF Attempt
  <2> QED
    BY <1>2, <2>1, <2>3, PublisherStepKeepsSiteIInv
<1>6. CASE CallDeployHook(p)
  <2>1. PICK now \in {"accepted", "rejected"} :
            /\ GoesTo(p, now) /\ builds' \in {builds, builds + 1}
            /\ now = "accepted" => builds' = builds + 1
    BY <1>6 DEF CallDeployHook
  <2>2. UNCHANGED <<hosted, site>> /\ publish' = publish
    BY <1>6 DEF CallDeployHook
  <2>3. trigger' = [trigger EXCEPT ![p] = [step |-> now, stamp |-> trigger[p].stamp]]
    BY <1>3, <2>1 DEF GoesTo
  <2>4. /\ DOMAIN publish' = DOMAIN publish
        /\ publish'.succeeded = publish.succeeded
    BY <1>1, <2>2
  <2> QED
    BY <1>1, <2>1, <2>2, <2>3, <2>4, PublisherStepKeepsSiteIInv
<1>7. CASE ReadAcceptedTime(p)
  <2>1. /\ trigger' = [trigger EXCEPT ![p] = [step |-> "stamped", stamp |-> Clock]]
        /\ UNCHANGED <<hosted, site>> /\ publish' = publish /\ builds' = builds /\ Is(p, "accepted")
    BY <1>7 DEF ReadAcceptedTime
  <2>2. /\ DOMAIN publish' = DOMAIN publish
        /\ publish'.succeeded = publish.succeeded
    BY <1>1, <2>1
  <2> QED
    BY <1>2, <2>1, <2>2, PublisherStepKeepsSiteIInv
<1>8. CASE RecordAccepted(p)
  <2>1. /\ trigger' = [trigger EXCEPT ![p] = [step |-> "idle", stamp |-> 0]]
        /\ UNCHANGED <<hosted, site>> /\ builds' = builds /\ Is(p, "stamped")
        /\ publish' = [status |-> "trigger_accepted", attempted |-> trigger[p].stamp,
                       succeeded |-> trigger[p].stamp]
    BY <1>8 DEF RecordAccepted, Ends
  <2>2. /\ DOMAIN publish' = DOMAIN publish
        /\ publish'.succeeded = trigger[p].stamp
    BY <1>1, <2>1
  <2> QED
    BY <1>2, <2>1, <2>2, PublisherStepKeepsSiteIInv
<1> QED
  BY <1>4, <1>5, <1>6, <1>7, <1>8

\* Steps of the site itself: no claim is made on a hosted site but a build's own.
LEMMA LocalRebuildKeepsSiteIInv ==
  ASSUME SiteIInv, UNCHANGED content, MarkLocalRebuildComplete
  PROVE  SiteIInv'
<1> USE DEF SiteIInv
<1>1. /\ rows' = rows /\ hosted' = hosted /\ ~hosted /\ trigger' = trigger /\ builds' = builds
      /\ publish' = [status |-> "local_manual_rebuild_completed", attempted |-> Clock,
                     succeeded |-> Clock]
  BY DEF MarkLocalRebuildComplete, content
<1>2. Clock' = Clock /\ Clock \in Nat
  <2>1. rows \in Seq(Row)
    BY DEF ContentIInv, ContentTypeOK
  <2> QED
    BY <1>1, <2>1 DEF Clock
<1>3. ContentIInv'
  <2>1. [ContentNext]_content
    OBVIOUS
  <2> QED
    BY <2>1, ContentNextKeepsIInv
<1>4. SiteShapes'
  BY <1>1 DEF SiteShapes, MarkLocalRebuildComplete
<1>5. TimesArePast'
  BY <1>1, <1>2 DEF TimesArePast
<1>6. AcceptedBuildsWait' /\ ClaimsAreBuilt'
  BY <1>1 DEF AcceptedBuildsWait, ClaimsAreBuilt
<1> QED
  BY <1>3, <1>4, <1>5, <1>6

\* A build takes all public rows of its moment, or the site is not well.
LEMMA BuildKeepsSiteIInv ==
  ASSUME SiteIInv, UNCHANGED content, BuildSite
  PROVE  SiteIInv'
<1> USE DEF SiteIInv
<1>1. /\ rows' = rows /\ hosted' = hosted /\ trigger' = trigger /\ publish' = publish
      /\ builds > 0 /\ builds' = builds - 1
      /\ \A p \in Publishers : ~Is(p, "accepted")
      /\ site'.rows = PublicRows \/ ~site'.ok
  BY DEF BuildSite, content, SiteShapes
<1>2. Clock' = Clock /\ Clock \in Nat /\ PublicRows' = PublicRows
  <2>1. rows \in Seq(Row)
    BY DEF ContentIInv, ContentTypeOK
  <2>2. \A kind : Live(kind)' = Live(kind)
    BY <1>1 DEF Live
  <2> QED
    BY <1>1, <2>1, <2>2 DEF Clock, PublicRows
<1>3. ContentIInv'
  <2>1. [ContentNext]_content
    OBVIOUS
  <2> QED
    BY <2>1, ContentNextKeepsIInv
<1>4. SiteShapes'
  BY <1>1 DEF SiteShapes, BuildSite
<1>5. TimesArePast'
  BY <1>1, <1>2 DEF TimesArePast
<1>6. AcceptedBuildsWait'
  BY <1>1 DEF AcceptedBuildsWait, Is
\* What the build has read, or did not because it failed, reaches up to now.
<1>7. ClaimsAreBuilt'
  <2>1. PICK base : base = Clock
    OBVIOUS
  <2>2. SiteHas(base)'
    BY <1>1, <1>2 DEF SiteHas
  <2>3. NothingIsClaimedAfter(base)'
    BY <1>1, <2>1 DEF NothingIsClaimedAfter, TimesArePast
  <2>4. base \in 0..Clock'
    BY <1>2, <2>1
  <2> QED
    BY <2>2, <2>3, <2>4 DEF ClaimsAreBuilt
<1> QED
  BY <1>3, <1>4, <1>5, <1>6, <1>7

\* Every step of the site and of the content keeps the invariant.
LEMMA SiteNextKeepsIInv ==
  ASSUME SiteIInv, [SiteNext]_<<content, siteVars>>
  PROVE  SiteIInv'
<1>1. CASE UNCHANGED <<content, siteVars>>
  BY <1>1, ContentStepKeepsSiteIInv
<1>2. CASE ContentNext /\ UNCHANGED siteVars
  BY <1>2, ContentStepKeepsSiteIInv
<1>3. CASE SiteStep /\ UNCHANGED content
  BY <1>3, PublishStepsKeepSiteIInv, LocalRebuildKeepsSiteIInv, BuildKeepsSiteIInv DEF SiteStep
<1> QED
  BY <1>1, <1>2, <1>3 DEF SiteNext

\* The invariant holds in every state of the public site.
LEMMA SiteInductive == SiteSpec => []SiteIInv
BY SiteInitHolds, SiteNextKeepsIInv, PTL DEF SiteSpec

\* Whatever the administrators write, the site is made of rows there are.
LEMMA ContentStepKeepsSiteTypes ==
  ASSUME SiteIInv, SiteTypeOK, [ContentNext]_content, UNCHANGED siteVars
  PROVE  SiteTypeOK'
<1>1. Clock \in Nat /\ Clock' \in Nat /\ Clock <= Clock'
  BY OldRowsComeNotBack DEF SiteIInv
<1>2. rows \in Seq(Row) /\ rows' \in Seq(Row)
  BY ContentNextKeepsIInv DEF SiteIInv, ContentIInv, ContentTypeOK
<1>3. DOMAIN rows \subseteq DOMAIN rows'
  BY <1>1, <1>2 DEF Clock
<1> QED
  BY <1>3 DEF SiteTypeOK, siteVars

\* A publish request that has not called the hook yet.
Requested == {p \in Publishers : Is(p, "requested")}

\* A build is the call of one request, so that there are no more builds to come
\* than were asked for.
CallsAreCounted ==
    /\ IsFiniteSet(Requested)
    /\ builds + Cardinality(Requested) <= presses

\* A request that goes to another step is the only one that does.
LEMMA OnePublisherMoves ==
  ASSUME SiteShapes, NEW p \in Publishers, NEW x, DOMAIN x = {"step", "stamp"},
         trigger' = [trigger EXCEPT ![p] = x]
  PROVE  /\ trigger'[p] = x
         /\ \A q \in Publishers : q # p => trigger'[q] = trigger[q]
BY DEF SiteShapes

\* What each step of a request does to the calls to come.
LEMMA PublishStepsCount ==
  ASSUME SiteIInv, SiteTypeOK, CallsAreCounted, NEW p \in Publishers,
         \/ RequestPublish(p) \/ RequireLocalRebuild(p) \/ HookNotConfigured(p)
         \/ CallDeployHook(p) \/ RecordFailure(p) \/ ReadAcceptedTime(p)
         \/ RecordAccepted(p) \/ PublisherDies(p)
  PROVE  CallsAreCounted' /\ builds' \in Nat /\ presses' \in 0..MaxPublishes
<1>1. MaxPublishes \in Nat /\ presses \in 0..MaxPublishes /\ builds \in Nat /\ SiteShapes
  BY PublicSiteAssumption DEF SiteTypeOK, SiteIInv, TimesArePast
<1>2. IsFiniteSet(Requested) /\ Cardinality(Requested) \in Nat
  BY FS_CardinalityType DEF CallsAreCounted
<1>3. CASE RequestPublish(p)
  <2>1. p \notin Requested /\ Requested' = Requested \cup {p}
    BY <1>1, <1>3 DEF RequestPublish, Requested, Is, SiteShapes
  <2>2. IsFiniteSet(Requested') /\ Cardinality(Requested') = Cardinality(Requested) + 1
    BY <1>2, <2>1, FS_AddElement
  <2> QED
    BY <1>1, <1>2, <1>3, <2>2 DEF RequestPublish, CallsAreCounted
<1>4. CASE CallDeployHook(p)
  <2>1. p \in Requested /\ Requested' = Requested \ {p}
    BY <1>1, <1>4 DEF CallDeployHook, Requested, Is, GoesTo, SiteShapes
  <2>2. IsFiniteSet(Requested') /\ Cardinality(Requested') = Cardinality(Requested) - 1
    BY <1>2, <2>1, FS_RemoveElement
  <2>3. builds' \in {builds, builds + 1} /\ presses' = presses
    BY <1>4 DEF CallDeployHook
  <2> QED
    BY <1>1, <1>2, <2>2, <2>3 DEF CallsAreCounted
<1>5. CASE RequireLocalRebuild(p) \/ HookNotConfigured(p) \/ RecordFailure(p) \/ ReadAcceptedTime(p)
           \/ RecordAccepted(p) \/ PublisherDies(p)
  <2>1. Requested' = Requested \/ Requested' = Requested \ {p}
    BY <1>1, <1>5 DEF RequireLocalRebuild, HookNotConfigured, RecordFailure, ReadAcceptedTime,
                      RecordAccepted, PublisherDies, Requested, Is, Ends, SiteShapes
  <2>2. IsFiniteSet(Requested') /\ Cardinality(Requested') <= Cardinality(Requested)
                               /\ Cardinality(Requested') \in Nat
    <3>1. /\ IsFiniteSet(Requested \ {p})
          /\ Cardinality(Requested \ {p}) <= Cardinality(Requested)
          /\ Cardinality(Requested \ {p}) \in Nat
      <4>1. /\ IsFiniteSet(Requested \ {p})
            /\ Cardinality(Requested \ {p}) =
                 IF p \in Requested THEN Cardinality(Requested) - 1 ELSE Cardinality(Requested)
        BY <1>2, FS_RemoveElement
      <4>2. Cardinality(Requested \ {p}) \in Nat
        BY <4>1, FS_CardinalityType
      <4> QED
        BY <1>2, <4>1, <4>2
    <3> QED
      BY <1>2, <2>1, <3>1
  <2>3. builds' = builds /\ presses' = presses
    BY <1>5 DEF RequireLocalRebuild, HookNotConfigured, RecordFailure, ReadAcceptedTime,
                RecordAccepted, PublisherDies
  <2> QED
    BY <1>1, <1>2, <2>2, <2>3 DEF CallsAreCounted
<1> QED
  BY <1>3, <1>4, <1>5

\* The publish requests keep the types of what they write.
LEMMA PublishStepsKeepSiteTypes ==
  ASSUME SiteIInv, SiteTypeOK, CallsAreCounted, UNCHANGED content, NEW p \in Publishers,
         \/ RequestPublish(p) \/ RequireLocalRebuild(p) \/ HookNotConfigured(p)
         \/ CallDeployHook(p) \/ RecordFailure(p) \/ ReadAcceptedTime(p)
         \/ RecordAccepted(p) \/ PublisherDies(p)
  PROVE  SiteTypeOK' /\ CallsAreCounted'
<1>1. /\ Clock \in 0..MaxRows /\ MaxPublishes \in Nat /\ MaxRows \in Nat
      /\ rows' = rows
  BY PublicSiteAssumption, ContentVersionsAssumption DEF SiteIInv, ContentIInv, ContentShapes, Clock, content
<1>2. CallsAreCounted' /\ builds' \in Nat /\ presses' \in 0..MaxPublishes
  BY PublishStepsCount
<1>3. builds' \in 0..MaxPublishes
  <2>1. Cardinality(Requested') \in Nat
    BY <1>2, FS_CardinalityType DEF CallsAreCounted
  <2> QED
    BY <1>1, <1>2, <2>1 DEF CallsAreCounted
<1>4. /\ SiteShapes /\ trigger[p].stamp \in 0..MaxRows
      /\ trigger[p].step \in {"idle", "requested", "accepted", "stamped", "rejected"}
      /\ publish.status \in PublishStatuses
      /\ publish.attempted \in 0..MaxRows /\ publish.succeeded \in 0..MaxRows
  BY DEF SiteIInv, SiteTypeOK
<1>5. /\ trigger'[p].step \in {"idle", "requested", "accepted", "stamped", "rejected"}
      /\ trigger'[p].stamp \in 0..MaxRows
  BY <1>1, <1>4 DEF SiteShapes, RequestPublish, RequireLocalRebuild, HookNotConfigured, CallDeployHook,
     RecordFailure, ReadAcceptedTime, RecordAccepted, PublisherDies, GoesTo, Ends
<1>6. \A q \in Publishers : q # p => trigger'[q] = trigger[q]
  BY <1>4 DEF SiteShapes, RequestPublish, RequireLocalRebuild, HookNotConfigured, CallDeployHook,
     RecordFailure, ReadAcceptedTime, RecordAccepted, PublisherDies, GoesTo, Ends
<1>7. \A status \in PublishStatuses, time \in 0..MaxRows :
        /\ Attempt(status, time).status = status /\ Attempt(status, time).attempted = time
        /\ Attempt(status, time).succeeded = publish.succeeded
  BY <1>4 DEF SiteShapes, Attempt
<1>8. /\ publish'.status \in PublishStatuses
      /\ publish'.attempted \in 0..MaxRows /\ publish'.succeeded \in 0..MaxRows
  <2>1. {"deploy_requested", "local_manual_rebuild_required", "failed", "trigger_accepted"} \subseteq PublishStatuses
    BY DEF PublishStatuses
  <2>2. CASE RequestPublish(p) \/ RequireLocalRebuild(p) \/ RecordFailure(p)
    BY <1>1, <1>4, <1>7, <2>1, <2>2 DEF RequestPublish, RequireLocalRebuild, RecordFailure, AfterFailure
  <2>3. CASE HookNotConfigured(p) \/ CallDeployHook(p) \/ ReadAcceptedTime(p) \/ PublisherDies(p)
    BY <1>4, <2>3 DEF HookNotConfigured, CallDeployHook, ReadAcceptedTime, PublisherDies
  <2>4. CASE RecordAccepted(p)
    BY <1>4, <2>1, <2>4 DEF RecordAccepted
  <2> QED
    BY <2>2, <2>3, <2>4
<1>9. site' = site /\ hosted' = hosted
  BY DEF RequestPublish, RequireLocalRebuild, HookNotConfigured, CallDeployHook,
     RecordFailure, ReadAcceptedTime, RecordAccepted, PublisherDies
<1>10. \A q \in Publishers :
          /\ trigger'[q].step \in {"idle", "requested", "accepted", "stamped", "rejected"}
          /\ trigger'[q].stamp \in 0..MaxRows
  BY <1>5, <1>6 DEF SiteTypeOK
<1>11. site'.rows \subseteq DOMAIN rows' /\ site'.ok \in BOOLEAN
  BY <1>1, <1>9 DEF SiteTypeOK
<1>12. hosted' \in BOOLEAN
  BY <1>9 DEF SiteTypeOK
<1> QED
  BY <1>2, <1>3, <1>8, <1>10, <1>11, <1>12 DEF SiteTypeOK

\* A rebuild on the developer's machine and a build read rows there are.
LEMMA BuildsKeepSiteTypes ==
  ASSUME SiteIInv, SiteTypeOK, CallsAreCounted, UNCHANGED content,
         MarkLocalRebuildComplete \/ BuildSite
  PROVE  SiteTypeOK' /\ CallsAreCounted'
<1>1. /\ Clock \in 0..MaxRows /\ MaxPublishes \in Nat
      /\ rows' = rows /\ PublicRows \subseteq DOMAIN rows
  BY PublicSiteAssumption DEF SiteIInv, ContentIInv, ContentShapes, Clock, content, PublicRows, Live
<1>2. trigger' = trigger /\ presses' = presses /\ Requested' = Requested
  BY DEF MarkLocalRebuildComplete, BuildSite, Requested, Is
<1>3. builds' \in 0..builds /\ builds \in 0..MaxPublishes
  BY DEF MarkLocalRebuildComplete, BuildSite, SiteTypeOK
<1>4. CallsAreCounted'
  <2>1. Cardinality(Requested) \in Nat /\ presses \in Nat
    BY <1>1, FS_CardinalityType DEF CallsAreCounted, SiteTypeOK
  <2> QED
    BY <1>2, <1>3, <2>1 DEF CallsAreCounted
<1>5. site'.rows \subseteq DOMAIN rows' /\ site'.ok \in BOOLEAN
  <2>1. site.rows \subseteq DOMAIN rows /\ site.ok \in BOOLEAN /\ DOMAIN site = {"rows", "ok"}
    BY DEF SiteTypeOK, SiteIInv, SiteShapes
  <2>2. \/ site' = site
        \/ site' = [rows |-> PublicRows, ok |-> TRUE]
        \/ site' = [site EXCEPT !.ok = FALSE]
    BY DEF MarkLocalRebuildComplete, BuildSite
  <2>3. CASE site' = site
    BY <1>1, <2>1, <2>3
  <2>4. CASE site' = [rows |-> PublicRows, ok |-> TRUE]
    BY <1>1, <2>4
  <2>5. CASE site' = [site EXCEPT !.ok = FALSE]
    BY <1>1, <2>1, <2>5
  <2> QED
    BY <2>2, <2>3, <2>4, <2>5
<1>6. /\ publish'.status \in PublishStatuses
      /\ publish'.attempted \in 0..MaxRows /\ publish'.succeeded \in 0..MaxRows
  BY <1>1 DEF MarkLocalRebuildComplete, BuildSite, SiteTypeOK, PublishStatuses
<1>7. builds' \in 0..MaxPublishes /\ presses' \in 0..MaxPublishes
  BY <1>1, <1>2, <1>3 DEF SiteTypeOK
<1>8. \A p \in Publishers :
          /\ trigger'[p].step \in {"idle", "requested", "accepted", "stamped", "rejected"}
          /\ trigger'[p].stamp \in 0..MaxRows
  BY <1>2 DEF SiteTypeOK
<1>9. hosted' \in BOOLEAN
  BY DEF MarkLocalRebuildComplete, BuildSite, SiteTypeOK
<1> QED
  BY <1>4, <1>5, <1>6, <1>7, <1>8, <1>9 DEF SiteTypeOK

\* The state row, the requests and the site keep their types, and there are no
\* more builds to come than were asked for.
THEOREM SiteTypeCorrect == SiteSpec => []SiteTypeOK
<1>1. ContentInit /\ SiteInit => SiteTypeOK /\ CallsAreCounted
  <2> SUFFICES ASSUME ContentInit, SiteInit PROVE SiteTypeOK /\ CallsAreCounted
    OBVIOUS
  <2>1. Requested = {}
    BY DEF SiteInit, Requested, Is
  <2> QED
    BY <2>1, FS_EmptySet, PublicSiteAssumption, ContentVersionsAssumption
    DEF SiteInit, SiteTypeOK, CallsAreCounted, PublishStatuses
<1>2. SiteIInv /\ (SiteTypeOK /\ CallsAreCounted) /\ [SiteNext]_<<content, siteVars>>
        => (SiteTypeOK /\ CallsAreCounted)'
  <2> SUFFICES ASSUME SiteIInv, SiteTypeOK, CallsAreCounted, [SiteNext]_<<content, siteVars>>
               PROVE  SiteTypeOK' /\ CallsAreCounted'
    OBVIOUS
  <2>1. CASE [ContentNext]_content /\ UNCHANGED siteVars
    <3>1. UNCHANGED <<Requested, builds, presses>>
      BY <2>1 DEF siteVars, Requested, Is
    <3> QED
      BY <2>1, <3>1, ContentStepKeepsSiteTypes DEF CallsAreCounted
  <2>2. CASE SiteStep /\ UNCHANGED content
    BY <2>2, PublishStepsKeepSiteTypes, BuildsKeepSiteTypes DEF SiteStep
  <2> QED
    BY <2>1, <2>2 DEF SiteNext
<1> QED
  BY <1>1, <1>2, SiteInductive, PTL DEF SiteSpec

\* Whatever publish requests overlap, fail and die, and whatever is written
\* meanwhile: on a hosted site whose builds are done and well, a public row
\* that the publish screen does not count as waiting is on the site.
THEOREM NoChangeIsHidden == SiteSpec => []UncountedRowsAreOnTheSite
<1>1. SiteIInv => UncountedRowsAreOnTheSite
  <2> SUFFICES ASSUME SiteIInv, hosted, builds = 0, site.ok,
                      NEW r \in PublicRows, r \notin PendingRows
               PROVE  r \in site.rows
    BY DEF UncountedRowsAreOnTheSite
  <2>1. rows \in Seq(Row) /\ publish.succeeded \in 0..Clock
    BY DEF SiteIInv, ContentIInv, ContentTypeOK, TimesArePast
  <2>2. r \in Nat /\ Clock \in Nat
    BY <2>1 DEF PublicRows, Live, Clock
  <2>3. r <= publish.succeeded
    BY <2>1, <2>2 DEF PendingRows
  <2>4. PICK base \in 0..Clock : SiteHas(base) /\ NothingIsClaimedAfter(base)
    BY DEF SiteIInv, ClaimsAreBuilt
  <2>5. r <= base
    BY <2>1, <2>2, <2>3, <2>4 DEF NothingIsClaimedAfter
  <2> QED
    BY <2>4, <2>5 DEF SiteHas
<1> QED
  BY <1>1, SiteInductive, PTL

=============================================================================
