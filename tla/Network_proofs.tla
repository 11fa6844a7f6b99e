--------------------------- MODULE Network_proofs ---------------------------
(***************************************************************************)
(* The network: who may write to whom and in which language, and what the  *)
(* feed answers.                                                           *)
(***************************************************************************)
EXTENDS Feed, FiniteOrders

-----------------------------------------------------------------------------
(* Settings, follows, threads and direct messages.                          *)

\* What one open page of a member has read.
TabRow == [step : {"idle", "follow", "start", "send", "check", "lists"},
           user : Members \cup {0}, other : Members \cup {0},
           nickname : {f.nickname : f \in Forms} \cup {NoNickname},
           form : Forms \cup {FirstForm}, language : Tongues, read : Seq(Tongues)]

\* A nickname is one member's, and the languages of a member are in the history.
SettingsAgree ==
    /\ \A u, v \in Members :
          settings[u].nickname = settings[v].nickname /\ settings[u].nickname # NoNickname => u = v
    /\ \A u \in Members : settings[u].languages \in chosen[u]

\* A thread is of an ordered pair, one of whom has welcomed the other.
ThreadsAgree ==
    \A h \in threads : h[1] <= h[2] /\ (h \in welcomed \/ <<h[2], h[1]>> \in welcomed)

\* What a request has read still stands for what it does next.
TabsAgree ==
    /\ tab \in [Tabs -> TabRow]
    /\ \A t \in Tabs :
          /\ tab[t].step # "idle" => tab[t].user \in Members
          /\ tab[t].step \in {"follow", "start", "send"} => tab[t].other \in Members
          /\ tab[t].step = "start" => <<tab[t].user, tab[t].other>> \in welcomed
          /\ tab[t].step = "send" => /\ Participants(tab[t].user, tab[t].other) \in threads
                                     /\ tab[t].read \in chosen[tab[t].other]
          /\ tab[t].step \in {"check", "lists"} => tab[t].form \in Forms
          /\ tab[t].step = "lists" => Named(tab[t].user, tab[t].form.nickname) = {}
    /\ \A s, t \in Tabs :
          s # t /\ tab[s].step = "lists" /\ tab[t].step = "lists" =>
              /\ tab[s].user # tab[t].user
              /\ tab[s].form.nickname = tab[t].form.nickname => tab[s].form.nickname = NoNickname

\* The messages are numbered as they come, in a language of their recipient.
DmsAgree ==
    /\ IsFiniteSet(dms)
    /\ \A m \in dms :
          /\ m.nr \in Nat /\ m.nr < Cardinality(dms)
          /\ m.to \in Members
          /\ m.shown = "untranslated"
             \/ \E list \in chosen[m.to] : TextFor(m.to, m) \in Range(RecipientLanguages(list))
    /\ \A m, n \in dms : m.nr = n.nr => m = n

\* The inductive invariant.  A thread is started in a later statement than the
\* check of the settings, so that the history of who welcomed whom must be tied
\* to what the request has read.
NetworkIInv == NetworkTypeOK /\ SettingsAgree /\ ThreadsAgree /\ TabsAgree /\ DmsAgree

\* A thread is named by the two members, the smaller one first.
LEMMA PairOfTwo ==
  ASSUME NEW u \in Members, NEW v \in Members
  PROVE  /\ Participants(u, v) \in {<<u, v>>, <<v, u>>}
         /\ Participants(u, v)[1] <= Participants(u, v)[2]
<1>1. u \in Nat /\ v \in Nat
  BY NetworkAssumption
<1>2. Min({u, v}) = IF u <= v THEN u ELSE v
  BY <1>1 DEF Min
<1>3. Max({u, v}) = IF u <= v THEN v ELSE u
  BY <1>1 DEF Max
<1> QED
  BY <1>1, <1>2, <1>3 DEF Participants

\* A saved form, and the form of a new member, have languages of the site.
LEMMA FormsAreTyped ==
  /\ \A f \in Forms \cup {FirstForm} : f.languages \in Seq(Tongues)
  /\ NoTab \in TabRow /\ NoTab.step = "idle"
<1>1. FirstForm.languages \in Seq(Tongues)
  BY DEF FirstForm
<1>2. NoTab \in TabRow
  BY NetworkAssumption DEF NoTab, TabRow
<1> QED
  BY <1>1, <1>2, NetworkAssumption DEF NoTab

\* A welcome is of one member to another.
LEMMA WelcomesArePairs ==
  ASSUME NEW s, NEW f
  PROVE  Welcomes(s, f) \subseteq Members \X Members
BY DEF Welcomes

\* The invariant holds before the first form is saved.
LEMMA NetworkInitHolds == NetworkInit => NetworkIInv
<1> SUFFICES ASSUME NetworkInit PROVE NetworkIInv
  OBVIOUS
<1>1. \A t \in Tabs : tab[t] = NoTab /\ tab[t].step = "idle"
  BY FormsAreTyped DEF NetworkInit
<1>2. TabsAgree
  BY <1>1, FormsAreTyped DEF NetworkInit, TabsAgree
<1>3. SettingsAgree
  BY DEF NetworkInit, SettingsAgree
<1>4. ThreadsAgree
  BY DEF NetworkInit, ThreadsAgree
<1>5. DmsAgree
  BY FS_EmptySet DEF NetworkInit, DmsAgree
<1>6. NetworkTypeOK
  <2>1. chosen \in [Members -> SUBSET Seq(Tongues)]
    BY FormsAreTyped DEF NetworkInit
  <2>2. saves \in 0..MaxSaves
    BY NetworkAssumption DEF NetworkInit
  <2>3. welcomed \subseteq Members \X Members
    BY DEF NetworkInit
  <2> QED
    BY <1>1, <2>1, <2>2, <2>3 DEF NetworkInit, NetworkTypeOK
<1> QED
  BY <1>2, <1>3, <1>4, <1>5, <1>6 DEF NetworkIInv

\* One request moves to x, and nothing that the others have read is taken back.
LEMMA TabMoves ==
  ASSUME NetworkIInv, NEW t \in Tabs, NEW x \in TabRow, tab' = [tab EXCEPT ![t] = x],
         UNCHANGED settings,
         welcomed \subseteq welcomed', threads \subseteq threads',
         \A u \in Members : chosen[u] \subseteq chosen'[u],
         x.step # "idle" => x.user \in Members,
         x.step \in {"follow", "start", "send"} => x.other \in Members,
         x.step = "start" => <<x.user, x.other>> \in welcomed',
         x.step = "send" => Participants(x.user, x.other) \in threads' /\ x.read \in chosen'[x.other],
         x.step \in {"check", "lists"} => x.form \in Forms,
         x.step = "lists" => /\ Named(x.user, x.form.nickname) = {}
                             /\ \A s \in Tabs : s # t /\ tab[s].step = "lists" =>
                                  /\ tab[s].user # x.user
                                  /\ tab[s].form.nickname = x.form.nickname => x.form.nickname = NoNickname
  PROVE  TabsAgree'
<1>1. tab' \in [Tabs -> TabRow] /\ tab'[t] = x /\ \A s \in Tabs : s # t => tab'[s] = tab[s]
  BY DEF NetworkIInv, TabsAgree
<1>2. ASSUME NEW s \in Tabs
      PROVE  /\ tab'[s].step # "idle" => tab'[s].user \in Members
             /\ tab'[s].step \in {"follow", "start", "send"} => tab'[s].other \in Members
             /\ tab'[s].step = "start" => <<tab'[s].user, tab'[s].other>> \in welcomed'
             /\ tab'[s].step = "send" => /\ Participants(tab'[s].user, tab'[s].other) \in threads'
                                         /\ tab'[s].read \in chosen'[tab'[s].other]
             /\ tab'[s].step \in {"check", "lists"} => tab'[s].form \in Forms
             /\ tab'[s].step = "lists" => Named(tab'[s].user, tab'[s].form.nickname) = {}
  <2>1. CASE s = t
    BY <1>1, <2>1
  <2>2. CASE s # t
    BY <1>1, <2>2 DEF NetworkIInv, TabsAgree
  <2> QED
    BY <2>1, <2>2
<1>3. ASSUME NEW s \in Tabs, NEW r \in Tabs, r # s, tab'[s].step = "lists", tab'[r].step = "lists"
      PROVE  /\ tab'[s].user # tab'[r].user
             /\ tab'[s].form.nickname = tab'[r].form.nickname => tab'[s].form.nickname = NoNickname
  BY <1>1, <1>3 DEF NetworkIInv, TabsAgree
<1>4. \A u, n : Named(u, n)' = Named(u, n)
  BY DEF Named
<1> QED
  BY <1>1, <1>2, <1>3, <1>4 DEF TabsAgree, Participants, Named

\* A step that leaves the tables alone.
LEMMA QuietKeepsNetworkIInv ==
  ASSUME NetworkIInv, TabsAgree', saves' \in 0..MaxSaves,
         UNCHANGED <<settings, follows, threads, dms, chosen>>,
         welcomed' = welcomed \cup Welcomes(settings', follows')
  PROVE  NetworkIInv'
<1>1. welcomed' \subseteq Members \X Members /\ welcomed \subseteq welcomed'
  BY WelcomesArePairs DEF NetworkIInv, NetworkTypeOK
<1>2. NetworkTypeOK'
  BY <1>1 DEF NetworkIInv, NetworkTypeOK, TabsAgree, TabRow
<1>3. SettingsAgree' /\ ThreadsAgree'
  BY <1>1 DEF NetworkIInv, SettingsAgree, ThreadsAgree
<1>4. DmsAgree'
  BY DEF NetworkIInv, DmsAgree, TextFor, RecipientLanguages
<1> QED
  BY <1>2, <1>3, <1>4 DEF NetworkIInv

\* The history of welcomes grows with every step.
Remembers == welcomed' = welcomed \cup Welcomes(settings', follows')

\* The types, one by one.
LEMMA PartsAgree ==
  ASSUME NetworkIInv
  PROVE  /\ saves \in 0..MaxSaves /\ tab \in [Tabs -> TabRow]
         /\ settings \in [Members -> Forms \cup {FirstForm}]
         /\ chosen \in [Members -> SUBSET Seq(Tongues)]
         /\ follows \cup threads \cup welcomed \subseteq Members \X Members
BY DEF NetworkIInv, NetworkTypeOK, TabsAgree

\* A request that looks a nickname up changes no row.
LEMMA TabsThatReadKeepNetworkIInv ==
  ASSUME NetworkIInv, Remembers, NEW t \in Tabs, NEW u \in Members, NEW form \in Forms,
         \/ ResolveFollow(t, u, form.nickname)
         \/ ResolveDm(t, u, form.nickname)
         \/ CheckNickname(t, u, form)
  PROVE  NetworkIInv'
<1>1. UNCHANGED <<settings, follows, threads, dms, chosen>>
  BY DEF ResolveFollow, ResolveDm, CheckNickname
<1>2. saves' \in 0..MaxSaves
  <2>1. MaxSaves \in Nat /\ saves \in 0..MaxSaves
    BY NetworkAssumption, PartsAgree
  <2>2. saves' = saves \/ (saves < MaxSaves /\ saves' = saves + 1)
    BY DEF ResolveFollow, ResolveDm, CheckNickname
  <2> QED
    BY <2>1, <2>2
<1>3. /\ welcomed \subseteq welcomed' /\ threads \subseteq threads'
      /\ \A m \in Members : chosen[m] \subseteq chosen'[m]
  BY <1>1 DEF Remembers
<1>4. form.nickname \in {f.nickname : f \in Forms} \cup {NoNickname} /\ 0 \in Members \cup {0}
  OBVIOUS
<1>5. CASE ResolveFollow(t, u, form.nickname)
  <2>1. PICK v \in Members \ {u} :
          tab' = [tab EXCEPT ![t] = [NoTab EXCEPT !.step = "follow", !.user = u, !.other = v,
                                                  !.nickname = form.nickname]]
    BY <1>5 DEF ResolveFollow, Named
  <2> DEFINE x == [NoTab EXCEPT !.step = "follow", !.user = u, !.other = v, !.nickname = form.nickname]
  <2>2. x \in TabRow /\ x.step = "follow" /\ x.user \in Members /\ x.other \in Members
    BY <1>4, FormsAreTyped DEF TabRow
  <2> HIDE DEF x
  <2>3. tab' = [tab EXCEPT ![t] = x]
    BY <2>1 DEF x
  <2>4. TabsAgree'
    BY <1>1, <1>3, <2>2, <2>3, TabMoves
  <2> QED
    BY <1>1, <1>2, <2>4, QuietKeepsNetworkIInv DEF Remembers
<1>6. CASE ResolveDm(t, u, form.nickname)
  <2>1. PICK v \in Members \ {u} :
          /\ AcceptsDm(u, v)
          /\ tab' = [tab EXCEPT ![t] = [NoTab EXCEPT !.step = "start", !.user = u, !.other = v]]
    BY <1>6 DEF ResolveDm, Named
  <2> DEFINE x == [NoTab EXCEPT !.step = "start", !.user = u, !.other = v]
  <2>2. x \in TabRow /\ x.step = "start" /\ x.user = u /\ x.other = v
    BY FormsAreTyped DEF TabRow
  <2> HIDE DEF x
  <2>3. tab' = [tab EXCEPT ![t] = x]
    BY <2>1 DEF x
  <2>4. <<u, v>> \in welcomed'
    <3>1. <<u, v>> \in Welcomes(settings, follows)
      BY <2>1 DEF Welcomes, AcceptsDm
    <3> QED
      BY <1>1, <3>1 DEF Remembers
  <2>5. TabsAgree'
    BY <1>1, <1>3, <2>2, <2>3, <2>4, TabMoves
  <2> QED
    BY <1>1, <1>2, <2>5, QuietKeepsNetworkIInv DEF Remembers
<1>7. CASE CheckNickname(t, u, form)
  <2> DEFINE x == [NoTab EXCEPT !.step = "check", !.user = u, !.form = form]
  <2>1. x \in TabRow /\ x.step = "check" /\ x.user = u /\ x.form = form
    BY FormsAreTyped DEF TabRow
  <2>2. tab' = [tab EXCEPT ![t] = x]
    BY <1>7 DEF CheckNickname
  <2> HIDE DEF x
  <2>3. TabsAgree'
    BY <1>1, <1>3, <2>1, <2>2, TabMoves
  <2> QED
    BY <1>1, <1>2, <2>3, QuietKeepsNetworkIInv DEF Remembers
<1> QED
  BY <1>5, <1>6, <1>7

\* The languages of the recipient are read with the thread locked.
LEMMA LockThreadKeepsNetworkIInv ==
  ASSUME NetworkIInv, Remembers, NEW t \in Tabs, NEW u \in Members, NEW v \in Members,
         NEW language \in Tongues, LockThread(t, u, v, language)
  PROVE  NetworkIInv'
<1>1. UNCHANGED <<settings, follows, threads, dms, saves, chosen>> /\ Participants(u, v) \in threads
  BY DEF LockThread
<1>2. /\ welcomed \subseteq welcomed' /\ threads \subseteq threads'
      /\ \A m \in Members : chosen[m] \subseteq chosen'[m]
  BY <1>1 DEF Remembers
<1>3. settings[v].languages \in Seq(Tongues) /\ settings[v].languages \in chosen[v]
  BY PartsAgree, FormsAreTyped DEF NetworkIInv, SettingsAgree
<1> SUFFICES ASSUME NEW list, list = settings[v].languages PROVE NetworkIInv'
  OBVIOUS
<1> DEFINE x == [NoTab EXCEPT !.step = "send", !.user = u, !.other = v, !.language = language, !.read = list]
<1>4. x \in TabRow /\ x.step = "send" /\ x.user = u /\ x.other = v /\ x.read = list
  BY <1>3, FormsAreTyped DEF TabRow
<1>5. tab' = [tab EXCEPT ![t] = x]
  BY DEF LockThread
<1> HIDE DEF x
<1>6. TabsAgree'
  BY <1>1, <1>2, <1>3, <1>4, <1>5, TabMoves
<1>7. saves' \in 0..MaxSaves
  BY <1>1, PartsAgree
<1> QED
  BY <1>1, <1>6, <1>7, QuietKeepsNetworkIInv DEF Remembers

\* The nickname of a form is written when nobody else has it.
LEMMA UpdateUserRowKeepsNetworkIInv ==
  ASSUME NetworkIInv, Remembers, NEW t \in Tabs, UpdateUserRow(t) PROVE NetworkIInv'
<1>1. UNCHANGED <<settings, follows, threads, dms, saves, chosen>> /\ tab[t].step = "check"
  BY DEF UpdateUserRow, SettingsDuringSave, Is
<1>2. /\ welcomed \subseteq welcomed' /\ threads \subseteq threads'
      /\ \A m \in Members : chosen[m] \subseteq chosen'[m]
  BY <1>1 DEF Remembers
<1> SUFFICES ASSUME NEW x, x = [tab[t] EXCEPT !.step = "lists"] PROVE NetworkIInv'
  OBVIOUS
<1>3. tab[t] \in TabRow /\ tab[t].user \in Members /\ tab[t].form \in Forms
  BY <1>1 DEF NetworkIInv, TabsAgree
<1>4. x \in TabRow /\ x.step = "lists" /\ x.user = tab[t].user /\ x.form = tab[t].form
  BY <1>3 DEF TabRow
<1>5. tab' = [tab EXCEPT ![t] = x]
  BY DEF UpdateUserRow
<1>6. Named(x.user, x.form.nickname) = {}
  BY <1>4 DEF UpdateUserRow, NicknameFree
<1>7. \A s \in Tabs : s # t /\ tab[s].step = "lists" =>
         /\ tab[s].user # x.user
         /\ tab[s].form.nickname = x.form.nickname => x.form.nickname = NoNickname
  BY <1>4 DEF UpdateUserRow, Waits, Is
<1>8. TabsAgree'
  BY <1>1, <1>2, <1>3, <1>4, <1>5, <1>6, <1>7, TabMoves
<1>9. saves' \in 0..MaxSaves
  BY <1>1, PartsAgree
<1> QED
  BY <1>1, <1>8, <1>9, QuietKeepsNetworkIInv DEF Remembers

\* A follow is saved as it was decided.
LEMMA SaveFollowKeepsNetworkIInv ==
  ASSUME NetworkIInv, Remembers, NEW t \in Tabs, NEW follow \in BOOLEAN, SaveFollow(t, follow)
  PROVE  NetworkIInv'
<1>1. /\ UNCHANGED <<settings, threads, dms, saves, chosen>> /\ tab[t].step = "follow"
      /\ tab' = [tab EXCEPT ![t] = NoTab]
  BY DEF SaveFollow, Is, Ends
<1>2. /\ welcomed \subseteq welcomed' /\ threads \subseteq threads'
      /\ \A m \in Members : chosen[m] \subseteq chosen'[m]
  BY <1>1 DEF Remembers
<1>3. <<tab[t].user, tab[t].other>> \in Members \X Members
  BY <1>1 DEF NetworkIInv, TabsAgree
<1>4. follows' \subseteq Members \X Members
  BY <1>3, PartsAgree DEF SaveFollow
<1>5. TabsAgree'
  BY <1>1, <1>2, FormsAreTyped, TabMoves
<1>6. welcomed' \subseteq Members \X Members
  BY WelcomesArePairs, PartsAgree DEF Remembers
<1>7. NetworkTypeOK'
  BY <1>1, <1>4, <1>5, <1>6 DEF NetworkIInv, NetworkTypeOK, TabsAgree, TabRow
<1>8. SettingsAgree' /\ ThreadsAgree'
  BY <1>1, <1>2 DEF NetworkIInv, SettingsAgree, ThreadsAgree
<1>9. DmsAgree'
  BY <1>1 DEF NetworkIInv, DmsAgree, TextFor, RecipientLanguages
<1> QED
  BY <1>5, <1>7, <1>8, <1>9 DEF NetworkIInv

\* A thread is started by a member who was welcome when that was read.
LEMMA StartThreadKeepsNetworkIInv ==
  ASSUME NetworkIInv, Remembers, NEW t \in Tabs, StartThread(t) PROVE NetworkIInv'
<1> SUFFICES ASSUME NEW u, u = tab[t].user, NEW v, v = tab[t].other, NEW pair, pair = Participants(u, v)
             PROVE  NetworkIInv'
  OBVIOUS
<1>1. /\ UNCHANGED <<settings, follows, dms, saves, chosen>> /\ tab[t].step = "start"
      /\ tab' = [tab EXCEPT ![t] = NoTab] /\ threads' = threads \cup {pair}
  BY DEF StartThread, Is, Ends
<1>2. /\ welcomed \subseteq welcomed' /\ threads \subseteq threads'
      /\ \A m \in Members : chosen[m] \subseteq chosen'[m]
  BY <1>1 DEF Remembers
<1>3. u \in Members /\ v \in Members /\ <<u, v>> \in welcomed
  BY <1>1 DEF NetworkIInv, TabsAgree
<1>4. pair \in {<<u, v>>, <<v, u>>} /\ pair[1] <= pair[2]
  BY <1>3, PairOfTwo
<1>5. TabsAgree'
  BY <1>1, <1>2, FormsAreTyped, TabMoves
<1>6. welcomed' \subseteq Members \X Members
  BY WelcomesArePairs, PartsAgree DEF Remembers
<1>7. NetworkTypeOK'
  <2>1. threads' \subseteq Members \X Members
    BY <1>1, <1>3, <1>4, PartsAgree
  <2>2. \A m \in dms : m.thread \in threads' /\ m.shown \in {"as sent", "translated", "untranslated"}
    BY <1>2 DEF NetworkIInv, NetworkTypeOK
  <2>3. \A s \in Tabs : tab'[s].step \in {"idle", "follow", "start", "send", "check", "lists"}
    BY <1>5 DEF TabsAgree, TabRow
  <2> QED
    BY <1>1, <1>6, <2>1, <2>2, <2>3 DEF NetworkIInv, NetworkTypeOK
<1>8. SettingsAgree'
  BY <1>1 DEF NetworkIInv, SettingsAgree
<1>9. ThreadsAgree'
  <2>1. pair \in welcomed' \/ <<pair[2], pair[1]>> \in welcomed'
    BY <1>2, <1>3, <1>4
  <2> QED
    BY <1>1, <1>2, <1>4, <2>1 DEF NetworkIInv, ThreadsAgree
<1>10. DmsAgree'
  BY <1>1 DEF NetworkIInv, DmsAgree, TextFor, RecipientLanguages
<1> QED
  BY <1>5, <1>7, <1>8, <1>9, <1>10 DEF NetworkIInv

\* The first language of a recipient is one of the recipient's.
LEMMA FirstLanguageIsOne ==
  ASSUME NEW list \in Seq(Tongues)
  PROVE  RecipientLanguages(list)[1] \in Range(RecipientLanguages(list))
<1>1. CASE list = <<>>
  <2>1. RecipientLanguages(list) = <<"en">>
    BY <1>1 DEF RecipientLanguages
  <2>2. 1 \in DOMAIN <<"en">>
    OBVIOUS
  <2> QED
    BY <2>1, <2>2 DEF Range
<1>2. CASE list # <<>>
  <2>1. RecipientLanguages(list) = list /\ 1 \in DOMAIN list
    BY <1>2 DEF RecipientLanguages
  <2> QED
    BY <2>1 DEF Range
<1> QED
  BY <1>1, <1>2

\* A message takes the next number, in a language the recipient had chosen.
LEMMA AppendDmKeepsNetworkIInv ==
  ASSUME NetworkIInv, Remembers, NEW t \in Tabs, AppendDm(t) PROVE NetworkIInv'
<1> SUFFICES ASSUME NEW v, v = tab[t].other, NEW pair, pair = Participants(tab[t].user, v),
                    NEW read, read = tab[t].read, NEW language, language = tab[t].language,
                    NEW n, n = Cardinality(dms)
             PROVE  NetworkIInv'
  OBVIOUS
<1> DEFINE list == RecipientLanguages(read)
<1>1. /\ UNCHANGED <<settings, follows, threads, saves, chosen>> /\ tab[t].step = "send"
      /\ tab' = [tab EXCEPT ![t] = NoTab]
  BY DEF AppendDm, Is, Ends
<1>2. PICK shown \in DmOutcomes(language, list) :
        dms' = dms \cup {[thread |-> pair, nr |-> n, to |-> v, shown |-> shown,
                          sent |-> language, target |-> list[1]]}
  BY DEF AppendDm
<1>3. /\ v \in Members /\ pair \in threads /\ read \in chosen[v]
      /\ read \in Seq(Tongues)
  BY <1>1, PartsAgree DEF NetworkIInv, TabsAgree, TabRow
<1>4. list[1] \in Range(list)
  BY <1>3, FirstLanguageIsOne
<1>5. shown \in {"as sent", "translated", "untranslated"} /\ (shown = "as sent" => language \in Range(list))
  BY <1>2 DEF DmOutcomes
<1> HIDE DEF list
<1> DEFINE m == [thread |-> pair, nr |-> n, to |-> v, shown |-> shown, sent |-> language, target |-> list[1]]
<1>6. m.thread = pair /\ m.nr = n /\ m.to = v /\ m.shown = shown /\ m.sent = language /\ m.target = list[1]
  OBVIOUS
<1>7. dms' = dms \cup {m}
  BY <1>2
<1> HIDE DEF m
<1>8. /\ IsFiniteSet(dms) /\ n \in Nat
      /\ \A k \in dms : k.nr \in Nat /\ k.nr < n
  BY FS_CardinalityType DEF NetworkIInv, DmsAgree
<1>9. m \notin dms
  BY <1>6, <1>8
<1>10. IsFiniteSet(dms') /\ Cardinality(dms') = n + 1
  BY <1>7, <1>8, <1>9, FS_AddElement
<1>11. TextFor(m.to, m) \in Range(list) \/ m.shown = "untranslated"
  BY <1>4, <1>5, <1>6 DEF TextFor
<1>12. DmsAgree'
  <2>1. \A k \in dms' : k.nr \in Nat /\ k.nr < Cardinality(dms')
    BY <1>6, <1>7, <1>8, <1>10
  <2>2. \A k \in dms' : k.to \in Members
    BY <1>3, <1>6, <1>7 DEF NetworkIInv, DmsAgree
  <2>3. \A k, j \in dms' : k.nr = j.nr => k = j
    BY <1>6, <1>7, <1>8 DEF NetworkIInv, DmsAgree
  <2>4. ASSUME NEW k \in dms'
        PROVE  k.shown = "untranslated"
               \/ \E l \in chosen[k.to] : TextFor(k.to, k) \in Range(RecipientLanguages(l))
    <3>1. CASE k \in dms
      BY <3>1 DEF NetworkIInv, DmsAgree
    <3>2. CASE k = m
      BY <1>3, <1>6, <1>11, <3>2 DEF list
    <3> QED
      BY <1>7, <3>1, <3>2
  <2> QED
    BY <1>1, <1>10, <2>1, <2>2, <2>3, <2>4 DEF DmsAgree, TextFor, RecipientLanguages
<1>13. /\ welcomed \subseteq welcomed' /\ threads \subseteq threads'
       /\ \A u \in Members : chosen[u] \subseteq chosen'[u]
  BY <1>1 DEF Remembers
<1>14. TabsAgree'
  BY <1>1, <1>13, FormsAreTyped, TabMoves
<1>15. welcomed' \subseteq Members \X Members
  BY WelcomesArePairs, PartsAgree DEF Remembers
<1>16. NetworkTypeOK'
  <2>1. \A k \in dms' : k.thread \in threads /\ k.shown \in {"as sent", "translated", "untranslated"}
    BY <1>3, <1>5, <1>6, <1>7 DEF NetworkIInv, NetworkTypeOK
  <2>2. \A s \in Tabs : tab'[s].step \in {"idle", "follow", "start", "send", "check", "lists"}
    BY <1>14 DEF TabsAgree, TabRow
  <2> QED
    BY <1>1, <1>15, <2>1, <2>2 DEF NetworkIInv, NetworkTypeOK
<1>17. SettingsAgree' /\ ThreadsAgree'
  BY <1>1, <1>13 DEF NetworkIInv, SettingsAgree, ThreadsAgree
<1> QED
  BY <1>12, <1>14, <1>16, <1>17 DEF NetworkIInv

\* The lists of a form replace those of the member, with the row still locked.
LEMMA ReplaceListsKeepsNetworkIInv ==
  ASSUME NetworkIInv, Remembers, NEW t \in Tabs, ReplaceLists(t) PROVE NetworkIInv'
<1> SUFFICES ASSUME NEW u, u = tab[t].user, NEW form, form = tab[t].form
             PROVE  NetworkIInv'
  OBVIOUS
<1>1. /\ UNCHANGED <<follows, threads, dms, saves>> /\ tab[t].step = "lists"
      /\ tab' = [tab EXCEPT ![t] = NoTab]
      /\ settings' = [settings EXCEPT ![u] = form]
      /\ chosen' = [chosen EXCEPT ![u] = @ \cup {form.languages}]
  BY DEF ReplaceLists, Is, Ends
<1>2. u \in Members /\ form \in Forms /\ Named(u, form.nickname) = {} /\ form.languages \in Seq(Tongues)
  BY <1>1, FormsAreTyped DEF NetworkIInv, TabsAgree
<1>3. /\ settings' \in [Members -> Forms \cup {FirstForm}]
      /\ \A m \in Members : settings'[m] = IF m = u THEN form ELSE settings[m]
  BY <1>1, <1>2, PartsAgree
<1>4. /\ chosen' \in [Members -> SUBSET Seq(Tongues)]
      /\ \A m \in Members : chosen[m] \subseteq chosen'[m]
      /\ form.languages \in chosen'[u]
  BY <1>1, <1>2, PartsAgree
<1>5. /\ welcomed \subseteq welcomed' /\ welcomed' \subseteq Members \X Members
  BY WelcomesArePairs, PartsAgree DEF Remembers
<1>6. tab' \in [Tabs -> TabRow] /\ tab'[t].step = "idle" /\ \A s \in Tabs : s # t => tab'[s] = tab[s]
  BY <1>1, PartsAgree, FormsAreTyped
<1>7. NetworkTypeOK'
  BY <1>1, <1>3, <1>4, <1>5, <1>6 DEF NetworkIInv, NetworkTypeOK, TabRow
<1>8. SettingsAgree'
  <2>1. \A m \in Members : settings[m].nickname = form.nickname /\ form.nickname # NoNickname => m = u
    BY <1>2 DEF Named
  <2>2. \A m, k \in Members :
          settings'[m].nickname = settings'[k].nickname /\ settings'[m].nickname # NoNickname => m = k
    BY <1>3, <2>1 DEF NetworkIInv, SettingsAgree
  <2>3. \A m \in Members : settings'[m].languages \in chosen'[m]
    BY <1>3, <1>4 DEF NetworkIInv, SettingsAgree
  <2> QED
    BY <2>2, <2>3 DEF SettingsAgree
<1>9. ThreadsAgree'
  BY <1>1, <1>5 DEF NetworkIInv, ThreadsAgree
<1>10. DmsAgree'
  <2>1. \A m \in dms : m.to \in Members /\ chosen[m.to] \subseteq chosen'[m.to]
    BY <1>4 DEF NetworkIInv, DmsAgree
  <2> QED
    BY <1>1, <2>1 DEF NetworkIInv, DmsAgree, TextFor, RecipientLanguages
<1>11. TabsAgree'
  <2>1. ASSUME NEW s \in Tabs
        PROVE  /\ tab'[s].step # "idle" => tab'[s].user \in Members
               /\ tab'[s].step \in {"follow", "start", "send"} => tab'[s].other \in Members
               /\ tab'[s].step = "start" => <<tab'[s].user, tab'[s].other>> \in welcomed'
               /\ tab'[s].step = "send" => /\ Participants(tab'[s].user, tab'[s].other) \in threads
                                           /\ tab'[s].read \in chosen'[tab'[s].other]
               /\ tab'[s].step \in {"check", "lists"} => tab'[s].form \in Forms
    <3>1. CASE s = t
      BY <1>6, <3>1
    <3>2. CASE s # t
      <4>1. tab'[s] = tab[s]
        BY <1>6, <3>2
      <4>2. tab[s].step = "send" => tab[s].other \in Members /\ tab[s].read \in chosen[tab[s].other]
        BY DEF NetworkIInv, TabsAgree
      <4>3. tab[s].step = "send" => tab[s].read \in chosen'[tab[s].other]
        BY <1>4, <4>2
      <4> QED
        BY <1>5, <4>1, <4>3 DEF NetworkIInv, TabsAgree
    <3> QED
      BY <3>1, <3>2
  <2>2. ASSUME NEW s \in Tabs, tab'[s].step = "lists"
        PROVE  \A k \in Members \ {tab'[s].user} :
                  ~(settings'[k].nickname = tab'[s].form.nickname /\ tab'[s].form.nickname # NoNickname)
    <3>1. s # t /\ tab'[s] = tab[s]
      BY <1>6, <2>2
    <3>2. tab[s].form.nickname = form.nickname => form.nickname = NoNickname
      BY <1>1, <2>2, <3>1 DEF NetworkIInv, TabsAgree
    <3>3. Named(tab[s].user, tab[s].form.nickname) = {}
      BY <2>2, <3>1 DEF NetworkIInv, TabsAgree
    <3>4. \A k \in Members \ {tab[s].user} :
             ~(settings[k].nickname = tab[s].form.nickname /\ tab[s].form.nickname # NoNickname)
      BY <3>3 DEF Named
    <3> QED
      BY <1>3, <3>1, <3>2, <3>4
  <2>4. \A s, r \in Tabs :
          s # r /\ tab'[s].step = "lists" /\ tab'[r].step = "lists" =>
              /\ tab'[s].user # tab'[r].user
              /\ tab'[s].form.nickname = tab'[r].form.nickname => tab'[s].form.nickname = NoNickname
    BY <1>6 DEF NetworkIInv, TabsAgree
  <2>5. \A s \in Tabs : tab'[s].step = "lists" =>
           {k \in Members \ {tab'[s].user} : settings'[k].nickname = tab'[s].form.nickname /\ tab'[s].form.nickname # NoNickname} = {}
    BY <2>2
  <2> QED
    BY <1>1, <1>6, <2>1, <2>4, <2>5 DEF TabsAgree, Named, Participants
<1> QED
  BY <1>7, <1>8, <1>9, <1>10, <1>11 DEF NetworkIInv

\* Every step of the network keeps the invariant.
LEMMA NetworkNextKeepsNetworkIInv == NetworkIInv /\ [NetworkNext]_network => NetworkIInv'
<1> SUFFICES ASSUME NetworkIInv, [NetworkNext]_network PROVE NetworkIInv'
  OBVIOUS
<1>1. CASE UNCHANGED network
  BY <1>1 DEF network, NetworkIInv, NetworkTypeOK, SettingsAgree, ThreadsAgree, TabsAgree, DmsAgree,
              Named, TextFor, Participants, RecipientLanguages
<1>2. ASSUME NEW t \in Tabs, TabStep(t), Remembers PROVE NetworkIInv'
  <2>1. CASE TabFails(t)
    <3>1. UNCHANGED <<settings, follows, threads, dms, saves, chosen>> /\ tab' = [tab EXCEPT ![t] = NoTab]
      BY <2>1 DEF TabFails, Ends
    <3>2. /\ welcomed \subseteq welcomed' /\ threads \subseteq threads'
          /\ \A m \in Members : chosen[m] \subseteq chosen'[m]
      BY <1>2, <3>1 DEF Remembers
    <3>3. TabsAgree'
      BY <3>1, <3>2, FormsAreTyped, TabMoves
    <3> QED
      BY <1>2, <3>1, <3>3, PartsAgree, QuietKeepsNetworkIInv DEF Remembers
  <2>2. CASE \E u \in Members, form \in Forms :
               ResolveFollow(t, u, form.nickname) \/ ResolveDm(t, u, form.nickname) \/ CheckNickname(t, u, form)
    BY <1>2, <2>2, TabsThatReadKeepNetworkIInv
  <2>3. CASE \E follow \in BOOLEAN : SaveFollow(t, follow)
    BY <1>2, <2>3, SaveFollowKeepsNetworkIInv
  <2>4. CASE \E u, v \in Members, language \in Tongues : LockThread(t, u, v, language)
    BY <1>2, <2>4, LockThreadKeepsNetworkIInv
  <2>5. CASE StartThread(t)
    BY <1>2, <2>5, StartThreadKeepsNetworkIInv
  <2>6. CASE AppendDm(t)
    BY <1>2, <2>6, AppendDmKeepsNetworkIInv
  <2>7. CASE UpdateUserRow(t)
    BY <1>2, <2>7, UpdateUserRowKeepsNetworkIInv
  <2>8. CASE ReplaceLists(t)
    BY <1>2, <2>8, ReplaceListsKeepsNetworkIInv
  <2> QED
    BY <1>2, <2>1, <2>2, <2>3, <2>4, <2>5, <2>6, <2>7, <2>8 DEF TabStep, FollowStep
<1> QED
  BY <1>1, <1>2 DEF NetworkNext, Remembers

\* The invariant holds in every state of the network.
THEOREM NetworkInductive == NetworkSpec => []NetworkIInv
BY NetworkInitHolds, NetworkNextKeepsNetworkIInv, PTL DEF NetworkSpec

\* The rows of settings, follows, threads and messages keep their types
\* (src/network/dcx_network_capabilities.py).
THEOREM NetworkTypeCorrect == NetworkSpec => []NetworkTypeOK
<1>1. NetworkIInv => NetworkTypeOK
  BY DEF NetworkIInv
<1> QED
  BY <1>1, NetworkInductive, PTL

\* What is shown of threads and contacts follows from the inductive invariant.
LEMMA WelcomeImplied == NetworkIInv => ThreadsWereWelcome
<1> SUFFICES ASSUME NetworkIInv PROVE ThreadsWereWelcome
  OBVIOUS
<1>1. \A h \in threads : h \in welcomed \/ <<h[2], h[1]>> \in welcomed
  BY DEF NetworkIInv, ThreadsAgree
<1>2. \A g, h \in threads : {g[1], g[2]} = {h[1], h[2]} => g = h
  <2> SUFFICES ASSUME NEW g \in threads, NEW h \in threads, {g[1], g[2]} = {h[1], h[2]}
               PROVE  g = h
    OBVIOUS
  <2>1. /\ g = <<g[1], g[2]>> /\ h = <<h[1], h[2]>>
        /\ g[1] \in Nat /\ g[2] \in Nat /\ h[1] \in Nat /\ h[2] \in Nat
    BY PartsAgree, NetworkAssumption
  <2>2. g[1] <= g[2] /\ h[1] <= h[2]
    BY DEF NetworkIInv, ThreadsAgree
  <2>3. (g[1] = h[1] \/ g[1] = h[2]) /\ (g[2] = h[1] \/ g[2] = h[2]) /\ (h[1] = g[1] \/ h[1] = g[2]) /\ (h[2] = g[1] \/ h[2] = g[2])
    OBVIOUS
  <2>4. g[1] = h[1] /\ g[2] = h[2]
    BY <2>1, <2>2, <2>3
  <2> QED
    BY <2>1, <2>4
<1>3. ASSUME NEW u \in Members, NEW scope \in ContactScopes, NEW v \in Contacts(u, scope),
             NEW w \in Contacts(u, scope) \cup {u}, settings[v].nickname = settings[w].nickname
      PROVE  v = w
  <2>1. v \in Members /\ w \in Members /\ settings[v].nickname # NoNickname
    BY DEF Contacts
  <2> QED
    BY <1>3, <2>1 DEF NetworkIInv, SettingsAgree
<1> QED
  BY <1>1, <1>2, <1>3 DEF ThreadsWereWelcome

\* Two members have a thread only when one of them had let the other in at some
\* time, although the check and the start are two transactions; it is one
\* thread, whoever started it; no list of contacts shows a nickname twice.
THEOREM ThreadsAreWelcome == NetworkSpec => []ThreadsWereWelcome
BY WelcomeImplied, NetworkInductive, PTL

\* A thread with messages has one last message: the numbers are given once and
\* are less than their count.
LEMMA OneLastMessage ==
  ASSUME NetworkIInv, NEW h
  PROVE  Cardinality({m \in dms : m.thread = h /\ \A n \in dms : n.thread = h => n.nr <= m.nr})
           = IF DmDetail(h) = {} THEN 0 ELSE 1
<1> DEFINE L == {m \in dms : m.thread = h /\ \A n \in dms : n.thread = h => n.nr <= m.nr}
           N == Cardinality(dms)
<1>1. N \in Nat /\ \A m \in dms : m.nr \in Nat /\ m.nr < N
  BY FS_CardinalityType DEF NetworkIInv, DmsAgree
<1>2. CASE DmDetail(h) = {}
  <2>1. L = {}
    BY <1>2 DEF DmDetail
  <2> QED
    BY <1>2, <2>1, FS_EmptySet
<1>3. CASE DmDetail(h) # {}
  <2> DEFINE T == {N - m.nr : m \in DmDetail(h)}
  <2>1. T \in SUBSET Nat /\ T # {}
    BY <1>1, <1>3 DEF DmDetail
  <2>2. PICK k \in T : \A j \in T : k <= j
    <3> HIDE DEF T
    <3> QED
      BY <2>1, SmallestNat
  <2>3. PICK m \in DmDetail(h) : k = N - m.nr
    BY <2>2
  <2>4. \A n \in DmDetail(h) : n.nr <= m.nr
    <3> SUFFICES ASSUME NEW n \in DmDetail(h) PROVE n.nr <= m.nr
      OBVIOUS
    <3>1. N - n.nr \in T
      OBVIOUS
    <3>2. N - m.nr <= N - n.nr
      BY <2>2, <2>3, <3>1
    <3>3. n.nr \in Nat /\ m.nr \in Nat
      BY <1>1 DEF DmDetail
    <3> QED
      BY <1>1, <3>2, <3>3
  <2>5. m \in L
    BY <2>4 DEF DmDetail
  <2>6. \A n \in L : n = m
    <3> SUFFICES ASSUME NEW n \in L PROVE n = m
      OBVIOUS
    <3>1. n.nr <= m.nr /\ m.nr <= n.nr /\ n.nr \in Nat /\ m.nr \in Nat /\ n \in dms /\ m \in dms
      BY <1>1, <2>4, <2>5 DEF DmDetail
    <3>2. n.nr = m.nr
      BY <3>1
    <3> QED
      BY <3>1, <3>2 DEF NetworkIInv, DmsAgree
  <2>7. L = {m}
    BY <2>5, <2>6
  <2> QED
    BY <1>3, <2>7, FS_Singleton
<1> QED
  BY <1>2, <1>3

\* What a thread shows follows from the inductive invariant.
LEMMA LanguagesImplied == NetworkIInv => MessagesSpeakAChosenLanguage
<1> SUFFICES ASSUME NetworkIInv PROVE MessagesSpeakAChosenLanguage
  OBVIOUS
<1>1. \A thread \in threads : \A m \in DmDetail(thread) :
          \/ m.shown = "untranslated"
          \/ \E list \in chosen[m.to] : TextFor(m.to, m) \in Range(RecipientLanguages(list))
  BY DEF NetworkIInv, DmsAgree, DmDetail
<1>2. ASSUME NEW u \in Members, NEW item \in DmThreads(u)
      PROVE  Cardinality(item.latest) = IF DmDetail(item.thread) = {} THEN 0 ELSE 1
  <2>1. PICK h \in threads :
          item = [thread |-> h, latest |-> {m \in dms : m.thread = h /\ \A n \in dms :
                                              n.thread = h => n.nr <= m.nr}]
    BY DEF DmThreads
  <2>2. /\ item.thread = h
        /\ item.latest = {m \in dms : m.thread = h /\ \A n \in dms : n.thread = h => n.nr <= m.nr}
    BY <2>1
  <2> QED
    BY <2>2, OneLastMessage
<1> QED
  BY <1>1, <1>2 DEF MessagesSpeakAChosenLanguage

\* A message is shown in a language its recipient had chosen, or untranslated,
\* though the settings of a member are replaced in several statements; the list
\* of threads shows one last message of each.
THEOREM MessagesAreInAChosenLanguage == NetworkSpec => []MessagesSpeakAChosenLanguage
BY LanguagesImplied, NetworkInductive, PTL

-----------------------------------------------------------------------------
(* The feed.                                                                *)

\* The fields of a request.
CallFields == {"step", "kind", "user", "keys", "value", "reply", "counted"}

\* What one request holds and has read.
CallOK(c) ==
    /\ DOMAIN call[c] = CallFields
    /\ call[c].step \in {"idle", "read", "list"}
    /\ call[c].step = "idle" => call[c].keys = {} /\ call[c].kind = "none"
    /\ call[c].kind \in FeedKinds =>
          call[c].kind \in Kinds /\ \E p \in Posts, u \in Members : call[c].keys = {<<call[c].kind, p, u>>}
    /\ call[c].kind = "reply" =>
          \E p \in Posts, u \in Members : /\ call[c].keys = {<<"reply", p, u>>}
                                          /\ \A r \in call[c].reply : r.post = p /\ r.author = u
    /\ call[c].kind \notin FeedKinds \cup {"reply"} => call[c].keys = {}
    /\ call[c].kind # "reply" => call[c].reply = {}
    /\ call[c].value \in Nat
    /\ IsFiniteSet(call[c].reply) /\ \A r, s \in call[c].reply : r = s

\* A reply is of a message that has made none, and a view counts one more.
WritesOK(c) ==
    /\ \A r \in call[c].reply, s \in replies :
          r.post = s.post /\ r.author = s.author /\ r.source = s.source => r.source = FromApp
    /\ call[c].kind = "view" => \A k \in call[c].keys : call[c].value = Value(k) + 1

\* What a request has counted is still there to be listed.
CountsOK(c) ==
    call[c].step = "list" =>
        /\ call[c].counted = [p \in DOMAIN call[c].counted |-> call[c].counted[p]]
        /\ \A p \in DOMAIN call[c].counted :
              /\ call[c].counted[p] \in Nat
              /\ call[c].counted[p] <= Cardinality(RepliesSeen(c, p))
              /\ call[c].kind = "reply" => /\ call[c].counted[p] = Cardinality(RepliesSeen(c, p))
                                           /\ \E k \in call[c].keys : k[2] = p

\* No two requests hold one row, or write replies to one post.
LocksHold ==
    \A c, d \in Calls : c # d =>
        /\ \A k \in call[c].keys : k \notin call[d].keys
        /\ call[c].kind = "reply" /\ call[d].kind = "reply" =>
              \A k \in call[c].keys, m \in call[d].keys : k[2] # m[2]

\* The rows: a redelivered reply is there once, and the view counts are the
\* answered openings.
RowsOK ==
    /\ IsFiniteSet(replies)
    /\ \A r, s \in replies :
          r.post = s.post /\ r.author = s.author /\ r.source = s.source /\ r.source # FromApp => r = s
    /\ \A key \in DOMAIN reactions : reactions[key] \in Nat
    /\ \A p \in Nat, u \in Members :
          Value(<<"view", p, u>>) = IF <<p, u>> \in DOMAIN opens THEN opens[<<p, u>>] ELSE 0

\* The last answer lists what it counts.
AnswerOK ==
    /\ \A p \in DOMAIN answer.counted : answer.counted[p] <= answer.listed[p]
    /\ answer.kind = "reply" => answer.counted = answer.listed

\* The inductive invariant.  What is answered is counted and listed in two
\* statements, so that the invariant says of each request, at each step, how
\* its count and the rows compare, and of each pair of requests that they hold
\* different rows.
FeedIInv ==
    /\ FeedTypeOK /\ RowsOK /\ AnswerOK /\ LocksHold
    /\ DOMAIN call = Calls
    /\ \A c \in Calls : CallOK(c) /\ WritesOK(c) /\ CountsOK(c)

\* The bounds are numbers, and the kinds are of the feed.
LEMMA FeedParams == /\ MaxPosts \in Nat /\ MaxCalls \in Nat /\ Kinds \subseteq FeedKinds /\ "view" \in Kinds
BY FeedAssumption

\* What is answered follows from the inductive invariant.
LEMMA FeedImplied == FeedIInv => FeedAnswersAgree
<1> SUFFICES ASSUME FeedIInv PROVE FeedAnswersAgree
  OBVIOUS
<1>1. Posts \subseteq Nat
  BY DEF FeedIInv, FeedTypeOK, Posts
<1> QED
  BY <1>1 DEF FeedIInv, RowsOK, AnswerOK, FeedAnswersAgree

\* A row that is put, or put again.
LEMMA PutFacts ==
  ASSUME NEW f, NEW key, NEW value
  PROVE  /\ DOMAIN Put(f, key, value) = DOMAIN f \cup {key}
         /\ Put(f, key, value)[key] = value
         /\ \A k \in DOMAIN f : k # key => Put(f, key, value)[k] = f[k]
BY DEF Put

\* A request that has ended holds nothing.
LEMMA IdleCallOK ==
  ASSUME NEW c \in Calls, call'[c] = NoCall
  PROVE  (CallOK(c) /\ WritesOK(c) /\ CountsOK(c))'
<1>1. IsFiniteSet({})
  BY FS_EmptySet
<1> QED
  BY <1>1 DEF NoCall, CallOK, WritesOK, CountsOK, FeedKinds, CallFields

\* The invariant holds before the first post.
LEMMA FeedInitHolds == FeedInit => FeedIInv
<1> SUFFICES ASSUME FeedInit PROVE FeedIInv
  OBVIOUS
<1>1. \A c \in Calls : call[c] = NoCall
  BY DEF FeedInit
<1>2. ASSUME NEW c \in Calls PROVE CallOK(c) /\ WritesOK(c) /\ CountsOK(c)
  <2>1. CallOK(c)
    <3>1. IsFiniteSet({})
      BY FS_EmptySet
    <3> QED
      <4>1. /\ DOMAIN call[c] = CallFields /\ call[c].step = "idle" /\ call[c].kind = "none"
            /\ call[c].keys = {} /\ call[c].value = 0 /\ call[c].reply = {}
        BY <1>1 DEF NoCall, CallFields
      <4>2. "none" \notin FeedKinds \cup {"reply"} /\ 0 \in Nat
        BY DEF FeedKinds
      <4> QED
        BY <3>1, <4>1, <4>2 DEF CallOK
  <2>2. WritesOK(c) /\ CountsOK(c)
    BY <1>1 DEF NoCall, WritesOK, CountsOK
  <2> QED
    BY <2>1, <2>2
<1>3. DOMAIN <<>> = {}
  OBVIOUS
<1>4. FeedTypeOK
  <2>1. posts \in Seq(Members) /\ Len(posts) <= MaxPosts
    BY FeedParams DEF FeedInit
  <2>2. calls \in 0..MaxCalls
    BY FeedParams DEF FeedInit
  <2>3. replies = {} /\ DOMAIN reactions = {}
    BY <1>3 DEF FeedInit
  <2> QED
    BY <1>1, <2>1, <2>2, <2>3 DEF FeedTypeOK, NoCall
<1>5. RowsOK
  BY <1>3, FS_EmptySet DEF FeedInit, RowsOK, Value
<1>6. AnswerOK
  BY <1>3 DEF FeedInit, AnswerOK, NoAnswer
<1>7. LocksHold
  BY <1>1 DEF LocksHold, NoCall
<1> QED
  BY <1>2, <1>4, <1>5, <1>6, <1>7 DEF FeedIInv, FeedInit

\* A new post has no reply and no reader.
LEMMA CreatePostKeepsFeedIInv ==
  ASSUME FeedIInv, NEW u \in Members, CreatePost(u) PROVE FeedIInv'
<1>1. /\ posts \in Seq(Members) /\ Len(posts) <= MaxPosts /\ posts' = Append(posts, u)
      /\ Len(posts) < MaxPosts
  BY DEF FeedIInv, FeedTypeOK, CreatePost
<1>2. posts' \in Seq(Members) /\ Len(posts') <= MaxPosts /\ Posts \subseteq Posts'
  BY <1>1, FeedParams DEF Posts
<1>3. UNCHANGED <<replies, reactions, call, answer, opens>>
  BY DEF CreatePost
<1>4. calls' \in 0..MaxCalls
  BY FeedParams DEF CreatePost, FeedIInv, FeedTypeOK
<1>5. FeedTypeOK'
  BY <1>2, <1>3, <1>4 DEF FeedIInv, FeedTypeOK
<1>6. RowsOK' /\ AnswerOK' /\ LocksHold'
  BY <1>3 DEF FeedIInv, RowsOK, AnswerOK, LocksHold, Value
<1>7. ASSUME NEW c \in Calls PROVE CallOK(c)'
  BY <1>2, <1>3 DEF FeedIInv, CallOK
<1>8. ASSUME NEW c \in Calls PROVE (WritesOK(c) /\ CountsOK(c))'
  BY <1>3 DEF FeedIInv, WritesOK, CountsOK, Value, RepliesSeen
<1> QED
  BY <1>3, <1>5, <1>6, <1>7, <1>8 DEF FeedIInv

\* A request stays as it is while the rows do.
LEMMA OtherCallStays ==
  ASSUME FeedIInv, NEW d \in Calls, call'[d] = call[d], UNCHANGED <<posts, replies, reactions>>
  PROVE  (CallOK(d) /\ WritesOK(d) /\ CountsOK(d))'
<1>1. CallOK(d)'
  BY DEF FeedIInv, CallOK, Posts
<1>2. WritesOK(d)'
  BY DEF FeedIInv, WritesOK, Value
<1>3. CountsOK(d)'
  BY DEF FeedIInv, CountsOK, RepliesSeen
<1> QED
  BY <1>1, <1>2, <1>3

\* A request that begins with rows that nobody holds.
LEMMA BeginKeepsFeedIInv ==
  ASSUME FeedIInv, NEW c \in Calls, NEW kind, NEW user, NEW keys, NEW value \in Nat, NEW reply,
         Begins(c, kind, user, keys, value, reply),
         kind \in FeedKinds => kind \in Kinds /\ \E p \in Posts, u \in Members : keys = {<<kind, p, u>>},
         kind = "reply" =>
            \E p \in Posts, u \in Members : /\ keys = {<<"reply", p, u>>} /\ ~PostLocked(p)
                                            /\ \A r \in reply : r.post = p /\ r.author = u,
         kind \notin FeedKinds \cup {"reply"} => keys = {},
         kind # "reply" => reply = {} /\ \A k \in keys : ~RowLocked(k),
         IsFiniteSet(reply), \A r, s \in reply : r = s,
         \A r \in reply, s \in replies :
            r.post = s.post /\ r.author = s.author /\ r.source = s.source => r.source = FromApp,
         kind = "view" => \A k \in keys : value = Value(k) + 1
  PROVE  FeedIInv'
<1> DEFINE x == [NoCall EXCEPT !.step = "read", !.kind = kind, !.user = user, !.keys = keys,
                               !.value = value, !.reply = reply]
<1>1. call' = [call EXCEPT ![c] = x]
  BY DEF Begins
<1>2. /\ x.step = "read" /\ x.kind = kind /\ x.user = user /\ x.keys = keys /\ x.value = value
      /\ x.reply = reply /\ DOMAIN x = CallFields
  BY DEF NoCall, CallFields
<1> HIDE DEF x
<1>3. /\ UNCHANGED <<posts, replies, reactions, answer, opens>> /\ call[c].step = "idle"
      /\ calls' \in 0..MaxCalls
  BY FeedParams DEF Begins, At, FeedIInv, FeedTypeOK
<1>4. call'[c] = x /\ DOMAIN call' = Calls /\ \A d \in Calls : d # c => call'[d] = call[d]
  BY <1>1 DEF FeedIInv
<1>5. FeedTypeOK'
  BY <1>2, <1>3, <1>4 DEF FeedIInv, FeedTypeOK, Posts
<1>6. RowsOK' /\ AnswerOK'
  BY <1>3 DEF FeedIInv, RowsOK, AnswerOK, Value
<1>7. ASSUME NEW d \in Calls PROVE (CallOK(d) /\ WritesOK(d) /\ CountsOK(d))'
  <2>1. CASE d = c
    <3>1. CallOK(c)'
      BY <1>2, <1>3, <1>4 DEF CallOK, Posts
    <3>2. WritesOK(c)'
      BY <1>2, <1>3, <1>4 DEF WritesOK, Value
    <3>3. CountsOK(c)'
      BY <1>2, <1>4 DEF CountsOK
    <3> QED
      BY <2>1, <3>1, <3>2, <3>3
  <2>2. CASE d # c
    <3>1. call'[d] = call[d]
      BY <1>4, <2>2
    <3> QED
      BY <1>3, <3>1, OtherCallStays
  <2> QED
    BY <2>1, <2>2
<1>8. ASSUME NEW d \in Calls, d # c
      PROVE  /\ \A k \in keys : k \notin call[d].keys
             /\ kind = "reply" /\ call[d].kind = "reply" =>
                   \A k \in keys, m \in call[d].keys : k[2] # m[2]
  <2>1. CASE kind = "reply"
    <3>1. PICK p \in Posts, u \in Members : keys = {<<"reply", p, u>>} /\ ~PostLocked(p)
      BY <2>1
    <3>2. call[d].kind = "reply" => \A m \in call[d].keys : m[2] # p
      BY <3>1 DEF PostLocked, At, FeedIInv, CallOK
    <3>3. call[d].kind # "reply" => <<"reply", p, u>> \notin call[d].keys
      BY FeedParams DEF FeedIInv, CallOK, FeedKinds
    <3> QED
      BY <3>1, <3>2, <3>3
  <2>2. CASE kind # "reply"
    BY <1>8, <2>2 DEF RowLocked
  <2> QED
    BY <2>1, <2>2
<1>9. LocksHold'
  <2> SUFFICES ASSUME NEW a \in Calls, NEW b \in Calls, a # b
               PROVE  /\ \A k \in call'[a].keys : k \notin call'[b].keys
                      /\ call'[a].kind = "reply" /\ call'[b].kind = "reply" =>
                            \A k \in call'[a].keys, m \in call'[b].keys : k[2] # m[2]
    BY DEF LocksHold
  <2>1. CASE a = c
    BY <1>2, <1>4, <1>8, <2>1
  <2>2. CASE b = c
    BY <1>2, <1>4, <1>8, <2>2
  <2>3. CASE a # c /\ b # c
    BY <1>4, <2>3 DEF FeedIInv, LocksHold
  <2> QED
    BY <2>1, <2>2, <2>3
<1> QED
  BY <1>4, <1>5, <1>6, <1>7, <1>9 DEF FeedIInv

\* A request that fails leaves the rows as they were.
LEMMA FailsKeepsFeedIInv ==
  ASSUME FeedIInv, NEW c \in Calls, CallFails(c) PROVE FeedIInv'
<1>1. UNCHANGED <<posts, replies, reactions, answer, opens, calls>> /\ call' = [call EXCEPT ![c] = NoCall]
  BY DEF CallFails
<1>2. call'[c] = NoCall /\ DOMAIN call' = Calls /\ \A d \in Calls : d # c => call'[d] = call[d]
  BY <1>1 DEF FeedIInv
<1>3. FeedTypeOK'
  BY <1>1, <1>2 DEF FeedIInv, FeedTypeOK, Posts, NoCall
<1>4. RowsOK' /\ AnswerOK'
  BY <1>1 DEF FeedIInv, RowsOK, AnswerOK, Value
<1>5. ASSUME NEW d \in Calls PROVE (CallOK(d) /\ WritesOK(d) /\ CountsOK(d))'
  <2>1. CASE d # c
    <3>1. call'[d] = call[d]
      BY <1>2, <2>1
    <3> QED
      BY <1>1, <3>1, OtherCallStays
  <2> QED
    BY <1>2, <2>1, IdleCallOK
<1>6. LocksHold'
  BY <1>2 DEF FeedIInv, LocksHold, NoCall
<1> QED
  BY <1>2, <1>3, <1>4, <1>5, <1>6 DEF FeedIInv

\* What a request sees of a post can be counted.
LEMMA SeenIsFinite ==
  ASSUME FeedIInv, NEW c \in Calls, NEW p
  PROVE  IsFiniteSet(RepliesSeen(c, p)) /\ Cardinality(RepliesSeen(c, p)) \in Nat
<1>1. IsFiniteSet(replies \cup call[c].reply)
  BY FS_Union DEF FeedIInv, RowsOK, CallOK
<1>2. RepliesSeen(c, p) \subseteq replies \cup call[c].reply
  BY DEF RepliesSeen
<1> QED
  BY <1>1, <1>2, FS_Subset, FS_CardinalityType

\* The count is of what the request sees, its own reply included.
LEMMA ReadPostsKeepsFeedIInv ==
  ASSUME FeedIInv, NEW c \in Calls, ReadPosts(c) PROVE FeedIInv'
<1> DEFINE f == CountReplies(c, Shown(c))
           x == [call[c] EXCEPT !.step = "list", !.counted = f]
<1>1. /\ UNCHANGED <<posts, replies, reactions, answer, opens, calls>>
      /\ call' = [call EXCEPT ![c] = x]
  BY DEF ReadPosts
<1>2. /\ x.step = "list" /\ x.kind = call[c].kind /\ x.user = call[c].user /\ x.keys = call[c].keys
      /\ x.value = call[c].value /\ x.reply = call[c].reply /\ x.counted = f
      /\ DOMAIN x = CallFields
  BY DEF FeedIInv, CallOK, CallFields
<1> HIDE DEF x, f
<1>3. call'[c] = x /\ DOMAIN call' = Calls /\ \A d \in Calls : d # c => call'[d] = call[d]
  BY <1>1 DEF FeedIInv
<1>4. FeedTypeOK'
  BY <1>1, <1>2, <1>3 DEF FeedIInv, FeedTypeOK, Posts
<1>5. RowsOK' /\ AnswerOK'
  BY <1>1 DEF FeedIInv, RowsOK, AnswerOK, Value
<1>6. LocksHold'
  <2>1. \A d \in Calls : call'[d].keys = call[d].keys /\ call'[d].kind = call[d].kind
    BY <1>2, <1>3
  <2> QED
    BY <2>1 DEF FeedIInv, LocksHold
<1>7. call[c].step = "read"
  BY DEF ReadPosts, At
<1>8. CallOK(c)'
  BY <1>1, <1>2, <1>3, <1>7 DEF FeedIInv, CallOK, Posts
<1>9. WritesOK(c)'
  BY <1>1, <1>2, <1>3 DEF FeedIInv, WritesOK, Value
<1>10. CountsOK(c)'
  <2>1. f = [p \in Shown(c) |-> Cardinality(RepliesSeen(c, p))]
    BY DEF f, CountReplies
  <2>2. \A p : RepliesSeen(c, p)' = RepliesSeen(c, p)
    BY <1>1, <1>2, <1>3 DEF RepliesSeen
  <2>3. \A p \in DOMAIN f : f[p] = Cardinality(RepliesSeen(c, p)) /\ f[p] \in Nat /\ f[p] <= f[p]
    BY <2>1, SeenIsFinite
  <2>4. call[c].kind = "reply" => Shown(c) = {k[2] : k \in call[c].keys}
    BY DEF Shown, Scopes
  <2>5. call[c].kind = "reply" => \A p \in DOMAIN f : \E k \in call[c].keys : k[2] = p
    BY <2>1, <2>4
  <2>6. f = [p \in DOMAIN f |-> f[p]]
    BY <2>1
  <2> QED
    BY <1>2, <1>3, <2>2, <2>3, <2>5, <2>6 DEF CountsOK
<1>11. ASSUME NEW d \in Calls, d # c PROVE (CallOK(d) /\ WritesOK(d) /\ CountsOK(d))'
  <2>1. call'[d] = call[d]
    BY <1>3, <1>11
  <2> QED
    BY <1>1, <2>1, OtherCallStays
<1> QED
  BY <1>3, <1>4, <1>5, <1>6, <1>8, <1>9, <1>10, <1>11 DEF FeedIInv

\* The commit: other requests see one reply more, of another post than theirs
\* if they reply, and the row that was held has the value that was computed
\* from it.
LEMMA AnswerCallKeepsFeedIInv ==
  ASSUME FeedIInv, NEW c \in Calls, AnswerCall(c) PROVE FeedIInv'
<1> SUFFICES ASSUME NEW key, key = (CHOOSE k \in call[c].keys : TRUE),
                    NEW value, value = call[c].value, NEW kind, kind = call[c].kind
             PROVE  FeedIInv'
  OBVIOUS
<1>1. /\ UNCHANGED <<posts, calls>> /\ call[c].step = "list"
      /\ call' = [call EXCEPT ![c] = NoCall]
      /\ replies' = replies \cup call[c].reply
      /\ reactions' = IF kind \in FeedKinds THEN Put(reactions, key, value) ELSE reactions
      /\ opens' = IF kind # "view" THEN opens
                  ELSE Put(opens, <<key[2], key[3]>>,
                           IF <<key[2], key[3]>> \in DOMAIN opens THEN opens[<<key[2], key[3]>>] + 1 ELSE 1)
      /\ answer' = [kind |-> kind, counted |-> call[c].counted,
                    listed |-> CountReplies(c, DOMAIN call[c].counted)]
  BY DEF AnswerCall, At
<1>1a. kind \in FeedKinds =>
          /\ DOMAIN reactions' = DOMAIN reactions \cup {key}
          /\ reactions'[key] = value
          /\ \A k \in DOMAIN reactions : k # key => reactions'[k] = reactions[k]
  <2>1. kind \in FeedKinds =>
          reactions' = [k \in DOMAIN reactions \cup {key} |-> IF k = key THEN value ELSE reactions[k]]
    BY <1>1 DEF Put
  <2> QED
    BY <2>1
<1>1b. kind \notin FeedKinds => reactions' = reactions
  BY <1>1
<1>1c. kind = "view" =>
          /\ DOMAIN opens' = DOMAIN opens \cup {<<key[2], key[3]>>}
          /\ opens'[<<key[2], key[3]>>] =
                IF <<key[2], key[3]>> \in DOMAIN opens THEN opens[<<key[2], key[3]>>] + 1 ELSE 1
          /\ \A k \in DOMAIN opens : k # <<key[2], key[3]>> => opens'[k] = opens[k]
  <2> SUFFICES ASSUME kind = "view", NEW viewed, viewed = <<key[2], key[3]>>
               PROVE  /\ DOMAIN opens' = DOMAIN opens \cup {viewed}
                      /\ opens'[viewed] = IF viewed \in DOMAIN opens THEN opens[viewed] + 1 ELSE 1
                      /\ \A k \in DOMAIN opens : k # viewed => opens'[k] = opens[k]
    OBVIOUS
  <2>1. opens' = [k \in DOMAIN opens \cup {viewed} |->
                    IF k = viewed THEN IF viewed \in DOMAIN opens THEN opens[viewed] + 1 ELSE 1
                    ELSE opens[k]]
    BY <1>1 DEF Put
  <2> QED
    BY <2>1
<1>2. call'[c] = NoCall /\ DOMAIN call' = Calls /\ \A d \in Calls : d # c => call'[d] = call[d]
  BY <1>1 DEF FeedIInv
<1>3. CallOK(c) /\ WritesOK(c) /\ CountsOK(c)
  BY DEF FeedIInv
<1>4. /\ Posts \subseteq Nat /\ value \in Nat /\ FeedTypeOK
      /\ "view" \in Kinds /\ Kinds \subseteq FeedKinds
  BY <1>3, FeedParams DEF FeedIInv, FeedTypeOK, Posts, CallOK
<1>5. kind \in FeedKinds =>
        /\ key \in call[c].keys /\ key[1] = kind /\ key[2] \in Posts /\ key[3] \in Members
        /\ key = <<kind, key[2], key[3]>> /\ kind \in Kinds
  <2> SUFFICES ASSUME kind \in FeedKinds
               PROVE  /\ key \in call[c].keys /\ key[1] = kind /\ key[2] \in Posts /\ key[3] \in Members
                      /\ key = <<kind, key[2], key[3]>> /\ kind \in Kinds
    OBVIOUS
  <2>1. PICK p \in Posts, u \in Members : call[c].keys = {<<kind, p, u>>} /\ kind \in Kinds
    BY <1>3 DEF CallOK
  <2>2. key = <<kind, p, u>>
    BY <2>1
  <2> QED
    BY <2>1, <2>2
<1>6. \A k : (kind \in FeedKinds => k # key) => Value(k)' = Value(k)
  <2> SUFFICES ASSUME NEW k, kind \in FeedKinds => k # key PROVE Value(k)' = Value(k)
    OBVIOUS
  <2>1. (k \in DOMAIN reactions' <=> k \in DOMAIN reactions) /\ (k \in DOMAIN reactions => reactions'[k] = reactions[k])
    BY <1>1a, <1>1b
  <2> QED
    BY <2>1 DEF Value
<1>7. kind \in FeedKinds => Value(key)' = value
  BY <1>1a DEF Value
<1>8. /\ IsFiniteSet(replies') /\ replies \subseteq replies'
  BY <1>1, FS_Union DEF FeedIInv, RowsOK, CallOK
<1>9. FeedTypeOK'
  <2>1. \A r \in replies' : r.post \in Posts /\ r.author \in Members
    <3>1. \A r \in call[c].reply : r.post \in Posts /\ r.author \in Members
      BY <1>3 DEF CallOK
    <3> QED
      BY <1>1, <1>4, <3>1 DEF FeedTypeOK
  <2>2. DOMAIN reactions' \subseteq Kinds \X Posts \X Members
    <3>1. CASE kind \in FeedKinds
      <4>1. key \in Kinds \X Posts \X Members
        BY <1>5, <3>1
      <4> QED
        BY <1>1a, <1>4, <3>1, <4>1 DEF FeedTypeOK
    <3>2. CASE kind \notin FeedKinds
      BY <1>1, <1>4, <3>2 DEF FeedTypeOK
    <3> QED
      BY <3>1, <3>2
  <2>3. \A d \in Calls : call'[d].step \in {"idle", "read", "list"}
    BY <1>2, <1>4 DEF FeedTypeOK, NoCall
  <2> QED
    BY <1>1, <1>4, <2>1, <2>2, <2>3 DEF FeedTypeOK, Posts
<1>10. \A r, s \in replies' :
          r.post = s.post /\ r.author = s.author /\ r.source = s.source /\ r.source # FromApp => r = s
  <2>1. \A r, s \in replies :
          r.post = s.post /\ r.author = s.author /\ r.source = s.source /\ r.source # FromApp => r = s
    BY DEF FeedIInv, RowsOK
  <2>2. \A r \in call[c].reply, s \in replies :
          r.post = s.post /\ r.author = s.author /\ r.source = s.source => r.source = FromApp
    BY <1>3 DEF WritesOK
  <2>3. \A r, s \in call[c].reply : r = s
    BY <1>3 DEF CallOK
  <2> QED
    BY <1>1, <2>1, <2>2, <2>3
<1>11. \A k \in DOMAIN reactions' : reactions'[k] \in Nat
  <2>1. \A k \in DOMAIN reactions : reactions[k] \in Nat
    BY DEF FeedIInv, RowsOK
  <2> QED
    BY <1>1a, <1>1b, <1>4, <2>1
<1>12. ASSUME NEW p \in Nat, NEW u \in Members
       PROVE  Value(<<"view", p, u>>)' = IF <<p, u>> \in DOMAIN opens' THEN opens'[<<p, u>>] ELSE 0
  <2>1. Value(<<"view", p, u>>) = IF <<p, u>> \in DOMAIN opens THEN opens[<<p, u>>] ELSE 0
    BY DEF FeedIInv, RowsOK
  <2>2. CASE kind # "view"
    <3>1. kind \in FeedKinds => key # <<"view", p, u>>
      <4>1. <<"view", p, u>>[1] = "view"
        OBVIOUS
      <4> QED
        BY <1>5, <2>2, <4>1
    <3>2. Value(<<"view", p, u>>)' = Value(<<"view", p, u>>)
      BY <1>6, <3>1
    <3> QED
      BY <1>1, <2>1, <2>2, <3>2
  <2>3. CASE kind = "view" /\ key # <<"view", p, u>>
    <3>1. Value(<<"view", p, u>>)' = Value(<<"view", p, u>>)
      BY <1>6, <2>3
    <3>2. <<p, u>> # <<key[2], key[3]>>
      BY <1>5, <2>3 DEF FeedKinds
    <3>3. (<<p, u>> \in DOMAIN opens' <=> <<p, u>> \in DOMAIN opens)
          /\ (<<p, u>> \in DOMAIN opens => opens'[<<p, u>>] = opens[<<p, u>>])
      BY <1>1c, <2>3, <3>2
    <3> QED
      BY <2>1, <3>1, <3>3
  <2>4. CASE kind = "view" /\ key = <<"view", p, u>>
    <3>1. kind \in FeedKinds /\ <<key[2], key[3]>> = <<p, u>>
      <4>1. kind \in FeedKinds
        BY <2>4 DEF FeedKinds
      <4>2. <<"view", p, u>>[2] = p /\ <<"view", p, u>>[3] = u
        OBVIOUS
      <4> QED
        BY <2>4, <4>1, <4>2
    <3>2. Value(key)' = value /\ value = Value(key) + 1
      BY <1>3, <1>5, <1>7, <2>4, <3>1 DEF WritesOK
    <3>3. <<p, u>> \in DOMAIN opens'
          /\ opens'[<<p, u>>] = IF <<p, u>> \in DOMAIN opens THEN opens[<<p, u>>] + 1 ELSE 1
      BY <1>1c, <2>4, <3>1
    <3>4. Value(<<"view", p, u>>)' = Value(<<"view", p, u>>) + 1
      BY <2>4, <3>2
    <3> QED
      BY <2>1, <3>3, <3>4
  <2> QED
    BY <2>2, <2>3, <2>4
<1>13. RowsOK'
  BY <1>8, <1>10, <1>11, <1>12 DEF RowsOK
<1>14. AnswerOK'
  <2> DEFINE D == DOMAIN call[c].counted
  <2>1. /\ answer'.counted = call[c].counted /\ answer'.kind = kind
        /\ answer'.listed = [p \in D |-> Cardinality(RepliesSeen(c, p))]
    BY <1>1 DEF CountReplies
  <2>2. /\ call[c].counted = [p \in D |-> call[c].counted[p]]
        /\ \A p \in D : /\ call[c].counted[p] <= Cardinality(RepliesSeen(c, p))
                        /\ kind = "reply" => call[c].counted[p] = Cardinality(RepliesSeen(c, p))
    BY <1>1, <1>3 DEF CountsOK
  <2>3. kind = "reply" => call[c].counted = [p \in D |-> Cardinality(RepliesSeen(c, p))]
    BY <2>2
  <2> QED
    BY <2>1, <2>2, <2>3 DEF AnswerOK
<1>15. LocksHold'
  BY <1>2 DEF FeedIInv, LocksHold, NoCall
<1>16. ASSUME NEW d \in Calls, d # c PROVE (CallOK(d) /\ WritesOK(d) /\ CountsOK(d))'
  <2>1. call'[d] = call[d] /\ CallOK(d) /\ WritesOK(d) /\ CountsOK(d)
    BY <1>2, <1>16 DEF FeedIInv
  <2>2. CallOK(d)'
    BY <1>1, <2>1 DEF CallOK, Posts
  <2>3. call[c].kind = "reply" /\ call[d].kind = "reply" =>
           \A r \in call[c].reply, k \in call[d].keys : r.post # k[2]
    <3> SUFFICES ASSUME call[c].kind = "reply", call[d].kind = "reply",
                        NEW r \in call[c].reply, NEW k \in call[d].keys
                 PROVE  r.post # k[2]
      OBVIOUS
    <3>1. PICK p \in Posts, u \in Members :
             call[c].keys = {<<"reply", p, u>>} /\ \A s \in call[c].reply : s.post = p /\ s.author = u
      BY <1>3 DEF CallOK
    <3>2. \A m \in call[c].keys : m[2] # k[2]
      BY <1>16 DEF FeedIInv, LocksHold
    <3>3. <<"reply", p, u>>[2] = p
      OBVIOUS
    <3> QED
      BY <3>1, <3>2, <3>3
  <2>4. \A r \in call[c].reply, k \in call[d].keys : call[d].kind = "reply" => r.post # k[2]
    BY <1>3, <2>3 DEF CallOK
  <2>5. WritesOK(d)'
    <3>1. \A r \in call[d].reply, s \in replies' :
             r.post = s.post /\ r.author = s.author /\ r.source = s.source => r.source = FromApp
      <4>1. \A r \in call[d].reply : call[d].kind = "reply" /\ \E k \in call[d].keys : k[2] = r.post
        <5> SUFFICES ASSUME NEW r \in call[d].reply
                     PROVE  call[d].kind = "reply" /\ \E k \in call[d].keys : k[2] = r.post
          OBVIOUS
        <5>1. call[d].kind = "reply"
          BY <2>1 DEF CallOK
        <5>2. PICK p \in Posts, u \in Members :
                 call[d].keys = {<<"reply", p, u>>} /\ \A s \in call[d].reply : s.post = p /\ s.author = u
          BY <2>1, <5>1 DEF CallOK
        <5>3. <<"reply", p, u>>[2] = p
          OBVIOUS
        <5> QED
          BY <5>1, <5>2, <5>3
      <4> QED
        BY <1>1, <2>1, <2>4, <4>1 DEF WritesOK
    <3>2. call[d].kind = "view" => \A k \in call[d].keys : call[d].value = Value(k)' + 1
      <4>1. kind \in FeedKinds => \A k \in call[d].keys : k # key
        BY <1>5, <1>16 DEF FeedIInv, LocksHold
      <4>2. \A k \in call[d].keys : Value(k)' = Value(k)
        BY <1>6, <4>1
      <4> QED
        BY <2>1, <4>2 DEF WritesOK
    <3> QED
      BY <2>1, <3>1, <3>2 DEF WritesOK
  <2>6. CountsOK(d)'
    <3> SUFFICES ASSUME call[d].step = "list" PROVE CountsOK(d)'
      BY <2>1 DEF CountsOK
    <3>1. \A p : RepliesSeen(d, p)' = RepliesSeen(d, p) \cup {r \in call[c].reply : r.post = p}
      BY <1>1, <2>1 DEF RepliesSeen
    <3>2. IsFiniteSet(call[c].reply)
      BY <1>3 DEF CallOK
    <3>3. ASSUME NEW p \in DOMAIN call[d].counted
          PROVE  /\ call[d].counted[p] \in Nat
                 /\ call[d].counted[p] <= Cardinality(RepliesSeen(d, p)')
                 /\ call[d].kind = "reply" => /\ call[d].counted[p] = Cardinality(RepliesSeen(d, p)')
                                              /\ \E k \in call[d].keys : k[2] = p
      <4> SUFFICES ASSUME NEW S, S = RepliesSeen(d, p), NEW S2, S2 = RepliesSeen(d, p)',
                          NEW R, R = {r \in call[c].reply : r.post = p}
                   PROVE  /\ call[d].counted[p] \in Nat
                          /\ call[d].counted[p] <= Cardinality(S2)
                          /\ call[d].kind = "reply" => /\ call[d].counted[p] = Cardinality(S2)
                                                       /\ \E k \in call[d].keys : k[2] = p
        OBVIOUS
      <4>0. S2 = S \cup R
        BY <3>1
      <4>1. /\ call[d].counted[p] \in Nat
            /\ call[d].counted[p] <= Cardinality(S)
            /\ call[d].kind = "reply" => /\ call[d].counted[p] = Cardinality(S)
                                         /\ \E k \in call[d].keys : k[2] = p
        BY <2>1 DEF CountsOK
      <4>2. IsFiniteSet(S) /\ Cardinality(S) \in Nat
        BY SeenIsFinite
      <4>3. IsFiniteSet(R)
        BY <3>2, FS_Subset
      <4>4. IsFiniteSet(S2) /\ S \subseteq S2
        <5>1. IsFiniteSet(S \cup R)
          BY <4>2, <4>3, FS_Union
        <5> QED
          BY <4>0, <5>1
      <4>5. Cardinality(S) <= Cardinality(S2) /\ Cardinality(S2) \in Nat
        BY <4>4, FS_Subset, FS_CardinalityType
      <4>6. call[d].kind = "reply" => S2 = S
        BY <2>4, <4>0, <4>1
      <4> QED
        BY <4>1, <4>2, <4>5, <4>6
    <3>4. call[d].counted = [p \in DOMAIN call[d].counted |-> call[d].counted[p]]
      BY <2>1 DEF CountsOK
    <3> QED
      BY <2>1, <3>3, <3>4 DEF CountsOK
  <2> QED
    BY <2>2, <2>5, <2>6
<1>17. (CallOK(c) /\ WritesOK(c) /\ CountsOK(c))'
  BY <1>2, IdleCallOK
<1> QED
  BY <1>2, <1>9, <1>13, <1>14, <1>15, <1>16, <1>17 DEF FeedIInv

\* Every kind of request begins with rows that nobody holds.
LEMMA RequestsKeepFeedIInv ==
  ASSUME FeedIInv, NEW c \in Calls,
         \/ \E u \in Members, p \in Posts :
              \/ \E kind \in Kinds, on \in BOOLEAN : SetAction(c, kind, u, p, on)
              \/ OpenPost(c, u, p)
              \/ \E source \in Sources \cup {FromApp} : Reply(c, u, p, source)
         \/ \E u \in Members, scope \in Scopes : ReadFeed(c, u, scope)
         \/ \E form \in Forms : ReadProfile(c, form.nickname)
  PROVE  FeedIInv'
<1>1. ASSUME NEW u \in Members, NEW p \in Posts, NEW kind \in Kinds, NEW on \in BOOLEAN, SetAction(c, kind, u, p, on)
      PROVE  FeedIInv'
  <2>1. kind \in FeedKinds /\ kind # "reply" /\ kind # "view"
    BY <1>1, FeedParams DEF SetAction, FeedKinds
  <2>2. PICK n \in {0, 1} : Begins(c, kind, u, {<<kind, p, u>>}, n, {})
    BY <1>1 DEF SetAction
  <2>3. ~RowLocked(<<kind, p, u>>)
    BY <1>1 DEF SetAction, MayUpsert
  <2>4. n \in Nat /\ IsFiniteSet({})
    BY FS_EmptySet
  <2> QED
    BY <2>1, <2>2, <2>3, <2>4, BeginKeepsFeedIInv
<1>2. ASSUME NEW u \in Members, NEW p \in Posts, OpenPost(c, u, p) PROVE FeedIInv'
  <2>1. Value(<<"view", p, u>>) \in Nat
    BY DEF FeedIInv, RowsOK, Value
  <2>2. PICK n \in Nat : n = Value(<<"view", p, u>>) + 1
    BY <2>1
  <2>3. Begins(c, "view", u, {<<"view", p, u>>}, n, {}) /\ ~RowLocked(<<"view", p, u>>)
    BY <1>2, <2>2 DEF OpenPost, MayUpsert
  <2>4. "view" \in Kinds /\ "view" \in FeedKinds /\ IsFiniteSet({})
    BY FeedParams, FS_EmptySet
  <2> QED
    BY <2>2, <2>3, <2>4, BeginKeepsFeedIInv
<1>3. ASSUME NEW u \in Members, NEW p \in Posts, NEW source \in Sources \cup {FromApp}, Reply(c, u, p, source)
      PROVE  FeedIInv'
  <2> SUFFICES ASSUME NEW rows, rows = ReplyRow(u, p, source) PROVE FeedIInv'
    OBVIOUS
  <2>1. Begins(c, "reply", u, {<<"reply", p, u>>}, 0, rows) /\ ~PostLocked(p)
    BY <1>3 DEF Reply
  <2>2. \A r \in rows : r.post = p /\ r.author = u
    BY DEF ReplyRow
  <2>3. \A r, s \in rows : r = s
    BY DEF ReplyRow
  <2>4. IsFiniteSet(rows)
    BY FS_EmptySet, FS_Singleton DEF ReplyRow
  <2>5. \A r \in rows, s \in replies :
            r.post = s.post /\ r.author = s.author /\ r.source = s.source => r.source = FromApp
    BY DEF ReplyRow
  <2>6. "reply" \notin FeedKinds /\ 0 \in Nat
    BY DEF FeedKinds
  <2> QED
    BY <2>1, <2>2, <2>3, <2>4, <2>5, <2>6, BeginKeepsFeedIInv
<1>4. ASSUME NEW u, NEW scope \in Scopes \cup {"profile"}, Begins(c, scope, u, {}, 0, {}) PROVE FeedIInv'
  <2>1. scope \notin FeedKinds \cup {"reply"} /\ scope # "view" /\ 0 \in Nat /\ IsFiniteSet({})
    BY FS_EmptySet DEF Scopes, FeedKinds
  <2> QED
    BY <1>4, <2>1, BeginKeepsFeedIInv
<1> QED
  BY <1>1, <1>2, <1>3, <1>4 DEF ReadFeed, ReadProfile

\* Every step of the feed keeps the invariant.
LEMMA FeedNextKeepsFeedIInv == FeedIInv /\ [FeedNext]_feed => FeedIInv'
<1> SUFFICES ASSUME FeedIInv, [FeedNext]_feed PROVE FeedIInv'
  OBVIOUS
<1>1. CASE UNCHANGED feed
  <2>1. UNCHANGED <<posts, replies, reactions, call, answer, opens, calls>>
    BY <1>1 DEF feed
  <2>2. FeedTypeOK' /\ LocksHold'
    BY <2>1 DEF FeedIInv, FeedTypeOK, LocksHold, Posts
  <2>4. RowsOK' /\ AnswerOK'
    BY <2>1 DEF FeedIInv, RowsOK, AnswerOK, Value
  <2>3. \A d \in Calls : (CallOK(d) /\ WritesOK(d) /\ CountsOK(d))'
    BY <2>1, OtherCallStays
  <2> QED
    BY <2>1, <2>2, <2>3, <2>4 DEF FeedIInv
<1>2. CASE FeedNext
  BY <1>2, CreatePostKeepsFeedIInv, RequestsKeepFeedIInv, ReadPostsKeepsFeedIInv, AnswerCallKeepsFeedIInv,
     FailsKeepsFeedIInv DEF FeedNext
<1> QED
  BY <1>1, <1>2

\* The invariant holds in every state of the feed.
THEOREM FeedInductive == FeedSpec => []FeedIInv
BY FeedInitHolds, FeedNextKeepsFeedIInv, PTL DEF FeedSpec

\* The rows of posts, replies and reactions keep their types
\* (src/network/dcx_network_capabilities.py).
THEOREM FeedTypeCorrect == FeedSpec => []FeedTypeOK
<1>1. FeedIInv => FeedTypeOK
  BY DEF FeedIInv
<1> QED
  BY <1>1, FeedInductive, PTL

\* An answer of the feed fits together although it is read in two statements,
\* for any number of requests at the same time: it never lists fewer replies
\* than it counts, the answer to a reply lists exactly as many; every answered
\* opening is counted; a redelivered message replies once.
THEOREM FeedFitsTogether == FeedSpec => []FeedAnswersAgree
BY FeedImplied, FeedInductive, PTL

=============================================================================
