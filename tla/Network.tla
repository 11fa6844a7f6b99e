------------------------------- MODULE Network -------------------------------
(***************************************************************************)
(* The network of traders: nicknames and settings, follows, and direct     *)
(* message threads.  Other traders are named by nickname, and a nickname   *)
(* is looked up before the request writes, in a statement of its own.      *)
(***************************************************************************)
EXTENDS Naturals, Sequences, FiniteSets, FiniteSetsExt, Functions

CONSTANTS
    Members,        \* user ids; a thread orders its two participants
    Forms,          \* account settings a member may save
    Tongues,        \* language codes of texts
    Tabs,           \* requests at the same time
    MaxSaves,       \* bound: settings saved
    MaxDms          \* bound: messages sent

NoNickname == ""
AcceptanceModes == {"everyone", "following", "none"}

ASSUME NetworkAssumption ==
    /\ Members \subseteq Nat
    /\ {MaxSaves, MaxDms} \subseteq Nat
    /\ \A f \in Forms : f.accepts \in AcceptanceModes /\ f.languages \in Seq(Tongues)
    /\ "en" \in Tongues

VARIABLES
    settings,       \* the row of each user with the lists that hang on it
    follows,        \* <<a, b>>: a follows b
    threads,        \* rows of stephen_dcx_network_dm_threads, all of them open
    dms,            \* rows of stephen_dcx_network_dm_messages
    tab,            \* what each request has read, and does next
    saves,          \* history: settings saved
    welcomed,       \* history: <<a, b>>: at some time b would have had a message of a
    chosen          \* history: the language lists each user has had

network == <<settings, follows, threads, dms, tab, saves, welcomed, chosen>>

\* What a new account has.
FirstForm == [nickname |-> NoNickname, accepts |-> "everyone", languages |-> <<>>]

NoTab == [step |-> "idle", user |-> 0, other |-> 0, nickname |-> NoNickname,
          form |-> FirstForm, language |-> "en", read |-> <<>>]

NetworkTypeOK ==
    /\ settings \in [Members -> Forms \cup {FirstForm}]
    /\ follows \cup threads \cup welcomed \subseteq Members \X Members
    /\ \A t \in Tabs : tab[t].step \in {"idle", "follow", "start", "send", "check", "lists"}
    /\ \A m \in dms : m.thread \in threads /\ m.shown \in {"as sent", "translated", "untranslated"}
    /\ saves \in 0..MaxSaves
    /\ chosen \in [Members -> SUBSET Seq(Tongues)]

NetworkInit ==
    /\ settings \in [Members -> Forms \cup {FirstForm}]
    /\ \A u, v \in Members :
          settings[u].nickname = settings[v].nickname /\ u # v => settings[u].nickname = NoNickname
    /\ follows = {} /\ threads = {} /\ dms = {}
    /\ tab = [t \in Tabs |-> NoTab]
    /\ saves = 0
    /\ welcomed = {p \in Members \X Members : settings[p[2]].accepts = "everyone"}
    /\ chosen = [u \in Members |-> {settings[u].languages}]

Is(t, step) == tab[t].step = step
Ends(t) == tab' = [tab EXCEPT ![t] = NoTab]

\* The user a nickname leads to, never the one who asks.
Named(u, nickname) ==
    {v \in Members \ {u} : settings[v].nickname = nickname /\ nickname # NoNickname}

\* The traders a member may find, or those of one side of following.
ContactScopes == {"all", "following", "followers", "mutual"}
Contacts(u, scope) ==
    {v \in Members \ {u} :
        /\ settings[v].nickname # NoNickname
        /\ scope \in {"following", "mutual"} => <<u, v>> \in follows
        /\ scope \in {"followers", "mutual"} => <<v, u>> \in follows}

-----------------------------------------------------------------------------
(* Following                                                                *)

ResolveFollow(t, u, nickname) ==
    /\ Is(t, "idle")
    /\ \E v \in Named(u, nickname) :
          tab' = [tab EXCEPT ![t] = [NoTab EXCEPT !.step = "follow", !.user = u, !.other = v,
                                                  !.nickname = nickname]]
    /\ UNCHANGED <<settings, follows, threads, dms, saves, chosen>>

\* The profile is read again, by nickname: if that leads nowhere by now, the
\* follow is rolled back.
SaveFollow(t, follow) ==
    LET pair == <<tab[t].user, tab[t].other>>
        found == \E v \in Members : settings[v].nickname = tab[t].nickname
    IN  /\ Is(t, "follow")
        /\ follows' = CASE ~found -> follows [] follow -> follows \cup {pair}
                        [] OTHER -> follows \ {pair}
        /\ Ends(t)
        /\ UNCHANGED <<settings, threads, dms, saves, chosen>>

-----------------------------------------------------------------------------
(* Direct messages                                                          *)

Bug_FollowedInstead(u, v) ==
    \/ settings[v].accepts = "everyone"
    \/ settings[v].accepts = "following" /\ <<u, v>> \in follows

\* v takes messages from everyone, or from those v follows.
AcceptsDm(u, v) ==
    \/ settings[v].accepts = "everyone"
    \/ settings[v].accepts = "following" /\ <<v, u>> \in follows

ResolveDm(t, u, nickname) ==
    /\ Is(t, "idle")
    /\ \E v \in Named(u, nickname) :
          /\ AcceptsDm(u, v)
          /\ tab' = [tab EXCEPT ![t] = [NoTab EXCEPT !.step = "start", !.user = u, !.other = v]]
    /\ UNCHANGED <<settings, follows, threads, dms, saves, chosen>>

\* One row for two users, whoever of them started: the constraint refuses another.
Participants(u, v) == <<Min({u, v}), Max({u, v})>>

StartThread(t) ==
    /\ Is(t, "start")
    /\ threads' = threads \cup {Participants(tab[t].user, tab[t].other)}
    /\ Ends(t)
    /\ UNCHANGED <<settings, follows, dms, saves, chosen>>

\* The row of the thread is locked, and the languages of the recipient are read.
\* Who may be written to is not asked again.
LockThread(t, u, v, language) ==
    /\ Is(t, "idle")
    /\ u # v /\ Participants(u, v) \in threads
    /\ \A other \in Tabs :
          Is(other, "send") =>
              Participants(tab[other].user, tab[other].other) # Participants(u, v)
    /\ Cardinality(dms) < MaxDms
    /\ tab' = [tab EXCEPT ![t] = [NoTab EXCEPT !.step = "send", !.user = u, !.other = v,
                                     !.language = language, !.read = settings[v].languages]]
    /\ UNCHANGED <<settings, follows, threads, dms, saves, chosen>>

RecipientLanguages(list) == IF list = <<>> THEN <<"en">> ELSE list

\* Translated into the first language of the recipient unless it is in one of
\* them already; if the provider fails the text is kept as it was sent.
DmOutcomes(language, list) ==
    IF language \in Range(list) THEN {"as sent"} ELSE {"translated", "untranslated"}

\* The translation is asked for inside the transaction.
AppendDm(t) ==
    LET list == RecipientLanguages(tab[t].read)
    IN  /\ Is(t, "send")
        /\ \E shown \in DmOutcomes(tab[t].language, list) :
              dms' = dms \cup {[thread |-> Participants(tab[t].user, tab[t].other),
                                nr |-> Cardinality(dms), to |-> tab[t].other, shown |-> shown,
                                sent |-> tab[t].language, target |-> list[1]]}
        /\ Ends(t)
        /\ UNCHANGED <<settings, follows, threads, saves, chosen>>

\* The messages of a thread, each in the language one of its readers sees: a
\* translation is kept for the recipient, and the sender reads what was sent.
DmDetail(thread) == {m \in dms : m.thread = thread}

\* The list of a reader's threads, each with its last message.
DmThreads(u) ==
    {[thread |-> h, latest |-> {m \in dms : m.thread = h /\ \A n \in dms :
                                    n.thread = h => n.nr <= m.nr}] :
        h \in {g \in threads : u \in {g[1], g[2]}}}

TextFor(reader, m) == IF m.shown = "translated" /\ reader = m.to THEN m.target ELSE m.sent

-----------------------------------------------------------------------------
(* The account settings: one form, one transaction                          *)

\* Looked up, not locked.
CheckNickname(t, u, form) ==
    /\ Is(t, "idle")
    /\ saves < MaxSaves
    /\ Named(u, form.nickname) = {}
    /\ saves' = saves + 1
    /\ tab' = [tab EXCEPT ![t] = [NoTab EXCEPT !.step = "check", !.user = u, !.form = form]]
    /\ UNCHANGED <<settings, follows, threads, dms, chosen>>

\* A save of the same user, or of the same nickname, that has written its row and
\* not committed is waited for.
Waits(t) ==
    \E other \in Tabs \ {t} :
        /\ Is(other, "lists")
        /\ \/ tab[other].user = tab[t].user
           \/ tab[other].form.nickname = tab[t].form.nickname /\ tab[t].form.nickname # NoNickname

\* The unique index on the nickname; a violation fails the save.
NicknameFree(t) == Named(tab[t].user, tab[t].form.nickname) = {}

Bug_ListsCommittedApart(u) == [settings EXCEPT ![u].languages = <<>>]

\* What others see of a save in progress.
SettingsDuringSave(u) == settings

UpdateUserRow(t) ==
    /\ Is(t, "check")
    /\ ~Waits(t)
    /\ NicknameFree(t)
    /\ settings' = SettingsDuringSave(tab[t].user)
    /\ tab' = [tab EXCEPT ![t].step = "lists"]
    /\ UNCHANGED <<follows, threads, dms, saves, chosen>>

\* The lists are deleted and inserted anew, and with them the row is committed.
ReplaceLists(t) ==
    /\ Is(t, "lists")
    /\ settings' = [settings EXCEPT ![tab[t].user] = tab[t].form]
    /\ chosen' = [chosen EXCEPT ![tab[t].user] = @ \cup {tab[t].form.languages}]
    /\ Ends(t)
    /\ UNCHANGED <<follows, threads, dms, saves>>

\* A refused or failed statement, or a process that died.
TabFails(t) ==
    /\ ~Is(t, "idle")
    /\ Ends(t)
    /\ UNCHANGED <<settings, follows, threads, dms, saves, chosen>>

FollowStep(t) ==
    \/ \E u \in Members, form \in Forms : ResolveFollow(t, u, form.nickname)
    \/ \E follow \in BOOLEAN : SaveFollow(t, follow)

TabStep(t) ==
    \/ FollowStep(t)
    \/ \E u \in Members, form \in Forms :
        \/ ResolveDm(t, u, form.nickname)
        \/ CheckNickname(t, u, form)
    \/ \E u, v \in Members, language \in Tongues : LockThread(t, u, v, language)
    \/ StartThread(t) \/ AppendDm(t)
    \/ UpdateUserRow(t) \/ ReplaceLists(t)
    \/ TabFails(t)

\* History: who would have been let in, as the settings mean it.
Welcomes(s, f) ==
    {p \in Members \X Members :
        \/ s[p[2]].accepts = "everyone"
        \/ s[p[2]].accepts = "following" /\ <<p[2], p[1]>> \in f}

NetworkNext ==
    \E t \in Tabs : TabStep(t) /\ welcomed' = welcomed \cup Welcomes(settings', follows')

NetworkSpec == NetworkInit /\ [][NetworkNext]_network

-----------------------------------------------------------------------------
(* Two traders have a direct message thread only when one of them had let   *)
(* the other in, by mode or by following, at some time; it is the same      *)
(* thread whoever started it, also when both did at once; and no list of    *)
(* contacts shows a nickname twice, or the reader's own as another's.       *)
ThreadsWereWelcome ==
    /\ \A h \in threads : h \in welcomed \/ <<h[2], h[1]>> \in welcomed
    /\ \A g, h \in threads : {g[1], g[2]} = {h[1], h[2]} => g = h
    /\ \A u \in Members, scope \in ContactScopes :
          \A v \in Contacts(u, scope), w \in Contacts(u, scope) \cup {u} :
              settings[v].nickname = settings[w].nickname => v = w

(* A message is shown in a language its recipient had chosen (English when  *)
(* none was), unless its translation failed: a save of the settings under   *)
(* way never makes a member look like one without languages.  The list of   *)
(* threads shows one last message of each, also when both have written.     *)
MessagesSpeakAChosenLanguage ==
    /\ \A thread \in threads : \A m \in DmDetail(thread) :
          \/ m.shown = "untranslated"
          \/ \E list \in chosen[m.to] : TextFor(m.to, m) \in Range(RecipientLanguages(list))
    /\ \A u \in Members : \A item \in DmThreads(u) :
          Cardinality(item.latest) = IF DmDetail(item.thread) = {} THEN 0 ELSE 1
=============================================================================
