----------------------------- MODULE MCAccounts -----------------------------
(***************************************************************************)
(* An account: the signup with an e-mail code, the password, the phone     *)
(* numbers linked to it, its owner's settings and contacts, and the feed.   *)
(* They share the clock and no row, so a behaviour is a scene of one.      *)
(***************************************************************************)
EXTENDS SignupOtp, PasswordAccess, PhoneLink, Feed

CONSTANT ShortTime   \* bound: the last instant of the password and phone scenes

VARIABLE scene

\* Two nicknames and the three modes, with one, two and no languages.
MCForms ==
    {[nickname |-> "n1", accepts |-> "everyone", languages |-> <<"es">>],
     [nickname |-> "n1", accepts |-> "following", languages |-> <<"es", "en">>],
     [nickname |-> "n2", accepts |-> "none", languages |-> <<>>],
     [nickname |-> "n2", accepts |-> "following", languages |-> <<"es">>]}

NewMembers == \A u \in Members : settings[u] = FirstForm

\* In the feed the first member has a nickname, the second may have one.
SomeHaveNicknames ==
    /\ settings[1].nickname = "n1"
    /\ \A u \in Members : settings[u] = FirstForm \/ settings[u].accepts \in {"everyone", "none"}

MCInit ==
    /\ scene \in {"signup", "password", "phone", "network", "feed"}
    /\ SignupInit /\ AccessInit /\ PhoneInit /\ NetworkInit /\ FeedInit
    /\ scene \notin {"network", "feed"} => NewMembers
    /\ scene = "feed" => SomeHaveNicknames

MCNext ==
    \/ scene = "signup" /\ SignupNext /\ UNCHANGED <<scene, access, phones, network, feed>>
    \/ scene = "password" /\ AccessNext /\ now' <= ShortTime
       /\ UNCHANGED <<scene, signup, phones, network, feed>>
    \/ scene = "phone" /\ PhoneNext /\ now' <= ShortTime
       /\ UNCHANGED <<scene, signup, access, network, feed>>
    \/ scene = "network" /\ NetworkNext
       /\ UNCHANGED <<scene, now, signup, access, phones, feed>>
    \/ scene = "feed" /\ UNCHANGED <<scene, now, signup, access, phones>>
       /\ \/ FeedNext /\ UNCHANGED network
          \/ (\E t \in Tabs : FollowStep(t)) /\ UNCHANGED <<welcomed, feed>>

MCSpec == MCInit /\ [][MCNext]_<<scene, now, signup, access, phones, network, feed>>
=============================================================================
